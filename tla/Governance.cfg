CONSTANTS
    Numbers = {1, 2, 3}
    Runs = {1, 2}
    None = None
    Configs <- MCConfigs
    Mentions <- MCMentions
    Texts <- MCTexts
    MaxRetries = 1
    MinSections = 1
    MaxOpened = 2
SPECIFICATION Spec
CONSTRAINT Small
ACTION_CONSTRAINT Few
INVARIANTS
    TypeOK
    ClosedHasAHome
    LetThroughIsOpen
    NoCascade
    CitesWhatExists
    DryRunOnlyTalks
PROPERTIES
    EveryRunEnds
CHECK_DEADLOCK FALSE
