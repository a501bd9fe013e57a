CONSTANTS
    Numbers = {1, 2, 3}
    Runs = {1, 2}
    None = None
    Configs <- MCConfigs
    Mentions <- MCMentions
    Texts <- MCTexts
    MaxRetries = 1
    MinSections = 1
    MaxOpened = 2
SPECIFICATION Spec
CONSTRAINT Small
ACTION_CONSTRAINT Few
INVARIANTS
    DryRunChangesNothing
CHECK_DEADLOCK FALSE
