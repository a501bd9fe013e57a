\* Each page of the panel, entered by somebody who was there before; the panel
\* opened for the first time; from one page to another; a login that ends.
CONSTANTS
    None = None
    Uids <- MCUids
    Routes = {"r"}
    PageSizes = {1}
    Realms = {"cn", "global"}
    Regions = {"intl"}
    PollFailLimit = 1
    KeyIds = {"k1", "k2", "k3"}
    TokenIds = {"t1", "t2"}
    Groups = {"schedule", "logging"}
    Form <- FieldsOf
    Edits <- MCEdits
    Aliases = {"al"}
    EffortsOf <- MCEfforts
    CardOf <- MCCards
    RuleEdits <- MCRuleEdits
    Limits = {100, 200}
    Instants = {1, 2}
    Needles = {"here"}
    Windows = {"24", "72"}
    Starts <- MCStarts
SPECIFICATION Spec
ACTION_CONSTRAINT Few
CHECK_DEADLOCK FALSE
INVARIANTS
    ViewIsOfKey
    LockHasItsCall
PROPERTIES
    IssuedStands
    EventuallyFresh
