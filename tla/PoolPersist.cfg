\* Exact file times: every crash, failure and reordering of saves and mirrors.
CONSTANTS
    Granularity = 1
    MaxVersion = 2
    MaxFailures = 1
    MaxCrashes = 2
SPECIFICATION FairSpec
INVARIANTS
    TypeOK
    CleanMeansOnItsWay
    FlushIsDurable
PROPERTIES
    RegisterSpec
    EventuallySaved
CHECK_DEADLOCK FALSE
