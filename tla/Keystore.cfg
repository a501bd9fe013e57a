\* Two requests, one failed write and one crash.
CONSTANTS
    Requests = {r1, r2}
    Writers = {w1}
    Flusher = flusher
    Limit = 1
    MaxVersions = 4
    MaxWindow = 1
    MaxFailures = 1
    MaxCrashes = 1
SPECIFICATION Spec
INVARIANTS
    TypeOK
    SoftLimits
    NothingForgotten
SYMMETRY Interchangeable
CHECK_DEADLOCK FALSE
