\* No write fails and nothing crashes: Flush against a running timer callback.
CONSTANTS
    Requests = {r1}
    Writers = {w1}
    Flusher = flusher
    Limit = 1
    MaxVersions = 3
    MaxWindow = 0
    MaxFailures = 0
    MaxCrashes = 0
SPECIFICATION Spec
INVARIANTS
    FlushSaves
CHECK_DEADLOCK FALSE
