\* Requests come and go while the cap is changed and the account is removed and
\* added again (or stays); or they come and go for one model, with every counter
\* in use.
CONSTANTS
    Requests = {r1, r2, r3}
    Limits = {0, 1, 2}
    Entries = {e1, e2, e3}
    OneMore = r4
    OneMoreCounter = c4
    None = None
SPECIFICATION MCSpec
SYMMETRY Alike
INVARIANTS
    TypeOK
    NothingLeaks
    LedgerTypeOK
    NeverTooMany
    RowsGoAway
PROPERTIES
    AdmittedInCap
    IsSemaphore
