\* Two accounts that take one request each and that others change all the time:
\* two requests that are never rewritten, or one that may be.
CONSTANTS
    Requests = {r1, r2}
    Accounts = {a1, a2}
    None = None
    MaxRotate = 2
    MaxInFlight = 1
    HealPeriod = 1
    WafThreshold = 2
SPECIFICATION Spec
CONSTRAINT Small
SYMMETRY Alike
INVARIANTS
    TypeOK
    LeasesMatch
    CallBudget
    NeverAsksTwice
PROPERTIES
    AlwaysNearer
