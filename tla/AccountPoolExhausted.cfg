\* A 402 that arrives while a longer rate limit runs.
CONSTANTS
    SoftMax = 3
    BreakerThreshold = 2
    BreakerBase = 1
    BreakerMax = 3
    DegradeThreshold = 2
    DegradeFor = 2
    SessionDeadThreshold = 3
    BlockBase = 1
    BlockMax = 2
    StreakCap = 3
    RetryCap = 3
    HitsCap = 2
    Models = {m1}
    Accounts = {a1}
    Requests = {r1, r2}
    Answers = {"no_credit", "rate_until"}
    Bases = {1}
    Resets = {0, 2, 4}
    FixedCoolings = {2}
    CreditSettings = {0}
    Day = 3
SPECIFICATION Spec
PROPERTIES
    ExhaustedLeavesFallback
