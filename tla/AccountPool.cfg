\* One account, one model, two requests in flight: every penalty, pardon and lock.
CONSTANTS
    SoftMax = 2
    BreakerThreshold = 1
    BreakerBase = 1
    BreakerMax = 1
    DegradeThreshold = 1
    DegradeFor = 1
    SessionDeadThreshold = 2
    BlockBase = 1
    BlockMax = 1
    StreakCap = 2
    RetryCap = 1
    HitsCap = 1
    Models = {m1}
    Accounts = {a1}
    Requests = {r1, r2}
    Answers = {"ok", "no_credit", "rate", "rate_until", "refused", "banned", "server_error", "unknown", "auth_rejected", "manual", "not_account", "model_rate", "model_gone"}
    Bases = {1}
    Resets = {0, 3}
    FixedCoolings = {2}
    CreditSettings = {0, 1}
    Day = 2
SPECIFICATION Spec
INVARIANTS
    TypeOK
PROPERTIES
    OnlyGoodNewsFrees
    OneBackoffPerCooling
    RateLockStands
