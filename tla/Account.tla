------------------------------ MODULE Account ------------------------------
(***************************************************************************)
(* The state of one pool account and the locked operations on it           *)
(* (internal/pool: entry.go, cooldown.go, degrade.go, state.go,            *)
(* transition.go, the save format of persist.go).                          *)
(*                                                                         *)
(* Deadlines are ticks still to go: a positive number is a deadline in the *)
(* future, 0 one that has passed or was never set.  Counters that only     *)
(* feed a capped backoff stop at a bound where the cap is reached.         *)
(***************************************************************************)
EXTENDS Integers

CONSTANTS
    Models,             \* model names
    SoftMax,            \* softRateMax
    BreakerThreshold, BreakerBase, BreakerMax,
    DegradeThreshold, DegradeFor,
    SessionDeadThreshold,
    BlockBase, BlockMax,      \* modelBlockBaseTTL, modelBlockMaxTTL
    StreakCap, RetryCap, HitsCap  \* bounds of softStreak, retryCount, Hits

ASSUME PolicyAssumption ==
    /\ SoftMax \in Nat \ {0}
    /\ BreakerThreshold \in Nat \ {0} /\ BreakerBase \in Nat /\ BreakerMax \in Nat
    /\ DegradeThreshold \in Nat \ {0} /\ DegradeFor \in Nat
    /\ SessionDeadThreshold \in Nat \ {0}
    /\ BlockBase \in Nat \ {0} /\ BlockMax \in Nat /\ BlockBase <= BlockMax
    /\ StreakCap \in Nat \ {0} /\ RetryCap \in Nat \ {0} /\ HitsCap \in Nat \ {0}

\* An account is never punished less for its second breaker trip than for its first.
ASSUME BreakerAssumption == BreakerBase <= BreakerMax

\* The capped counters have reached their longest delay at the bound.
ASSUME CapsAssumption ==
    /\ BreakerBase = 0 \/ BreakerBase * 2^(RetryCap - 1) >= BreakerMax
    /\ BlockBase * 2^(HitsCap - 1) >= BlockMax

\* What the provers must know of ^ (they have no induction to show it).
ASSUME PowersAssumption ==
    \A n \in 0 .. StreakCap + RetryCap + HitsCap : 2^n \in Nat \ {0} /\ 2^(n + 1) = 2 * 2^n

AtMost(n, cap) == IF n > cap THEN cap ELSE n

\* modelCooldown: "rate" for 6004, "gone" for 11102.  left keeps counting down
\* below 0 because an expired 11102 entry is kept for its hits.
Lock == [left : Int, why : {"none", "rate", "gone"}, hits : 0 .. HitsCap]
NoLock == [left |-> 0, why |-> "none", hits |-> 0]
NoLocks == [m \in Models |-> NoLock]

Streaks  == 0 .. StreakCap
Retries  == 0 .. RetryCap
Fails    == 0 .. BreakerThreshold - 1
Failings == 0 .. DegradeThreshold - 1
Strikes  == 0 .. SessionDeadThreshold - 1

Account == [
    until    : Nat, kind : {"none", "soft", "hard"},   \* account cooling
    streak   : Streaks,                                \* softStreak
    locks    : [Models -> Lock],                       \* modelCooldowns
    breaker  : Nat, fails : Fails, retry : Retries,
    degrade  : Nat, failing : Failings,                \* consecutiveFails
    dead     : Strikes,                                \* sessionDeadFails
    disabled : BOOLEAN, manual : BOOLEAN]

Fresh == [until |-> 0, kind |-> "none", streak |-> 0, locks |-> NoLocks,
          breaker |-> 0, fails |-> 0, retry |-> 0, degrade |-> 0, failing |-> 0,
          dead |-> 0, disabled |-> FALSE, manual |-> FALSE]

-----------------------------------------------------------------------------
\* Who may serve.

Healthy(e) == ~e.disabled /\ ~e.manual /\ e.until = 0 /\ e.breaker = 0 /\ e.degrade = 0

Locked(e, m) == e.locks[m].why # "none" /\ e.locks[m].left > 0

HealthyForModel(e, m) == Healthy(e) /\ ~Locked(e, m)

HardActive(e) == e.kind = "hard" /\ e.until > 0
SoftActive(e) == e.kind = "soft" /\ e.until > 0

\* The deadlines still running; the fallback orders accounts by the earliest one.
Running(e) == {t \in {e.until, e.breaker, e.degrade} : t > 0}
Expiry(e) == CHOOSE t \in Running(e) : \A u \in Running(e) : t <= u

\* Candidates of the fallback when nobody is healthy.
FallbackOK(e) == ~e.disabled /\ ~e.manual /\ ~HardActive(e) /\ Running(e) # {}

-----------------------------------------------------------------------------
\* Account cooling.

\* The shortest cooling the model can tell from none stands for one millisecond.
CappedSoftUntil(reset) == IF reset > SoftMax THEN SoftMax ELSE IF reset > 0 THEN reset ELSE 1

SoftDuration(base, streak) ==
    IF streak <= 1 THEN base
    ELSE LET d == base * 2^(streak - 1) IN IF d > SoftMax \/ d <= 0 THEN SoftMax ELSE d

\* Cooldown with a fixed duration; a longer cooling that is running stays.
MutCooldown(e, kind, d) ==
    [e EXCEPT !.until = d, !.kind = kind, !.locks = NoLocks]
Cooldown(e, kind, d) ==
    IF d > 0 /\ e.until > d THEN [e EXCEPT !.locks = NoLocks]
    ELSE [e EXCEPT !.until = d, !.kind = kind, !.locks = NoLocks]

\* CooldownSoftRate with the reset time the upstream named.
CooldownSoftUntil(e, reset) ==
    LET soft == CappedSoftUntil(reset)
    IN  [e EXCEPT !.until = IF @ > soft THEN @ ELSE soft,
                  !.kind = IF HardActive(e) THEN @ ELSE "soft",
                  !.locks = NoLocks]

\* CooldownSoftRate without one: a bounded backoff, entered once per cooling.
MutCooldownSoftBackoff(e, base) ==
    IF HardActive(e) THEN [e EXCEPT !.locks = NoLocks]
    ELSE [e EXCEPT !.until = SoftDuration(base, e.streak + 1),
                   !.streak = AtMost(@ + 1, StreakCap), !.kind = "soft", !.locks = NoLocks]
CooldownSoftBackoff(e, base) ==
    IF HardActive(e) \/ SoftActive(e) THEN [e EXCEPT !.locks = NoLocks]
    ELSE [e EXCEPT !.until = SoftDuration(base, e.streak + 1),
                   !.streak = AtMost(@ + 1, StreakCap), !.kind = "soft", !.locks = NoLocks]

ClearCooling(e) == [e EXCEPT !.until = 0, !.kind = "none", !.streak = 0, !.locks = NoLocks]

\* Balance is back (reviveCoolingLocked): backoff and model locks stay.
ReenableIfCredits(e) == IF e.disabled THEN e ELSE [e EXCEPT !.until = 0, !.kind = "none"]

-----------------------------------------------------------------------------
\* Model locks.

\* 6004: this model only, until the reset time.
RateLimitModel(e, m, reset) ==
    [e EXCEPT !.locks[m] = [left |-> CappedSoftUntil(reset), why |-> "rate", hits |-> 0]]

BlockFor(hits) ==
    LET d == BlockBase * 2^(hits - 1) IN IF d < BlockMax THEN d ELSE BlockMax

\* 11102: this model only, longer at every hit.
BlockModelBackoff(e, m) ==
    LET hits == AtMost(e.locks[m].hits + 1, HitsCap)
    IN  [e EXCEPT !.locks[m] = [left |-> BlockFor(hits), why |-> "gone", hits |-> hits]]

BlockModelClear(e, m) ==
    IF e.locks[m].why = "gone" THEN [e EXCEPT !.locks[m] = NoLock] ELSE e

\* ClearModelBlocksForRealm on one account: a running 11102 entry only.
MutClearModelBlock(e, m) == IF Locked(e, m) THEN [e EXCEPT !.locks[m] = NoLock] ELSE e
ClearModelBlock(e, m) ==
    IF Locked(e, m) /\ e.locks[m].why = "gone" THEN [e EXCEPT !.locks[m] = NoLock] ELSE e

\* pruneExpiredModelCooldowns: 6004 as it expires, 11102 after a grace period.
PruneLock(l) ==
    IF l.left > 0 \/ (l.why = "gone" /\ l.left >= -BlockMax) THEN l ELSE NoLock
Prune(e) == [e EXCEPT !.locks = [m \in Models |-> PruneLock(e.locks[m])]]

-----------------------------------------------------------------------------
\* Failures and successes.

BreakerFor(retry) ==
    IF retry = 0 THEN BreakerBase
    ELSE LET d == BreakerBase * 2^retry IN IF d >= BreakerMax THEN BreakerMax ELSE d

MutNoteError(e) ==
    IF e.fails + 1 < BreakerThreshold THEN [e EXCEPT !.fails = @ + 1]
    ELSE [e EXCEPT !.fails = @ + 1, !.retry = AtMost(@ + 1, RetryCap),
                   !.breaker = BreakerFor(e.retry)]
\* NoteError: the breaker opens at the threshold, longer each time.
NoteError(e) ==
    IF e.fails + 1 < BreakerThreshold THEN [e EXCEPT !.fails = @ + 1]
    ELSE [e EXCEPT !.fails = 0, !.retry = AtMost(@ + 1, RetryCap),
                   !.breaker = BreakerFor(e.retry)]

\* NoteFailures: failures of unknown cause take the account out for a while,
\* never longer because it failed again meanwhile.
NoteFailures(e) ==
    IF e.failing + 1 < DegradeThreshold THEN [e EXCEPT !.failing = @ + 1]
    ELSE [e EXCEPT !.failing = 0, !.degrade = IF @ > 0 THEN @ ELSE DegradeFor]

Disable(e) == [ClearCooling(e) EXCEPT !.disabled = TRUE]

\* NoteAuthFailure / NoteSessionDead: several in a row disable.
NoteAuthFailure(e) ==
    IF e.dead + 1 < SessionDeadThreshold THEN [e EXCEPT !.dead = @ + 1]
    ELSE [Disable(e) EXCEPT !.dead = 0]

ClearSessionDead(e) == [e EXCEPT !.dead = 0]

NoteSuccess(e) ==
    [e EXCEPT !.fails = 0, !.retry = 0, !.breaker = 0, !.streak = 0, !.dead = 0,
              !.failing = 0, !.degrade = 0]

-----------------------------------------------------------------------------
\* The operator, time, and a restart.

ReviveDisabled(e) == IF e.disabled THEN [e EXCEPT !.disabled = FALSE, !.dead = 0] ELSE e

SetManualDisabled(e, b) == [e EXCEPT !.manual = b]

ForceClearCooldown(e) ==
    [ClearCooling(e) EXCEPT !.fails = 0, !.retry = 0, !.breaker = 0,
                            !.failing = 0, !.degrade = 0]

Down(t) == IF t > 0 THEN t - 1 ELSE 0

\* One tick.  An expired lock is aged only while its grace period can tell.
AgeLock(l) ==
    IF l.why = "none" \/ l.left < -BlockMax THEN l ELSE [l EXCEPT !.left = l.left - 1]
Age(e) ==
    [e EXCEPT !.until = Down(@), !.breaker = Down(@), !.degrade = Down(@),
              !.locks = [m \in Models |-> AgeLock(e.locks[m])]]

\* What a save keeps and a load brings back: only running deadlines; the
\* breaker's exponent with its deadline; no failure count; no hits.
ReloadLock(l) ==
    IF l.why = "none" \/ l.left <= 0 THEN NoLock
    ELSE [l EXCEPT !.hits = 0,
                   !.left = IF l.why = "gone" THEN AtMost(l.left, BlockMax) ELSE l.left]
MutReload(e) ==
    [e EXCEPT !.fails = 0, !.retry = 0, !.breaker = 0,
              !.locks = [m \in Models |-> ReloadLock(e.locks[m])]]
Reload(e) ==
    [e EXCEPT !.fails = 0,
              !.retry = IF e.breaker > 0 THEN @ ELSE 0,
              !.locks = [m \in Models |-> ReloadLock(e.locks[m])]]
=============================================================================
