------------------------- MODULE AccountPoolProofs -------------------------
(***************************************************************************)
(* Proofs about AccountPool: its types, and that only good news brings an  *)
(* account back sooner, for any number of accounts, requests and models.   *)
(*                                                                         *)
(* Two facts about an account make the second property inductive: one that *)
(* was never cooled has no deadline, and the breaker never stays open      *)
(* longer than its exponent says.  Each operation is dealt with once, in a *)
(* lemma about records; the theorems then go through the actions.          *)
(***************************************************************************)
EXTENDS AccountPool, TLAPS

Sound(e) ==
    /\ e \in Account
    /\ e.kind = "none" => e.until = 0
    /\ e.breaker <= BreakerFor(e.retry)

\* What an operation must do to an account.
Worse(e, f) == Sound(f) /\ NotSooner(e, f)

USE DEF AtMost
-----------------------------------------------------------------------------
(***************************************************************************)
(* Durations.                                                              *)
(***************************************************************************)

\* The breaker's delay is a duration and never shrinks as its exponent grows.
LEMMA BreakerGrows ==
    ASSUME NEW n \in 0 .. RetryCap
    PROVE  /\ BreakerFor(n) \in Nat
           /\ n < RetryCap => BreakerFor(n) <= BreakerFor(n + 1)
<1> DEFINE p == 2^n  q == 2^(n + 1)  d == BreakerBase * p  f == BreakerBase * q
<1>1. p \in Nat \ {0} /\ q = 2 * p
  BY PowersAssumption, PolicyAssumption
<1>2. BreakerBase \in Nat /\ BreakerMax \in Nat /\ BreakerBase <= BreakerMax
  BY PolicyAssumption, BreakerAssumption
<1>3. BreakerFor(n) = IF n = 0 THEN BreakerBase
                      ELSE IF d >= BreakerMax THEN BreakerMax ELSE d
  BY DEF BreakerFor
<1>4. BreakerFor(n + 1) = IF f >= BreakerMax THEN BreakerMax ELSE f
  BY n + 1 # 0 DEF BreakerFor
<1> HIDE DEF p, q
<1>5. d \in Nat /\ f = d + d /\ BreakerBase <= d
  BY <1>1, <1>2
<1> HIDE DEF d, f
<1> QED BY <1>2, <1>3, <1>4, <1>5

\* A soft backoff lasts at least one tick.
LEMMA SoftDurationType ==
    ASSUME NEW base \in Nat \ {0}, NEW n \in 1 .. StreakCap + 1
    PROVE  SoftDuration(base, n) \in Nat
<1> DEFINE p == 2^(n - 1)
<1>1. p \in Nat \ {0}
  BY PowersAssumption, PolicyAssumption
<1>2. SoftDuration(base, n) = IF n <= 1 THEN base
          ELSE IF base * p > SoftMax \/ base * p <= 0 THEN SoftMax ELSE base * p
  BY DEF SoftDuration
<1> HIDE DEF p
<1>3. base * p \in Nat
  BY <1>1
<1> QED BY <1>2, <1>3, PolicyAssumption

\* A model lock of a given count is a duration.
LEMMA BlockForType ==
    ASSUME NEW n \in 1 .. HitsCap
    PROVE  BlockFor(n) \in Nat
<1> DEFINE p == 2^(n - 1)
<1>1. p \in Nat \ {0}
  BY PowersAssumption, PolicyAssumption
<1>2. BlockFor(n) = IF BlockBase * p < BlockMax THEN BlockBase * p ELSE BlockMax
  BY DEF BlockFor
<1> HIDE DEF p
<1>3. BlockBase * p \in Nat
  BY <1>1, PolicyAssumption
<1> QED BY <1>2, <1>3, PolicyAssumption

-----------------------------------------------------------------------------
(***************************************************************************)
(* The operations.                                                         *)
(***************************************************************************)

LEMMA Zeros ==
    /\ 0 \in Streaks /\ 0 \in Retries /\ 0 \in Fails /\ 0 \in Failings /\ 0 \in Strikes
    /\ BreakerFor(0) \in Nat
    /\ NoLock \in Lock /\ NoLocks \in [Models -> Lock]
<1>1. 0 \in Streaks /\ 0 \in Retries /\ 0 \in Fails /\ 0 \in Failings /\ 0 \in Strikes
  BY PolicyAssumption DEF Streaks, Retries, Fails, Failings, Strikes
<1>2. BreakerFor(0) \in Nat
  BY BreakerGrows, PolicyAssumption
<1>3. NoLock \in Lock
  BY PolicyAssumption DEF NoLock, Lock
<1> QED BY <1>1, <1>2, <1>3 DEF NoLocks

LEMMA FreshSound == Sound(Fresh)
BY Zeros DEF Sound, Fresh, Account

LEMMA CooldownWorse ==
    ASSUME NEW e, Sound(e), NEW kind \in {"soft", "hard"}, NEW d \in Nat \ {0}
    PROVE  Worse(e, Cooldown(e, kind, d))
<1> DEFINE f == Cooldown(e, kind, d)
<1>1. f \in Account
  BY Zeros DEF Sound, Cooldown, Account
<1>2. /\ f.kind = "none" => f.until = 0
      /\ f.breaker = e.breaker /\ f.retry = e.retry
      /\ NotSooner(e, f)
  BY DEF Sound, NotSooner, Cooldown, Account
<1> QED BY <1>1, <1>2 DEF Worse, Sound

LEMMA CooldownSoftUntilWorse ==
    ASSUME NEW e, Sound(e), NEW reset \in Int
    PROVE  Worse(e, CooldownSoftUntil(e, reset))
<1> DEFINE f == CooldownSoftUntil(e, reset)
<1>1. CappedSoftUntil(reset) \in Nat
  BY PolicyAssumption DEF CappedSoftUntil
<1>2. f \in Account
  BY <1>1, Zeros DEF Sound, CooldownSoftUntil, Account
<1>3. /\ f.kind = "none" => f.until = 0
      /\ f.breaker = e.breaker /\ f.retry = e.retry
      /\ NotSooner(e, f)
  BY <1>1 DEF Sound, NotSooner, CooldownSoftUntil, HardActive, Account
<1> QED BY <1>2, <1>3 DEF Worse, Sound

LEMMA CooldownSoftBackoffWorse ==
    ASSUME NEW e, Sound(e), NEW base \in Nat \ {0}
    PROVE  Worse(e, CooldownSoftBackoff(e, base))
<1> DEFINE f == CooldownSoftBackoff(e, base)
           streak == AtMost(e.streak + 1, StreakCap)
           until == SoftDuration(base, e.streak + 1)
<1>1. e.streak + 1 \in 1 .. StreakCap + 1 /\ streak \in Streaks
  BY PolicyAssumption DEF Sound, Account, Streaks
<1>2. until \in Nat
  BY <1>1, SoftDurationType
<1>3. f = IF HardActive(e) \/ SoftActive(e) THEN [e EXCEPT !.locks = NoLocks]
          ELSE [e EXCEPT !.until = until, !.streak = streak, !.kind = "soft", !.locks = NoLocks]
  BY DEF CooldownSoftBackoff
<1> HIDE DEF f, streak, until
<1>4. f \in Account
  BY <1>1, <1>2, <1>3, Zeros DEF Sound, Account
<1>5. /\ f.kind = "none" => f.until = 0
      /\ f.breaker = e.breaker /\ f.retry = e.retry
      /\ NotSooner(e, f)
  BY <1>2, <1>3 DEF Sound, NotSooner, HardActive, SoftActive, Account
<1> QED BY <1>4, <1>5 DEF Worse, Sound, f

LEMMA ModelLocksWorse ==
    ASSUME NEW e, Sound(e), NEW m \in Models
    PROVE  /\ Worse(e, e)
           /\ \A reset \in Int : Worse(e, RateLimitModel(e, m, reset))
           /\ Worse(e, BlockModelBackoff(e, m))
           /\ Worse(e, BlockModelClear(e, m))
           /\ Worse(e, ClearModelBlock(e, m))
           /\ Worse(e, Prune(e))
<1> DEFINE Relocked(locks) == [e EXCEPT !.locks = locks]
<1>1. ASSUME NEW locks \in [Models -> Lock]
      PROVE  Worse(e, Relocked(locks))
  BY DEF Worse, Sound, NotSooner, Account
<1>2. e \in Account /\ e.locks \in [Models -> Lock]
  BY DEF Sound, Account
<1>3. Worse(e, e)
  BY DEF Worse, Sound, NotSooner, Account
<1>4. ASSUME NEW l \in Lock
      PROVE  Worse(e, [e EXCEPT !.locks[m] = l])
  <2>1. [e.locks EXCEPT ![m] = l] \in [Models -> Lock]
    BY <1>2
  <2> QED BY <1>1, <2>1
<1>5. ASSUME NEW reset \in Int
      PROVE  Worse(e, RateLimitModel(e, m, reset))
  <2>1. [left |-> CappedSoftUntil(reset), why |-> "rate", hits |-> 0] \in Lock
    BY PolicyAssumption DEF CappedSoftUntil, Lock
  <2> QED BY <1>4, <2>1 DEF RateLimitModel
<1>6. Worse(e, BlockModelBackoff(e, m))
  <2> DEFINE n == AtMost(e.locks[m].hits + 1, HitsCap)
  <2>1. n \in 1 .. HitsCap
    BY <1>2, PolicyAssumption DEF Lock
  <2>2. [left |-> BlockFor(n), why |-> "gone", hits |-> n] \in Lock
    BY <2>1, BlockForType DEF Lock
  <2> QED BY <1>4, <2>2 DEF BlockModelBackoff
<1>7. Worse(e, BlockModelClear(e, m)) /\ Worse(e, ClearModelBlock(e, m))
  BY <1>3, <1>4, Zeros DEF BlockModelClear, ClearModelBlock
<1>8. Worse(e, Prune(e))
  <2>1. \A l \in Lock : PruneLock(l) \in Lock
    BY Zeros DEF PruneLock
  <2> QED BY <1>1, <1>2, <2>1 DEF Prune
<1> QED BY <1>3, <1>5, <1>6, <1>7, <1>8

LEMMA NoteErrorWorse ==
    ASSUME NEW e, Sound(e)
    PROVE  Worse(e, NoteError(e))
<1> DEFINE n == AtMost(e.retry + 1, RetryCap)  f == NoteError(e)
<1>1. e \in Account /\ e.retry \in 0 .. RetryCap /\ n \in 0 .. RetryCap
  BY PolicyAssumption DEF Sound, Account, Retries
<1>2. BreakerFor(e.retry) \in Nat /\ BreakerFor(e.retry) <= BreakerFor(n)
  BY <1>1, BreakerGrows, PolicyAssumption
<1>3. f = IF e.fails + 1 < BreakerThreshold THEN [e EXCEPT !.fails = e.fails + 1]
          ELSE [e EXCEPT !.fails = 0, !.retry = n, !.breaker = BreakerFor(e.retry)]
  BY DEF NoteError
<1>4. e.fails + 1 < BreakerThreshold => e.fails + 1 \in Fails
  BY <1>1, PolicyAssumption DEF Account, Fails
<1> HIDE DEF n, f
<1>5. f \in Account
  <2>1. n \in Retries
    BY <1>1 DEF Retries
  <2> QED BY <1>1, <1>2, <1>3, <1>4, <2>1, Zeros DEF Account
<1>6. CASE e.fails + 1 < BreakerThreshold
  BY <1>1, <1>3, <1>5, <1>6 DEF Worse, Sound, NotSooner, Account, f
<1>7. CASE ~(e.fails + 1 < BreakerThreshold)
  <2>1. /\ f.until = e.until /\ f.kind = e.kind /\ f.degrade = e.degrade
        /\ f.breaker = BreakerFor(e.retry) /\ f.retry = n
    BY <1>1, <1>3, <1>7 DEF Account
  <2>2. e.until \in Nat /\ e.degrade \in Nat
    BY <1>1 DEF Account
  <2> QED BY <1>2, <1>5, <2>1, <2>2 DEF Worse, Sound, NotSooner, f
<1> QED BY <1>6, <1>7

LEMMA FailuresWorse ==
    ASSUME NEW e, Sound(e)
    PROVE  /\ Worse(e, NoteFailures(e))
           /\ Worse(e, Disable(e))
           /\ Worse(e, NoteAuthFailure(e))
<1>1. e \in Account
  BY DEF Sound
<1>2. Worse(e, NoteFailures(e))
  <2> DEFINE f == NoteFailures(e)
  <2>1. e.failing + 1 < DegradeThreshold => e.failing + 1 \in Failings
    BY <1>1, PolicyAssumption DEF Account, Failings
  <2>2. f \in Account
    BY <1>1, <2>1, Zeros, PolicyAssumption DEF NoteFailures, Account
  <2>3. /\ f.until = e.until /\ f.kind = e.kind
        /\ f.breaker = e.breaker /\ f.retry = e.retry
        /\ f.degrade >= e.degrade
    BY <1>1, PolicyAssumption DEF NoteFailures, Account
  <2>4. e.until \in Nat /\ e.breaker \in Nat
    BY <1>1 DEF Account
  <2> QED BY <2>2, <2>3, <2>4 DEF Worse, Sound, NotSooner
<1>3. /\ Worse(e, Disable(e))
      /\ Disable(e).disabled
  <2> DEFINE f == Disable(e)
  <2>1. f \in Account
    BY <1>1, Zeros DEF Disable, ClearCooling, Account
  <2>2. f.until = 0 /\ f.breaker = e.breaker /\ f.retry = e.retry /\ f.disabled
    BY <1>1 DEF Disable, ClearCooling, Account
  <2> QED BY <2>1, <2>2 DEF Worse, Sound, NotSooner
<1>4. Worse(e, NoteAuthFailure(e))
  <2> DEFINE d == Disable(e)
  <2>1. e.dead + 1 < SessionDeadThreshold => e.dead + 1 \in Strikes
    BY <1>1, PolicyAssumption DEF Account, Strikes
  <2>2. NoteAuthFailure(e) = IF e.dead + 1 < SessionDeadThreshold
                             THEN [e EXCEPT !.dead = e.dead + 1] ELSE [d EXCEPT !.dead = 0]
    BY DEF NoteAuthFailure
  <2> HIDE DEF d
  <2>3. \A k \in Strikes : Worse(e, [e EXCEPT !.dead = k])
    BY DEF Worse, Sound, NotSooner, Account
  <2>4. d \in Account /\ d.disabled /\ Sound(d)
    BY <1>3 DEF Worse, Sound, d
  <2>5. Worse(e, [d EXCEPT !.dead = 0])
    BY <2>4, Zeros DEF Worse, Sound, NotSooner, Account
  <2> QED BY <2>1, <2>2, <2>3, <2>5
<1> QED BY <1>2, <1>3, <1>4

\* The keepalive, the operator's switches and a restart free nobody.
LEMMA OthersWorse ==
    ASSUME NEW e, Sound(e)
    PROVE  /\ Worse(e, ClearSessionDead(e))
           /\ Worse(e, ReviveDisabled(e))
           /\ \A b \in BOOLEAN : Worse(e, SetManualDisabled(e, b))
           /\ Worse(e, Reload(e))
<1>1. Worse(e, ClearSessionDead(e))
  BY Zeros DEF Worse, Sound, NotSooner, ClearSessionDead, Account
<1>2. Worse(e, ReviveDisabled(e))
  <2> DEFINE f == ReviveDisabled(e)
  <2>1. e \in Account /\ f \in Account
    BY Zeros DEF Sound, ReviveDisabled, Account
  <2>2. /\ f.until = e.until /\ f.kind = e.kind /\ f.degrade = e.degrade
        /\ f.breaker = e.breaker /\ f.retry = e.retry
    BY <2>1 DEF ReviveDisabled, Account
  <2>3. e.until \in Nat /\ e.breaker \in Nat /\ e.degrade \in Nat
    BY <2>1 DEF Account
  <2> QED BY <2>1, <2>2, <2>3 DEF Worse, Sound, NotSooner
<1>3. ASSUME NEW b \in BOOLEAN
      PROVE  Worse(e, SetManualDisabled(e, b))
  BY DEF Worse, Sound, NotSooner, SetManualDisabled, Account
<1>4. Worse(e, Reload(e))
  <2> DEFINE n == IF e.breaker > 0 THEN e.retry ELSE 0
             locks == [m \in Models |-> ReloadLock(e.locks[m])]
             f == Reload(e)
  <2>1. \A l \in Lock : ReloadLock(l) \in Lock
    <3> TAKE l \in Lock
    <3>1. CASE l.why = "none" \/ l.left <= 0
      BY <3>1, Zeros DEF ReloadLock
    <3>2. CASE ~(l.why = "none" \/ l.left <= 0)
      <4> DEFINE left == IF l.why = "gone" THEN AtMost(l.left, BlockMax) ELSE l.left
      <4>1. ReloadLock(l) = [l EXCEPT !.hits = 0, !.left = left]
        BY <3>2 DEF ReloadLock
      <4>2. left \in Int /\ 0 \in 0 .. HitsCap
        BY PolicyAssumption DEF Lock
      <4> HIDE DEF left
      <4> QED BY <4>1, <4>2 DEF Lock
    <3> QED BY <3>1, <3>2
  <2>2. e \in Account /\ locks \in [Models -> Lock]
    BY <2>1 DEF Sound, Account
  <2>3. n \in Retries /\ e.breaker <= BreakerFor(n)
    BY <2>2, Zeros DEF Sound, Account
  <2>4. f = [e EXCEPT !.fails = 0, !.retry = n, !.locks = locks]
    BY <2>2 DEF Reload, Account
  <2> HIDE DEF n, locks, f
  <2>5. f \in Account
    BY <2>2, <2>3, <2>4, Zeros DEF Account
  <2>6. /\ f.until = e.until /\ f.kind = e.kind /\ f.degrade = e.degrade
        /\ f.breaker = e.breaker /\ f.retry = n
    BY <2>2, <2>4 DEF Account
  <2>7. e.until \in Nat /\ e.breaker \in Nat /\ e.degrade \in Nat
    BY <2>2 DEF Account
  <2> QED BY <2>3, <2>5, <2>6, <2>7 DEF Worse, Sound, NotSooner, f
<1> QED BY <1>1, <1>2, <1>3, <1>4

\* What frees an account, or passes time, keeps it sound.
LEMMA FreeingSound ==
    ASSUME NEW e, Sound(e)
    PROVE  /\ Sound(NoteSuccess(e))
           /\ Sound(ReenableIfCredits(e))
           /\ Sound(ForceClearCooldown(e))
           /\ Sound(Age(e))
<1>1. e \in Account
  BY DEF Sound
<1>2. Sound(NoteSuccess(e))
  <2>1. NoteSuccess(e) \in Account
    BY <1>1, Zeros DEF NoteSuccess, Account
  <2>2. /\ NoteSuccess(e).until = e.until /\ NoteSuccess(e).kind = e.kind
        /\ NoteSuccess(e).breaker = 0 /\ NoteSuccess(e).retry = 0
    BY <1>1 DEF NoteSuccess, Account
  <2> QED BY <2>1, <2>2, Zeros DEF Sound
<1>3. Sound(ReenableIfCredits(e))
  BY DEF Sound, ReenableIfCredits, Account
<1>4. Sound(ForceClearCooldown(e))
  <2> DEFINE f == ForceClearCooldown(e)
  <2>1. f \in Account
    BY <1>1, Zeros DEF ForceClearCooldown, ClearCooling, Account
  <2>2. f.until = 0 /\ f.breaker = 0 /\ f.retry = 0
    BY <1>1 DEF ForceClearCooldown, ClearCooling, Account
  <2> QED BY <2>1, <2>2, Zeros DEF Sound
<1>5. Sound(Age(e))
  <2> DEFINE locks == [m \in Models |-> AgeLock(e.locks[m])]
             u == Down(e.until)  b == Down(e.breaker)  d == Down(e.degrade)  f == Age(e)
  <2>1. \A l \in Lock : AgeLock(l) \in Lock
    BY DEF AgeLock, Lock
  <2>2. locks \in [Models -> Lock]
    BY <1>1, <2>1 DEF Account
  <2>3. /\ u \in Nat /\ b \in Nat /\ d \in Nat
        /\ e.until = 0 => u = 0
        /\ b <= e.breaker
    BY <1>1 DEF Down, Account
  <2>4. f = [e EXCEPT !.until = u, !.breaker = b, !.degrade = d, !.locks = locks]
    BY DEF Age
  <2> HIDE DEF locks, u, b, d, f
  <2>5. f \in Account
    BY <1>1, <2>2, <2>3, <2>4 DEF Account
  <2>6. f.until = u /\ f.kind = e.kind /\ f.breaker = b /\ f.retry = e.retry
    BY <1>1, <2>4 DEF Account
  <2>7. e.breaker \in Nat /\ BreakerFor(e.retry) \in Nat
    BY <1>1, BreakerGrows DEF Account, Retries
  <2> QED BY <2>3, <2>5, <2>6, <2>7 DEF Sound, f
<1> QED BY <1>2, <1>3, <1>4, <1>5

-----------------------------------------------------------------------------
(***************************************************************************)
(* The invariant and the theorems.                                         *)
(***************************************************************************)

\* What a request may owe its account, and who owes: a request under way.
Dues == {d \in [what : {"nothing", "clear", "soft", "hard"}, for : Nat] :
            d.what \in {"soft", "hard"} => d.for > 0}
Owing == \A r \in Requests : owed[r] \in Dues /\ (owed[r] # Nothing => flying[r] # Idle)

Inv == TypeOK /\ Owing /\ \A a \in Accounts : Sound(acct[a])

\* The ways a request reports to its account, which becomes e.
Reported(r, e) ==
    \/ \E kind \in Answers : Answered(r, kind, e)
    \/ \E kind \in Answers, rest \in Dues : Begun(r, kind, e, rest)
    \/ Ended(r, owed[r], e)

\* One account may change for the worse only; nothing else of the pool matters.
WorseStep ==
    /\ acct' \in [Accounts -> Account]
    /\ \A a \in Accounts : Worse(acct[a], acct'[a])

LEMMA Unchanged ==
    ASSUME NEW a \in Accounts, Inv
    PROVE  Worse(acct[a], acct[a])
BY DEF Inv, TypeOK, Worse, Sound, NotSooner, Account

LEMMA TouchWorse ==
    ASSUME Inv, NEW a \in Accounts, NEW e, Worse(acct[a], e),
           acct' = [acct EXCEPT ![a] = e]
    PROVE  WorseStep
<1>1. e \in Account /\ acct \in [Accounts -> Account]
  BY DEF Worse, Sound, Inv, TypeOK
<1>2. acct' \in [Accounts -> Account]
  BY <1>1
<1>3. ASSUME NEW b \in Accounts PROVE Worse(acct[b], acct'[b])
  BY <1>1, Unchanged
<1> QED BY <1>2, <1>3 DEF WorseStep

LEMMA Direct ==
    ASSUME NEW r, NEW kind, NEW e, Answered(r, kind, e)
    PROVE  Reported(r, e)
BY DEF Reported, Answered

\* What a request owes is in its range.
LEMMA DuesType ==
    /\ Nothing \in Dues /\ Clear \in Dues
    /\ \A kind \in {"soft", "hard"}, d \in Nat \ {0} : Cool(kind, d) \in Dues
BY DEF Dues, Nothing, Clear, Cool

\* The account an answer is for, and what else the report changes.
LEMMA AnsweredFor ==
    ASSUME Inv, NEW r \in Requests, NEW e, Reported(r, e)
    PROVE  /\ flying[r] \in Accounts \X Models
           /\ flying[r][1] \in Accounts /\ Model(r) \in Models
           /\ Sent(r) = acct[flying[r][1]] /\ Sound(Sent(r))
           /\ acct' = [acct EXCEPT ![flying[r][1]] = e]
           /\ flying' \in [Requests -> {Idle} \cup Accounts \X Models]
           /\ owed' \in [Requests -> [what : {"nothing", "clear", "soft", "hard"}, for : Nat]]
           /\ Owing'
           /\ credit' = credit /\ toFour' = toFour /\ healing' = healing
<1>1. flying[r] # Idle
  BY DEF Reported, Answered, Begun, Ended, Inv, Owing
<1>2. flying[r] \in Accounts \X Models
  BY <1>1 DEF Inv, TypeOK
<1>3. flying[r][1] \in Accounts /\ flying[r][2] \in Models
  BY <1>2
<1>4. /\ acct' = [acct EXCEPT ![flying[r][1]] = e]
      /\ credit' = credit /\ toFour' = toFour /\ healing' = healing
  BY DEF Reported, Answered, Begun, Ended
<1>5. PICK l \in Dues, fly \in {flying[r], Idle} :
          /\ owed' = [owed EXCEPT ![r] = l] /\ flying' = [flying EXCEPT ![r] = fly]
          /\ l = Nothing \/ fly = flying[r]
  <2>1. ASSUME NEW kind, Answered(r, kind, e)
        PROVE  /\ owed' = [owed EXCEPT ![r] = Nothing]
               /\ flying' = [flying EXCEPT ![r] = Idle]
    BY <2>1 DEF Answered, Inv, TypeOK
  <2>2. ASSUME NEW kind, NEW rest \in Dues, Begun(r, kind, e, rest)
        PROVE  /\ owed' = [owed EXCEPT ![r] = rest]
               /\ flying' = [flying EXCEPT ![r] = flying[r]]
    BY <2>2 DEF Begun, Inv, TypeOK
  <2>3. ASSUME Ended(r, owed[r], e)
        PROVE  /\ owed' = [owed EXCEPT ![r] = Nothing]
               /\ flying' = [flying EXCEPT ![r] = Idle]
    BY <2>3 DEF Ended
  <2> QED BY <2>1, <2>2, <2>3, DuesType DEF Reported
<1>6. \A q \in Requests : /\ owed'[q] = IF q = r THEN l ELSE owed[q]
                          /\ flying'[q] = IF q = r THEN fly ELSE flying[q]
  BY <1>5 DEF Inv, TypeOK
<1>7. flying' \in [Requests -> {Idle} \cup Accounts \X Models]
  BY <1>2, <1>5 DEF Inv, TypeOK
<1>8. l \in [what : {"nothing", "clear", "soft", "hard"}, for : Nat]
  BY DEF Dues
<1>9. owed' \in [Requests -> [what : {"nothing", "clear", "soft", "hard"}, for : Nat]]
  BY <1>5, <1>8 DEF Inv, TypeOK
<1>10. Owing'
  BY <1>1, <1>5, <1>6 DEF Inv, Owing
<1> QED BY <1>2, <1>3, <1>4, <1>7, <1>9, <1>10 DEF Inv, Sent, Model

\* A report that makes things worse for its account.
LEMMA AnsweredWorse ==
    ASSUME Inv, NEW r \in Requests, NEW e, Reported(r, e), Worse(Sent(r), e)
    PROVE  WorseStep
<1>1. flying[r][1] \in Accounts /\ Worse(acct[flying[r][1]], e)
  BY AnsweredFor
<1>2. acct' = [acct EXCEPT ![flying[r][1]] = e]
  BY AnsweredFor
<1> QED BY <1>1, <1>2, TouchWorse

\* Every step but a success, a refill, the operator's clearing and time.
LEMMA BadNews ==
    ASSUME Inv, NEW r \in Requests,
           \/ ClearModel(r) \/ NoCredit(r) \/ CoolExhausted(r) \/ RateLimited(r) \/ RateLimitedUntil(r)
           \/ ModelRateLimited(r) \/ ModelGone(r) \/ Refused(r) \/ Banned(r)
           \/ AuthRejected(r) \/ ServerError(r) \/ UnknownError(r) \/ NotTheAccount(r)
    PROVE  WorseStep /\ TypeOK' /\ Owing'
<1>0. ASSUME NEW e, Reported(r, e), Worse(Sent(r), e)
      PROVE  WorseStep /\ TypeOK' /\ Owing'
  <2>1. WorseStep
    BY <1>0, AnsweredWorse
  <2>2. TypeOK' /\ Owing'
    BY <1>0, <2>1, AnsweredFor DEF WorseStep, TypeOK, Inv
  <2> QED BY <2>1, <2>2
<1>1. CASE NoCredit(r)
  <2>1. PICK rest \in Dues : Begun(r, "no_credit", Sent(r), rest)
    <3>1. toFour \in Nat \ {0} /\ credit \in Nat
      BY TrafficAssumption DEF Inv, TypeOK
    <3>2. credit > 0 => Cool("soft", credit) \in Dues
      BY <3>1, DuesType
    <3>3. Cool("hard", toFour) \in Dues
      BY <3>1, DuesType
    <3> QED BY <1>1, <3>2, <3>3 DEF NoCredit
  <2>2. Reported(r, Sent(r))
    BY <2>1 DEF Reported, Begun
  <2> QED BY <1>0, <2>2, AnsweredFor, ModelLocksWorse
<1>12. CASE ClearModel(r)
  <2>1. Reported(r, BlockModelClear(Sent(r), Model(r)))
    BY <1>12 DEF ClearModel, Ended, Reported
  <2> QED BY <1>0, <2>1, AnsweredFor, ModelLocksWorse
<1>13. CASE CoolExhausted(r)
  <2>1. PICK kind \in {"soft", "hard"} :
            Ended(r, Cool(kind, owed[r].for), Cooldown(Sent(r), kind, owed[r].for))
    BY <1>13 DEF CoolExhausted
  <2>2. owed[r] = Cool(kind, owed[r].for)
    BY <2>1 DEF Ended
  <2>3. owed[r].what = kind /\ owed[r] \in Dues
    BY <2>2 DEF Cool, Inv, Owing
  <2>4. owed[r].for \in Nat \ {0}
    BY <2>3 DEF Dues
  <2>5. Reported(r, Cooldown(Sent(r), kind, owed[r].for))
    BY <2>1, <2>2 DEF Reported
  <2>6. Worse(Sent(r), Cooldown(Sent(r), kind, owed[r].for))
    BY <2>4, <2>5, AnsweredFor, CooldownWorse
  <2> QED BY <1>0, <2>5, <2>6
<1>2. CASE RateLimited(r)
  <2>1. PICK base \in Bases : Answered(r, "rate", CooldownSoftBackoff(Sent(r), base))
    BY <1>2 DEF RateLimited
  <2>2. Worse(Sent(r), CooldownSoftBackoff(Sent(r), base))
    BY <2>1, Direct, AnsweredFor, CooldownSoftBackoffWorse, TrafficAssumption
  <2> QED BY <1>0, <2>1, <2>2, Direct
<1>3. CASE RateLimitedUntil(r)
  <2>1. PICK reset \in Resets : Answered(r, "rate_until", CooldownSoftUntil(Sent(r), reset))
    BY <1>3 DEF RateLimitedUntil
  <2>2. Worse(Sent(r), CooldownSoftUntil(Sent(r), reset))
    BY <2>1, Direct, AnsweredFor, CooldownSoftUntilWorse, TrafficAssumption
  <2> QED BY <1>0, <2>1, <2>2, Direct
<1>4. CASE ModelRateLimited(r)
  <2>1. PICK reset \in Resets : Answered(r, "model_rate", RateLimitModel(Sent(r), Model(r), reset))
    BY <1>4 DEF ModelRateLimited
  <2>2. Worse(Sent(r), RateLimitModel(Sent(r), Model(r), reset))
    BY <2>1, Direct, AnsweredFor, ModelLocksWorse, TrafficAssumption
  <2> QED BY <1>0, <2>1, <2>2, Direct
<1>5. CASE ModelGone(r)
  <2>1. Answered(r, "model_gone", BlockModelBackoff(Sent(r), Model(r)))
    BY <1>5 DEF ModelGone
  <2>2. Worse(Sent(r), BlockModelBackoff(Sent(r), Model(r)))
    BY <2>1, Direct, AnsweredFor, ModelLocksWorse
  <2> QED BY <1>0, <2>1, <2>2, Direct
<1>6. CASE Refused(r)
  <2>1. PICK d \in FixedCoolings : Answered(r, "refused", Cooldown(Sent(r), "soft", d))
    BY <1>6 DEF Refused
  <2>2. Worse(Sent(r), Cooldown(Sent(r), "soft", d))
    BY <2>1, Direct, AnsweredFor, CooldownWorse, TrafficAssumption
  <2> QED BY <1>0, <2>1, <2>2, Direct
<1>7. CASE Banned(r)
  <2>1. Answered(r, "banned", Disable(Sent(r))) /\ Worse(Sent(r), Disable(Sent(r)))
    BY <1>7, Direct, AnsweredFor, FailuresWorse DEF Banned
  <2> QED BY <1>0, <2>1, Direct
<1>8. CASE AuthRejected(r)
  <2>1. /\ Answered(r, "auth_rejected", NoteAuthFailure(Sent(r)))
        /\ Worse(Sent(r), NoteAuthFailure(Sent(r)))
    BY <1>8, Direct, AnsweredFor, FailuresWorse DEF AuthRejected
  <2> QED BY <1>0, <2>1, Direct
<1>9. CASE ServerError(r)
  <2>1. /\ Answered(r, "server_error", NoteError(Sent(r)))
        /\ Worse(Sent(r), NoteError(Sent(r)))
    BY <1>9, Direct, AnsweredFor, NoteErrorWorse DEF ServerError
  <2> QED BY <1>0, <2>1, Direct
<1>10. CASE UnknownError(r)
  <2>1. /\ Answered(r, "unknown", NoteFailures(Sent(r)))
        /\ Worse(Sent(r), NoteFailures(Sent(r)))
    BY <1>10, Direct, AnsweredFor, FailuresWorse DEF UnknownError
  <2> QED BY <1>0, <2>1, Direct
<1>11. CASE NotTheAccount(r)
  <2>1. Answered(r, "not_account", Sent(r)) /\ Worse(Sent(r), Sent(r))
    BY <1>11, Direct, AnsweredFor, ModelLocksWorse DEF NotTheAccount
  <2> QED BY <1>0, <2>1, Direct
<1> QED BY <1>1, <1>2, <1>3, <1>4, <1>5, <1>6, <1>7, <1>8, <1>9, <1>10, <1>11, <1>12, <1>13

\* Steps on all accounts at once, or none, that free nobody.
LEMMA PoolStepsWorse ==
    ASSUME Inv,
           \/ \E r \in Requests, m \in Models : Pick(r, m)
           \/ \E m \in Models : StartHeal(m) \/ SelfHeal(m)
           \/ \E a \in Accounts :
                 \/ KeepaliveOk(a) \/ KeepaliveRejected(a) \/ Revive(a)
                 \/ \E b \in BOOLEAN : SetManual(a, b)
           \/ SetCreditExhausted \/ Restart
    PROVE  WorseStep /\ TypeOK' /\ Owing'
<1>0. acct \in [Accounts -> Account] /\ \A a \in Accounts : Sound(acct[a])
  BY DEF Inv, TypeOK
<1>1. ASSUME NEW r \in Requests, NEW m \in Models, Pick(r, m)
      PROVE  WorseStep /\ TypeOK' /\ Owing'
  <2> DEFINE pool == [a \in Accounts |-> Prune(acct[a])]
  <2>1. PICK free \in SUBSET Accounts :
          LET healthy == {a \in free : HealthyForModel(pool[a], m)}
          IN  /\ flying[r] = Idle
              /\ \E a \in IF healthy # {} THEN healthy ELSE Fallback(free, pool) :
                     flying' = [flying EXCEPT ![r] = <<a, m>>]
              /\ acct' = pool
              /\ UNCHANGED <<owed, credit, toFour, healing>>
    BY <1>1 DEF Pick
  <2>2. \A a \in Accounts : Worse(acct[a], pool[a]) /\ pool[a] \in Account
    BY <1>0, ModelLocksWorse DEF Worse, Sound
  <2>3. WorseStep
    BY <2>1, <2>2 DEF WorseStep
  <2>4. PICK a \in Accounts : flying' = [flying EXCEPT ![r] = <<a, m>>]
    BY <2>1 DEF Fallback
  <2>5. flying' \in [Requests -> {Idle} \cup Accounts \X Models]
    BY <2>4 DEF Inv, TypeOK
  <2>6. owed' = owed /\ owed[r] = Nothing
    BY <2>1 DEF Inv, Owing
  <2>7. \A q \in Requests \ {r} : flying'[q] = flying[q]
    BY <2>4 DEF Inv, TypeOK
  <2>8. Owing'
    BY <2>6, <2>7 DEF Inv, Owing
  <2> QED BY <2>1, <2>3, <2>5, <2>8 DEF WorseStep, Inv, TypeOK
<1>2. ASSUME NEW m \in Models, StartHeal(m)
      PROVE  WorseStep /\ TypeOK' /\ Owing'
  BY <1>0, <1>2, Unchanged DEF StartHeal, WorseStep, Inv, Owing, TypeOK
<1>3. ASSUME NEW m \in Models, SelfHeal(m)
      PROVE  WorseStep /\ TypeOK' /\ Owing'
  <2>1. \A a \in Accounts : Worse(acct[a], ClearModelBlock(acct[a], m))
                            /\ ClearModelBlock(acct[a], m) \in Account
    BY <1>0, ModelLocksWorse DEF Worse, Sound
  <2> QED BY <1>3, <2>1 DEF SelfHeal, WorseStep, Inv, Owing, TypeOK
<1>4. ASSUME NEW a \in Accounts, NEW e, Touch(a, e), Worse(acct[a], e)
      PROVE  WorseStep /\ TypeOK' /\ Owing'
  <2>1. acct' = [acct EXCEPT ![a] = e] /\ UNCHANGED <<flying, owed, credit, toFour, healing>>
    BY <1>4 DEF Touch
  <2>2. WorseStep
    BY <1>4, <2>1, TouchWorse
  <2> QED BY <2>1, <2>2 DEF WorseStep, Inv, Owing, TypeOK
<1>5. ASSUME NEW a \in Accounts,
             \/ KeepaliveOk(a) \/ KeepaliveRejected(a) \/ Revive(a)
             \/ \E b \in BOOLEAN : SetManual(a, b)
      PROVE  WorseStep /\ TypeOK' /\ Owing'
  BY <1>0, <1>4, <1>5, OthersWorse, FailuresWorse
     DEF KeepaliveOk, KeepaliveRejected, Revive, SetManual
<1>6. CASE Restart
  <2>1. \A a \in Accounts : Worse(acct[a], Reload(acct[a])) /\ Reload(acct[a]) \in Account
    BY <1>0, OthersWorse DEF Worse, Sound
  <2>2. WorseStep
    BY <1>6, <2>1 DEF Restart, WorseStep
  <2>3. /\ flying' \in [Requests -> {Idle} \cup Accounts \X Models]
        /\ owed' = [r \in Requests |-> Nothing] /\ Nothing \in Dues
        /\ credit' = credit /\ toFour' = toFour /\ healing' = {}
    BY <1>6, DuesType DEF Restart
  <2>4. Owing' /\ owed' \in [Requests -> [what : {"nothing", "clear", "soft", "hard"}, for : Nat]]
    BY <2>3 DEF Owing, Dues
  <2> QED BY <2>2, <2>3, <2>4 DEF WorseStep, Inv, TypeOK
<1>7. CASE SetCreditExhausted
  BY <1>0, <1>7, Unchanged DEF SetCreditExhausted, WorseStep, Inv, Owing, TypeOK
<1> QED BY <1>1, <1>2, <1>3, <1>5, <1>6, <1>7

LEMMA InitInv == Init => Inv
<1> SUFFICES ASSUME Init PROVE Inv
  OBVIOUS
<1>1. acct \in [Accounts -> Account] /\ \A a \in Accounts : Sound(acct[a])
  BY FreshSound DEF Init, Sound
<1>2. Owing /\ owed \in [Requests -> [what : {"nothing", "clear", "soft", "hard"}, for : Nat]]
  <2>1. Nothing \in Dues /\ owed = [r \in Requests |-> Nothing]
    BY DuesType DEF Init
  <2> QED BY <2>1 DEF Owing, Dues
<1> QED BY <1>1, <1>2 DEF Init, Inv, TypeOK

LEMMA NextInv == Inv /\ [Next]_vars => Inv'
<1> SUFFICES ASSUME Inv, [Next]_vars PROVE Inv'
  OBVIOUS
<1>0. acct \in [Accounts -> Account] /\ \A a \in Accounts : Sound(acct[a])
  BY DEF Inv, TypeOK
<1>1. CASE WorseStep /\ TypeOK' /\ Owing'
  BY <1>1 DEF WorseStep, Worse, Inv
<1>2. ASSUME NEW r \in Requests, Succeed(r)
      PROVE  Inv'
  <2> DEFINE a == flying[r][1]
             e == NoteSuccess(Sent(r))
  <2>1. Reported(r, e)
    BY <1>2, DuesType DEF Succeed, Begun, Reported
  <2>2. /\ a \in Accounts /\ Sound(e)
        /\ acct' = [acct EXCEPT ![a] = e]
    BY <2>1, AnsweredFor, FreeingSound
  <2>3. /\ flying' \in [Requests -> {Idle} \cup Accounts \X Models]
        /\ owed' \in [Requests -> [what : {"nothing", "clear", "soft", "hard"}, for : Nat]]
        /\ Owing' /\ credit' = credit /\ toFour' = toFour /\ healing' = healing
    BY <2>1, AnsweredFor
  <2> HIDE DEF a, e
  <2>4. acct' \in [Accounts -> Account] /\ \A b \in Accounts : Sound(acct'[b])
    BY <1>0, <2>2 DEF Sound
  <2> QED BY <2>3, <2>4 DEF Inv, TypeOK
<1>3. ASSUME NEW a \in Accounts, Refill(a) \/ ForceClear(a)
      PROVE  Inv'
  <2>1. PICK e : Touch(a, e) /\ Sound(e)
    BY <1>0, <1>3, FreeingSound DEF Refill, ForceClear
  <2>2. acct' \in [Accounts -> Account] /\ \A b \in Accounts : Sound(acct'[b])
    BY <1>0, <2>1 DEF Touch, Sound
  <2> QED BY <2>1, <2>2 DEF Touch, Inv, Owing, TypeOK
<1>4. CASE Tick
  <2>1. \A a \in Accounts : Sound(Age(acct[a])) /\ Age(acct[a]) \in Account
    BY <1>0, FreeingSound DEF Sound
  <2>2. acct' \in [Accounts -> Account] /\ \A a \in Accounts : Sound(acct'[a])
    BY <1>4, <2>1 DEF Tick
  <2>3. toFour' \in 1 .. Day
    BY <1>4, TrafficAssumption DEF Tick, Inv, TypeOK
  <2> QED BY <1>4, <2>2, <2>3 DEF Tick, Inv, Owing, TypeOK
<1>5. CASE UNCHANGED vars
  BY <1>5 DEF vars, Inv, Owing, TypeOK
<1> QED BY <1>1, <1>2, <1>3, <1>4, <1>5, BadNews, PoolStepsWorse DEF Next

\* The invariant holds throughout.
THEOREM Invariance == Spec => []Inv
BY InitInv, NextInv, PTL DEF Spec

\* Accounts, requests and deadlines keep their types, with every counter in its
\* range, whatever the order of answers (internal/pool/entry.go accountState).
THEOREM TypeCorrect == Spec => []TypeOK
<1>1. Inv => TypeOK
  BY DEF Inv
<1> QED BY <1>1, Invariance, PTL

\* Penalties never add up to less: only time, a success, a refilled balance or
\* the operator bring an account back sooner, for any number of accounts and of
\* requests in flight (internal/pool/cooldown.go, degrade.go, persist.go).
THEOREM GoodNewsOnly == Spec => OnlyGoodNewsFrees
<1> DEFINE Free(a) ==
        \/ NotSooner(acct[a], acct'[a])
        \/ Tick \/ Refill(a) \/ ForceClear(a)
        \/ \E r \in Requests : flying[r] # Idle /\ flying[r][1] = a /\ Succeed(r)
<1>1. Inv /\ [Next]_vars => [\A a \in Accounts : Free(a)]_vars
  <2> SUFFICES ASSUME Inv, Next, NEW a \in Accounts PROVE Free(a)
    OBVIOUS
  <2>0. acct \in [Accounts -> Account] /\ NotSooner(acct[a], acct[a])
    BY Unchanged DEF Inv, TypeOK, Worse
  <2>1. CASE WorseStep
    BY <2>1 DEF WorseStep, Worse
  <2>2. ASSUME NEW r \in Requests, Succeed(r)
        PROVE  Free(a)
    <3>1. CASE flying[r][1] = a
      BY <2>2, <3>1 DEF Succeed, Begun
    <3>2. CASE flying[r][1] # a
      BY <2>0, <2>2, <3>2 DEF Succeed, Begun
    <3> QED BY <3>1, <3>2
  <2>3. ASSUME NEW b \in Accounts, Refill(b) \/ ForceClear(b)
        PROVE  Free(a)
    <3>1. CASE b = a
      BY <2>3, <3>1
    <3>2. CASE b # a
      BY <2>0, <2>3, <3>2 DEF Refill, ForceClear, Touch
    <3> QED BY <3>1, <3>2
  <2>4. CASE Tick
    BY <2>4
  <2> QED BY <2>1, <2>2, <2>3, <2>4, BadNews, PoolStepsWorse DEF Next
<1> QED BY <1>1, Invariance, PTL DEF Spec, OnlyGoodNewsFrees

-----------------------------------------------------------------------------
(***************************************************************************)
(* What a step makes of one account.                                       *)
(***************************************************************************)

\* The answers, by what they make of the account e they are for, sent with model m.
Served(e, f) == f = NoteSuccess(e)
Cooled(e, f) == \E kind \in {"soft", "hard"}, d \in Nat \ {0} : f = Cooldown(e, kind, d)
BackedOff(e, f) == \E base \in Bases : f = CooldownSoftBackoff(e, base)
CooledUntil(e, f) == \E reset \in Resets : f = CooldownSoftUntil(e, reset)
RateLocked(e, m, f) == \E reset \in Resets : f = RateLimitModel(e, m, reset)
GoneLocked(e, m, f) == f = BlockModelBackoff(e, m)
Struck(e, f) ==
    f \in {e, Disable(e), NoteAuthFailure(e), NoteError(e), NoteFailures(e)}

\* Steps that are no answer or the mere end of one, nor the operator's clearing,
\* nor time.
Tended(e, f) ==
    \/ f \in {e, Prune(e), ReenableIfCredits(e), ClearSessionDead(e), ReviveDisabled(e),
              NoteAuthFailure(e), Reload(e)}
    \/ \E b \in BOOLEAN : f = SetManualDisabled(e, b)
    \/ \E m \in Models : f \in {ClearModelBlock(e, m), BlockModelClear(e, m)}

AnswerTo(a, f) ==
    \E r \in Requests, m \in Models :
        /\ flying[r] = <<a, m>> /\ flying[r] # Idle
        /\ \/ Served(acct[a], f) \/ Cooled(acct[a], f) \/ Struck(acct[a], f)
           \/ CooledUntil(acct[a], f)
           \/ BackedOff(acct[a], f)
           \/ ModelRateLimited(r) /\ RateLocked(acct[a], m, f)
           \/ ModelGone(r) /\ GoneLocked(acct[a], m, f)

LEMMA WhatStepsDo ==
    ASSUME Inv, Next, NEW a \in Accounts
    PROVE  \/ Tended(acct[a], acct'[a]) \/ AnswerTo(a, acct'[a])
           \/ Tick /\ acct'[a] = Age(acct[a])
           \/ ForceClear(a) /\ acct'[a] = ForceClearCooldown(acct[a])
<1> DEFINE f == acct'[a]
           Goal == \/ Tended(acct[a], f) \/ AnswerTo(a, f)
                   \/ Tick /\ f = Age(acct[a])
                   \/ ForceClear(a) /\ f = ForceClearCooldown(acct[a])
<1> SUFFICES Goal
  OBVIOUS
<1>0. acct \in [Accounts -> Account]
  BY DEF Inv, TypeOK
<1>1. ASSUME NEW r \in Requests, NEW e, Reported(r, e), flying[r][1] # a
      PROVE  Goal
  BY <1>0, <1>1, AnsweredFor DEF Tended
<1>2. ASSUME NEW r \in Requests, NEW e, Reported(r, e), flying[r][1] = a
      PROVE  /\ f = e /\ Sent(r) = acct[a] /\ Model(r) \in Models
             /\ flying[r] = <<a, Model(r)>> /\ flying[r] # Idle
  <2>1. flying[r] \in Accounts \X Models /\ acct' = [acct EXCEPT ![a] = e]
    BY <1>2, AnsweredFor
  <2>2. flying[r] = <<flying[r][1], flying[r][2]>> /\ flying[r][2] \in Models
    BY <2>1
  <2>3. flying[r] = <<a, Model(r)>> /\ Model(r) \in Models
    BY <1>2, <2>2 DEF Model
  <2> QED BY <1>0, <1>2, <2>1, <2>3 DEF Sent, Idle
<1>3. ASSUME NEW r \in Requests, Succeed(r)
      PROVE  Goal
  <2>1. Reported(r, NoteSuccess(Sent(r)))
    BY <1>3, DuesType DEF Succeed, Begun, Reported
  <2> QED BY <1>1, <1>2, <2>1 DEF AnswerTo, Served
<1>4. ASSUME NEW r \in Requests, CoolExhausted(r)
      PROVE  Goal
  <2>1. PICK kind \in {"soft", "hard"} :
            Ended(r, Cool(kind, owed[r].for), Cooldown(Sent(r), kind, owed[r].for))
    BY <1>4 DEF CoolExhausted
  <2>2. owed[r] = Cool(kind, owed[r].for)
    BY <2>1 DEF Ended
  <2>3. owed[r].what = kind /\ owed[r] \in Dues
    BY <2>2 DEF Cool, Inv, Owing
  <2>4. owed[r].for \in Nat \ {0}
    BY <2>3 DEF Dues
  <2>5. Reported(r, Cooldown(Sent(r), kind, owed[r].for))
    BY <2>1, <2>2 DEF Reported
  <2> QED BY <1>1, <1>2, <2>4, <2>5 DEF AnswerTo, Cooled
<1>18. ASSUME NEW r \in Requests, NoCredit(r)
       PROVE  Goal
  <2>1. acct' = [acct EXCEPT ![flying[r][1]] = acct[flying[r][1]]]
    BY <1>18 DEF NoCredit, Begun, Sent
  <2>2. f = acct[a]
    BY <1>0, <2>1
  <2> QED BY <2>2 DEF Tended
<1>19. ASSUME NEW r \in Requests, ClearModel(r)
       PROVE  Goal
  <2>1. Reported(r, BlockModelClear(Sent(r), Model(r)))
    BY <1>19 DEF ClearModel, Ended, Reported
  <2> QED BY <1>1, <1>2, <2>1 DEF Tended
<1>5. ASSUME NEW r \in Requests, Refused(r)
      PROVE  Goal
  <2>1. PICK d \in Nat \ {0} : Answered(r, "refused", Cooldown(Sent(r), "soft", d))
    BY <1>5, TrafficAssumption DEF Refused
  <2> QED BY <1>1, <1>2, <2>1, Direct DEF AnswerTo, Cooled
<1>6. ASSUME NEW r \in Requests, RateLimited(r)
      PROVE  Goal
  BY <1>1, <1>2, <1>6, Direct DEF RateLimited, AnswerTo, BackedOff
<1>7. ASSUME NEW r \in Requests, RateLimitedUntil(r)
      PROVE  Goal
  BY <1>1, <1>2, <1>7, Direct DEF RateLimitedUntil, AnswerTo, CooledUntil
<1>8. ASSUME NEW r \in Requests, ModelRateLimited(r)
      PROVE  Goal
  <2>1. PICK reset \in Resets :
            Answered(r, "model_rate", RateLimitModel(Sent(r), Model(r), reset))
    BY <1>8 DEF ModelRateLimited
  <2> QED BY <1>1, <1>2, <1>8, <2>1, Direct DEF AnswerTo, RateLocked
<1>9. ASSUME NEW r \in Requests, ModelGone(r)
      PROVE  Goal
  <2>1. Answered(r, "model_gone", BlockModelBackoff(Sent(r), Model(r)))
    BY <1>9 DEF ModelGone
  <2> QED BY <1>1, <1>2, <1>9, <2>1, Direct DEF AnswerTo, GoneLocked
<1>10. ASSUME NEW r \in Requests,
              \/ Banned(r) \/ AuthRejected(r) \/ ServerError(r) \/ UnknownError(r)
              \/ NotTheAccount(r)
       PROVE  Goal
  <2>1. \E e : /\ Reported(r, e)
               /\ e \in {Sent(r), Disable(Sent(r)), NoteAuthFailure(Sent(r)),
                         NoteError(Sent(r)), NoteFailures(Sent(r))}
    BY <1>10, Direct DEF Banned, AuthRejected, ServerError, UnknownError, NotTheAccount
  <2> QED BY <1>1, <1>2, <2>1 DEF AnswerTo, Struck
<1>11. ASSUME NEW b \in Accounts, NEW e, Touch(b, e)
       PROVE  f = IF b = a THEN e ELSE acct[a]
  BY <1>0, <1>11 DEF Touch
<1>12. ASSUME NEW b \in Accounts,
              \/ Refill(b) \/ KeepaliveOk(b) \/ KeepaliveRejected(b) \/ Revive(b)
              \/ \E v \in BOOLEAN : SetManual(b, v)
       PROVE  Goal
  BY <1>11, <1>12 DEF Refill, KeepaliveOk, KeepaliveRejected, Revive, SetManual, Tended
<1>13. ASSUME NEW b \in Accounts, ForceClear(b)
       PROVE  Goal
  BY <1>11, <1>13 DEF ForceClear, Tended
<1>14. CASE Tick
  BY <1>14 DEF Tick
<1>15. ASSUME NEW r \in Requests, NEW m \in Models, Pick(r, m)
       PROVE  Goal
  BY <1>15 DEF Pick, Tended
<1>16. ASSUME NEW m \in Models, StartHeal(m) \/ SelfHeal(m)
       PROVE  Goal
  BY <1>16 DEF StartHeal, SelfHeal, Tended
<1>17. CASE Restart
  BY <1>17 DEF Restart, Tended
<1>20. CASE SetCreditExhausted
  BY <1>20 DEF SetCreditExhausted, Tended
<1> QED BY <1>3, <1>4, <1>5, <1>6, <1>7, <1>8, <1>9, <1>10, <1>12, <1>13, <1>14, <1>15,
           <1>16, <1>17, <1>18, <1>19, <1>20 DEF Next

-----------------------------------------------------------------------------
(***************************************************************************)
(* One backoff per cooling.                                                *)
(***************************************************************************)

\* What operations do to the backoff streak and to the model locks.
LEMMA StreakAndLocks ==
    ASSUME NEW e \in Account
    PROVE  /\ \A f \in {e, ReenableIfCredits(e), ClearSessionDead(e), ReviveDisabled(e),
                        NoteError(e), NoteFailures(e)} :
                 f.streak = e.streak /\ f.locks = e.locks
           /\ \A b \in BOOLEAN : /\ SetManualDisabled(e, b).streak = e.streak
                                 /\ SetManualDisabled(e, b).locks = e.locks
           /\ Disable(e).streak = 0 /\ Disable(e).disabled
           /\ NoteSuccess(e).streak = 0 /\ NoteSuccess(e).locks = e.locks
           /\ Prune(e).streak = e.streak
           /\ Prune(e).locks = [m \in Models |-> PruneLock(e.locks[m])]
           /\ Reload(e).streak = e.streak
           /\ Reload(e).locks = [m \in Models |-> ReloadLock(e.locks[m])]
           /\ Age(e).streak = e.streak
           /\ Age(e).locks = [m \in Models |-> AgeLock(e.locks[m])]
<1>1. ReenableIfCredits(e).streak = e.streak /\ ReenableIfCredits(e).locks = e.locks
  BY DEF ReenableIfCredits, Account
<1>2. ClearSessionDead(e).streak = e.streak /\ ClearSessionDead(e).locks = e.locks
  BY DEF ClearSessionDead, Account
<1>3. ReviveDisabled(e).streak = e.streak /\ ReviveDisabled(e).locks = e.locks
  BY DEF ReviveDisabled, Account
<1>4. NoteError(e).streak = e.streak /\ NoteError(e).locks = e.locks
  BY DEF NoteError, Account
<1>5. NoteFailures(e).streak = e.streak /\ NoteFailures(e).locks = e.locks
  BY DEF NoteFailures, Account
<1>6. \A b \in BOOLEAN : /\ SetManualDisabled(e, b).streak = e.streak
                         /\ SetManualDisabled(e, b).locks = e.locks
  BY DEF SetManualDisabled, Account
<1>7. Disable(e).streak = 0 /\ Disable(e).disabled
  BY DEF Disable, ClearCooling, Account
<1>8. NoteSuccess(e).streak = 0 /\ NoteSuccess(e).locks = e.locks
  BY DEF NoteSuccess, Account
<1>9. /\ Prune(e).streak = e.streak
      /\ Prune(e).locks = [m \in Models |-> PruneLock(e.locks[m])]
  BY DEF Prune, Account
<1>10. /\ Reload(e).streak = e.streak
       /\ Reload(e).locks = [m \in Models |-> ReloadLock(e.locks[m])]
  BY DEF Reload, Account
<1>11. /\ Age(e).streak = e.streak
       /\ Age(e).locks = [m \in Models |-> AgeLock(e.locks[m])]
  BY DEF Age, Account
<1> QED BY <1>1, <1>2, <1>3, <1>4, <1>5, <1>6, <1>7, <1>8, <1>9, <1>10, <1>11

\* The same for a strike, which may disable.
LEMMA StrikeOnLocks ==
    ASSUME NEW e \in Account
    PROVE  \/ NoteAuthFailure(e).disabled /\ NoteAuthFailure(e).streak = 0
           \/ NoteAuthFailure(e).streak = e.streak /\ NoteAuthFailure(e).locks = e.locks
<1>1. CASE e.dead + 1 < SessionDeadThreshold
  BY <1>1 DEF NoteAuthFailure, Account
<1>2. CASE ~(e.dead + 1 < SessionDeadThreshold)
  BY <1>2 DEF NoteAuthFailure, Disable, ClearCooling, Account
<1> QED BY <1>1, <1>2

\* During a soft cooling no operation takes a step of the backoff.
LEMMA StreakStays ==
    ASSUME NEW e, Sound(e), SoftActive(e), NEW f,
           \/ Tended(e, f)
           \/ \E m \in Models : \/ Served(e, f) \/ Cooled(e, f) \/ Struck(e, f)
                                \/ CooledUntil(e, f) \/ BackedOff(e, f)
                                \/ RateLocked(e, m, f) \/ GoneLocked(e, m, f)
           \/ f = Age(e) \/ f = ForceClearCooldown(e)
    PROVE  f.streak <= e.streak
<1>0. e \in Account /\ e.streak \in Nat /\ 0 <= e.streak /\ e.streak <= e.streak
  BY PolicyAssumption DEF Sound, Account, Streaks
<1>1. CASE Tended(e, f)
  <2>1. \A m \in Models : /\ ClearModelBlock(e, m).streak = e.streak
                         /\ BlockModelClear(e, m).streak = e.streak
    BY <1>0 DEF ClearModelBlock, BlockModelClear, Account
  <2>2. ASSUME f \in {e, ReenableIfCredits(e), ClearSessionDead(e), ReviveDisabled(e)}
        PROVE  f.streak = e.streak
    BY <1>0, <2>2, StreakAndLocks, ZenonT(60)
  <2>3. Prune(e).streak = e.streak /\ Reload(e).streak = e.streak
    BY <1>0, StreakAndLocks
  <2>4. \A b \in BOOLEAN : SetManualDisabled(e, b).streak = e.streak
    BY <1>0, StreakAndLocks
  <2>5. NoteAuthFailure(e).streak = 0 \/ NoteAuthFailure(e).streak = e.streak
    BY <1>0, StrikeOnLocks
  <2>6. f.streak = 0 \/ f.streak = e.streak
    BY <1>1, <2>1, <2>2, <2>3, <2>4, <2>5 DEF Tended
  <2> QED BY <1>0, <2>6
<1>2. CASE Served(e, f)
  <2>1. f.streak = 0
    BY <1>0, <1>2, StreakAndLocks DEF Served
  <2> QED BY <1>0, <2>1
<1>3. CASE Cooled(e, f)
  <2>1. f.streak = e.streak
    BY <1>0, <1>3 DEF Cooled, Cooldown, Account
  <2> QED BY <1>0, <2>1
<1>4. CASE CooledUntil(e, f)
  <2>1. f.streak = e.streak
    BY <1>0, <1>4 DEF CooledUntil, CooldownSoftUntil, Account
  <2> QED BY <1>0, <2>1
<1>5. CASE BackedOff(e, f)
  <2>1. f.streak = e.streak
    BY <1>0, <1>5 DEF BackedOff, CooldownSoftBackoff, Account
  <2> QED BY <1>0, <2>1
<1>6. CASE Struck(e, f)
  <2>1. ASSUME f \in {e, NoteError(e), NoteFailures(e)}
        PROVE  f.streak = e.streak
    BY <1>0, <2>1, StreakAndLocks
  <2>2. Disable(e).streak = 0
    BY <1>0, StreakAndLocks
  <2>3. NoteAuthFailure(e).streak = 0 \/ NoteAuthFailure(e).streak = e.streak
    BY <1>0, StrikeOnLocks
  <2>4. f.streak = 0 \/ f.streak = e.streak
    BY <1>6, <2>1, <2>2, <2>3 DEF Struck
  <2> QED BY <1>0, <2>4
<1>7. ASSUME NEW m \in Models, RateLocked(e, m, f) \/ GoneLocked(e, m, f)
      PROVE  f.streak <= e.streak
  <2>1. f.streak = e.streak
    BY <1>0, <1>7 DEF RateLocked, GoneLocked, RateLimitModel, BlockModelBackoff, Account
  <2> QED BY <1>0, <2>1
<1>8. CASE f = Age(e)
  BY <1>0, <1>8, StreakAndLocks
<1>9. CASE f = ForceClearCooldown(e)
  <2>1. f.streak = 0
    BY <1>0, <1>9 DEF ForceClearCooldown, ClearCooling, Account
  <2> QED BY <1>0, <2>1
<1> QED BY <1>1, <1>2, <1>3, <1>4, <1>5, <1>6, <1>7, <1>8, <1>9

\* One cooling, one step of the backoff, and a plain 429 moves no deadline that is
\* running (internal/pool/cooldown.go, CooldownSoftRate).
THEOREM OneBackoff == Spec => OneBackoffPerCooling
<1>1. ASSUME Inv, [Next]_vars, NEW a \in Accounts, SoftActive(acct[a])
      PROVE  acct'[a].streak <= acct[a].streak
  <2>0. Sound(acct[a]) /\ acct[a].streak \in Nat
    BY <1>1, PolicyAssumption DEF Inv, Sound, Account, Streaks
  <2>1. CASE Next
    BY <1>1, <2>0, <2>1, WhatStepsDo, StreakStays DEF AnswerTo
  <2>2. CASE UNCHANGED vars
    BY <2>0, <2>2 DEF vars
  <2> QED BY <1>1, <2>1, <2>2
<1>2. ASSUME Inv, NEW a \in Accounts, SoftActive(acct[a]),
             NEW r \in Requests, flying[r][1] = a, RateLimited(r)
      PROVE  acct'[a].until = acct[a].until
  <2>1. PICK base \in Bases : acct' = [acct EXCEPT ![a] = CooldownSoftBackoff(acct[a], base)]
    BY <1>2 DEF RateLimited, Answered, Sent
  <2>2. acct[a] \in Account /\ acct \in [Accounts -> Account]
    BY <1>2 DEF Inv, TypeOK
  <2> QED BY <1>2, <2>1, <2>2 DEF CooldownSoftBackoff, Account
<1>3. Inv /\ [Next]_vars =>
        [\A a \in Accounts : SoftActive(acct[a]) =>
            /\ acct'[a].streak <= acct[a].streak
            /\ (\E r \in Requests : flying[r] # Idle /\ flying[r][1] = a /\ RateLimited(r))
               => acct'[a].until = acct[a].until]_vars
  BY <1>1, <1>2
<1> QED BY <1>3, Invariance, PTL DEF Spec, OneBackoffPerCooling

-----------------------------------------------------------------------------
(***************************************************************************)
(* A 6004 lock stands.                                                     *)
(***************************************************************************)

\* A 6004 lock counts no hits, so a restart finds nothing to forget in it.
Plain(e) == \A m \in Models : e.locks[m].why = "rate" => e.locks[m].hits = 0

\* A soft backoff really cools.
LEMMA BackoffCools ==
    ASSUME NEW e, Sound(e), NEW base \in Nat \ {0}
    PROVE  CooldownSoftBackoff(e, base).until > 0
<1>1. e \in Account /\ e.streak + 1 \in 1 .. StreakCap + 1
  BY PolicyAssumption DEF Sound, Account, Streaks
<1> DEFINE p == 2^((e.streak + 1) - 1)
           d == SoftDuration(base, e.streak + 1)
<1>2. (e.streak + 1) - 1 \in 0 .. StreakCap + RetryCap + HitsCap
  BY <1>1, PolicyAssumption
<1>3. p \in Nat
  BY <1>2, PowersAssumption
<1>4. d = IF e.streak + 1 <= 1 THEN base
          ELSE IF base * p > SoftMax \/ base * p <= 0 THEN SoftMax ELSE base * p
  BY DEF SoftDuration
<1> HIDE DEF p
<1>5. base * p \in Int
  BY <1>3
<1>6. d > 0
  BY <1>1, <1>4, <1>5, PolicyAssumption
<1> HIDE DEF d
<1>7. CooldownSoftBackoff(e, base).until = IF HardActive(e) \/ SoftActive(e) THEN e.until ELSE d
  BY <1>1 DEF CooldownSoftBackoff, Account, d
<1> QED BY <1>6, <1>7 DEF HardActive, SoftActive

\* What pruning, a reload and time do to one lock.
LEMMA OneLock ==
    ASSUME NEW l \in Lock, l.why = "rate" => l.hits = 0
    PROVE  /\ PruneLock(l).why = "rate" => PruneLock(l).hits = 0
           /\ ReloadLock(l).why = "rate" => ReloadLock(l).hits = 0
           /\ AgeLock(l).why = "rate" => AgeLock(l).hits = 0
           /\ l.left > 0 => PruneLock(l) = l
           /\ l.left > 0 /\ l.why = "rate" => ReloadLock(l) = l
<1>1. PruneLock(l) \in {l, NoLock}
  BY DEF PruneLock
<1>2. NoLock.why # "rate"
  BY DEF NoLock
<1>3. l.left > 0 => PruneLock(l) = l
  BY DEF PruneLock
<1>4. ReloadLock(l).why = "rate" => ReloadLock(l).hits = 0
  BY <1>2 DEF ReloadLock, Lock
<1>5. AgeLock(l).why = "rate" => AgeLock(l).hits = 0
  BY DEF AgeLock, Lock
<1>6. ASSUME l.left > 0, l.why = "rate"
      PROVE  ReloadLock(l) = l
  <2>1. ReloadLock(l) = [l EXCEPT !.hits = 0, !.left = l.left]
    <3>1. ~(l.why = "none" \/ l.left <= 0) /\ l.why # "gone"
      BY <1>6 DEF Lock
    <3> QED BY <3>1 DEF ReloadLock
  <2>2. l = [left |-> l.left, why |-> l.why, hits |-> 0]
    BY <1>6 DEF Lock
  <2> QED BY <2>1, <2>2
<1> QED BY <1>1, <1>2, <1>3, <1>4, <1>5, <1>6

\* The locks after an operation on the whole account: cleared when it takes the
\* account out, kept otherwise.
LEMMA WholeAccount ==
    ASSUME NEW e \in Account
    PROVE  /\ Disable(e).locks = NoLocks
           /\ ForceClearCooldown(e).locks = NoLocks
           /\ NoteAuthFailure(e).locks \in {e.locks, NoLocks}
           /\ \A f \in {e, ReenableIfCredits(e), ClearSessionDead(e), ReviveDisabled(e),
                        NoteError(e), NoteFailures(e)} : f.locks = e.locks
           /\ \A b \in BOOLEAN : SetManualDisabled(e, b).locks = e.locks
<1>1. Disable(e).locks = NoLocks
  BY DEF Disable, ClearCooling, Account
<1>2. ForceClearCooldown(e).locks = NoLocks
  BY DEF ForceClearCooldown, ClearCooling, Account
<1>3. NoteAuthFailure(e).locks \in {e.locks, NoLocks}
  BY DEF NoteAuthFailure, Disable, ClearCooling, Account
<1> QED BY <1>1, <1>2, <1>3, StreakAndLocks

\* A step that answers no request leaves every running 6004 lock, unless it
\* disables the account.
LEMMA TendedStands ==
    ASSUME NEW e, Sound(e), Plain(e), NEW f, Tended(e, f)
    PROVE  /\ Plain(f)
           /\ f.disabled \/ \A m \in Models :
                  Locked(e, m) /\ e.locks[m].why = "rate" => f.locks[m] = e.locks[m]
<1>0. e \in Account /\ e.locks \in [Models -> Lock]
  BY DEF Sound, Account
<1>1. CASE f.locks = e.locks
  BY <1>1 DEF Plain
<1>2. CASE f = Prune(e)
  <2>1. f.locks = [m \in Models |-> PruneLock(e.locks[m])]
    BY <1>0, <1>2, StreakAndLocks
  <2>2. \A m \in Models : f.locks[m] = PruneLock(e.locks[m]) /\ e.locks[m] \in Lock
    BY <1>0, <2>1
  <2> QED BY <2>2, OneLock DEF Plain, Locked
<1>3. CASE f = Reload(e)
  <2>1. f.locks = [m \in Models |-> ReloadLock(e.locks[m])]
    BY <1>0, <1>3, StreakAndLocks
  <2>2. \A m \in Models : f.locks[m] = ReloadLock(e.locks[m]) /\ e.locks[m] \in Lock
    BY <1>0, <2>1
  <2> QED BY <2>2, OneLock DEF Plain, Locked
<1>4. ASSUME NEW k \in Models, f \in {ClearModelBlock(e, k), BlockModelClear(e, k)},
             f.locks # e.locks
      PROVE  /\ Plain(f)
             /\ \A m \in Models :
                  Locked(e, m) /\ e.locks[m].why = "rate" => f.locks[m] = e.locks[m]
  <2>1. e.locks[k].why = "gone" /\ f.locks = [e.locks EXCEPT ![k] = NoLock]
    BY <1>0, <1>4 DEF ClearModelBlock, BlockModelClear, Account
  <2>2. \A m \in Models : f.locks[m] = IF m = k THEN NoLock ELSE e.locks[m]
    BY <1>0, <2>1
  <2> QED BY <2>1, <2>2 DEF Plain, NoLock
<1>5. CASE f = NoteAuthFailure(e) /\ f.locks # e.locks
  <2>1. f.locks = NoLocks
    BY <1>0, <1>5, WholeAccount
  <2>2. f.disabled
    BY <1>0, <1>5, StrikeOnLocks
  <2> QED BY <2>1, <2>2 DEF Plain, NoLocks, NoLock
<1>6. \/ f.locks = e.locks \/ f = Prune(e) \/ f = Reload(e) \/ f = NoteAuthFailure(e)
      \/ \E k \in Models : f \in {ClearModelBlock(e, k), BlockModelClear(e, k)}
  <2>1. ASSUME f \in {e, ReenableIfCredits(e), ClearSessionDead(e), ReviveDisabled(e)}
        PROVE  f.locks = e.locks
    BY <1>0, <2>1, WholeAccount
  <2>2. \A b \in BOOLEAN : SetManualDisabled(e, b).locks = e.locks
    BY <1>0, WholeAccount
  <2> QED BY <2>1, <2>2 DEF Tended
<1> QED BY <1>1, <1>2, <1>3, <1>4, <1>5, <1>6

\* An answer leaves it too, unless it cools or disables the account or is the
\* model's own 6004 or 11102.
LEMMA AnswerStands ==
    ASSUME NEW e, Sound(e), Plain(e), NEW k \in Models, NEW f,
           \/ Served(e, f) \/ Cooled(e, f) \/ Struck(e, f) \/ CooledUntil(e, f)
           \/ BackedOff(e, f) \/ RateLocked(e, k, f) \/ GoneLocked(e, k, f)
    PROVE  /\ Plain(f)
           /\ RateLocked(e, k, f) \/ GoneLocked(e, k, f)
                => \A m \in Models : m # k => f.locks[m] = e.locks[m]
           /\ Served(e, f) \/ Cooled(e, f) \/ Struck(e, f)
              \/ CooledUntil(e, f) \/ BackedOff(e, f)
                => \/ f.disabled \/ f.until > 0
                   \/ \A m \in Models : Locked(e, m) /\ e.locks[m].why = "rate"
                          => f.locks[m] = e.locks[m]
<1>0. e \in Account /\ e.locks \in [Models -> Lock] /\ e.until \in Nat
  BY DEF Sound, Account
<1>1. ASSUME f.locks = NoLocks
      PROVE  Plain(f)
  BY <1>1 DEF Plain, NoLocks, NoLock
<1>2. CASE f.locks = e.locks
  BY <1>2 DEF Plain
<1>3. ASSUME RateLocked(e, k, f) \/ GoneLocked(e, k, f)
      PROVE  /\ Plain(f)
             /\ \A m \in Models : m # k => f.locks[m] = e.locks[m]
  <2>1. CASE RateLocked(e, k, f)
    <3>1. PICK reset \in Resets : f = RateLimitModel(e, k, reset)
      BY <2>1 DEF RateLocked
    <3>2. f.locks = [e.locks EXCEPT ![k] = [left |-> CappedSoftUntil(reset),
                                            why |-> "rate", hits |-> 0]]
      BY <1>0, <3>1 DEF RateLimitModel, Account
    <3>3. \A m \in Models : f.locks[m] = IF m = k THEN [left |-> CappedSoftUntil(reset),
                                            why |-> "rate", hits |-> 0] ELSE e.locks[m]
      BY <1>0, <3>2
    <3> QED BY <3>3 DEF Plain
  <2>2. CASE GoneLocked(e, k, f)
    <3> DEFINE hits == AtMost(e.locks[k].hits + 1, HitsCap)
               gone == [left |-> BlockFor(hits), why |-> "gone", hits |-> hits]
    <3>1. f.locks = [e.locks EXCEPT ![k] = gone]
      BY <1>0, <2>2 DEF GoneLocked, BlockModelBackoff, Account
    <3>2. gone.why = "gone"
      OBVIOUS
    <3> HIDE DEF gone
    <3>3. \A m \in Models : f.locks[m] = IF m = k THEN gone ELSE e.locks[m]
      BY <1>0, <3>1
    <3> QED BY <3>2, <3>3 DEF Plain
  <2> QED BY <1>3, <2>1, <2>2
<1>4. CASE Served(e, f)
  <2>1. f.locks = e.locks
    BY <1>0, <1>4, StreakAndLocks DEF Served
  <2> QED BY <1>2, <1>3, <2>1
<1>5. CASE Cooled(e, f)
  <2>1. PICK kind \in {"soft", "hard"}, d \in Nat \ {0} : f = Cooldown(e, kind, d)
    BY <1>5 DEF Cooled
  <2>2. f.locks = NoLocks /\ f.until > 0
    BY <1>0, <2>1 DEF Cooldown, Account
  <2> QED BY <1>1, <1>3, <2>2
<1>6. CASE CooledUntil(e, f)
  <2>1. PICK reset \in Resets : f = CooldownSoftUntil(e, reset)
    BY <1>6 DEF CooledUntil
  <2>2. reset \in Int /\ CappedSoftUntil(reset) \in Int /\ CappedSoftUntil(reset) > 0
    BY TrafficAssumption, PolicyAssumption DEF CappedSoftUntil
  <2>3. f.locks = NoLocks /\ f.until > 0
    BY <1>0, <2>1, <2>2 DEF CooldownSoftUntil, Account
  <2> QED BY <1>1, <1>3, <2>3
<1>7. CASE BackedOff(e, f)
  <2>1. PICK base \in Bases : f = CooldownSoftBackoff(e, base)
    BY <1>7 DEF BackedOff
  <2>2. f.locks = NoLocks
    BY <1>0, <2>1 DEF CooldownSoftBackoff, Account
  <2>3. f.until > 0
    BY <2>1, TrafficAssumption, BackoffCools
  <2> QED BY <1>1, <1>3, <2>2, <2>3
<1>8. CASE Struck(e, f) /\ f.locks # e.locks
  <2>1. f = Disable(e) \/ f = NoteAuthFailure(e)
    <3>1. ASSUME f \in {e, NoteError(e), NoteFailures(e)}
          PROVE  f.locks = e.locks
      BY <1>0, <3>1, WholeAccount
    <3> QED BY <1>8, <3>1 DEF Struck
  <2>2. f.locks = NoLocks
    BY <1>0, <1>8, <2>1, WholeAccount
  <2>3. f.disabled
    BY <1>0, <1>8, <2>1, StreakAndLocks, StrikeOnLocks
  <2> QED BY <1>1, <1>3, <2>2, <2>3
<1> QED BY <1>2, <1>3, <1>4, <1>5, <1>6, <1>7, <1>8

\* A 6004 lock counts no hits.
LEMMA NextPlain ==
    ASSUME Inv, \A a \in Accounts : Plain(acct[a]), [Next]_vars
    PROVE  \A a \in Accounts : Plain(acct'[a])
<1>1. SUFFICES ASSUME NEW a \in Accounts, Next
               PROVE  Plain(acct'[a])
  BY DEF vars
<1>2. Sound(acct[a]) /\ Plain(acct[a]) /\ acct[a].locks \in [Models -> Lock]
      /\ acct[a] \in Account
  BY <1>1 DEF Inv, Sound, Account
<1>3. CASE Tended(acct[a], acct'[a])
  BY <1>2, <1>3, TendedStands
<1>4. CASE AnswerTo(a, acct'[a])
  BY <1>2, <1>4, AnswerStands DEF AnswerTo
<1>5. CASE acct'[a] = Age(acct[a])
  <2>1. acct'[a].locks = [m \in Models |-> AgeLock(acct[a].locks[m])]
    BY <1>2, <1>5 DEF Age, Account
  <2>2. \A m \in Models : acct'[a].locks[m] = AgeLock(acct[a].locks[m])
                          /\ acct[a].locks[m] \in Lock
    BY <1>2, <2>1
  <2> QED BY <1>2, <2>2, OneLock DEF Plain
<1>6. CASE acct'[a] = ForceClearCooldown(acct[a])
  <2>1. acct'[a].locks = NoLocks
    BY <1>2, <1>6, WholeAccount
  <2> QED BY <2>1 DEF Plain, NoLocks, NoLock
<1> QED BY <1>1, <1>3, <1>4, <1>5, <1>6, WhatStepsDo

\* A 6004 lock stands until its reset time, whatever happens to other models and
\* other accounts (internal/pool/cooldown.go, CooldownModelRate).
THEOREM RateLocksStand == Spec => RateLockStands
<1> DEFINE AllPlain == \A a \in Accounts : Plain(acct[a])
<1>1. Init => AllPlain
  BY DEF Init, Fresh, Plain, NoLocks, NoLock
<1>2. Inv /\ AllPlain /\ [Next]_vars => AllPlain'
  BY NextPlain
<1>3. ASSUME Inv, AllPlain, Next, NEW a \in Accounts, NEW m \in Models,
             Locked(acct[a], m), acct[a].locks[m].why = "rate",
             acct'[a].locks[m] # acct[a].locks[m]
      PROVE  \/ Tick \/ ForceClear(a)
             \/ acct'[a].disabled \/ acct'[a].until > 0
             \/ \E r \in Requests : /\ flying[r] = <<a, m>>
                                    /\ ModelGone(r) \/ ModelRateLimited(r)
  <2>1. Sound(acct[a]) /\ Plain(acct[a])
    BY <1>3 DEF Inv
  <2>2. CASE Tended(acct[a], acct'[a])
    BY <1>3, <2>1, <2>2, TendedStands
  <2>3. CASE AnswerTo(a, acct'[a])
    <3>1. PICK r \in Requests, k \in Models :
             /\ flying[r] = <<a, k>>
             /\ \/ Served(acct[a], acct'[a]) \/ Cooled(acct[a], acct'[a])
                \/ Struck(acct[a], acct'[a]) \/ CooledUntil(acct[a], acct'[a])
                \/ BackedOff(acct[a], acct'[a])
                \/ ModelRateLimited(r) /\ RateLocked(acct[a], k, acct'[a])
                \/ ModelGone(r) /\ GoneLocked(acct[a], k, acct'[a])
      BY <2>3 DEF AnswerTo
    <3>2. CASE ModelRateLimited(r) \/ ModelGone(r)
      <4>1. CASE k = m
        BY <3>1, <3>2, <4>1
      <4>2. CASE k # m
        BY <1>3, <2>1, <3>1, <4>2, AnswerStands
      <4> QED BY <4>1, <4>2
    <3>3. CASE ~(ModelRateLimited(r) \/ ModelGone(r))
      <4>1. \/ Served(acct[a], acct'[a]) \/ Cooled(acct[a], acct'[a])
            \/ Struck(acct[a], acct'[a]) \/ CooledUntil(acct[a], acct'[a])
            \/ BackedOff(acct[a], acct'[a])
        BY <3>1, <3>3
      <4> QED BY <1>3, <2>1, <4>1, AnswerStands
    <3> QED BY <3>2, <3>3
  <2> QED BY <1>3, <2>2, <2>3, WhatStepsDo
<1>4. Inv /\ AllPlain /\ [Next]_vars =>
        [\A a \in Accounts, m \in Models :
            /\ Locked(acct[a], m) /\ acct[a].locks[m].why = "rate"
            /\ acct'[a].locks[m] # acct[a].locks[m]
            => \/ Tick \/ ForceClear(a)
               \/ acct'[a].disabled \/ acct'[a].until > 0
               \/ \E r \in Requests : /\ flying[r] = <<a, m>>
                                      /\ ModelGone(r) \/ ModelRateLimited(r)]_vars
  BY <1>3
<1>5. Spec => []AllPlain
  BY <1>1, <1>2, Invariance, PTL DEF Spec
<1> QED BY <1>4, <1>5, Invariance, PTL DEF Spec, RateLockStands
=============================================================================
