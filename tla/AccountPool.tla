---------------------------- MODULE AccountPool ----------------------------
(***************************************************************************)
(* The accounts of the pool under concurrent traffic (internal/pool with   *)
(* applyErrorPolicy of internal/server/handler.go).                        *)
(*                                                                         *)
(* A request takes an account in one critical section and reports what the *)
(* upstream answered in another, or in two, so several answers for one     *)
(* account, and what the operator, the scheduler and the clock do, come in *)
(* any order.                                                              *)
(***************************************************************************)
EXTENDS Account, FiniteSets

CONSTANTS
    Accounts, Requests,
    Answers,          \* the kinds of answer the upstream gives
    Bases,            \* base durations of a soft cooling (soft_rate, WAF jitter)
    Resets,           \* reset times the upstream names, in ticks from now
    FixedCoolings,    \* durations of 404 and account-fault coolings
    CreditSettings,   \* values of cooldown.credit_exhausted; 0: until the next 04:00
    Day               \* ticks from one 04:00 to the next

ASSUME TrafficAssumption ==
    /\ Bases \subseteq Nat \ {0} /\ Resets \subseteq Int
    /\ FixedCoolings \subseteq Nat \ {0}
    /\ CreditSettings \subseteq Nat /\ Day \in Nat \ {0}

VARIABLES
    acct,    \* byUID
    flying,  \* request -> the account and model it was sent with
    owed,    \* request -> what it has yet to do to its account after the answer
    credit,  \* creditExhausted
    toFour,  \* ticks to the next 04:00
    healing  \* models a request has found blocked and is about to clear

vars == <<acct, flying, owed, credit, toFour, healing>>

Idle == <<>>

\* After a success the model's 11102 is cleared; after "no credit" the account is
\* cooled for what was read and worked out before.
Clear == [what |-> "clear", for |-> 0]
Nothing == [what |-> "nothing", for |-> 0]
Cool(kind, d) == [what |-> kind, for |-> d]

Init ==
    /\ acct = [a \in Accounts |-> Fresh]
    /\ flying = [r \in Requests |-> Idle]
    /\ owed = [r \in Requests |-> Nothing]
    /\ credit \in CreditSettings
    /\ toFour \in 1 .. Day
    /\ healing = {}

-----------------------------------------------------------------------------
\* Choosing an account.

\* The earliest deadline among candidates nobody healthy competes with.
Fallback(free, pool) ==
    {a \in free : /\ FallbackOK(pool[a])
                  /\ \A b \in free : FallbackOK(pool[b]) => Expiry(pool[a]) <= Expiry(pool[b])}

\* pick: stale locks are dropped, then any healthy account (weights abstracted),
\* else the fallback.  free: not tried by this request, not full, not held back
\* by the credit floor.
Pick(r, m) == \E free \in SUBSET Accounts :
    LET pool == [a \in Accounts |-> Prune(acct[a])]
        healthy == {a \in free : HealthyForModel(pool[a], m)}
    IN  /\ flying[r] = Idle
        /\ \E a \in IF healthy # {} THEN healthy ELSE Fallback(free, pool) :
               flying' = [flying EXCEPT ![r] = <<a, m>>]
        /\ acct' = pool
        /\ UNCHANGED <<owed, credit, toFour, healing>>

-----------------------------------------------------------------------------
\* The answer to request r leaves its account in state e.

Sent(r) == acct[flying[r][1]]
Model(r) == flying[r][2]

Answered(r, kind, e) ==
    /\ kind \in Answers /\ flying[r] # Idle /\ owed[r] = Nothing
    /\ acct' = [acct EXCEPT ![flying[r][1]] = e]
    /\ flying' = [flying EXCEPT ![r] = Idle]
    /\ UNCHANGED <<owed, credit, toFour, healing>>

\* The first of two critical sections, and the second.
Begun(r, kind, e, rest) ==
    /\ kind \in Answers /\ flying[r] # Idle /\ owed[r] = Nothing
    /\ acct' = [acct EXCEPT ![flying[r][1]] = e]
    /\ owed' = [owed EXCEPT ![r] = rest]
    /\ UNCHANGED <<flying, credit, toFour, healing>>

Ended(r, rest, e) ==
    /\ owed[r] = rest /\ rest # Nothing
    /\ acct' = [acct EXCEPT ![flying[r][1]] = e]
    /\ owed' = [owed EXCEPT ![r] = Nothing] /\ flying' = [flying EXCEPT ![r] = Idle]
    /\ UNCHANGED <<credit, toFour, healing>>

\* NoteSuccess, then BlockModelClear.
Succeed(r) == Begun(r, "ok", NoteSuccess(Sent(r)), Clear)
ClearModel(r) == Ended(r, Clear, BlockModelClear(Sent(r), Model(r)))

\* CooldownUntilTomorrow4AM reads the setting and the clock, then takes the lock again.
NoCredit(r) ==
    Begun(r, "no_credit", Sent(r),
          IF credit > 0 THEN Cool("soft", credit) ELSE Cool("hard", toFour))
CoolExhausted(r) == \E kind \in {"soft", "hard"} :
    Ended(r, Cool(kind, owed[r].for), Cooldown(Sent(r), kind, owed[r].for))

RateLimited(r) == \E base \in Bases :
    Answered(r, "rate", CooldownSoftBackoff(Sent(r), base))

RateLimitedUntil(r) == \E reset \in Resets :
    Answered(r, "rate_until", CooldownSoftUntil(Sent(r), reset))

ModelRateLimited(r) == \E reset \in Resets :
    Answered(r, "model_rate", RateLimitModel(Sent(r), Model(r), reset))

ModelGone(r) == Answered(r, "model_gone", BlockModelBackoff(Sent(r), Model(r)))

\* 404 and account faults.
Refused(r) == \E d \in FixedCoolings :
    Answered(r, "refused", Cooldown(Sent(r), "soft", d))

Banned(r) == Answered(r, "banned", Disable(Sent(r)))

AuthRejected(r) == Answered(r, "auth_rejected", NoteAuthFailure(Sent(r)))

ServerError(r) == Answered(r, "server_error", NoteError(Sent(r)))

\* Unknown 4xx and broken connections.
UnknownError(r) == Answered(r, "unknown", NoteFailures(Sent(r)))

\* The request was at fault, the upstream timed out or the client left.
NotTheAccount(r) == Answered(r, "not_account", Sent(r))

-----------------------------------------------------------------------------
\* The handler's self-heal, the scheduler and the operator.

Touch(a, e) == acct' = [acct EXCEPT ![a] = e] /\ UNCHANGED <<flying, owed, credit, toFour, healing>>

\* Every account in rotation is locked for m.
ModelBlockedNow(m) ==
    LET rotation == {a \in Accounts : ~acct[a].disabled /\ ~acct[a].manual}
    IN  rotation # {} /\ \A a \in rotation : Locked(acct[a], m)

\* No account is left for m and the lock that opens first is an 11102: the
\* handler will clear these locks, in a later critical section.
StartHeal(m) ==
    /\ "model_gone" \in Answers
    /\ ModelBlockedNow(m)
    /\ \E a \in Accounts :
          /\ ~acct[a].disabled /\ ~acct[a].manual /\ acct[a].locks[m].why = "gone"
          /\ \A b \in Accounts : ~acct[b].disabled /\ ~acct[b].manual
                                 => acct[a].locks[m].left <= acct[b].locks[m].left
    /\ healing' = healing \cup {m}
    /\ UNCHANGED <<acct, flying, owed, credit, toFour>>

\* ClearModelBlocksForRealm
SelfHeal(m) ==
    /\ m \in healing /\ healing' = healing \ {m}
    /\ acct' = [a \in Accounts |-> ClearModelBlock(acct[a], m)]
    /\ UNCHANGED <<flying, owed, credit, toFour>>

\* Check-in or a balance query found credit.
Refill(a) == Touch(a, ReenableIfCredits(acct[a]))

\* Token keepalive: refreshed, or rejected with 12153.
KeepaliveOk(a) == Touch(a, ClearSessionDead(acct[a]))
KeepaliveRejected(a) ==
    /\ "auth_rejected" \in Answers /\ ~acct[a].disabled
    /\ Touch(a, NoteAuthFailure(acct[a]))

Revive(a) == Touch(a, ReviveDisabled(acct[a]))
SetManual(a, b) == "manual" \in Answers /\ Touch(a, SetManualDisabled(acct[a], b))
ForceClear(a) == Touch(a, ForceClearCooldown(acct[a]))

Tick ==
    /\ acct' = [a \in Accounts |-> Age(acct[a])]
    /\ toFour' = IF toFour = 1 THEN Day ELSE toFour - 1
    /\ UNCHANGED <<flying, owed, credit, healing>>

\* The operator saves another setting while requests are under way.
SetCreditExhausted == /\ credit' \in CreditSettings
                      /\ UNCHANGED <<acct, flying, owed, toFour, healing>>

\* A clean stop and a start; requests are gone.
Restart ==
    /\ acct' = [a \in Accounts |-> Reload(acct[a])]
    /\ flying' = [r \in Requests |-> Idle] /\ owed' = [r \in Requests |-> Nothing]
    /\ healing' = {}
    /\ UNCHANGED <<credit, toFour>>

Next ==
    \/ \E r \in Requests :
          \/ \E m \in Models : Pick(r, m)
          \/ Succeed(r) \/ ClearModel(r) \/ NoCredit(r) \/ CoolExhausted(r)
          \/ RateLimited(r) \/ RateLimitedUntil(r)
          \/ ModelRateLimited(r) \/ ModelGone(r) \/ Refused(r) \/ Banned(r)
          \/ AuthRejected(r) \/ ServerError(r) \/ UnknownError(r) \/ NotTheAccount(r)
    \/ \E m \in Models : StartHeal(m) \/ SelfHeal(m)
    \/ \E a \in Accounts :
          \/ Refill(a) \/ KeepaliveOk(a) \/ KeepaliveRejected(a)
          \/ Revive(a) \/ ForceClear(a)
          \/ \E b \in BOOLEAN : SetManual(a, b)
    \/ SetCreditExhausted \/ Tick \/ Restart

Spec == Init /\ [][Next]_vars
-----------------------------------------------------------------------------
(***************************************************************************)
(* Properties.                                                             *)
(***************************************************************************)

TypeOK ==
    /\ acct \in [Accounts -> Account]
    /\ flying \in [Requests -> {Idle} \cup Accounts \X Models]
    /\ owed \in [Requests -> [what : {"nothing", "clear", "soft", "hard"}, for : Nat]]
    /\ credit \in CreditSettings
    /\ toFour \in 1 .. Day /\ healing \subseteq Models

\* Every deadline of f is at least as far as in e, or f is out altogether.
NotSooner(e, f) ==
    f.disabled \/ (f.until >= e.until /\ f.breaker >= e.breaker /\ f.degrade >= e.degrade)

\* Penalties never add up to less: apart from time, only a success, a refilled
\* balance or the operator brings an account back sooner, however late answers
\* of several requests, other accounts' answers and restarts are interleaved
\* (Cooldown and CooldownSoftRate take the longer deadline, NoteError doubles).
OnlyGoodNewsFrees ==
    [][\A a \in Accounts :
          \/ NotSooner(acct[a], acct'[a])
          \/ Tick \/ Refill(a) \/ ForceClear(a)
          \/ \E r \in Requests : flying[r] # Idle /\ flying[r][1] = a /\ Succeed(r)]_vars

\* Retries during a soft cooling do not pile it up: one cooling, one step of the
\* backoff, and a plain 429 moves no deadline that is running (the comment of
\* CooldownSoftRate tells of a pool pushed to the two-hour cap by its own probes).
OneBackoffPerCooling ==
    [][\A a \in Accounts : SoftActive(acct[a]) =>
          /\ acct'[a].streak <= acct[a].streak
          /\ (\E r \in Requests : flying[r] # Idle /\ flying[r][1] = a /\ RateLimited(r))
             => acct'[a].until = acct[a].until]_vars

\* A 6004 lock stands until its reset time whatever happens to other models and
\* other accounts: while it runs, only this model's 11102 or a step that takes or
\* frees the whole account removes it; no success, self-heal, refill or restart.
\* (reviveCoolingLocked keeps it over a refill, for the reason its comment gives,
\* transition.go:64-71.  The comments at state.go:208-210, state.go:358-359 and
\* transition.go:23-24 say that a refill clears modelCooldowns: the code does not.)
RateLockStands ==
    [][\A a \in Accounts, m \in Models :
          /\ Locked(acct[a], m) /\ acct[a].locks[m].why = "rate"
          /\ acct'[a].locks[m] # acct[a].locks[m]
          => \/ Tick \/ ForceClear(a)
             \/ acct'[a].disabled \/ acct'[a].until > 0
             \/ \E r \in Requests : /\ flying[r] = <<a, m>>
                                    /\ ModelGone(r) \/ ModelRateLimited(r)]_vars

\* An account that answered "no credit" is not offered by the fallback (violated).
ExhaustedLeavesFallback ==
    [][\A r \in Requests :
          CoolExhausted(r) /\ owed[r].what = "hard" => ~FallbackOK(acct'[flying[r][1]])]_vars
=============================================================================
