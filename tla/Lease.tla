------------------------------- MODULE Lease -------------------------------
(***************************************************************************)
(* The in-flight counter of one account (internal/pool/pool.go): Acquire   *)
(* and Release look the account up under the pool's lock, leave the lock   *)
(* and then change the entry's atomic counter in a compare-and-swap loop.  *)
(*                                                                         *)
(* The account can be removed and added again meanwhile, which makes a new *)
(* entry with a new counter.  An entry nobody points to any more may be    *)
(* used again for the next one.                                            *)
(***************************************************************************)
EXTENDS Naturals, FiniteSets

CONSTANTS
    Requests,
    Limits,      \* caps the operator configures; 0: no cap
    Entries,     \* entries the account has in the course of time
    None

ASSUME LeaseAssumption ==
    /\ Limits \subseteq Nat /\ IsFiniteSet(Requests)
    /\ None \notin Entries /\ Entries # {}

VARIABLES
    limit,     \* maxInFlight
    entry,     \* the account's entry in byUID, or None
    stays,     \* TRUE: the account is never removed
    inFlight,  \* entry -> inFlight
    pc,        \* request -> where it is
    at,        \* request -> the entry it looked up, while it needs it
    cap,       \* request -> the cap it read in the same critical section
    seen       \* request -> the value the loop has loaded

vars == <<limit, entry, stays, inFlight, pc, at, cap, seen>>

Init ==
    /\ limit \in Limits
    /\ entry \in Entries /\ stays \in BOOLEAN
    /\ inFlight = [e \in Entries |-> 0]
    /\ pc = [r \in Requests |-> "idle"]
    /\ at = [r \in Requests |-> None]
    /\ cap = [r \in Requests |-> 0]
    /\ seen = [r \in Requests |-> 0]

Go(r, from, to) ==
    /\ pc[r] = from /\ pc' = [pc EXCEPT ![r] = to]
    /\ UNCHANGED <<limit, entry, stays>>

\* The loop is left; r forgets what it looked up.
Leave(r, from, to) ==
    /\ Go(r, from, to)
    /\ at' = [at EXCEPT ![r] = None] /\ cap' = [cap EXCEPT ![r] = 0]
    /\ seen' = [seen EXCEPT ![r] = 0]

-----------------------------------------------------------------------------
(***************************************************************************)
(* Acquire.                                                                *)
(***************************************************************************)

AcquireLookup(r) ==
    /\ Go(r, "idle", "acquire") /\ entry # None
    /\ at' = [at EXCEPT ![r] = entry] /\ cap' = [cap EXCEPT ![r] = limit]
    /\ UNCHANGED <<inFlight, seen>>

\* No cap: the counter goes up without a check.
AcquireUnlimited(r) ==
    /\ cap[r] = 0
    /\ Leave(r, "acquire", "held")
    /\ inFlight' = [inFlight EXCEPT ![at[r]] = @ + 1]

AcquireLoad(r) ==
    /\ Go(r, "acquire", "acquireCAS")
    /\ cap[r] > 0 /\ inFlight[at[r]] < cap[r]
    /\ seen' = [seen EXCEPT ![r] = inFlight[at[r]]]
    /\ UNCHANGED <<inFlight, at, cap>>

AcquireFull(r) ==
    /\ Leave(r, "acquire", "idle")
    /\ cap[r] > 0 /\ inFlight[at[r]] >= cap[r]
    /\ UNCHANGED inFlight

MutAcquireCAS(r) ==
    /\ Leave(r, "acquireCAS", "held")
    /\ inFlight' = [inFlight EXCEPT ![at[r]] = @ + 1]
MutAcquireStore(r) ==
    /\ Leave(r, "acquireCAS", "held")
    /\ inFlight' = [inFlight EXCEPT ![at[r]] = seen[r] + 1]
AcquireCAS(r) ==
    /\ Leave(r, "acquireCAS", "held")
    /\ inFlight[at[r]] = seen[r]
    /\ inFlight' = [inFlight EXCEPT ![at[r]] = seen[r] + 1]

AcquireAgain(r) ==
    /\ Go(r, "acquireCAS", "acquire")
    /\ inFlight[at[r]] # seen[r]
    /\ UNCHANGED <<inFlight, at, cap, seen>>

-----------------------------------------------------------------------------
(***************************************************************************)
(* Release: the account is looked up anew.                                 *)
(***************************************************************************)

ReleaseLookup(r) ==
    /\ entry # None
    /\ Go(r, "held", "release")
    /\ at' = [at EXCEPT ![r] = entry]
    /\ UNCHANGED <<inFlight, cap, seen>>

ReleaseGone(r) ==
    /\ entry = None
    /\ Leave(r, "held", "idle")
    /\ UNCHANGED inFlight

ReleaseLoad(r) ==
    /\ Go(r, "release", "releaseCAS")
    /\ inFlight[at[r]] > 0
    /\ seen' = [seen EXCEPT ![r] = inFlight[at[r]]]
    /\ UNCHANGED <<inFlight, at, cap>>

MutReleaseZero(r) ==
    /\ Leave(r, "release", "idle")
    /\ inFlight[at[r]] = 0
    /\ inFlight' = [inFlight EXCEPT ![at[r]] = @ - 1]
ReleaseZero(r) ==
    /\ Leave(r, "release", "idle")
    /\ inFlight[at[r]] = 0
    /\ UNCHANGED inFlight

ReleaseCAS(r) ==
    /\ Leave(r, "releaseCAS", "idle")
    /\ inFlight[at[r]] = seen[r]
    /\ inFlight' = [inFlight EXCEPT ![at[r]] = seen[r] - 1]

MutReleaseAgain(r) ==
    /\ Leave(r, "releaseCAS", "idle")
    /\ inFlight[at[r]] # seen[r]
    /\ UNCHANGED inFlight
ReleaseAgain(r) ==
    /\ Go(r, "releaseCAS", "release")
    /\ inFlight[at[r]] # seen[r]
    /\ UNCHANGED <<inFlight, at, cap, seen>>

-----------------------------------------------------------------------------
(***************************************************************************)
(* Remove, and Add or SyncToDir of an account that is not there.           *)
(***************************************************************************)

Remove ==
    /\ ~stays /\ entry # None /\ entry' = None
    /\ UNCHANGED <<limit, stays, inFlight, pc, at, cap, seen>>

Add ==
    /\ entry = None
    /\ \E e \in Entries \ {at[r] : r \in Requests} :
          entry' = e /\ inFlight' = [inFlight EXCEPT ![e] = 0]
    /\ UNCHANGED <<limit, stays, pc, at, cap, seen>>

\* The panel saves a new configuration.
SetMaxInFlight(n) ==
    /\ limit' = n
    /\ UNCHANGED <<entry, stays, inFlight, pc, at, cap, seen>>

Next ==
    \/ \E r \in Requests :
          \/ AcquireLookup(r) \/ AcquireUnlimited(r) \/ AcquireLoad(r)
          \/ AcquireFull(r) \/ AcquireCAS(r) \/ AcquireAgain(r)
          \/ ReleaseLookup(r) \/ ReleaseGone(r) \/ ReleaseLoad(r)
          \/ ReleaseZero(r) \/ ReleaseCAS(r) \/ ReleaseAgain(r)
    \/ Remove \/ Add
    \/ \E n \in Limits : SetMaxInFlight(n)

Spec == Init /\ [][Next]_vars
-----------------------------------------------------------------------------
(***************************************************************************)
(* Properties.                                                             *)
(***************************************************************************)

States == {"idle", "acquire", "acquireCAS", "held", "release", "releaseCAS"}

TypeOK ==
    /\ limit \in Limits
    /\ entry \in Entries \cup {None} /\ stays \in BOOLEAN
    /\ inFlight \in [Entries -> Nat]
    /\ pc \in [Requests -> States]
    /\ at \in [Requests -> Entries \cup {None}]
    /\ cap \in [Requests -> Nat]
    /\ seen \in [Requests -> Nat]

Askers == {r \in Requests : pc[r] \in {"acquire", "acquireCAS"}}

\* Requests that have the account and have not given it back.
Holders == {r \in Requests : pc[r] \in {"held", "release", "releaseCAS"}}

\* Nothing leaks: once every request has given the account back, and none is on
\* its way, the counter of the entry in the pool is zero, so that a removal and
\* a new login never leave an account looking busy for good.
NothingLeaks ==
    entry # None /\ (\A r \in Requests : pc[r] = "idle") => inFlight[entry] = 0

\* Nobody is let in above the cap that was in force when he asked, however the
\* loops interleave and whatever happens to the account and to the cap meanwhile.
AdmittedInCap ==
    [][\A r \in Requests : r \in Askers /\ r \in Holders' /\ cap[r] > 0
          => inFlight'[at[r]] <= cap[r]]_vars

\* While the account stays in the pool, the compare-and-swap loops amount to a
\* semaphore: no holder above the cap, no refusal while there is room, no
\* release lost or doubled.  (Nothing is promised of an account that is removed.)
Semaphore == INSTANCE Semaphore WITH
    asking  <- IF stays THEN Askers ELSE {},
    holders <- IF stays THEN Holders ELSE {},
    cap     <- IF stays THEN cap ELSE [r \in Requests |-> 0]

IsSemaphore == Semaphore!Spec
=============================================================================
