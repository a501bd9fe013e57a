------------------------------ MODULE Session ------------------------------
(***************************************************************************)
(* Sticky sessions (internal/session/session.go), their mirror in Redis    *)
(* (internal/redisstore/redisstore.go) and what a request does with them   *)
(* (internal/server/handler.go).                                           *)
(*                                                                         *)
(* The router's map changes under a lock; most of its mirror writes are    *)
(* handed over after the unlock, each to a goroutine of its own, and land  *)
(* in any order or not at all.                                             *)
(***************************************************************************)
EXTENDS Naturals, FiniteSets, Bags

CONSTANTS
    Requests, Keys, Accounts, None,
    Asked,       \* keys clients use
    Left,        \* keys an earlier run may have left in Redis
    TTL,         \* ticks a binding lives without use
    MaxEntries,  \* maxEntries
    MaxWrites,   \* bound on mirror writes under way
    Lossy        \* whether Redis fails writes, or the process stops before they land

ASSUME SessionAssumption ==
    /\ None \notin Accounts \cup Keys /\ IsFiniteSet(Keys) /\ Asked \cup Left \subseteq Keys
    /\ TTL \in Nat /\ MaxEntries \in Nat \ {0} /\ MaxWrites \in Nat \ {0}
    /\ Lossy \in BOOLEAN

VARIABLES
    bound, age,     \* entries: key -> account or None, and ticks since lastActive
    usable,         \* AvailableForModel
    mirror,         \* bind:* in Redis
    writes,         \* bag of mirror writes handed to goWrite
    pc, key, uid,   \* request -> where it is, its stickyKey and stickyUID
    seen,           \* request -> the usable accounts its fast path has read
    owed,           \* request -> mirror writes it makes once the lock is free
    sweep           \* expired keys the collector has still to delete in Redis

request == <<pc, key, uid, seen, owed>>
vars == <<bound, age, usable, mirror, writes, request, sweep>>

Set(k, u) == [key |-> k, uid |-> u]
Del(k)    == [key |-> k, uid |-> None]
Write     == [key : Keys, uid : Accounts \cup {None}]

\* LoadFromStore; a scan that is cut short returns some of the keys.
Loaded(read) == [k \in Keys |-> IF k \in read THEN mirror[k] ELSE None]

Init ==
    /\ usable = Accounts
    /\ mirror \in {m \in [Keys -> Accounts \cup {None}] : \A k \in Keys \ Left : m[k] = None}
    /\ \E read \in SUBSET Keys : bound = Loaded(read)
    /\ age = [k \in Keys |-> 0]
    /\ writes = EmptyBag /\ sweep = {}
    /\ pc = [r \in Requests |-> "idle"]
    /\ key = [r \in Requests |-> None] /\ uid = [r \in Requests |-> None]
    /\ seen = [r \in Requests |-> {}] /\ owed = [r \in Requests |-> {}]

Expired(k) == age[k] > TTL
Live(k) == bound[k] # None /\ ~Expired(k)

Go(r, from, to) ==
    /\ pc[r] = from /\ owed[r] = {}
    /\ pc' = [pc EXCEPT ![r] = to]
GotUid(r, u) == uid' = [uid EXCEPT ![r] = u]

\* goWrite
Submit(ws) ==
    /\ BagCardinality(writes) + Cardinality(ws) <= MaxWrites
    /\ writes' = writes (+) SetToBag(ws)
Owe(r, ws) == owed' = [owed EXCEPT ![r] = ws]

\* Replace the binding of k; an account that is bound has just been active.
Store(k, u) ==
    /\ bound' = [bound EXCEPT ![k] = u]
    /\ age' = [age EXCEPT ![k] = 0]

-----------------------------------------------------------------------------
\* ResolveForModel.

\* Fast path: the entry is read under the read lock ...
Lookup(r, k) ==
    /\ Go(r, "idle", IF Live(k) THEN "check" ELSE "slow")
    /\ key' = [key EXCEPT ![r] = k]
    /\ GotUid(r, IF Live(k) THEN bound[k] ELSE None)
    /\ UNCHANGED <<bound, age, usable, mirror, writes, seen, owed, sweep>>

\* ... then the pool is asked, without the router's lock ...
CheckUsable(r) ==
    /\ Go(r, "check", IF uid[r] \in usable THEN "touch" ELSE "stale")
    /\ seen' = [seen EXCEPT ![r] = IF uid[r] \in usable THEN {} ELSE usable]
    /\ UNCHANGED <<bound, age, usable, mirror, writes, key, uid, owed, sweep>>

\* ... and the entry is touched if it still names that account.
MutTouch(r) ==
    /\ Go(r, "touch", "serve")
    /\ Store(key[r], uid[r]) /\ Owe(r, {Set(key[r], uid[r])})
    /\ UNCHANGED <<usable, mirror, writes, key, uid, seen, sweep>>
Touch(r) ==
    /\ Go(r, "touch", "serve")
    /\ IF bound[key[r]] = uid[r]
       THEN Store(key[r], uid[r]) /\ Owe(r, {Set(key[r], uid[r])})
       ELSE UNCHANGED <<bound, age, owed>>
    /\ UNCHANGED <<usable, mirror, writes, key, uid, seen, sweep>>

\* Slow path, in one critical section, with its mirror writes.  The accounts the
\* fast path has read, if it has, are not read again for the second look.
Still(r) ==
    /\ Live(key[r])
    /\ bound[key[r]] \in IF pc[r] = "stale" THEN seen[r] ELSE usable

Decide(r, u) ==
    /\ owed[r] = {}
    /\ pc' = [pc EXCEPT ![r] = "serve"]
    /\ GotUid(r, u) /\ seen' = [seen EXCEPT ![r] = {}]
    /\ UNCHANGED <<usable, mirror, key, owed, sweep>>

\* Somebody else has bound the session meanwhile.
Rejoin(r) ==
    /\ pc[r] \in {"slow", "stale"} /\ Still(r)
    /\ Decide(r, bound[key[r]])
    /\ Store(key[r], bound[key[r]])
    /\ UNCHANGED writes

\* An account is chosen (hash, order of balances or draw).  A live entry has been
\* deleted by then, so only an expired one counts as the previous binding.
Choose(r, u) ==
    LET k == key[r]
    IN  /\ Decide(r, u) /\ u \in usable
        /\ Store(k, u)
        /\ Submit({Set(k, u)} \cup
                  (IF bound[k] # None /\ Expired(k) /\ bound[k] # u THEN {Del(k)} ELSE {}))
MutAllocate(r) ==
    /\ pc[r] \in {"slow", "stale"}
    /\ \E u \in usable : Choose(r, u)
Allocate(r) ==
    /\ pc[r] \in {"slow", "stale"} /\ ~Still(r)
    /\ \E u \in usable : Choose(r, u)

\* Nothing to choose from: the live entry goes, its mirror stays.
NoAccount(r) ==
    /\ pc[r] \in {"slow", "stale"} /\ ~Still(r) /\ usable = {}
    /\ Decide(r, None)
    /\ IF Live(key[r]) THEN Store(key[r], None) ELSE UNCHANGED <<bound, age>>
    /\ UNCHANGED writes

-----------------------------------------------------------------------------
\* The request, in the handler.

\* The sticky account cannot be picked or acquired, or it failed: Unbind.
MutUnbind(r) ==
    /\ Go(r, "serve", "serve") /\ uid[r] # None /\ GotUid(r, None)
    /\ Store(key[r], None) /\ Owe(r, {Del(uid[r])})
    /\ UNCHANGED <<usable, mirror, writes, key, seen, sweep>>
Unbind(r) ==
    /\ Go(r, "serve", "serve") /\ uid[r] # None /\ GotUid(r, None)
    /\ IF bound[key[r]] # None
       THEN Store(key[r], None) /\ Owe(r, {Del(key[r])})
       ELSE UNCHANGED <<bound, age, owed>>
    /\ UNCHANGED <<usable, mirror, writes, key, seen, sweep>>

\* Keys Bind may evict: the oldest, once a new key meets a full map.
Count == Cardinality({k \in Keys : bound[k] # None})
Oldest == {k \in Keys : bound[k] # None /\ \A j \in Keys : bound[j] # None => age[j] <= age[k]}

\* Success on the sticky account, or on any once it is unbound: Bind.
MutSucceed(r) ==
    LET k == key[r]
    IN  /\ Go(r, "serve", "idle")
        /\ \E u \in IF uid[r] = None THEN Accounts ELSE {uid[r]} :
              Store(k, u) /\ Owe(r, {Set(k, u)})
        /\ GotUid(r, None)
        /\ UNCHANGED <<usable, mirror, writes, key, seen, sweep>>
Succeed(r) ==
    LET k == key[r]
    IN  /\ Go(r, "serve", "idle")
        /\ \E u \in IF uid[r] = None THEN Accounts ELSE {uid[r]} :
              \/ /\ bound[k] # None \/ Count < MaxEntries
                 /\ Store(k, u) /\ Owe(r, {Set(k, u)})
              \/ /\ bound[k] = None /\ Count >= MaxEntries
                 /\ \E old \in Oldest :
                       /\ bound' = [bound EXCEPT ![old] = None, ![k] = u]
                       /\ age' = [age EXCEPT ![old] = 0, ![k] = 0]
                       /\ Owe(r, {Set(k, u), Del(old)})
        /\ GotUid(r, None)
        /\ UNCHANGED <<usable, mirror, writes, key, seen, sweep>>

\* The request ends otherwise: timeout, rejected content, broken stream.
GiveUp(r) ==
    /\ Go(r, "serve", "idle") /\ GotUid(r, None)
    /\ UNCHANGED <<bound, age, usable, mirror, writes, key, seen, owed, sweep>>

\* SetBind and DelBind after the unlock.
MirrorOwed(r) ==
    /\ owed[r] # {} /\ Submit(owed[r]) /\ Owe(r, {})
    /\ UNCHANGED <<bound, age, usable, mirror, pc, key, uid, seen, sweep>>

-----------------------------------------------------------------------------
\* The collector, the pool, the clock, Redis, and a restart.

\* gcOnce: the map first, Redis after the unlock.
Collect ==
    /\ sweep = {}
    /\ sweep' = {k \in Keys : bound[k] # None /\ Expired(k)} /\ sweep' # {}
    /\ bound' = [k \in Keys |-> IF k \in sweep' THEN None ELSE bound[k]]
    /\ age' = [k \in Keys |-> IF k \in sweep' THEN 0 ELSE age[k]]
    /\ UNCHANGED <<usable, mirror, writes, request>>
MirrorSweep ==
    /\ sweep # {} /\ sweep' = {}
    /\ Submit({Del(k) : k \in sweep})
    /\ UNCHANGED <<bound, age, usable, mirror, request>>

PoolChanges ==
    /\ usable' \in SUBSET Accounts
    /\ UNCHANGED <<bound, age, mirror, writes, request, sweep>>

Tick ==
    /\ age' = [k \in Keys |-> IF bound[k] # None /\ ~Expired(k) THEN age[k] + 1 ELSE age[k]]
    /\ UNCHANGED <<bound, usable, mirror, writes, request, sweep>>

Land(w) ==
    /\ BagIn(w, writes) /\ writes' = writes (-) SetToBag({w})
    /\ mirror' = [mirror EXCEPT ![w.key] = w.uid]
    /\ UNCHANGED <<bound, age, usable, request, sweep>>
Lose(w) ==
    /\ Lossy /\ BagIn(w, writes) /\ writes' = writes (-) SetToBag({w})
    /\ UNCHANGED <<bound, age, usable, mirror, request, sweep>>

\* The process stops, with or without its last writes, and starts again.
Restart ==
    /\ Lossy \/ writes = EmptyBag
    /\ \E read \in SUBSET Keys : bound' = Loaded(read)
    /\ age' = [k \in Keys |-> 0]
    /\ writes' = EmptyBag /\ sweep' = {}
    /\ pc' = [r \in Requests |-> "idle"]
    /\ key' = [r \in Requests |-> None] /\ uid' = [r \in Requests |-> None]
    /\ seen' = [r \in Requests |-> {}] /\ owed' = [r \in Requests |-> {}]
    /\ UNCHANGED <<usable, mirror>>

Next ==
    \/ \E r \in Requests :
          \/ \E k \in Asked : Lookup(r, k)
          \/ CheckUsable(r) \/ Touch(r) \/ Rejoin(r) \/ Allocate(r) \/ NoAccount(r)
          \/ Unbind(r) \/ Succeed(r) \/ GiveUp(r) \/ MirrorOwed(r)
    \/ Collect \/ MirrorSweep \/ PoolChanges \/ Tick \/ Restart
    \/ \E w \in Write : Land(w) \/ Lose(w)

Spec == Init /\ [][Next]_vars
-----------------------------------------------------------------------------
(***************************************************************************)
(* Properties.                                                             *)
(***************************************************************************)

TypeOK ==
    /\ bound \in [Keys -> Accounts \cup {None}]
    /\ age \in [Keys -> 0 .. TTL + 1]
    /\ usable \subseteq Accounts
    /\ mirror \in [Keys -> Accounts \cup {None}]
    /\ IsABag(writes) /\ BagToSet(writes) \subseteq Write
    /\ pc \in [Requests -> {"idle", "check", "touch", "slow", "stale", "serve"}]
    /\ key \in [Requests -> Keys \cup {None}]
    /\ uid \in [Requests -> Accounts \cup {None}]
    /\ seen \in [Requests -> SUBSET Accounts]
    /\ owed \in [Requests -> SUBSET Write]
    /\ sweep \subseteq Keys

Rebound(k) == bound'[k] \notin {bound[k], None}

\* A session is never sent back to an account that has failed it: only a success
\* there, an allocation that finds the account usable or a restart binds one (the
\* comment of touch: an unconditional write would bring the old binding back).
NoResurrection ==
    [][\A k \in Keys : Rebound(k) =>
          bound'[k] \in usable \/ Restart \/ \E r \in Requests : Succeed(r)]_vars

\* Requests of one session that arrive together share its account: a live binding
\* to a usable account is only replaced by a success on another account, or by a
\* request that read the pool before that account became usable.
AffinityKept ==
    [][\A k \in Keys : Live(k) /\ bound[k] \in usable /\ Rebound(k) =>
          \/ Restart
          \/ \E r \in Requests :
                Succeed(r) \/ (Allocate(r) /\ key[r] = k /\ pc[r] = "stale"
                                           /\ bound[k] \notin seen[r])]_vars

\* A success never makes an overfull map fuller: a session bound for the first
\* time takes the place of the one idle for longest.
BindNeverOverfills ==
    [][\A r \in Requests : Succeed(r) /\ Count >= MaxEntries => Count' <= Count]_vars

\* The map holds one entry more than its limit at most (violated: an allocation
\* never evicts, and the Bind that follows finds its key there).
CapHolds == Count <= MaxEntries + 1
=============================================================================
