----------------------------- MODULE Semaphore -----------------------------
(***************************************************************************)
(* What an account's in-flight cap promises: a request is let in or turned *)
(* away in one step, by the number of holders at that moment and the cap   *)
(* that was in force when it asked (0: as many as come).                   *)
(***************************************************************************)
EXTENDS Naturals, FiniteSets

CONSTANTS Requests, Limits

VARIABLES
    limit,    \* the cap
    asking,   \* requests neither let in nor turned away yet
    cap,      \* request -> the cap when it asked
    holders

vars == <<limit, asking, cap, holders>>

Init ==
    /\ limit \in Limits
    /\ asking = {} /\ holders = {} /\ cap = [r \in Requests |-> 0]

Room(r) == cap[r] = 0 \/ Cardinality(holders) < cap[r]

Ask(r) ==
    /\ r \notin asking \cup holders
    /\ asking' = asking \cup {r}
    /\ cap' = [cap EXCEPT ![r] = limit]
    /\ UNCHANGED <<limit, holders>>

Answer(r) ==
    /\ r \in asking /\ asking' = asking \ {r}
    /\ holders' = IF Room(r) THEN holders \cup {r} ELSE holders
    /\ cap' = [cap EXCEPT ![r] = 0]
    /\ UNCHANGED limit

Release(r) ==
    /\ r \in holders /\ holders' = holders \ {r}
    /\ UNCHANGED <<limit, asking, cap>>

SetLimit(n) == limit' = n /\ UNCHANGED <<asking, cap, holders>>

Next ==
    \/ \E r \in Requests : Ask(r) \/ Answer(r) \/ Release(r)
    \/ \E n \in Limits : SetLimit(n)

Spec == Init /\ [][Next]_vars
=============================================================================
