---------------------------- MODULE ModelLedger ----------------------------
(***************************************************************************)
(* The count of requests in flight per model, kept beside an account's     *)
(* in-flight counter (internal/pool/entry.go, acquireModel and             *)
(* releaseModel; pool.go, AcquireModel and ReleaseModel).                  *)
(*                                                                         *)
(* One model's row of the map inFlightByModel: the map is changed under a  *)
(* mutex, the counter the row points to is changed outside it.  A row that *)
(* falls to zero is deleted.                                               *)
(***************************************************************************)
EXTENDS Naturals, FiniteSets

CONSTANTS
    Requests,
    Counters,   \* atomic counters; one nobody points to may be used again
    None

VARIABLES
    row,     \* the counter in the map, or None
    count,   \* counter -> value
    pc, at   \* request -> where it is, and the counter it got from the map

vars == <<row, count, pc, at>>

Init ==
    /\ row = None
    /\ count = [c \in Counters |-> 0]
    /\ pc = [r \in Requests |-> "idle"]
    /\ at = [r \in Requests |-> None]

Go(r, from, to) == pc[r] = from /\ pc' = [pc EXCEPT ![r] = to]
Leave(r, from, to) == Go(r, from, to) /\ at' = [at EXCEPT ![r] = None]

\* acquireModel under the mutex: find the row or make one.
FindOrCreate(r) ==
    /\ Go(r, "idle", "add")
    /\ \/ /\ row # None
          /\ at' = [at EXCEPT ![r] = row]
          /\ UNCHANGED <<row, count>>
       \/ /\ row = None
          /\ \E c \in Counters \ {at[q] : q \in Requests} :
                /\ row' = c /\ at' = [at EXCEPT ![r] = c]
                /\ count' = [count EXCEPT ![c] = 0]

\* acquireModel after the mutex.
AddOne(r) ==
    /\ Leave(r, "add", "held")
    /\ count' = [count EXCEPT ![at[r]] = @ + 1]
    /\ UNCHANGED row

\* releaseModel under the mutex; no row, nothing to do.
Find(r) ==
    /\ row # None
    /\ Go(r, "held", "take")
    /\ at' = [at EXCEPT ![r] = row]
    /\ UNCHANGED <<row, count>>

FindNothing(r) ==
    /\ row = None
    /\ Leave(r, "held", "idle")
    /\ UNCHANGED <<row, count>>

\* releaseModel after the mutex: the loop ends with one compare-and-swap, or at
\* once when the counter is zero.
MutTakeOne(r) ==
    /\ Leave(r, "take", "idle") /\ count[at[r]] = 1
    /\ count' = [count EXCEPT ![at[r]] = 0]
    /\ UNCHANGED row
TakeOne(r) ==
    /\ Go(r, "take", "drop") /\ count[at[r]] = 1
    /\ count' = [count EXCEPT ![at[r]] = 0]
    /\ UNCHANGED <<row, at>>

MutTakeOfMany(r) ==
    /\ Leave(r, "take", "idle") /\ count[at[r]] > 1
    /\ UNCHANGED <<row, count>>
TakeOfMany(r) ==
    /\ Leave(r, "take", "idle") /\ count[at[r]] > 1
    /\ count' = [count EXCEPT ![at[r]] = @ - 1]
    /\ UNCHANGED row

MutTakeNothing(r) ==
    /\ Leave(r, "take", "idle") /\ count[at[r]] = 0
    /\ count' = [count EXCEPT ![at[r]] = @ - 1]
    /\ UNCHANGED row
TakeNothing(r) ==
    /\ Leave(r, "take", "idle") /\ count[at[r]] = 0
    /\ UNCHANGED <<row, count>>

\* The one that took the last looks again under the mutex and deletes the row.
Drop(r) ==
    /\ Leave(r, "drop", "idle")
    /\ row' = IF row # None /\ count[row] = 0 THEN None ELSE row
    /\ UNCHANGED count

Next ==
    \E r \in Requests :
        \/ FindOrCreate(r) \/ AddOne(r) \/ Find(r) \/ FindNothing(r)
        \/ TakeOne(r) \/ TakeOfMany(r) \/ TakeNothing(r) \/ Drop(r)

Spec == Init /\ [][Next]_vars
-----------------------------------------------------------------------------
(***************************************************************************)
(* Properties.                                                             *)
(***************************************************************************)

TypeOK ==
    /\ row \in Counters \cup {None}
    /\ count \in [Counters -> Nat]
    /\ pc \in [Requests -> {"idle", "add", "held", "take", "drop"}]
    /\ at \in [Requests -> Counters \cup {None}]

Holders == {r \in Requests : pc[r] \in {"held", "take"}}
Shown == IF row = None THEN 0 ELSE count[row]

\* The panel never shows more requests for a model than there are.
NeverTooMany == Shown <= Cardinality(Holders)

\* Once every request is over the model has no row: none is stuck with a count.
RowsGoAway == (\A r \in Requests : pc[r] = "idle") => row = None
=============================================================================
