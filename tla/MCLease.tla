------------------------------ MODULE MCLease ------------------------------
(***************************************************************************)
(* Lease and ModelLedger for TLC, one or the other: the two counts that    *)
(* requests change beside an account, the account's own and a model's.     *)
(* Neither reads the other, so nothing is lost by checking each alone.     *)
(* Requests are alike, and so are the account's entries; a model's row has *)
(* one request and one counter more.                                       *)
(***************************************************************************)
EXTENDS Lease, TLC

CONSTANTS
    OneMore,         \* a request
    OneMoreCounter   \* a counter

VARIABLES
    part,                       \* which of the two moves
    row, count, where, pointed  \* the variables of ModelLedger

Ledger == INSTANCE ModelLedger WITH
    Requests <- Requests \cup {OneMore}, Counters <- Entries \cup {OneMoreCounter},
    pc <- where, at <- pointed

ASSUME LedgerAssumption == None \notin Entries \cup {OneMoreCounter}

\* An account nobody has asked for, and that is gone.
Quiet ==
    /\ limit = 0 /\ entry = None /\ stays = FALSE
    /\ inFlight = [e \in Entries |-> 0]
    /\ pc = [r \in Requests |-> "idle"] /\ at = [r \in Requests |-> None]
    /\ cap = [r \in Requests |-> 0] /\ seen = [r \in Requests |-> 0]

MCInit ==
    /\ Ledger!Init
    /\ (part = "lease" /\ Init) \/ (part = "ledger" /\ Quiet)

LeaseMoves == part = "lease" /\ Next /\ UNCHANGED <<row, count, where, pointed>>
LedgerMoves == part = "ledger" /\ Ledger!Next /\ UNCHANGED vars

MCSpec == MCInit /\ [][(LeaseMoves \/ LedgerMoves) /\ part' = part]_<<vars, part, row, count, where, pointed>>

\* ModelLedger's types: above all, no count falls below zero.
LedgerTypeOK == Ledger!TypeOK

\* The panel never shows more requests for a model than there are.
NeverTooMany == Ledger!NeverTooMany

\* Once every request is over the model has no row: none is stuck with a count.
RowsGoAway == Ledger!RowsGoAway

Alike == Permutations(Requests) \cup Permutations(Entries)
=============================================================================
