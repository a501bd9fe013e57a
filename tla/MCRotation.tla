---------------------------- MODULE MCRotation ----------------------------
(***************************************************************************)
(* Rotation for TLC: requests are alike, and so are accounts.  A request   *)
(* that may be rewritten has the pool for itself, since two of them make   *)
(* too many states.                                                        *)
(***************************************************************************)
EXTENDS Rotation, TLC

Alike == Permutations(Requests) \cup Permutations(Accounts)

Flexible == {r \in Requests : req[r].flexible}
Begun == {r \in Requests : ~At(r, "begin")}

Small == Flexible = {} \/ (Flexible = Requests /\ Cardinality(Begun) <= 1)
=============================================================================
