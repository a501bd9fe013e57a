----------------------------- MODULE MCSession -----------------------------
(***************************************************************************)
(* Session for TLC: requests and accounts are alike.                       *)
(***************************************************************************)
EXTENDS Session

Alike == Permutations(Requests) \cup Permutations(Accounts)
=============================================================================
