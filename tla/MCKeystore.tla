------------------------------ MODULE MCKeystore ------------------------------
(* Keystore for TLC: the requests are interchangeable, and no property that *)
(* is checked with this symmetry is a liveness property.                    *)
EXTENDS Keystore, TLC

Interchangeable == Permutations(Requests)
=============================================================================
