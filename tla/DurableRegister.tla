--------------------------- MODULE DurableRegister ---------------------------
(***************************************************************************)
(* What the account pool promises about its saved state, with no files, no *)
(* writers and no mirror: one value in memory, one durable value that only *)
(* moves forward towards it, and a crash that falls back to exactly the    *)
(* durable value.  Values are version numbers: every change of the pool    *)
(* makes a new, larger one.                                                *)
(***************************************************************************)
EXTENDS Naturals

VARIABLES
    val,     \* version in memory
    stable,  \* version a restart would bring back
    lost,    \* TRUE: the local file is gone, nothing is promised
    issued   \* largest version ever made

vars == <<val, stable, lost, issued>>

Init == val = 0 /\ stable = 0 /\ lost = TRUE /\ issued = 0

\* The pool changes in memory.
Change == issued' = issued + 1 /\ val' = issued + 1 /\ UNCHANGED <<stable, lost>>

\* Some version between the durable one and the one in memory becomes durable.
Persist == \E v \in stable .. val :
    stable' = v /\ lost' = FALSE /\ UNCHANGED <<val, issued>>

\* The machine comes back without its file.
LoseFile == lost' = TRUE /\ UNCHANGED <<val, stable, issued>>

\* The process died and starts again: exactly the durable version comes back,
\* another one only if the file was lost.
Recover == \E v \in 0 .. issued :
    /\ v # stable => lost
    /\ val' = v /\ stable' = v
    /\ UNCHANGED <<lost, issued>>

Next == Change \/ Persist \/ LoseFile \/ Recover

Spec == Init /\ [][Next]_vars
==============================================================================
