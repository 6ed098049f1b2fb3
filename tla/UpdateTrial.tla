---------------------------- MODULE UpdateTrial ----------------------------
(***************************************************************************)
(* What the update manager promises, without its files: one executable is  *)
(* confirmed, at most one other is on trial, and a trial ends by being     *)
(* confirmed or undone before another begins.                              *)
(***************************************************************************)
CONSTANTS Artifacts, Original, None

VARIABLES
    confirmed,  \* the executable that last survived its health window
    candidate   \* the executable on trial, if any

vars == <<confirmed, candidate>>

Init == confirmed = Original /\ candidate = None

Begin(a) ==
    /\ candidate = None
    /\ candidate' = a
    /\ UNCHANGED confirmed

Confirm ==
    /\ candidate # None
    /\ confirmed' = candidate /\ candidate' = None

Undo ==
    /\ candidate # None
    /\ candidate' = None
    /\ UNCHANGED confirmed

Next == (\E a \in Artifacts : Begin(a)) \/ Confirm \/ Undo

Spec == Init /\ [][Next]_vars
=============================================================================
