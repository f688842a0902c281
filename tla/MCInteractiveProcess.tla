------------------------- MODULE MCInteractiveProcess -------------------------
(***************************************************************************)
(* Instances of InteractiveProcess for TLC: two sessions, so that one is   *)
(* being opened, waited for or failing while the other one is ended.       *)
(***************************************************************************)
EXTENDS InteractiveProcess

CONSTANTS p1, p2
===============================================================================
