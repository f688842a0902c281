------------------------ MODULE MCDebugCoordination ------------------------
(***************************************************************************)
(* Instances of DebugCoordination for TLC: two groups that want the same   *)
(* two sessions, and a rule of the first one by which a hit of one session *)
(* interrupts the other.                                                   *)
(***************************************************************************)
EXTENDS DebugCoordination

CONSTANTS g1, g2, s1, s2, h1

OneRule == {[id |-> 1, group |-> g1, source |-> s1, target |-> s2]}
=============================================================================
