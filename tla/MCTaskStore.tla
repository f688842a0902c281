---------------------------- MODULE MCTaskStore ----------------------------
(***************************************************************************)
(* The store with two interchangeable tasks, any caller, and every method. *)
(* Bound: a progress percentage is 0 or 1, enough for a report to fall.    *)
(***************************************************************************)
EXTENDS TaskStore, TLC

Symmetry == Permutations(Tasks)
=============================================================================
