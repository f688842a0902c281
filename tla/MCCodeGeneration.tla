-------------------------- MODULE MCCodeGeneration --------------------------
(***************************************************************************)
(* Instances of CodeGeneration for TLC.  Tasks do not interact in this     *)
(* component (every table, dictionary and run is keyed by the task), so    *)
(* one task with all its actors shows what there is to see.                *)
(***************************************************************************)
EXTENDS CodeGeneration

CONSTANTS t1

=============================================================================
