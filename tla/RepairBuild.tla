----------------------------- MODULE RepairBuild -----------------------------
(***************************************************************************)
(* Repair builds, repair_build_service.py: tasks of ProcessTasks whose     *)
(* preparation applies DependencyRepair to the makefile of their workspace *)
(* and whose command is make on the result.                                *)
(***************************************************************************)
EXTENDS ProcessTasks, DependencyRepair

\* make runs only on a makefile that was repaired, once and completely: the
\* thread that repairs has come back, it will not write under make, and what
\* it has written makes make rebuild whatever reads a file that has changed.
\* (to_thread cannot be interrupted, and its worker gives up in many places.)
BuildsOnRepaired ==
    \A t \in Repairs :
        proc[t] \in {"alive", "exited0", "exited1"} => preparer[t] = "written" /\ RepairHolds
=============================================================================
