-------------------------- MODULE MCScheduleExecution --------------------------
(***************************************************************************)
(* An instance of ScheduleExecution for TLC: three jobs on two cores, so   *)
(* that one core has a queue while the other works in parallel.            *)
(***************************************************************************)
EXTENDS ScheduleExecution

\* Not in the order of their numbers.
MCCores == <<1, 0>>

\* The first job is overtaken on its core; the two shortest share a core.
MCWorkloads == {<<1, 2, 2>>, <<2, 1, 3>>}

\* A comparison: an experiment is one of its rounds.
MCExperiments == {<<"FIFO_BASELINE", "RESOURCE_AWARE">>}
===============================================================================
