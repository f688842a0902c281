----------------------------- MODULE BatchProcess -----------------------------
(***************************************************************************)
(* ProcessRunner.run (process_runner.py): one command of a process task,   *)
(* spawned, watched for its exit, for a cancel request and for the time    *)
(* limit, and cleaned up with its group whatever has happened.             *)
(*                                                                         *)
(* ProcessTasks takes run as a few steps that always get there; this       *)
(* module opens it up, and ScheduleExecution runs several of them.  Left   *)
(* out: the CPU affinity, and Windows.                                     *)
(***************************************************************************)
EXTENDS Subprocess

VARIABLES
    at,       \* at[p]: where run is
    outcome,  \* outcome[p]: what run will return or raise
    cancel,   \* cancel[p]: is_cancelled()
    late      \* late[p]: the deadline has passed

vars == <<proc, at, outcome, cancel, late>>

Outcomes == {"exit", "cancelled", "timeout", "failed", "interrupted",
             "spawn_failed", "spawn_interrupted"}
NeverRan == {"spawn_failed", "spawn_interrupted"}

BatchTypeOK ==
    /\ ProcTypeOK
    /\ at \in [Procs -> {"idle", "spawning", "waiting", "killing", "cleaning",
                         "sweeping", "draining", "ended"}]
    /\ outcome \in [Procs -> {"none"} \cup Outcomes]
    /\ cancel \in [Procs -> BOOLEAN] /\ late \in [Procs -> BOOLEAN]
    \* run ends with an outcome, and what it watched has exited by then
    /\ \A p \in Procs : at[p] = "ended" =>
           outcome[p] # "none" /\ (outcome[p] \in NeverRan \/ Exited(p))

BatchInit ==
    /\ proc = [p \in Procs |-> Unborn]
    /\ at = [p \in Procs |-> "spawning"]
    /\ outcome = [p \in Procs |-> "none"]
    /\ cancel = [p \in Procs |-> FALSE] /\ late = [p \in Procs |-> FALSE]

Goes(p, place, result) ==
    /\ at' = [at EXCEPT ![p] = place]
    /\ outcome' = [outcome EXCEPT ![p] = result]

Spawn(p) ==
    /\ at[p] = "spawning"
    /\ proc' = [proc EXCEPT ![p] = Spawned]
    /\ Goes(p, "waiting", "none")
    /\ UNCHANGED <<cancel, late>>

SpawnFails(p) ==
    /\ at[p] = "spawning"
    /\ Goes(p, "ended", "spawn_failed")
    /\ UNCHANGED <<proc, cancel, late>>

\* _terminate_process_group: nothing to do for a leader that has exited, else
\* kill the group and await process.wait().
Terminate(p, result) ==
    \/ /\ Exited(p)
       /\ Goes(p, "cleaning", result)
       /\ UNCHANGED proc
    \/ /\ ~Exited(p)
       /\ proc' = [proc EXCEPT ![p] = Killed(@)]
       /\ Goes(p, "killing", result)

\* _wait_with_control: the turns of its loop.
SeesCancel(p) ==
    /\ at[p] = "waiting" /\ cancel[p]
    /\ Terminate(p, "cancelled")
    /\ UNCHANGED <<cancel, late>>

SeesExit(p) ==
    /\ at[p] = "waiting" /\ WaitReturns(p)
    /\ Goes(p, "cleaning", "exit")
    /\ UNCHANGED <<proc, cancel, late>>

\* A callback raises: on_process_started, or is_cancelled, which reads the store.
CallbackFails(p) ==
    /\ at[p] = "waiting"
    /\ Goes(p, "cleaning", "failed")
    /\ UNCHANGED <<proc, cancel, late>>

\* Mutant: no time limit.
SeesDeadlineNever(p) == FALSE /\ UNCHANGED vars

SeesDeadline(p) ==
    /\ at[p] = "waiting" /\ ~WaitReturns(p) /\ late[p]
    /\ Terminate(p, "timeout")
    /\ UNCHANGED <<cancel, late>>

\* await process.wait() at the end of _terminate_process_group.
KillSeen(p) ==
    /\ at[p] \in {"killing", "sweeping"} /\ WaitReturns(p)
    /\ at' = [at EXCEPT ![p] = IF @ = "killing" THEN "cleaning" ELSE "draining"]
    /\ UNCHANGED <<proc, outcome, cancel, late>>

\* Mutant: only a process that has exited is cleaned up after.
CleanupIfExited(p) ==
    /\ at[p] = "cleaning"
    /\ IF Exited(p) THEN proc' = [proc EXCEPT ![p] = GroupSwept(@)] ELSE UNCHANGED proc
    /\ at' = [at EXCEPT ![p] = "draining"]
    /\ UNCHANGED <<outcome, cancel, late>>

\* _cleanup_process
Cleanup(p) ==
    /\ at[p] = "cleaning"
    /\ IF Exited(p)
       THEN /\ proc' = [proc EXCEPT ![p] = GroupSwept(@)]
            /\ at' = [at EXCEPT ![p] = "draining"]
       ELSE /\ proc' = [proc EXCEPT ![p] = Killed(@)]
            /\ at' = [at EXCEPT ![p] = "sweeping"]
    /\ UNCHANGED <<outcome, cancel, late>>

\* The end of _drain_readers, whose time limit of a second may have passed.
Finish(p) ==
    /\ at[p] = "draining"
    /\ proc' = [proc EXCEPT ![p] = Drained(@)]
    /\ at' = [at EXCEPT ![p] = "ended"]
    /\ UNCHANGED <<outcome, cancel, late>>

(***************************************************************************)
(* The asyncio task of the caller is cancelled.  While the process is      *)
(* being spawned asyncio kills it, but not its group, and run has nothing  *)
(* to clean up after; while run waits, it cleans up; its clean-up is       *)
(* shielded, and only its result is lost.                                  *)
(***************************************************************************)
InLaunch == {p \in Procs : at[p] = "spawning"}

\* What a process killed in its launch has started by then.
Strays(p) == {"none"} \cup (IF p \in Wild THEN Descendants ELSE {})

KilledInLaunch(stray) ==
    [Unborn EXCEPT !.leader = "exited", !.child = stray, !.pipe = "closed"]

\* All the runs in interrupted are, at once; strays is what the launched ones leave.
InterruptAll(interrupted, strays) ==
    LET launched == interrupted \cap InLaunch
        awaiting == {p \in interrupted : at[p] \in {"waiting", "killing"}}
        shielded == {p \in interrupted : outcome[p] = "exit"}
    IN  /\ proc' = [p \in Procs |-> IF p \in launched THEN KilledInLaunch(strays[p]) ELSE proc[p]]
        /\ at' = [p \in Procs |-> CASE p \in launched -> "ended"
                                    [] p \in awaiting -> "cleaning"
                                    [] OTHER -> at[p]]
        /\ outcome' = [p \in Procs |-> CASE p \in launched -> "spawn_interrupted"
                                         [] p \in awaiting \cup shielded -> "interrupted"
                                         [] OTHER -> outcome[p]]

RunsOn(p) ==
    \/ Spawn(p) \/ SeesCancel(p) \/ SeesExit(p) \/ SeesDeadline(p)
    \/ KillSeen(p) \/ Cleanup(p) \/ Finish(p)

(***************************************************************************)
(* The surroundings.                                                       *)
(***************************************************************************)
RequestCancel(p) ==
    /\ ~cancel[p]
    /\ cancel' = [cancel EXCEPT ![p] = TRUE]
    /\ UNCHANGED <<proc, at, outcome, late>>

TimePasses(p) ==
    /\ at[p] = "waiting" /\ ~late[p]
    /\ late' = [late EXCEPT ![p] = TRUE]
    /\ UNCHANGED <<proc, at, outcome, cancel>>

Surroundings(p) ==
    \/ RequestCancel(p) \/ TimePasses(p)
    \/ ProcessStep(p) /\ UNCHANGED <<at, outcome, cancel, late>>

BatchNext == \E p \in Procs : RunsOn(p) \/ SpawnFails(p) \/ CallbackFails(p) \/ Surroundings(p)

BatchSpec == BatchInit /\ [][BatchNext]_vars

\* The event loop runs what can run and time passes; a command may run for ever,
\* and so may a descendant.
FairBatchSpec ==
    /\ BatchSpec
    /\ \A p \in Procs : WF_vars(RunsOn(p)) /\ WF_vars(TimePasses(p))
    /\ ProcessFairness

(***************************************************************************)
(* Properties.                                                             *)
(***************************************************************************)
\* When run returns or raises, nothing of the command's process group is alive:
\* the workspace that is deleted next is no longer written to.  Not so when run was
\* interrupted in the launch: the group is then nobody's.  (run, _cleanup_process)
GroupDiesFirst ==
    \A p \in Procs :
        at[p] = "ended" /\ outcome[p] # "spawn_interrupted" => ~GroupAlive(p)

\* When run returns or raises, no reader is left behind that could append a line to
\* the log of a task that is being closed, not even while a descendant that has left
\* the group still holds the pipe.  (_drain_readers)
NoLateOutput == \A p \in Procs : at[p] = "ended" => proc[p].reader # "reading"

\* The variables keep their types, and a run that has ended is over.
BatchInv == BatchTypeOK /\ GroupDiesFirst /\ NoLateOutput

\* A command that outlives its time limit is ended: whatever the command and its
\* descendants do, run comes to its end.  (run, _wait_with_control)
RunEnds == \A p \in Procs : <>(at[p] = "ended")
===============================================================================
