-------------------------- MODULE InteractiveProcess --------------------------
(***************************************************************************)
(* The interactive subprocesses of a managed task: the sessions of         *)
(* ProcessRunner (process_runner.py) and what TaskService (task_service.py) *)
(* does about them in _run_managed_task.                                   *)
(*                                                                         *)
(* All of it runs in the event loop of one worker.  For every session a    *)
(* completion task waits for the process and its output and then cleans    *)
(* up, a monitor terminates the process of a cancelled task, and whoever   *)
(* terminates first creates the termination task the others wait for.      *)
(* The executor, which is the module's own, opens sessions and uses them;  *)
(* when it has left, the sessions are terminated one after the other, the  *)
(* monitors are joined, and the task is closed.                            *)
(*                                                                         *)
(* Left out: what is written to stdin, task rows (TaskStore), workspaces   *)
(* (CodeGeneration), and Windows.                                          *)
(***************************************************************************)
EXTENDS Subprocess, Naturals, Sequences, SequencesExt

CONSTANT TimeLimit  \* is there a total_timeout_seconds?

ASSUME TimeLimitAssumption == TimeLimit \in BOOLEAN

VARIABLES
    completion,  \* completion[p]: _completion_task
    stopper,     \* stopper[p]: _termination_task
    monitor,     \* monitor[p]: _monitor_managed_interactive_session
    opened,      \* interactive_sessions, in the order they were opened
    executor,    \* what the executor awaits, and of which session
    verdict,     \* status of the task in memory
    closing,     \* sessions _finish_managed_interactive_sessions has yet to end
    cancel,      \* cancel_requested of the row
    limit        \* the total time limit: "none", "runs", "due" or "told"

sessionVars == <<completion, stopper, monitor>>
taskVars == <<opened, executor, verdict, closing, cancel, limit>>
vars == <<proc, completion, stopper, monitor,
          opened, executor, verdict, closing, cancel, limit>>

Opened == ToSet(opened)
Doing(place, p) == [at |-> place, on |-> p]
Idle == Doing("idle", "none")
Gone == Doing("gone", "none")
Closed == Doing("closed", "none")
Ended == {"ok", "failed"}

InteractiveTypeOK ==
    /\ ProcTypeOK
    /\ completion \in [Procs -> {"none", "watching", "cleaning"} \cup Ended]
    /\ stopper \in [Procs -> {"none", "stopping"} \cup Ended]
    /\ monitor \in [Procs -> {"none", "polling", "terminating", "ended"}]
    /\ executor \in {Idle, Gone, Closed}
                    \cup [at : {"opening", "refusing", "waiting", "terminating"}, on : Procs]
    /\ verdict \in {"none", "returned", "cancelled", "timed_out", "failed"}
    /\ limit \in {"none", "runs", "due", "told"} /\ cancel \in BOOLEAN
    \* the sessions are those whose processes were spawned, each has its tasks,
    \* and those still to be ended are the ones opened first
    /\ IsInjective(opened)
    /\ \A p \in Procs :
           /\ p \in Opened <=> proc[p].leader # "none"
           /\ p \in Opened <=> completion[p] # "none"
           /\ stopper[p] \in Ended => completion[p] = stopper[p]
    /\ IsPrefix(Reverse(closing), opened)

InteractiveInit ==
    /\ proc = [p \in Procs |-> Unborn]
    /\ completion = [p \in Procs |-> "none"]
    /\ stopper = [p \in Procs |-> "none"]
    /\ monitor = [p \in Procs |-> "none"]
    /\ opened = <<>> /\ closing = <<>>
    /\ executor = Idle /\ verdict = "none"
    /\ cancel = FALSE
    /\ limit = IF TimeLimit THEN "runs" ELSE "none"

(***************************************************************************)
(* A session.                                                              *)
(***************************************************************************)
\* _wait_for_process_and_output has returned or raised: _cleanup_process.
CompletionWakes(p) ==
    /\ completion[p] = "watching"
    /\ \/ proc[p].reader = "failed"
       \/ WaitReturns(p) /\ proc[p].reader # "reading"
    /\ completion' = [completion EXCEPT ![p] = "cleaning"]
    /\ proc' = [proc EXCEPT ![p] = IF Exited(p) THEN GroupSwept(@) ELSE Killed(@)]
    /\ UNCHANGED <<stopper, monitor, taskVars>>

\* The rest of _wait_and_cleanup, which awaits process.wait() in any case.
CompletionEnds(p) ==
    /\ completion[p] = "cleaning" /\ WaitReturns(p)
    /\ completion' = [completion EXCEPT ![p] =
                         IF proc[p].reader = "failed" THEN "failed" ELSE "ok"]
    /\ UNCHANGED <<proc, stopper, monitor, taskVars>>

\* Mutant: the process is left to end by itself.
TerminatesGently(p) ==
    /\ stopper' = [stopper EXCEPT ![p] = IF @ = "none" THEN "stopping" ELSE @]
    /\ UNCHANGED proc

\* terminate up to its first await: the first caller creates _termination_task,
\* which kills the group of a process that has not exited.
Terminates(p) ==
    /\ stopper' = [stopper EXCEPT ![p] = IF @ = "none" THEN "stopping" ELSE @]
    /\ proc' = IF stopper[p] = "none" /\ ~Exited(p)
               THEN [proc EXCEPT ![p] = Killed(@)] ELSE proc

\* Mutant: terminate does not wait for the completion task.
StopperEndsAtOnce(p) ==
    /\ stopper[p] = "stopping" /\ WaitReturns(p)
    /\ stopper' = [stopper EXCEPT ![p] = "ok"]
    /\ UNCHANGED <<proc, completion, monitor, taskVars>>

\* _terminate_and_wait ends the way the completion task does.
StopperEnds(p) ==
    /\ stopper[p] = "stopping" /\ completion[p] \in Ended
    /\ stopper' = [stopper EXCEPT ![p] = completion[p]]
    /\ UNCHANGED <<proc, completion, monitor, taskVars>>

(***************************************************************************)
(* The monitor of a session.                                               *)
(***************************************************************************)
MonitorLeaves(p) ==
    /\ \/ monitor[p] = "polling" /\ Exited(p)
       \/ monitor[p] = "terminating" /\ stopper[p] \in Ended
    /\ monitor' = [monitor EXCEPT ![p] = "ended"]
    /\ UNCHANGED <<proc, completion, stopper, taskVars>>

MonitorTerminates(p) ==
    /\ monitor[p] = "polling" /\ ~Exited(p)
    /\ monitor' = [monitor EXCEPT ![p] = "terminating"]
    /\ Terminates(p)
    /\ UNCHANGED <<completion, taskVars>>

\* Mutant: the monitor does not look at the row.
MonitorSeesCancelNever(p) == cancel /\ FALSE /\ UNCHANGED vars

MonitorSeesCancel(p) == cancel /\ MonitorTerminates(p)

\* The row cannot be read: the monitor takes the task for cancelled.
MonitorCannotRead(p) == ~cancel /\ MonitorTerminates(p)

(***************************************************************************)
(* The executor, which may do anything the interface lets it do.           *)
(***************************************************************************)
\* The executor has returned or raised: the finally clause cancels the monitors,
\* one that is terminating keeps on until the process has ended.
Leaves(result) ==
    /\ verdict' = result
    /\ executor' = Gone
    /\ closing' = Reverse(opened)
    /\ monitor' = [p \in Procs |-> IF monitor[p] = "polling" THEN "ended" ELSE monitor[p]]

Return ==
    /\ executor = Idle
    /\ \/ Leaves(IF cancel THEN "cancelled" ELSE "returned")
       \/ Leaves("failed")
    /\ UNCHANGED <<proc, completion, stopper, opened, cancel, limit>>

\* open_interactive_process of the task, up to the spawn.
Open(p) ==
    /\ executor = Idle /\ p \notin Opened
    /\ IF cancel
       THEN /\ Leaves("cancelled")
            /\ UNCHANGED <<proc, completion, stopper, opened, cancel, limit>>
       ELSE /\ executor' = Doing("opening", p)
            /\ UNCHANGED <<proc, sessionVars, opened, verdict, closing, cancel, limit>>

\* Mutant: the monitor is only started for a session that is handed out.
OpenReturnsUnwatched(p) ==
    /\ executor = Doing("opening", p)
    /\ opened' = Append(opened, p)
    /\ proc' = [proc EXCEPT ![p] = Spawned]
    /\ completion' = [completion EXCEPT ![p] = "watching"]
    /\ monitor' = [monitor EXCEPT ![p] = IF cancel THEN "ended" ELSE "polling"]
    /\ executor' = IF cancel THEN Doing("refusing", p) ELSE Idle
    /\ UNCHANGED <<stopper, verdict, closing, cancel, limit>>

\* The process has been spawned: its session, its monitor, and another look at
\* the row for a cancel request that came in the meantime.
OpenReturns(p) ==
    /\ executor = Doing("opening", p)
    /\ opened' = Append(opened, p)
    /\ completion' = [completion EXCEPT ![p] = "watching"]
    /\ monitor' = [monitor EXCEPT ![p] = "polling"]
    /\ proc' = [proc EXCEPT ![p] = IF cancel THEN Killed(Spawned) ELSE Spawned]
    /\ stopper' = [stopper EXCEPT ![p] = IF cancel THEN "stopping" ELSE @]
    /\ executor' = IF cancel THEN Doing("refusing", p) ELSE Idle
    /\ UNCHANGED <<verdict, closing, cancel, limit>>

OpenFails(p) ==
    /\ executor = Doing("opening", p)
    /\ executor' = Idle
    /\ UNCHANGED <<proc, sessionVars, opened, verdict, closing, cancel, limit>>

Wait(p) ==
    /\ executor = Idle /\ p \in Opened
    /\ executor' = Doing("waiting", p)
    /\ UNCHANGED <<proc, sessionVars, opened, verdict, closing, cancel, limit>>

Terminate(p) ==
    /\ executor = Idle /\ p \in Opened
    /\ executor' = Doing("terminating", p)
    /\ Terminates(p)
    /\ UNCHANGED <<completion, monitor, opened, verdict, closing, cancel, limit>>

\* wait() returns; what it raises the executor may handle or let through.
WaitEnds(p) ==
    /\ executor = Doing("waiting", p) /\ completion[p] \in Ended
    /\ \/ executor' = Idle /\ UNCHANGED <<monitor, verdict, closing>>
       \/ completion[p] = "failed" /\ Leaves("failed")
    /\ UNCHANGED <<proc, completion, stopper, opened, cancel, limit>>

\* What was raised is handled by the executor, which goes on.
Handles == executor' = Idle /\ UNCHANGED <<monitor, verdict, closing>>

\* terminate() returns or raises: the failure of the session, in whose favour an
\* interruption that it held back is dropped, or else that interruption; after a
\* termination of its own open_interactive_process refuses the session.
TerminateEnds(p) ==
    /\ executor \in {Doing("terminating", p), Doing("refusing", p)}
    /\ stopper[p] \in Ended
    /\ \/ /\ stopper[p] = "failed"
          /\ limit' = IF limit = "told" THEN "none" ELSE limit
          /\ Leaves("failed") \/ Handles
       \/ /\ stopper[p] = "ok" /\ limit = "told"
          /\ Leaves("timed_out")
          /\ UNCHANGED limit
       \/ /\ stopper[p] = "ok" /\ limit # "told"
          /\ (executor.at = "refusing" /\ Leaves("cancelled")) \/ Handles
          /\ UNCHANGED limit
    /\ UNCHANGED <<proc, completion, stopper, opened, cancel>>

\* asyncio.timeout interrupts the executor where it is; terminate() holds the
\* interruption back until the process has ended.
Interrupt ==
    /\ limit = "due" /\ limit' = "told"
    /\ \/ /\ executor = Idle \/ executor.at \in {"opening", "waiting"}
          /\ Leaves("timed_out")
       \/ /\ executor.at \in {"terminating", "refusing"}
          /\ UNCHANGED <<executor, verdict, closing, monitor>>
    /\ UNCHANGED <<proc, completion, stopper, opened, cancel>>

(***************************************************************************)
(* _finish_managed_interactive_sessions and the end of _run_managed_task.  *)
(***************************************************************************)
StopLast ==
    /\ closing # <<>> /\ stopper[Head(closing)] = "none"
    /\ Terminates(Head(closing))
    /\ UNCHANGED <<completion, monitor, taskVars>>

LastStopped ==
    /\ closing # <<>> /\ stopper[Head(closing)] \in Ended
    /\ closing' = Tail(closing)
    /\ UNCHANGED <<proc, sessionVars, opened, executor, verdict, cancel, limit>>

AnyFailed == \E p \in Opened : stopper[p] = "failed"
Joined == \A p \in Procs : monitor[p] \in {"none", "ended"}

\* Mutant: the monitors are not gathered.
CloseTaskUnjoined ==
    /\ executor = Gone /\ closing = <<>>
    /\ executor' = Closed
    /\ verdict' = IF AnyFailed /\ verdict # "cancelled" THEN "failed" ELSE verdict
    /\ UNCHANGED <<proc, sessionVars, opened, closing, cancel, limit>>

\* Mutant: what ending the sessions raised is dropped.
CloseTaskAsReturned ==
    /\ executor = Gone /\ closing = <<>> /\ Joined
    /\ executor' = Closed
    /\ UNCHANGED <<proc, sessionVars, opened, verdict, closing, cancel, limit>>

CloseTask ==
    /\ executor = Gone /\ closing = <<>> /\ Joined
    /\ executor' = Closed
    /\ verdict' = IF AnyFailed /\ verdict # "cancelled" THEN "failed" ELSE verdict
    /\ UNCHANGED <<proc, sessionVars, opened, closing, cancel, limit>>

(***************************************************************************)
(* The surroundings.                                                       *)
(***************************************************************************)
RequestCancel ==
    /\ ~cancel /\ executor # Closed
    /\ cancel' = TRUE
    /\ UNCHANGED <<proc, sessionVars, opened, executor, verdict, closing, limit>>

TimePasses ==
    /\ limit = "runs" /\ executor \notin {Gone, Closed}
    /\ limit' = "due"
    /\ UNCHANGED <<proc, sessionVars, opened, executor, verdict, closing, cancel>>

Surroundings ==
    \/ RequestCancel \/ TimePasses
    \/ \E p \in Procs : ProcessStep(p) /\ UNCHANGED <<sessionVars, taskVars>>

\* What the worker's event loop brings about for certain.
LoopStep(p) ==
    \/ CompletionWakes(p) \/ CompletionEnds(p) \/ StopperEnds(p)
    \/ MonitorLeaves(p) \/ MonitorSeesCancel(p)
    \/ OpenReturns(p) \/ WaitEnds(p) \/ TerminateEnds(p)

Closes == StopLast \/ LastStopped \/ CloseTask

InteractiveNext ==
    \/ \E p \in Procs :
          \/ LoopStep(p) \/ MonitorCannotRead(p)
          \/ Open(p) \/ OpenFails(p) \/ Wait(p) \/ Terminate(p)
    \/ Return \/ Interrupt \/ Closes \/ Surroundings

InteractiveSpec == InteractiveInit /\ [][InteractiveNext]_vars

\* A process may run for ever unless it is killed, and so may its descendants.
FairInteractiveSpec ==
    /\ InteractiveSpec
    /\ \A p \in Procs :
          /\ WF_vars(CompletionWakes(p)) /\ WF_vars(CompletionEnds(p))
          /\ WF_vars(StopperEnds(p))
          /\ WF_vars(MonitorLeaves(p)) /\ WF_vars(MonitorSeesCancel(p))
          /\ WF_vars(OpenReturns(p)) /\ WF_vars(WaitEnds(p)) /\ WF_vars(TerminateEnds(p))
    /\ WF_vars(Closes)
    /\ ProcessFairness

\* Here a descendant that holds the pipe lets go of it in the end.
KindInteractiveSpec ==
    /\ FairInteractiveSpec
    /\ \A p \in Procs : WF_proc(ChildExits(p))

(***************************************************************************)
(* Properties.                                                             *)
(***************************************************************************)
\* When the task is closed and its workspaces are deleted, no process of any of its
\* sessions, nor of their groups, is alive, and no monitor, reader or termination of
\* one is still at work.  (_finish_managed_interactive_sessions)
ClosedIsQuiet ==
    executor = Closed =>
        \A p \in Procs :
            /\ ~GroupAlive(p) /\ proc[p].reader # "reading"
            /\ completion[p] \in {"none"} \cup Ended
            /\ stopper[p] # "stopping" /\ monitor[p] \in {"none", "ended"}

\* At no moment is a process of the task alive that nobody watches for the cancel
\* request or is about to end: not while it is being opened under a cancel request,
\* not between the end of the executor and the end of its session.
\* (open_interactive_process of _run_managed_task, _finish_managed_interactive_sessions)
EveryProcessIsWatched ==
    \A p \in Procs :
        proc[p].leader = "alive" => monitor[p] = "polling" \/ p \in ToSet(closing)

\* A session whose output could not be handled is never passed over: its task is not
\* closed as succeeded, even if the executor never looked at the session again.
\* (_raise_output_failure, _finish_managed_interactive_sessions)
FailureIsTold ==
    executor = Closed /\ (\E p \in Procs : completion[p] = "failed")
        => verdict \in {"failed", "cancelled"}

\* The variables keep their types, and a closed task is quiet and honest.
InteractiveInv == InteractiveTypeOK /\ ClosedIsQuiet /\ FailureIsTold

\* The pipe of a session whose reader failed is full: its process.wait() does not return
\* any more, and neither does the task, which ends its sessions one after the other.
PipeStuck == \E p \in Procs : proc[p].pipe = "full"

\* A cancel request ends the processes of the task, whatever the executor is doing or
\* waiting for, one that is being opened included, unless the pipe of one of them is
\* stuck.  (_monitor_managed_interactive_session)
CancelEndsProcesses ==
    cancel ~> PipeStuck \/ \A p \in Procs : proc[p].leader # "alive"

\* Once its executor has left, a task ends every session and is closed, unless the
\* pipe of one of them is stuck.
\* (_finish_managed_interactive_sessions, _run_managed_task)
LeftTaskCloses == executor = Gone ~> PipeStuck \/ executor = Closed

\* Processes end when the task is cancelled, and the task when its executor leaves, as
\* long as no pipe is stuck.
SessionsEnd == CancelEndsProcesses /\ LeftTaskCloses
===============================================================================
