---------------------------- MODULE ProcessTasks ----------------------------
(***************************************************************************)
(* Tasks that run one subprocess: the process half of                      *)
(* app/platform/services/task_service.py, with the runner it drives,       *)
(* app/platform/services/process_runner.py, above the TaskStore.           *)
(*                                                                         *)
(* Two kinds of thread meet here.  The event loop of the server creates    *)
(* and cancels tasks; neither handler awaits anything on the way, so the   *)
(* loop serves one of them at a time ("desk").  Each task runs on a thread *)
(* of the pool, with an event loop of its own, and the two interleave at   *)
(* every lock and every database call.  A cancellation therefore travels   *)
(* two ways at once: through the cancel flag of the row, which the worker  *)
(* reads at its check points, and through the task's _ProcessTaskControl,  *)
(* which schedules an asyncio cancellation on the worker's own loop.       *)
(*                                                                         *)
(* The database and the workspaces survive a crash of the server; threads, *)
(* controls and (the unit is KillMode=mixed) subprocesses do not.          *)
(***************************************************************************)
EXTENDS TaskStore, FiniteSets

CONSTANTS
    Prepared,   \* tasks made by create_prepared_process_task
    Repairs,    \* those of them that repair their makefile first
    Artifacts,  \* tasks made with artifacts_on_success
    MaxWorkers, \* threads of the background pool
    Faults,     \* which I/O may fail: "copy", "finalize", "cleanup"
    MaxCrashes  \* bound: crashes of the server

ASSUME ProcessAssumption ==
    /\ Prepared \subseteq Tasks
    /\ Repairs \subseteq Prepared
    /\ Artifacts \subseteq Tasks
    /\ Faults \subseteq {"copy", "finalize", "cleanup"}
    /\ MaxCrashes \in Nat

VARIABLES
    desk,       \* what the server's event loop is in the middle of
    pc,         \* pc[t]: where the worker of t is
    control,    \* control[t]: the _ProcessTaskControl of t
    preparer,   \* preparer[t]: the thread that analyses and repairs for t
    injected,   \* tasks whose worker has a CancelledError pending
    verdict,    \* verdict[t]: the outcome the worker of t will report
    proc,       \* proc[t]: the subprocess of t and its process group
    workspace,  \* tasks whose workspace directory exists
    service,    \* the server: up, down, or recovering in its startup
    recovered,  \* interrupted tasks whose workspace startup still visits
    crashes     \* crashes so far

workerVars  == <<pc, control, preparer, injected, verdict, proc, workspace>>
serviceVars == <<service, recovered, crashes>>
vars == <<storeVars, desk, workerVars, serviceVars>>

Idle == [job |-> "idle"]

Control == [registered : BOOLEAN, cancelRequested : BOOLEAN,
            launching : BOOLEAN, process : BOOLEAN]

NoControl == [registered |-> FALSE, cancelRequested |-> FALSE,
              launching |-> FALSE, process |-> FALSE]

Succeeded == [status |-> "SUCCEEDED", progress |-> FullProgress, error |-> "none"]
BadExit   == [status |-> "FAILED", progress |-> FullProgress, error |-> "failed"]
Broken    == [status |-> "FAILED", progress |-> 0, error |-> "failed"]
Cancelled == [status |-> "CANCELLED", progress |-> 0, error |-> "none"]

\* Where a thread of the pool can be while it works for a task.
OnThread == {"starting", "registering", "reporting", "copying", "checking",
             "preparing", "recording", "launching", "spawning", "spawned",
             "running", "reaping", "leaving", "ending", "finalizing",
             "cleaning", "failing"}

ProcessTypeOK ==
    /\ TypeOK
    /\ \/ desk = Idle
       \/ desk \in [job : {"creating", "finding", "poking"}, task : Tasks,
                    closed : BOOLEAN]
       \/ desk \in [job : {"dropping"}, task : Tasks, closed : BOOLEAN]
    /\ pc \in [Tasks -> OnThread \cup {"none", "queued", "dropped", "done",
                                 "failed", "lost"}]
    /\ control \in [Tasks -> Control]
    /\ preparer \in [Tasks -> {"none", "analysing", "writing", "written",
                              "failed", "late"}]
    /\ injected \in SUBSET Tasks
    /\ verdict \in [Tasks -> Outcome]
    /\ proc \in [Tasks -> {"none", "alive", "exited0", "exited1", "dead"}]
    /\ workspace \in SUBSET Tasks
    /\ service \in {"up", "down", "recovering"}
    /\ recovered \in SUBSET Tasks
    /\ crashes \in 0..MaxCrashes

ProcessInit ==
    /\ StoreInit
    /\ desk = Idle
    /\ pc = [t \in Tasks |-> "none"]
    /\ control = [t \in Tasks |-> NoControl]
    /\ preparer = [t \in Tasks |-> "none"]
    /\ injected = {}
    /\ verdict = [t \in Tasks |-> Broken]
    /\ proc = [t \in Tasks |-> "none"]
    /\ workspace = {}
    /\ service = "up"
    /\ recovered = {}
    /\ crashes = 0

\* t's worker goes from one point to another; storage is what it leaves alone.
Goes(t, from, to) ==
    /\ service = "up"
    /\ pc[t] = from
    /\ pc' = [pc EXCEPT ![t] = to]

At(job, t) == service = "up" /\ desk # Idle /\ desk.job = job /\ desk.task = t

-----------------------------------------------------------------------------
(***************************************************************************)
(* The event loop of the server.                                           *)
(***************************************************************************)

\* create_process_task and create_prepared_process_task: the row first ...
CreateTask(t) ==
    /\ service = "up" /\ desk = Idle /\ pc[t] = "none"
    /\ Save(t)
    /\ desk' = [job |-> "creating", task |-> t, closed |-> FALSE]
    /\ UNCHANGED <<workerVars, serviceVars>>

\* ... then the future in the pool (_start_background).
StartBackground(t) ==
    /\ At("creating", t)
    /\ Goes(t, "none", "queued")
    /\ desk' = Idle
    /\ UNCHANGED <<storeVars, preparer, control, injected, verdict, proc, workspace,
                   serviceVars>>

\* cancel_task: the transition in the database decides whether the worker
\* must be told as well.
CancelTask(t) ==
    /\ service = "up" /\ desk = Idle /\ Exists(t)
    /\ \/ RequestCancel(t)
       \/ ~CanRequestCancel(t) /\ rows[t].cancel /\ UNCHANGED storeVars
    /\ desk' = [job |-> "finding", task |-> t,
                closed |-> rows'[t].status = "CANCELLED"]
    /\ UNCHANGED <<workerVars, serviceVars>>

FindControl(t) ==
    /\ At("finding", t)
    /\ desk' = [desk EXCEPT !.job =
                   IF control[t].registered THEN "poking" ELSE "dropping"]
    /\ UNCHANGED <<storeVars, workerVars, serviceVars>>

\* Mutant: every request interrupts the worker at once.
MustInterruptAlways(ctl) == TRUE

\* A launch in progress must not be interrupted before the process is known.
MustInterrupt(ctl) == ~ctl.launching \/ ctl.process

\* A worker past its last await takes no notice of a scheduled cancellation;
\* when its loop is closed _cancel_worker swallows the RuntimeError.
PastAwaits(t) == pc[t] \notin OnThread \ {"finalizing", "cleaning", "failing"}

\* _ProcessTaskControl.request_cancel.
RequestCancelControl(t) ==
    /\ At("poking", t)
    /\ \/ /\ ~PastAwaits(t)
          /\ control' = [control EXCEPT ![t].cancelRequested = TRUE]
          /\ injected' = IF MustInterrupt(control[t])
                         THEN injected \cup {t} ELSE injected
       \/ PastAwaits(t) /\ UNCHANGED <<control, injected>>
    /\ desk' = [desk EXCEPT !.job = "dropping"]
    /\ UNCHANGED <<storeVars, pc, preparer, verdict, proc, workspace, serviceVars>>

\* A task cancelled before it ran leaves the pool's queue, if it is still there.
DropFuture(t) ==
    /\ At("dropping", t)
    /\ pc' = IF desk.closed /\ pc[t] = "queued"
             THEN [pc EXCEPT ![t] = "dropped"] ELSE pc
    /\ desk' = Idle
    /\ UNCHANGED <<storeVars, preparer, control, injected, verdict, proc, workspace,
                   serviceVars>>

Desk ==
    \E t \in Tasks : \/ StartBackground(t)
                     \/ FindControl(t)
                     \/ RequestCancelControl(t)
                     \/ DropFuture(t)

-----------------------------------------------------------------------------
(***************************************************************************)
(* The worker of a task, up to its subprocess.                             *)
(***************************************************************************)
AtWork(t) == preparer[t] \in {"analysing", "writing"}

\* asyncio.run joins the threads of its loop before it returns.
Busy == {t \in Tasks : pc[t] \in OnThread \/ AtWork(t)}

PickUp(t) ==
    /\ Cardinality(Busy) < MaxWorkers
    /\ Goes(t, "queued", "starting")
    /\ UNCHANGED <<storeVars, desk, preparer, control, injected, verdict, proc,
                   workspace, serviceVars>>

\* Mutant: the worker starts its row without looking at it again.
StartBlindly(t) ==
    /\ WriteRow(t, [rows[t] EXCEPT !.status = "RUNNING", !.started = TRUE])
    /\ Goes(t, "starting", "registering")
    /\ UNCHANGED <<holds, queue, completion, artifacts, desk, preparer, control, injected,
                   verdict, proc, workspace, serviceVars>>

\* _run_process_task returns at once if try_start does not take the row.
Start(t) ==
    /\ \/ /\ TryStart(t)
          /\ Goes(t, "starting", "registering")
       \/ /\ ~CanStart(t)
          /\ Goes(t, "starting", "done")
          /\ UNCHANGED storeVars
    /\ UNCHANGED <<desk, preparer, control, injected, verdict, proc, workspace,
                   serviceVars>>

RegisterControl(t) ==
    /\ Goes(t, "registering", "reporting")
    /\ control' = [control EXCEPT ![t] = [NoControl EXCEPT !.registered = TRUE]]
    /\ UNCHANGED <<storeVars, desk, preparer, injected, verdict, proc, workspace,
                   serviceVars>>

\* The worker gives up with an outcome and starts to wind down.
GivesUp(t, from, out) ==
    /\ Goes(t, from, "ending")
    /\ verdict' = [verdict EXCEPT ![t] = out]

\* _report_progress: a row that no longer takes progress means cancelled.
\* Bound: 1 stands for the percentages below FullProgress.
ReportProgress(t, from, to) ==
    /\ \/ /\ UpdateProgress(t, 1)
          /\ Goes(t, from, to)
          /\ UNCHANGED verdict
       \/ /\ rows[t].status # "RUNNING" \/ rows[t].cancel
          /\ GivesUp(t, from, Cancelled)
          /\ UNCHANGED storeVars
    /\ UNCHANGED <<desk, preparer, control, injected, proc, workspace, serviceVars>>

ReportStart(t) == ReportProgress(t, "reporting", "copying")

\* create_task_workspace; a copy that fails may leave a part behind.
CopyWorkspace(t) ==
    /\ workspace' = workspace \cup {t}
    /\ \/ /\ Goes(t, "copying", IF t \in Prepared THEN "checking" ELSE "launching")
          /\ UNCHANGED verdict
       \/ "copy" \in Faults /\ GivesUp(t, "copying", Broken)
    /\ UNCHANGED <<storeVars, desk, preparer, control, injected, proc, serviceVars>>

\* _prepare_process: one check before the module's preparer is awaited ...
CheckBeforePrepare(t) ==
    /\ \/ ~rows[t].cancel /\ Goes(t, "checking", "preparing") /\ UNCHANGED verdict
       \/ rows[t].cancel /\ GivesUp(t, "checking", Cancelled)
    /\ UNCHANGED <<storeVars, desk, preparer, control, injected, proc, workspace,
                   serviceVars>>

\* Mutant: the command is there before the thread that repairs has come back.
PreparedAlready(t) == TRUE

IsPrepared(t) == t \in Repairs => preparer[t] = "written"

\* ... which may report progress, raise, run into the total timeout, or be
\* interrupted ...
Prepare(t) ==
    \/ ReportProgress(t, "preparing", "preparing")
    \/ /\ \/ /\ IsPrepared(t)
             /\ Goes(t, "preparing", "recording")
             /\ UNCHANGED <<verdict, injected>>
          \/ GivesUp(t, "preparing", Broken) /\ UNCHANGED injected
          \/ /\ t \in injected
             /\ GivesUp(t, "preparing", Cancelled)
             /\ injected' = injected \ {t}
       /\ UNCHANGED <<storeVars, desk, preparer, control, proc, workspace, serviceVars>>

\* A repair build analyses its workspace in a thread of its own (to_thread) ...
StartAnalysis(t) ==
    /\ service = "up" /\ pc[t] = "preparing"
    /\ t \in Repairs /\ preparer[t] = "none"
    /\ preparer' = [preparer EXCEPT ![t] = "analysing"]
    /\ UNCHANGED <<storeVars, desk, pc, control, injected, verdict, proc,
                   workspace, serviceVars>>

\* ... which reads the makefile, if it finds one that it can repair ...
AnalysisReads(t) ==
    /\ preparer[t] = "analysing"
    /\ \E next \in IF t \in workspace THEN {"writing", "failed"} ELSE {"failed"} :
           preparer' = [preparer EXCEPT ![t] = next]
    /\ UNCHANGED <<storeVars, desk, pc, control, injected, verdict, proc,
                   workspace, serviceVars>>

\* ... and writes the repaired one beside it: mkdir with parents, then the file.
\* Nothing tells the thread that its worker has given up.
AnalysisWrites(t) ==
    /\ preparer[t] = "writing"
    /\ preparer' = [preparer EXCEPT ![t] =
                       IF t \in workspace THEN "written" ELSE "late"]
    /\ workspace' = workspace \cup {t}
    /\ UNCHANGED <<storeVars, desk, pc, control, injected, verdict, proc, serviceVars>>

Analysis(t) == AnalysisReads(t) \/ AnalysisWrites(t)

\* ... and one with the command it prepared.
RecordCommand(t) ==
    /\ \/ /\ UpdateCommandIfRunning(t)
          /\ Goes(t, "recording", "launching")
          /\ UNCHANGED verdict
       \/ /\ rows[t].status # "RUNNING" \/ rows[t].cancel
          /\ GivesUp(t, "recording", Cancelled)
          /\ UNCHANGED storeVars
    /\ UNCHANGED <<desk, preparer, control, injected, proc, workspace, serviceVars>>

LaunchRefused(t) == control[t].cancelRequested \/ rows[t].cancel

\* _ProcessTaskControl.begin_launch, under the control's lock.
BeginLaunch(t) ==
    /\ \/ /\ ~LaunchRefused(t)
          /\ Goes(t, "launching", "spawning")
          /\ control' = [control EXCEPT ![t].launching = TRUE]
          /\ UNCHANGED verdict
       \/ /\ LaunchRefused(t)
          /\ GivesUp(t, "launching", Cancelled)
          /\ UNCHANGED control
    /\ UNCHANGED <<storeVars, desk, preparer, injected, proc, workspace, serviceVars>>

-----------------------------------------------------------------------------
(***************************************************************************)
(* The subprocess: ProcessRunner.run under _run_controlled_process, in two *)
(* steps.  BatchProcess opens run up and shows when the second one, Reap,  *)
(* may be waited for in vain: when the pipe of the command never closes.   *)
(***************************************************************************)

\* create_subprocess_exec returns a child, raises, or is cut short by the
\* total timeout of a prepared task, in which case asyncio kills the child.
Spawn(t) ==
    /\ \/ /\ Goes(t, "spawning", "spawned")
          /\ proc' = [proc EXCEPT ![t] = "alive"]
          /\ UNCHANGED verdict
       \/ /\ Goes(t, "spawning", "leaving")
          /\ verdict' = [verdict EXCEPT ![t] = Broken]
          /\ UNCHANGED proc
    /\ UNCHANGED <<storeVars, desk, preparer, control, injected, workspace,
                   serviceVars>>

\* Mutant: a request that came during the launch is not looked at again.
StartedUnderCancelNever(ctl) == FALSE

StartedUnderCancel(ctl) == ctl.cancelRequested

\* _ProcessTaskControl.process_started: now the worker may be interrupted.
ProcessStarted(t) ==
    /\ Goes(t, "spawned", "running")
    /\ control' = [control EXCEPT ![t].process = TRUE]
    /\ injected' = IF StartedUnderCancel(control[t])
                   THEN injected \cup {t} ELSE injected
    /\ UNCHANGED <<storeVars, desk, preparer, verdict, proc, workspace, serviceVars>>

\* The program ends by itself; what it forked may live on in its group.
ProcessExits(t) ==
    /\ service = "up" /\ proc[t] = "alive"
    /\ \E code \in {"exited0", "exited1"} : proc' = [proc EXCEPT ![t] = code]
    /\ UNCHANGED <<storeVars, desk, preparer, pc, control, injected, verdict, workspace,
                   serviceVars>>

\* Mutant: the loop has no deadline.
WaitWithoutDeadline(t) ==
    /\ Goes(t, "running", "reaping")
    /\ proc[t] \in {"exited0", "exited1"}
    /\ verdict' = [verdict EXCEPT ![t] = Succeeded]
    /\ UNCHANGED <<storeVars, desk, preparer, control, injected, proc, workspace,
                   serviceVars>>

\* _wait_with_control: the process has ended, or the loop sees the flag or
\* the deadline, or the worker is interrupted.
WaitForProcess(t) ==
    /\ Goes(t, "running", "reaping")
    /\ \/ /\ proc[t] \in {"exited0", "exited1"}
          /\ verdict' = [verdict EXCEPT ![t] =
                            IF proc[t] = "exited0" THEN Succeeded ELSE BadExit]
          /\ UNCHANGED injected
       \/ /\ rows[t].cancel
          /\ verdict' = [verdict EXCEPT ![t] = Cancelled]
          /\ UNCHANGED injected
       \/ /\ verdict' = [verdict EXCEPT ![t] = Broken]
          /\ UNCHANGED injected
       \/ /\ t \in injected
          /\ verdict' = [verdict EXCEPT ![t] = Cancelled]
          /\ injected' = injected \ {t}
    /\ UNCHANGED <<storeVars, desk, preparer, control, proc, workspace, serviceVars>>

\* Mutant: the clean-up is skipped when the leader has already exited.
GroupKilledIfLeaderAlive(state) == IF state = "alive" THEN "dead" ELSE state

GroupKilled(state) == "dead"

\* _finish_process_cleanup is shielded: it kills the group to the end, and a
\* cancellation that arrives meanwhile replaces a normal return.
Reap(t) ==
    /\ Goes(t, "reaping", "leaving")
    /\ proc' = [proc EXCEPT ![t] = GroupKilled(@)]
    /\ verdict' = IF t \in injected /\ verdict[t] \in {Succeeded, BadExit}
                  THEN [verdict EXCEPT ![t] = Cancelled] ELSE verdict
    /\ injected' = injected \ {t}
    /\ UNCHANGED <<storeVars, desk, preparer, control, workspace, serviceVars>>

\* _ProcessTaskControl.finish_launch.
FinishLaunch(t) ==
    /\ Goes(t, "leaving", "ending")
    /\ control' = [control EXCEPT ![t].launching = FALSE, ![t].process = FALSE]
    /\ UNCHANGED <<storeVars, desk, preparer, injected, verdict, proc, workspace,
                   serviceVars>>

-----------------------------------------------------------------------------
(***************************************************************************)
(* The end of a worker: _finalize_with_cleanup.                            *)
(***************************************************************************)
UnregisterControl(t) ==
    /\ Goes(t, "ending", "finalizing")
    /\ control' = [control EXCEPT ![t] = NoControl]
    /\ injected' = injected \ {t}
    /\ UNCHANGED <<storeVars, desk, preparer, verdict, proc, workspace, serviceVars>>

\* The outcome is spent here.  A write that raises leaves the row as it is;
\* the clean-up runs all the same ("failing"), then the exception ends the
\* worker ("failed").
FinalizeTask(t) ==
    /\ \/ /\ Goes(t, "finalizing", "cleaning")
          /\ \/ Finalize(t, verdict[t], t \in Artifacts, FALSE, FALSE)
             \/ ~CanFinalize(t) /\ UNCHANGED storeVars
       \/ /\ "finalize" \in Faults
          /\ Goes(t, "finalizing", "failing")
          /\ UNCHANGED storeVars
    /\ verdict' = [verdict EXCEPT ![t] = Broken]
    /\ UNCHANGED <<desk, preparer, control, injected, proc, workspace, serviceVars>>

\* Mutant: the workspace of every task with artifacts is kept, failed or not.
KeepsFilesOfAnyOutcome(t) == t \in Artifacts

\* Mutant: the files go although the client was told they are there.
KeepsNothing(t) == FALSE

\* Without a verdict in the row (finalize failed) nothing is kept either.
KeepsFiles(t) == t \in Artifacts /\ rows[t].status = "SUCCEEDED"

CleanUp(t) ==
    /\ Goes(t, "cleaning", "done") \/ Goes(t, "failing", "failed")
    /\ workspace' = IF KeepsFiles(t) THEN workspace ELSE workspace \ {t}
    /\ UNCHANGED <<storeVars, desk, preparer, control, injected, verdict, proc,
                   serviceVars>>

\* rmtree raises: nothing queues the workspace of a process task for a retry.
CleanUpFails(t) ==
    /\ "cleanup" \in Faults
    /\ ~KeepsFiles(t)
    /\ Goes(t, "cleaning", "failed") \/ Goes(t, "failing", "failed")
    /\ UNCHANGED <<storeVars, desk, preparer, control, injected, verdict, proc, workspace,
                   serviceVars>>

Worker(t) ==
    \/ Start(t) \/ RegisterControl(t) \/ ReportStart(t) \/ CopyWorkspace(t)
    \/ CheckBeforePrepare(t) \/ StartAnalysis(t) \/ Prepare(t)
    \/ RecordCommand(t)
    \/ BeginLaunch(t) \/ Spawn(t) \/ ProcessStarted(t) \/ WaitForProcess(t)
    \/ Reap(t) \/ FinishLaunch(t) \/ UnregisterControl(t) \/ FinalizeTask(t)
    \/ CleanUp(t) \/ CleanUpFails(t)

-----------------------------------------------------------------------------
(***************************************************************************)
(* Crash and startup.                                                      *)
(***************************************************************************)
Crash ==
    /\ service # "down" /\ crashes < MaxCrashes
    /\ crashes' = crashes + 1
    /\ service' = "down"
    /\ recovered' = {}
    /\ desk' = Idle
    /\ pc' = [t \in Tasks |-> IF Exists(t) THEN "lost" ELSE "none"]
    /\ control' = [t \in Tasks |-> NoControl]
    /\ preparer' = [t \in Tasks |-> "none"]
    /\ injected' = {}
    /\ verdict' = [t \in Tasks |-> Broken]
    /\ proc' = [t \in Tasks |-> IF proc[t] = "none" THEN "none" ELSE "dead"]
    /\ UNCHANGED <<storeVars, workspace>>

\* startup: the rows first, in one transaction ...
Visited == {t \in Tasks : rows[t].status \in Active}

Restart ==
    /\ service = "down"
    /\ RecoverInterrupted
    /\ recovered' = Visited \ holds
    /\ service' = "recovering"
    /\ UNCHANGED <<desk, workerVars, crashes>>

\* ... then the workspaces of the tasks it closed, one attempt each ...
RecoverWorkspace(t) ==
    /\ service = "recovering" /\ t \in recovered
    /\ \/ workspace' = workspace \ {t}
       \/ "cleanup" \in Faults /\ UNCHANGED workspace
    /\ recovered' = recovered \ {t}
    /\ UNCHANGED <<storeVars, desk, pc, control, preparer, injected, verdict,
                   proc, service, crashes>>

\* ... and only then does the server accept requests.
Serve ==
    /\ service = "recovering" /\ recovered = {}
    /\ service' = "up"
    /\ UNCHANGED <<storeVars, desk, workerVars, recovered, crashes>>

Startup == Restart \/ Serve \/ \E t \in Tasks : RecoverWorkspace(t)

-----------------------------------------------------------------------------
ProcessNext ==
    \/ Desk
    \/ Startup
    \/ Crash
    \/ \E t \in Tasks : \/ CreateTask(t)
                        \/ CancelTask(t)
                        \/ PickUp(t)
                        \/ Worker(t)
                        \/ Analysis(t)
                        \/ ProcessExits(t)

ProcessSpec == ProcessInit /\ [][ProcessNext]_vars

\* What a worker does is done in the end, but for Reap: process.wait() returns only
\* when the pipe of the command has closed, whoever holds it.
GoesOn(t) == pc[t] # "reaping" /\ Worker(t)

\* The server's loop, the pool and the workers keep going; a worker may
\* always run into its deadline, so nothing is asked of the programs.  The
\* compiler that an analysis calls, which has no time limit, comes to its end.
ProcessFairness ==
    /\ WF_vars(Desk)
    /\ WF_vars(Startup)
    /\ \A t \in Tasks : WF_vars(PickUp(t)) /\ WF_vars(GoesOn(t)) /\ WF_vars(Analysis(t))

FairProcessSpec == ProcessSpec /\ ProcessFairness

-----------------------------------------------------------------------------
(***************************************************************************)
(* Properties.                                                             *)
(***************************************************************************)

\* No process, nor anything left of its group, outlives its task: while one
\* exists the row is RUNNING and the directory it runs in is still there.
\* (process_runner.py kills the group before run returns; the row is closed
\* and the workspace deleted only after that.)
NoProcessOutlivesTask ==
    \A t \in Tasks :
        proc[t] \in {"alive", "exited0", "exited1"}
            => rows[t].status = "RUNNING" /\ t \in workspace

\* Files a client is offered are there, through failed finalizes, repeated
\* cancels, crashes and recoveries.
OfferedFilesExist == artifacts \subseteq workspace

\* create_subprocess_exec is never interrupted by a cancellation, which could
\* leave a child nobody has a handle for: the reason _ProcessTaskControl has
\* a launch boundary.
SpawnNeverInterrupted ==
    \A t \in Tasks : pc[t] \in {"spawning", "spawned"} => t \notin injected

\* A cancellation cannot fall between the flag and the control: once
\* cancel_task has returned, a worker that awaits its preparer or its process
\* has been interrupted, and one in its launch will find the request.
CancelReachesWorker ==
    \A t \in Tasks :
        (rows[t].cancel /\ (desk = Idle \/ desk.task # t))
            => /\ pc[t] \in {"preparing", "running"} => t \in injected
               /\ pc[t] \in {"spawning", "spawned"} => control[t].cancelRequested

\* Every open row is somebody's: a waiting task is in the pool's queue or on
\* its way there, a running one has a worker that has yet to close it.  Only
\* a worker whose final write failed leaves one behind.
NobodyForgotten ==
    service = "up" =>
        \A t \in Tasks :
            /\ rows[t].status = "PENDING"
                 => pc[t] \in {"queued", "starting"} \/ At("creating", t)
            /\ rows[t].status = "RUNNING"
                 => pc[t] \in (OnThread \cup {"failed"}) \ {"starting", "cleaning"}

\* What a worker leaves behind of a closed task is what a client may fetch.
\* (Of workers that neither a crash nor an exception stopped: nothing repairs
\* the workspace of a process task later.  Nor of a repair whose thread wrote
\* when its worker had given up and deleted the directory: it makes it anew.)
NothingLeftBehind ==
    \A t \in Tasks :
        pc[t] \in {"done", "dropped"} /\ t \in workspace
            => t \in artifacts \/ preparer[t] = "late"

\* What is there and what is offered agree, from both sides.
FilesAsOffered == OfferedFilesExist /\ NothingLeftBehind

\* The variables keep their types, no spawn is interrupted, no row forgotten.
ProcessInv == ProcessTypeOK /\ SpawnNeverInterrupted /\ NobodyForgotten

\* A task that was created is closed in the end, by its worker, by a cancel
\* or by the next startup, unless the final write of its worker failed.  Only a
\* run that never returns keeps its task open, and those that wait for its thread.
\* (_run_process_task, cancel_task, startup)
EveryTaskCloses ==
    \/ \A t \in Tasks :
           rows[t].status = "PENDING"
               ~> rows[t].status \in Terminal \/ pc[t] = "failed"
    \/ \E t \in Tasks : <>[](pc[t] = "reaping")

\* The services above the store use it as the store allows.
UsesTheStore == StoreSpec
=============================================================================
