-------------------------- MODULE RepairBuild_proofs --------------------------
(***************************************************************************)
(* Process tasks and repair builds, for any number of tasks, threads and   *)
(* crashes, for any makefiles and headers, and for every choice of the     *)
(* faults.                                                                 *)
(*                                                                         *)
(* First, the service uses the store as the store allows, so that every    *)
(* theorem about the store is one about the service.  Then an invariant    *)
(* that says of each task, by itself, how its row, its control, its        *)
(* process, its files and the server's loop fit the place where its worker *)
(* is.  A step of one task leaves the others untouched; a crash and the    *)
(* startup after it touch all of them alike.                               *)
(*                                                                         *)
(* Second, a repair of a makefile is complete, adds what is needed and no  *)
(* more, and a second one finds nothing; and a repair build runs make on a *)
(* repaired makefile only.                                                 *)
(***************************************************************************)
EXTENDS RepairBuild, TaskStore_proofs

(***************************************************************************)
(* Where a worker is.                                                      *)
(***************************************************************************)
WithProcess == {"spawned", "running", "reaping"}

\* Its workspace is there.
InWorkspace == {"checking", "preparing", "recording", "launching", "spawning",
                "leaving"} \cup WithProcess

\* Its control is registered.
Controlled == {"reporting", "copying", "ending"} \cup InWorkspace

\* The launch that must not be interrupted, and what comes before.
InLaunch == {"spawning", "spawned"}
BeforeLaunch == {"reporting", "copying", "checking", "preparing", "recording", "launching"}

\* It has started its row, and has not closed it.
Responsible == {"registering", "finalizing", "failing"} \cup Controlled

\* It has not come to its workspace yet, nor will it, if it is dropped.
Before == {"none", "queued", "starting", "registering", "reporting", "copying", "dropped"}

\* Its preparation lies behind it, and the launch does not.
PastPreparation == {"recording", "launching", "spawning"} \cup WithProcess

\* A thread that repairs may have been started.
MayRepair == (InWorkspace \ {"checking"})
               \cup {"ending", "finalizing", "cleaning", "failing", "done", "failed"}

Living == {"alive", "exited0", "exited1"}

-----------------------------------------------------------------------------
(***************************************************************************)
(* What holds of each task.                                                *)
(***************************************************************************)
\* The row is open as long as a worker is responsible for it.
RowFits(t) ==
    /\ pc[t] # "none" => Exists(t)
    /\ pc[t] \in Responsible => rows[t].status = "RUNNING"
    /\ pc[t] = "cleaning" => rows[t].status \in Terminal
    /\ service = "up" /\ rows[t].status = "PENDING"
         => pc[t] \in {"queued", "starting"} \/ At("creating", t)
    /\ service = "up" /\ rows[t].status = "RUNNING" => pc[t] \in Responsible \cup {"failed"}

\* The loop of the server is busy with one task, and does not lose sight of it.
DeskFits(t) ==
    desk # Idle /\ desk.task = t =>
        /\ service = "up"
        /\ desk.job = "creating" => rows[t].status = "PENDING" /\ pc[t] = "none"
        /\ desk.job = "poking" => pc[t] \notin Before \/ pc[t] \in Controlled
        /\ desk.closed => rows[t].status = "CANCELLED"

\* The control follows the launch, and an interruption its request.
ControlFits(t) ==
    /\ control[t].registered <=> pc[t] \in Controlled
    /\ pc[t] \in BeforeLaunch => ~control[t].launching /\ ~control[t].process
    /\ pc[t] \in InLaunch
         => control[t].launching /\ ~control[t].process /\ t \notin injected
    /\ pc[t] \in {"running", "reaping"} => control[t].process
    /\ t \in injected => pc[t] \in Controlled /\ control[t].cancelRequested

\* Of a request to cancel that the server's loop has passed on.
RequestFits(t) ==
    rows[t].cancel /\ ~At("finding", t) /\ ~At("poking", t) =>
        /\ pc[t] \in {"preparing", "running"} => t \in injected
        /\ pc[t] \in InLaunch => control[t].cancelRequested

\* A process, and the thread of a repair, are where their worker is or was.
ProcessFits(t) ==
    /\ proc[t] \in Living => pc[t] \in WithProcess
    /\ preparer[t] # "none" => pc[t] \in MayRepair
    /\ t \in Repairs /\ pc[t] \in PastPreparation => preparer[t] = "written"

\* Files are there while they are worked with, and when they are offered.
FilesFit(t) ==
    /\ pc[t] \in InWorkspace => t \in workspace
    /\ pc[t] \in Before => t \notin workspace
    /\ t \in workspace => Exists(t)
    /\ verdict[t].status = "SUCCEEDED"
         => pc[t] \in {"reaping", "leaving", "ending", "finalizing"} /\ t \in workspace
    /\ t \in artifacts <=> t \in Artifacts /\ rows[t].status = "SUCCEEDED"
    /\ t \in artifacts => t \in workspace
    /\ pc[t] = "done" /\ t \in workspace => t \in artifacts \/ preparer[t] = "late"

\* What a crash leaves, and the startup after it.
CrashFits(t) ==
    /\ service # "up" => pc[t] \in {"none", "lost"}
    /\ service = "recovering" => rows[t].status \notin Active
    /\ t \in recovered => service = "recovering" /\ rows[t].status # "SUCCEEDED"

TaskFits(t) ==
    RowFits(t) /\ DeskFits(t) /\ ControlFits(t) /\ RequestFits(t) /\ ProcessFits(t)
      /\ FilesFit(t) /\ CrashFits(t)

ServiceInv == ProcessTypeOK /\ \A t \in Tasks : TaskFits(t)

USE DEF WithProcess, InWorkspace, Controlled, InLaunch, BeforeLaunch, Responsible,
        Before, PastPreparation, MayRepair, Living, OnThread

-----------------------------------------------------------------------------
(***************************************************************************)
(* The service uses the store.                                             *)
(***************************************************************************)
VerdictOK == verdict \in [Tasks -> Outcome]

LEMMA OutcomesType == Succeeded \in Outcome /\ BadExit \in Outcome
                        /\ Broken \in Outcome /\ Cancelled \in Outcome
BY FullProgressAssumption
   DEF Outcome, Succeeded, BadExit, Broken, Cancelled, Terminal, Progress

\* A worker hands only proper outcomes to finalize.
LEMMA VerdictsType == ProcessSpec => []VerdictOK
<1>1. ProcessInit => VerdictOK
  BY OutcomesType DEF ProcessInit, VerdictOK
<1>2. VerdictOK /\ [ProcessNext]_vars => VerdictOK'
  <2> SUFFICES ASSUME VerdictOK, [ProcessNext]_vars PROVE VerdictOK'
    OBVIOUS
  <2>1. ASSUME NEW t \in Tasks, NEW out \in Outcome, verdict' = [verdict EXCEPT ![t] = out]
        PROVE  VerdictOK'
    BY <2>1 DEF VerdictOK
  <2>2. ASSUME UNCHANGED verdict PROVE VerdictOK'
    BY <2>2 DEF VerdictOK
  <2>3. CASE Desk
    BY <2>2, <2>3
       DEF Desk, StartBackground, FindControl, RequestCancelControl, DropFuture, workerVars
  <2>4. CASE Startup
    BY <2>2, <2>4 DEF Startup, Restart, Serve, RecoverWorkspace, workerVars
  <2>5. CASE Crash
    BY <2>5, OutcomesType DEF Crash, VerdictOK
  <2>6. ASSUME NEW t \in Tasks,
               CreateTask(t) \/ CancelTask(t) \/ PickUp(t) \/ Analysis(t) \/ ProcessExits(t)
        PROVE  VerdictOK'
    BY <2>2, <2>6
       DEF CreateTask, CancelTask, PickUp, Analysis, AnalysisReads, AnalysisWrites,
           ProcessExits, workerVars
  <2>7. ASSUME NEW t \in Tasks, Worker(t) PROVE VerdictOK'
    <3>1. UNCHANGED verdict
            \/ \E out \in Outcome : verdict' = [verdict EXCEPT ![t] = out]
      BY <2>7, OutcomesType
         DEF Worker, Start, RegisterControl, ReportStart, ReportProgress, GivesUp,
             CopyWorkspace, CheckBeforePrepare, StartAnalysis, Prepare, RecordCommand,
             BeginLaunch, Spawn, ProcessStarted, WaitForProcess, Reap, FinishLaunch,
             UnregisterControl, FinalizeTask, CleanUp, CleanUpFails
    <3> QED
      BY <2>1, <2>2, <3>1
  <2>8. CASE UNCHANGED vars
    BY <2>2, <2>8 DEF vars, workerVars
  <2> QED
    BY <2>3, <2>4, <2>5, <2>6, <2>7, <2>8 DEF ProcessNext
<1> QED
  BY <1>1, <1>2, PTL DEF ProcessSpec

\* Each step of the service is one call of the store, its recovery, or none.
LEMMA StepUsesTheStore ==
    ASSUME VerdictOK, [ProcessNext]_vars
    PROVE  [StoreNext]_storeVars
<1>1. CASE Desk
  BY <1>1 DEF Desk, StartBackground, FindControl, RequestCancelControl, DropFuture
<1>2. CASE Startup
  BY <1>2 DEF Startup, Restart, Serve, RecoverWorkspace, StoreNext
<1>3. CASE Crash
  BY <1>3 DEF Crash
<1>4. ASSUME NEW t \in Tasks,
             CreateTask(t) \/ CancelTask(t) \/ PickUp(t) \/ Analysis(t) \/ ProcessExits(t)
      PROVE  [StoreNext]_storeVars
  BY <1>4
     DEF CreateTask, CancelTask, PickUp, Analysis, AnalysisReads, AnalysisWrites,
         ProcessExits, StoreNext, StoreCall
<1>5. ASSUME NEW t \in Tasks, Worker(t) PROVE [StoreNext]_storeVars
  <2>1. 1 \in Progress /\ verdict[t] \in Outcome /\ (t \in Artifacts) \in BOOLEAN
    BY FullProgressAssumption DEF VerdictOK, Progress
  <2>2. CASE FinalizeTask(t)
    BY <2>1, <2>2 DEF FinalizeTask, StoreNext, StoreCall
  <2>3. CASE Start(t) \/ ReportStart(t) \/ Prepare(t) \/ RecordCommand(t)
    BY <2>1, <2>3 DEF Start, ReportStart, Prepare, ReportProgress, RecordCommand,
                      StoreNext, StoreCall
  <2>4. ~(Start(t) \/ ReportStart(t) \/ Prepare(t) \/ RecordCommand(t) \/ FinalizeTask(t))
          => UNCHANGED storeVars
    BY <1>5
       DEF Worker, RegisterControl, CopyWorkspace, CheckBeforePrepare, StartAnalysis,
           BeginLaunch, Spawn, ProcessStarted, WaitForProcess, Reap, FinishLaunch,
           UnregisterControl, CleanUp, CleanUpFails
  <2> QED
    BY <2>2, <2>3, <2>4
<1>6. CASE UNCHANGED vars
  BY <1>6 DEF vars
<1> QED
  BY <1>1, <1>2, <1>3, <1>4, <1>5, <1>6 DEF ProcessNext

\* The service above the store is a client of it, and so what is proved of the
\* store in TaskStore_proofs holds here.
THEOREM ServiceUsesTheStore == ProcessSpec => UsesTheStore
<1>1. ProcessInit => StoreInit
  BY DEF ProcessInit
<1> QED
  BY <1>1, StepUsesTheStore, VerdictsType, PTL DEF ProcessSpec, UsesTheStore, StoreSpec

-----------------------------------------------------------------------------
(***************************************************************************)
(* The invariant.                                                          *)
(***************************************************************************)
\* What the invariant says of u depends on these.
Untouched(u) ==
    /\ rows'[u] = rows[u] /\ pc'[u] = pc[u] /\ control'[u] = control[u]
    /\ preparer'[u] = preparer[u] /\ verdict'[u] = verdict[u] /\ proc'[u] = proc[u]
    /\ u \in injected' <=> u \in injected
    /\ u \in workspace' <=> u \in workspace
    /\ u \in artifacts' <=> u \in artifacts
    /\ u \in recovered' <=> u \in recovered
    /\ service' = service
    /\ \/ desk' = desk
       \/ (desk # Idle => desk.task # u) /\ (desk' # Idle => desk'.task # u)

OthersUntouched(t) == \A u \in Tasks \ {t} : Untouched(u)

LEMMA UntouchedFits ==
    ASSUME NEW u \in Tasks, TaskFits(u), Untouched(u)
    PROVE  TaskFits(u)'
<1> USE DEF Untouched
<1>1. At("creating", u) <=> At("creating", u)'
  BY DEF At
<1>2. (At("finding", u) <=> At("finding", u)') /\ (At("poking", u) <=> At("poking", u)')
  BY DEF At
<1>3. RowFits(u)'
  BY <1>1 DEF TaskFits, RowFits, Exists
<1>4. DeskFits(u)'
  BY DEF TaskFits, DeskFits
<1>5. ControlFits(u)' /\ ProcessFits(u)' /\ CrashFits(u)'
  BY DEF TaskFits, ControlFits, ProcessFits, CrashFits
<1>6. RequestFits(u)'
  BY <1>2 DEF TaskFits, RequestFits
<1>7. FilesFit(u)'
  BY DEF TaskFits, FilesFit, Exists
<1> QED
  BY <1>3, <1>4, <1>5, <1>6, <1>7 DEF TaskFits

LEMMA NoControlType == NoControl \in Control
BY DEF NoControl, Control

LEMMA ControlType ==
    ASSUME control \in [Tasks -> Control], NEW t \in Tasks,
           \/ UNCHANGED control
           \/ control' = [control EXCEPT ![t].launching = TRUE]
           \/ control' = [control EXCEPT ![t].process = TRUE]
           \/ control' = [control EXCEPT ![t].cancelRequested = TRUE]
           \/ control' = [control EXCEPT ![t].launching = FALSE, ![t].process = FALSE]
           \/ control' = [control EXCEPT ![t] = [NoControl EXCEPT !.registered = TRUE]]
           \/ control' = [control EXCEPT ![t] = NoControl]
    PROVE  control' \in [Tasks -> Control]
<1>1. \A c \in Control : /\ [c EXCEPT !.launching = TRUE] \in Control
                         /\ [c EXCEPT !.process = TRUE] \in Control
                         /\ [c EXCEPT !.cancelRequested = TRUE] \in Control
                         /\ [c EXCEPT !.launching = FALSE, !.process = FALSE] \in Control
                         /\ [c EXCEPT !.registered = TRUE] \in Control
  BY DEF Control
<1>2. \/ UNCHANGED control
      \/ \E c \in Control : control' = [control EXCEPT ![t] = c]
  BY <1>1, NoControlType
<1> QED
  BY <1>2

\* The variables keep their types.
LEMMA TypesKept ==
    ASSUME ProcessTypeOK, TypeOK', [ProcessNext]_vars
    PROVE  ProcessTypeOK'
<1> USE OutcomesType DEF ProcessTypeOK, Goes, GivesUp
<1>1. CASE Desk
  <2> SUFFICES ASSUME NEW t \in Tasks,
                      StartBackground(t) \/ FindControl(t) \/ RequestCancelControl(t)
                        \/ DropFuture(t)
               PROVE  ProcessTypeOK'
    BY <1>1 DEF Desk
  <2>1. CASE StartBackground(t)
    BY <2>1 DEF StartBackground, serviceVars
  <2>2. CASE FindControl(t)
    BY <2>2 DEF FindControl, At, workerVars, serviceVars, Idle
  <2>3. CASE RequestCancelControl(t)
    <3>1. desk' \in [job : {"dropping"}, task : Tasks, closed : BOOLEAN]
      BY <2>3 DEF RequestCancelControl, At, Idle
    <3>2. control' \in [Tasks -> Control]
      <4>1. control' = [control EXCEPT ![t].cancelRequested = TRUE] \/ UNCHANGED control
        BY <2>3 DEF RequestCancelControl
      <4> QED
        BY <4>1, ControlType
    <3>3. injected' \in {injected, injected \cup {t}}
      BY <2>3 DEF RequestCancelControl
    <3>4. UNCHANGED <<pc, preparer, verdict, proc, workspace, serviceVars>>
      BY <2>3 DEF RequestCancelControl
    <3> QED
      BY <3>1, <3>2, <3>3, <3>4 DEF serviceVars
  <2>4. CASE DropFuture(t)
    BY <2>4 DEF DropFuture, serviceVars
  <2> QED
    BY <2>1, <2>2, <2>3, <2>4
<1>2. CASE Startup
  BY <1>2 DEF Startup, Restart, Serve, RecoverWorkspace, workerVars, Visited
<1>3. CASE Crash
  <2>1. control' \in [Tasks -> Control] /\ crashes' \in 0..MaxCrashes
    BY <1>3, ProcessAssumption, NoControlType DEF Crash
  <2>2. /\ pc' \in [Tasks -> {"lost", "none"}] /\ proc' \in [Tasks -> {"none", "dead"}]
        /\ preparer' \in [Tasks -> {"none"}] /\ verdict' \in [Tasks -> Outcome]
    BY <1>3 DEF Crash
  <2>3. /\ service' = "down" /\ recovered' = {} /\ desk' = Idle /\ injected' = {}
        /\ workspace' = workspace
    BY <1>3 DEF Crash
  <2> QED
    BY <2>1, <2>2, <2>3
<1>4. ASSUME NEW t \in Tasks, CreateTask(t) \/ CancelTask(t) PROVE ProcessTypeOK'
  <2>1. CASE CreateTask(t)
    BY <2>1 DEF CreateTask, workerVars, serviceVars
  <2>2. CASE CancelTask(t)
    BY <2>2 DEF CancelTask, workerVars, serviceVars
  <2> QED
    BY <1>4, <2>1, <2>2
<1>5. ASSUME NEW t \in Tasks, PickUp(t) \/ Analysis(t) \/ ProcessExits(t)
      PROVE  ProcessTypeOK'
  BY <1>5 DEF PickUp, Analysis, AnalysisReads, AnalysisWrites, ProcessExits, serviceVars
<1>6. ASSUME NEW t \in Tasks, Worker(t) PROVE ProcessTypeOK'
  <2> USE DEF serviceVars
  <2>1. CASE Start(t)
    BY <2>1 DEF Start
  <2>2. CASE RegisterControl(t)
    BY <2>2, ControlType DEF RegisterControl
  <2>3. CASE ReportStart(t)
    BY <2>3 DEF ReportStart, ReportProgress
  <2>4. CASE CopyWorkspace(t)
    BY <2>4 DEF CopyWorkspace
  <2>5. CASE CheckBeforePrepare(t)
    BY <2>5 DEF CheckBeforePrepare
  <2>6. CASE StartAnalysis(t)
    BY <2>6 DEF StartAnalysis
  <2>7. CASE Prepare(t)
    BY <2>7 DEF Prepare, ReportProgress
  <2>8. CASE RecordCommand(t)
    BY <2>8 DEF RecordCommand
  <2>9. CASE BeginLaunch(t)
    <3>1. control' \in [Tasks -> Control]
      <4>1. control' = [control EXCEPT ![t].launching = TRUE] \/ UNCHANGED control
        BY <2>9 DEF BeginLaunch
      <4> QED
        BY <4>1, ControlType
    <3>2. verdict' = [verdict EXCEPT ![t] = Cancelled] \/ UNCHANGED verdict
      BY <2>9 DEF BeginLaunch
    <3>3. pc' = [pc EXCEPT ![t] = "spawning"] \/ pc' = [pc EXCEPT ![t] = "ending"]
      BY <2>9 DEF BeginLaunch
    <3>4. UNCHANGED <<desk, preparer, injected, proc, workspace, serviceVars>>
      BY <2>9 DEF BeginLaunch
    <3> QED
      BY <3>1, <3>2, <3>3, <3>4
  <2>10. CASE Spawn(t)
    BY <2>10 DEF Spawn
  <2>11. CASE ProcessStarted(t)
    BY <2>11, ControlType DEF ProcessStarted
  <2>12. CASE WaitForProcess(t)
    BY <2>12 DEF WaitForProcess
  <2>13. CASE Reap(t)
    BY <2>13 DEF Reap, GroupKilled
  <2>14. CASE FinishLaunch(t)
    BY <2>14, ControlType DEF FinishLaunch
  <2>15. CASE UnregisterControl(t)
    BY <2>15, ControlType DEF UnregisterControl
  <2>16. CASE FinalizeTask(t)
    BY <2>16 DEF FinalizeTask
  <2>17. CASE CleanUp(t)
    BY <2>17 DEF CleanUp
  <2>18. CASE CleanUpFails(t)
    BY <2>18 DEF CleanUpFails
  <2> QED
    BY <1>6, <2>1, <2>2, <2>3, <2>4, <2>5, <2>6, <2>7, <2>8, <2>9, <2>10, <2>11, <2>12, <2>13,
       <2>14, <2>15, <2>16, <2>17, <2>18 DEF Worker
<1>7. CASE UNCHANGED vars
  BY <1>7 DEF vars, workerVars, serviceVars
<1> QED
  BY <1>1, <1>2, <1>3, <1>4, <1>5, <1>6, <1>7 DEF ProcessNext

-----------------------------------------------------------------------------
\* The step of a worker leaves the other tasks alone.
LEMMA WorkerAlone ==
    ASSUME ProcessTypeOK, NEW t \in Tasks, Worker(t)
    PROVE  OthersUntouched(t)
<1> SUFFICES ASSUME NEW u \in Tasks, u # t PROVE Untouched(u)
  BY DEF OthersUntouched
<1> USE DEF Untouched, ProcessTypeOK, TypeOK, Goes, GivesUp, serviceVars, storeVars
<1>1. CASE Start(t)
  BY <1>1 DEF Start, TryStart, WriteRow
<1>2. CASE RegisterControl(t)
  BY <1>2 DEF RegisterControl
<1>3. CASE ReportStart(t)
  BY <1>3 DEF ReportStart, ReportProgress, UpdateProgress, WriteRow
<1>4. CASE CopyWorkspace(t)
  BY <1>4 DEF CopyWorkspace
<1>5. CASE CheckBeforePrepare(t)
  BY <1>5 DEF CheckBeforePrepare
<1>6. CASE StartAnalysis(t)
  BY <1>6 DEF StartAnalysis
<1>7. CASE Prepare(t)
  BY <1>7 DEF Prepare, ReportProgress, UpdateProgress, WriteRow
<1>8. CASE RecordCommand(t)
  BY <1>8 DEF RecordCommand, UpdateCommandIfRunning, WriteRow
<1>9. CASE BeginLaunch(t)
  BY <1>9 DEF BeginLaunch
<1>10. CASE Spawn(t)
  BY <1>10 DEF Spawn
<1>11. CASE ProcessStarted(t)
  BY <1>11 DEF ProcessStarted
<1>12. CASE WaitForProcess(t)
  BY <1>12 DEF WaitForProcess
<1>13. CASE Reap(t)
  BY <1>13 DEF Reap
<1>14. CASE FinishLaunch(t)
  BY <1>14 DEF FinishLaunch
<1>15. CASE UnregisterControl(t)
  BY <1>15 DEF UnregisterControl
<1>16. CASE FinalizeTask(t)
  BY <1>16 DEF FinalizeTask, Finalize, WriteRow
<1>17. CASE CleanUp(t)
  BY <1>17 DEF CleanUp
<1>18. CASE CleanUpFails(t)
  BY <1>18 DEF CleanUpFails
<1> QED
  BY <1>1, <1>2, <1>3, <1>4, <1>5, <1>6, <1>7, <1>8, <1>9, <1>10, <1>11, <1>12, <1>13, <1>14,
     <1>15, <1>16, <1>17, <1>18 DEF Worker

\* What the calls a worker makes do to its row.
LEMMA CallsOnRow ==
    ASSUME TypeOK, NEW t \in Tasks
    PROVE  /\ TryStart(t) =>
                /\ rows[t].status = "PENDING" /\ rows'[t].status = "RUNNING"
                /\ rows'[t].cancel = rows[t].cancel /\ artifacts' = artifacts
           /\ UpdateProgress(t, 1) \/ UpdateCommandIfRunning(t) =>
                /\ rows'[t].status = rows[t].status /\ ~rows[t].cancel
                /\ rows'[t].cancel = rows[t].cancel /\ artifacts' = artifacts
           /\ VerdictOK /\ Finalize(t, verdict[t], t \in Artifacts, FALSE, FALSE) =>
                /\ rows'[t].status \in Terminal
                /\ rows'[t].status = "SUCCEEDED" => verdict[t].status = "SUCCEEDED"
                /\ t \in artifacts' <=>
                       t \in artifacts \/ (t \in Artifacts /\ rows'[t].status = "SUCCEEDED")
<1> rows \in [Tasks -> Row] /\ rows[t] \in Row
  BY DEF TypeOK
<1>1. ASSUME TryStart(t)
      PROVE  /\ rows[t].status = "PENDING" /\ rows'[t].status = "RUNNING"
             /\ rows'[t].cancel = rows[t].cancel /\ artifacts' = artifacts
  <2>1. rows'[t] = [rows[t] EXCEPT !.status = "RUNNING", !.started = TRUE]
    BY <1>1 DEF TryStart, WriteRow
  <2> QED
    BY <1>1, <2>1 DEF TryStart, CanStart, Row
<1>2. ASSUME UpdateProgress(t, 1) \/ UpdateCommandIfRunning(t)
      PROVE  /\ rows'[t].status = rows[t].status /\ ~rows[t].cancel
             /\ rows'[t].cancel = rows[t].cancel /\ artifacts' = artifacts
  <2>1. \/ rows'[t] = [rows[t] EXCEPT !.progress = 1]
        \/ rows'[t] = [rows[t] EXCEPT !.command = "prepared"]
    BY <1>2 DEF UpdateProgress, UpdateCommandIfRunning, WriteRow
  <2>2. ~rows[t].cancel /\ artifacts' = artifacts
    BY <1>2 DEF UpdateProgress, UpdateCommandIfRunning
  <2> QED
    BY <2>1, <2>2 DEF Row
<1>3. ASSUME VerdictOK, Finalize(t, verdict[t], t \in Artifacts, FALSE, FALSE)
      PROVE  /\ rows'[t].status \in Terminal
             /\ rows'[t].status = "SUCCEEDED" => verdict[t].status = "SUCCEEDED"
             /\ t \in artifacts' <=>
                    t \in artifacts \/ (t \in Artifacts /\ rows'[t].status = "SUCCEEDED")
  <2>1. rows'[t] = Finalized(rows[t], verdict[t])
    BY <1>3 DEF Finalize, WriteRow
  <2>2. verdict[t].status \in Terminal
    BY <1>3 DEF VerdictOK, Outcome
  <2>3. rows'[t].status \in {"CANCELLED", verdict[t].status}
    BY <2>1 DEF Finalized, Row
  <2>4. artifacts' = IF t \in Artifacts /\ rows'[t].status = "SUCCEEDED"
                     THEN artifacts \cup {t} ELSE artifacts
    BY <1>3, <2>1 DEF Finalize
  <2>5. t \in artifacts' <=>
            t \in artifacts \/ (t \in Artifacts /\ rows'[t].status = "SUCCEEDED")
    BY <2>4
  <2>6. rows'[t].status \in Terminal
    BY <2>2, <2>3 DEF Terminal
  <2> QED
    BY <2>3, <2>5, <2>6
<1> QED
  BY <1>1, <1>2, <1>3

\* The worker's own task.
LEMMA WorkerFits ==
    ASSUME ServiceInv, StoreInv, NEW t \in Tasks, Worker(t)
    PROVE  TaskFits(t)'
<1> USE DEF ServiceInv, ProcessTypeOK, TypeOK, VerdictOK, TaskFits, Goes, GivesUp, serviceVars,
            storeVars, At, Exists, Active, Terminal
<1>1. CASE Start(t)
  <2>1. /\ service = "up" /\ pc[t] = "starting" /\ artifacts' = artifacts
        /\ UNCHANGED <<desk, preparer, control, injected, proc, workspace, service, recovered>>
        /\ UNCHANGED verdict
        /\ \/ /\ rows[t].status = "PENDING" /\ ~rows'[t].cancel
              /\ rows'[t].status = "RUNNING" /\ pc'[t] = "registering"
           \/ rows' = rows /\ rows[t].status # "PENDING" /\ pc'[t] = "done"
    BY <1>1, CallsOnRow DEF Start, RowGood, CanStart, StoreInv
  <2>2. RowFits(t)'
    BY <2>1 DEF RowFits
  <2>3. DeskFits(t)'
    BY <2>1 DEF DeskFits, RowFits
  <2>4. ControlFits(t)'
    BY <2>1 DEF ControlFits
  <2>5. RequestFits(t)'
    BY <2>1 DEF RequestFits, ControlFits
  <2>6. ProcessFits(t)'
    BY <2>1 DEF ProcessFits
  <2>7. FilesFit(t)'
    BY <2>1 DEF FilesFit, Cancelled, Broken, ProcessFits, RowFits
  <2>8. CrashFits(t)'
    BY <2>1 DEF CrashFits, RowFits
  <2> QED
    BY <2>2, <2>3, <2>4, <2>5, <2>6, <2>7, <2>8
<1>2. CASE RegisterControl(t)
  <2>1. RowFits(t)'
    BY <1>2 DEF RowFits, RegisterControl, NoControl
  <2>2. DeskFits(t)'
    BY <1>2 DEF DeskFits, RegisterControl, NoControl, RowFits
  <2>3. ControlFits(t)'
    BY <1>2 DEF ControlFits, RegisterControl, NoControl
  <2>4. RequestFits(t)'
    BY <1>2 DEF RequestFits, RegisterControl, NoControl, ControlFits
  <2>5. ProcessFits(t)'
    BY <1>2 DEF ProcessFits, RegisterControl, NoControl
  <2>6. FilesFit(t)'
    BY <1>2 DEF FilesFit, RegisterControl, NoControl, ProcessFits, RowFits
  <2>7. CrashFits(t)'
    BY <1>2 DEF CrashFits, RegisterControl, NoControl, RowFits
  <2> QED
    BY <2>1, <2>2, <2>3, <2>4, <2>5, <2>6, <2>7
<1>3. CASE ReportStart(t)
  <2>1. /\ service = "up" /\ pc[t] = "reporting" /\ artifacts' = artifacts
        /\ UNCHANGED <<desk, preparer, control, injected, proc, workspace, service, recovered>>
        /\ rows'[t].status = rows[t].status /\ rows'[t].cancel = rows[t].cancel
        /\ \/ pc'[t] = "copying" /\ UNCHANGED verdict
           \/ pc'[t] = "ending" /\ verdict'[t] = Cancelled
    BY <1>3, CallsOnRow DEF ReportStart, ReportProgress
  <2>2. RowFits(t)'
    BY <2>1 DEF RowFits
  <2>3. DeskFits(t)'
    BY <2>1 DEF DeskFits, RowFits
  <2>4. ControlFits(t)'
    BY <2>1 DEF ControlFits
  <2>5. RequestFits(t)'
    BY <2>1 DEF RequestFits, ControlFits
  <2>6. ProcessFits(t)'
    BY <2>1 DEF ProcessFits
  <2>7. FilesFit(t)'
    BY <2>1 DEF FilesFit, Cancelled, Broken, ProcessFits, RowFits
  <2>8. CrashFits(t)'
    BY <2>1 DEF CrashFits, RowFits
  <2> QED
    BY <2>2, <2>3, <2>4, <2>5, <2>6, <2>7, <2>8
<1>4. CASE CopyWorkspace(t)
  <2>1. RowFits(t)'
    BY <1>4 DEF RowFits, CopyWorkspace
  <2>2. DeskFits(t)'
    BY <1>4 DEF DeskFits, CopyWorkspace, RowFits
  <2>3. ControlFits(t)'
    BY <1>4 DEF ControlFits, CopyWorkspace
  <2>4. RequestFits(t)'
    BY <1>4 DEF RequestFits, CopyWorkspace, ControlFits
  <2>5. ProcessFits(t)'
    BY <1>4, ProcessAssumption DEF ProcessFits, CopyWorkspace
  <2>6. FilesFit(t)'
    BY <1>4 DEF FilesFit, CopyWorkspace, ProcessFits, RowFits
  <2>7. CrashFits(t)'
    BY <1>4 DEF CrashFits, CopyWorkspace, RowFits
  <2> QED
    BY <2>1, <2>2, <2>3, <2>4, <2>5, <2>6, <2>7
<1>5. CASE CheckBeforePrepare(t)
  <2>1. RowFits(t)'
    BY <1>5 DEF RowFits, CheckBeforePrepare
  <2>2. DeskFits(t)'
    BY <1>5 DEF DeskFits, CheckBeforePrepare, RowFits
  <2>3. ControlFits(t)'
    BY <1>5 DEF ControlFits, CheckBeforePrepare
  <2>4. RequestFits(t)'
    BY <1>5 DEF RequestFits, CheckBeforePrepare, ControlFits
  <2>5. ProcessFits(t)'
    BY <1>5 DEF ProcessFits, CheckBeforePrepare
  <2>6. FilesFit(t)'
    BY <1>5 DEF FilesFit, CheckBeforePrepare, ProcessFits, RowFits
  <2>7. CrashFits(t)'
    BY <1>5 DEF CrashFits, CheckBeforePrepare, RowFits
  <2> QED
    BY <2>1, <2>2, <2>3, <2>4, <2>5, <2>6, <2>7
<1>6. CASE StartAnalysis(t)
  <2>1. RowFits(t)'
    BY <1>6 DEF RowFits, StartAnalysis
  <2>2. DeskFits(t)'
    BY <1>6 DEF DeskFits, StartAnalysis, RowFits
  <2>3. ControlFits(t)'
    BY <1>6 DEF ControlFits, StartAnalysis
  <2>4. RequestFits(t)'
    BY <1>6 DEF RequestFits, StartAnalysis, ControlFits
  <2>5. ProcessFits(t)'
    BY <1>6 DEF ProcessFits, StartAnalysis
  <2>6. FilesFit(t)'
    BY <1>6 DEF FilesFit, StartAnalysis, ProcessFits, RowFits
  <2>7. CrashFits(t)'
    BY <1>6 DEF CrashFits, StartAnalysis, RowFits
  <2> QED
    BY <2>1, <2>2, <2>3, <2>4, <2>5, <2>6, <2>7
<1>7. CASE Prepare(t)
  <2>1. /\ service = "up" /\ pc[t] = "preparing" /\ artifacts' = artifacts
        /\ UNCHANGED <<desk, preparer, control, proc, workspace, service, recovered>>
        /\ rows'[t].status = rows[t].status /\ rows'[t].cancel = rows[t].cancel
        /\ t \in injected' => t \in injected
        /\ \/ /\ pc'[t] = "preparing" /\ verdict'[t] = verdict[t] /\ ~rows[t].cancel
           \/ pc'[t] = "recording" /\ verdict'[t] = verdict[t] /\ IsPrepared(t)
           \/ pc'[t] = "ending" /\ verdict'[t] \in {Cancelled, Broken}
    <3>1. CASE ReportProgress(t, "preparing", "preparing")
      BY <3>1, CallsOnRow DEF ReportProgress
    <3>2. CASE ~ReportProgress(t, "preparing", "preparing")
      BY <1>7, <3>2 DEF Prepare
    <3> QED
      BY <3>1, <3>2
  <2>2. RowFits(t)'
    BY <2>1 DEF RowFits, IsPrepared
  <2>3. DeskFits(t)'
    BY <2>1 DEF DeskFits, IsPrepared, RowFits
  <2>4. ControlFits(t)'
    BY <2>1 DEF ControlFits, IsPrepared
  <2>5. RequestFits(t)'
    BY <2>1 DEF RequestFits, IsPrepared, ControlFits
  <2>6. ProcessFits(t)'
    BY <2>1 DEF ProcessFits, IsPrepared
  <2>7. FilesFit(t)'
    BY <2>1 DEF FilesFit, IsPrepared, Cancelled, Broken, ProcessFits, RowFits
  <2>8. CrashFits(t)'
    BY <2>1 DEF CrashFits, IsPrepared, RowFits
  <2> QED
    BY <2>2, <2>3, <2>4, <2>5, <2>6, <2>7, <2>8
<1>8. CASE RecordCommand(t)
  <2>1. /\ service = "up" /\ pc[t] = "recording" /\ artifacts' = artifacts
        /\ UNCHANGED <<desk, preparer, control, injected, proc, workspace, service, recovered>>
        /\ rows'[t].status = rows[t].status /\ rows'[t].cancel = rows[t].cancel
        /\ \/ pc'[t] = "launching" /\ UNCHANGED verdict
           \/ pc'[t] = "ending" /\ verdict'[t] = Cancelled
    BY <1>8, CallsOnRow DEF RecordCommand
  <2>2. RowFits(t)'
    BY <2>1 DEF RowFits
  <2>3. DeskFits(t)'
    BY <2>1 DEF DeskFits, RowFits
  <2>4. ControlFits(t)'
    BY <2>1 DEF ControlFits
  <2>5. RequestFits(t)'
    BY <2>1 DEF RequestFits, ControlFits
  <2>6. ProcessFits(t)'
    BY <2>1 DEF ProcessFits
  <2>7. FilesFit(t)'
    BY <2>1 DEF FilesFit, Cancelled, Broken, ProcessFits, RowFits
  <2>8. CrashFits(t)'
    BY <2>1 DEF CrashFits, RowFits
  <2> QED
    BY <2>2, <2>3, <2>4, <2>5, <2>6, <2>7, <2>8
<1>9. CASE BeginLaunch(t)
  <2>1. /\ service = "up" /\ pc[t] = "launching" /\ UNCHANGED <<rows, artifacts>>
        /\ UNCHANGED <<desk, preparer, injected, proc, workspace, service, recovered>>
        /\ control'[t].registered = control[t].registered
        /\ control'[t].cancelRequested = control[t].cancelRequested
        /\ \/ /\ pc'[t] = "spawning" /\ verdict'[t] = verdict[t] /\ ~rows[t].cancel
              /\ control'[t].launching /\ control'[t].process = control[t].process
              /\ ~control[t].cancelRequested
           \/ pc'[t] = "ending" /\ verdict'[t] = Cancelled /\ control' = control
    BY <1>9 DEF BeginLaunch, LaunchRefused, Control
  <2>2. RowFits(t)'
    BY <2>1 DEF RowFits
  <2>3. DeskFits(t)'
    BY <2>1 DEF DeskFits, RowFits
  <2>4. ControlFits(t)'
    BY <2>1 DEF ControlFits
  <2>5. RequestFits(t)'
    BY <2>1 DEF RequestFits, ControlFits
  <2>6. ProcessFits(t)'
    BY <2>1 DEF ProcessFits
  <2>7. FilesFit(t)'
    BY <2>1 DEF FilesFit, Cancelled, Broken, ProcessFits, RowFits
  <2>8. CrashFits(t)'
    BY <2>1 DEF CrashFits, RowFits
  <2> QED
    BY <2>2, <2>3, <2>4, <2>5, <2>6, <2>7, <2>8
<1>10. CASE Spawn(t)
  <2>1. RowFits(t)'
    BY <1>10 DEF RowFits, Spawn
  <2>2. DeskFits(t)'
    BY <1>10 DEF DeskFits, Spawn, RowFits
  <2>3. ControlFits(t)'
    BY <1>10 DEF ControlFits, Spawn
  <2>4. RequestFits(t)'
    BY <1>10 DEF RequestFits, Spawn, ControlFits
  <2>5. ProcessFits(t)'
    BY <1>10 DEF ProcessFits, Spawn
  <2>6. FilesFit(t)'
    BY <1>10 DEF FilesFit, Spawn, ProcessFits, RowFits
  <2>7. CrashFits(t)'
    BY <1>10 DEF CrashFits, Spawn, RowFits
  <2> QED
    BY <2>1, <2>2, <2>3, <2>4, <2>5, <2>6, <2>7
<1>11. CASE ProcessStarted(t)
  <2>1. RowFits(t)'
    BY <1>11 DEF RowFits, ProcessStarted, StartedUnderCancel
  <2>2. DeskFits(t)'
    BY <1>11 DEF DeskFits, ProcessStarted, StartedUnderCancel, RowFits
  <2>3. ControlFits(t)'
    BY <1>11 DEF ControlFits, ProcessStarted, StartedUnderCancel
  <2>4. RequestFits(t)'
    BY <1>11 DEF RequestFits, ProcessStarted, StartedUnderCancel, ControlFits
  <2>5. ProcessFits(t)'
    BY <1>11 DEF ProcessFits, ProcessStarted, StartedUnderCancel
  <2>6. FilesFit(t)'
    BY <1>11 DEF FilesFit, ProcessStarted, StartedUnderCancel, ProcessFits, RowFits
  <2>7. CrashFits(t)'
    BY <1>11 DEF CrashFits, ProcessStarted, StartedUnderCancel, RowFits
  <2> QED
    BY <2>1, <2>2, <2>3, <2>4, <2>5, <2>6, <2>7
<1>12. CASE WaitForProcess(t)
  <2>1. RowFits(t)'
    BY <1>12 DEF RowFits, WaitForProcess
  <2>2. DeskFits(t)'
    BY <1>12 DEF DeskFits, WaitForProcess, RowFits
  <2>3. ControlFits(t)'
    BY <1>12 DEF ControlFits, WaitForProcess
  <2>4. RequestFits(t)'
    BY <1>12 DEF RequestFits, WaitForProcess, ControlFits
  <2>5. ProcessFits(t)'
    BY <1>12 DEF ProcessFits, WaitForProcess
  <2>6. FilesFit(t)'
    BY <1>12 DEF FilesFit, WaitForProcess, ProcessFits, RowFits
  <2>7. CrashFits(t)'
    BY <1>12 DEF CrashFits, WaitForProcess, RowFits
  <2> QED
    BY <2>1, <2>2, <2>3, <2>4, <2>5, <2>6, <2>7
<1>13. CASE Reap(t)
  <2>1. RowFits(t)'
    BY <1>13 DEF RowFits, Reap, GroupKilled
  <2>2. DeskFits(t)'
    BY <1>13 DEF DeskFits, Reap, GroupKilled, RowFits
  <2>3. ControlFits(t)'
    BY <1>13 DEF ControlFits, Reap, GroupKilled
  <2>4. RequestFits(t)'
    BY <1>13 DEF RequestFits, Reap, GroupKilled, ControlFits
  <2>5. ProcessFits(t)'
    BY <1>13 DEF ProcessFits, Reap, GroupKilled
  <2>6. FilesFit(t)'
    BY <1>13 DEF FilesFit, Reap, GroupKilled, ProcessFits, RowFits
  <2>7. CrashFits(t)'
    BY <1>13 DEF CrashFits, Reap, GroupKilled, RowFits
  <2> QED
    BY <2>1, <2>2, <2>3, <2>4, <2>5, <2>6, <2>7
<1>14. CASE FinishLaunch(t)
  <2>1. RowFits(t)'
    BY <1>14 DEF RowFits, FinishLaunch
  <2>2. DeskFits(t)'
    BY <1>14 DEF DeskFits, FinishLaunch, RowFits
  <2>3. ControlFits(t)'
    BY <1>14 DEF ControlFits, FinishLaunch
  <2>4. RequestFits(t)'
    BY <1>14 DEF RequestFits, FinishLaunch, ControlFits
  <2>5. ProcessFits(t)'
    BY <1>14 DEF ProcessFits, FinishLaunch
  <2>6. FilesFit(t)'
    BY <1>14 DEF FilesFit, FinishLaunch, ProcessFits, RowFits
  <2>7. CrashFits(t)'
    BY <1>14 DEF CrashFits, FinishLaunch, RowFits
  <2> QED
    BY <2>1, <2>2, <2>3, <2>4, <2>5, <2>6, <2>7
<1>15. CASE UnregisterControl(t)
  <2>1. RowFits(t)'
    BY <1>15 DEF RowFits, UnregisterControl, NoControl
  <2>2. DeskFits(t)'
    BY <1>15 DEF DeskFits, UnregisterControl, NoControl, RowFits
  <2>3. ControlFits(t)'
    BY <1>15 DEF ControlFits, UnregisterControl, NoControl
  <2>4. RequestFits(t)'
    BY <1>15 DEF RequestFits, UnregisterControl, NoControl, ControlFits
  <2>5. ProcessFits(t)'
    BY <1>15 DEF ProcessFits, UnregisterControl, NoControl
  <2>6. FilesFit(t)'
    BY <1>15 DEF FilesFit, UnregisterControl, NoControl, ProcessFits, RowFits
  <2>7. CrashFits(t)'
    BY <1>15 DEF CrashFits, UnregisterControl, NoControl, RowFits
  <2> QED
    BY <2>1, <2>2, <2>3, <2>4, <2>5, <2>6, <2>7
<1>16. CASE FinalizeTask(t)
  <2>1. /\ service = "up" /\ pc[t] = "finalizing" /\ rows[t].status = "RUNNING"
        /\ UNCHANGED <<desk, preparer, control, injected, proc, workspace, service, recovered>>
        /\ verdict'[t] = Broken
        /\ rows'[t].status = "SUCCEEDED" => t \in workspace
        /\ \/ /\ pc'[t] = "cleaning" /\ rows'[t].status \in Terminal
              /\ t \in artifacts' <=>
                     t \in artifacts \/ (t \in Artifacts /\ rows'[t].status = "SUCCEEDED")
           \/ pc'[t] = "failing" /\ rows' = rows /\ artifacts' = artifacts
    <3>1. rows[t].status = "RUNNING" /\ service = "up" /\ pc[t] = "finalizing"
      BY <1>16 DEF FinalizeTask, RowFits
    <3>2. CASE Finalize(t, verdict[t], t \in Artifacts, FALSE, FALSE) /\ pc'[t] = "cleaning"
      <4>1. /\ rows'[t].status \in Terminal
            /\ rows'[t].status = "SUCCEEDED" => verdict[t].status = "SUCCEEDED"
            /\ t \in artifacts' <=>
                   t \in artifacts \/ (t \in Artifacts /\ rows'[t].status = "SUCCEEDED")
        BY <3>2, CallsOnRow
      <4> QED
        BY <1>16, <3>1, <3>2, <4>1 DEF FinalizeTask, FilesFit
    <3>3. CASE UNCHANGED storeVars /\ pc'[t] = "failing"
      BY <1>16, <3>1, <3>3 DEF FinalizeTask, RowFits
    <3> QED
      BY <1>16, <3>1, <3>2, <3>3 DEF FinalizeTask, CanFinalize
  <2>2. RowFits(t)'
    BY <2>1 DEF RowFits
  <2>3. DeskFits(t)'
    BY <2>1 DEF DeskFits, RowFits
  <2>4. ControlFits(t)'
    BY <2>1 DEF ControlFits
  <2>5. RequestFits(t)'
    BY <2>1 DEF RequestFits, ControlFits
  <2>6. ProcessFits(t)'
    BY <2>1 DEF ProcessFits
  <2>7. FilesFit(t)'
    BY <2>1 DEF FilesFit, Cancelled, Broken, ProcessFits, RowFits
  <2>8. CrashFits(t)'
    BY <2>1 DEF CrashFits, RowFits
  <2> QED
    BY <2>2, <2>3, <2>4, <2>5, <2>6, <2>7, <2>8
<1>17. CASE CleanUp(t)
  <2>1. RowFits(t)'
    BY <1>17 DEF RowFits, CleanUp, KeepsFiles
  <2>2. DeskFits(t)'
    BY <1>17 DEF DeskFits, CleanUp, KeepsFiles, RowFits
  <2>3. ControlFits(t)'
    BY <1>17 DEF ControlFits, CleanUp, KeepsFiles
  <2>4. RequestFits(t)'
    BY <1>17 DEF RequestFits, CleanUp, KeepsFiles, ControlFits
  <2>5. ProcessFits(t)'
    BY <1>17 DEF ProcessFits, CleanUp, KeepsFiles
  <2>6. FilesFit(t)'
    BY <1>17 DEF FilesFit, CleanUp, KeepsFiles, ProcessFits, RowFits
  <2>7. CrashFits(t)'
    BY <1>17 DEF CrashFits, CleanUp, KeepsFiles, RowFits
  <2> QED
    BY <2>1, <2>2, <2>3, <2>4, <2>5, <2>6, <2>7
<1>18. CASE CleanUpFails(t)
  <2>1. RowFits(t)'
    BY <1>18 DEF RowFits, CleanUpFails, KeepsFiles
  <2>2. DeskFits(t)'
    BY <1>18 DEF DeskFits, CleanUpFails, KeepsFiles, RowFits
  <2>3. ControlFits(t)'
    BY <1>18 DEF ControlFits, CleanUpFails, KeepsFiles
  <2>4. RequestFits(t)'
    BY <1>18 DEF RequestFits, CleanUpFails, KeepsFiles, ControlFits
  <2>5. ProcessFits(t)'
    BY <1>18 DEF ProcessFits, CleanUpFails, KeepsFiles
  <2>6. FilesFit(t)'
    BY <1>18 DEF FilesFit, CleanUpFails, KeepsFiles, ProcessFits, RowFits
  <2>7. CrashFits(t)'
    BY <1>18 DEF CrashFits, CleanUpFails, KeepsFiles, RowFits
  <2> QED
    BY <2>1, <2>2, <2>3, <2>4, <2>5, <2>6, <2>7
<1> QED
  BY <1>1, <1>2, <1>3, <1>4, <1>5, <1>6, <1>7, <1>8, <1>9, <1>10, <1>11, <1>12, <1>13, <1>14,
     <1>15, <1>16, <1>17, <1>18 DEF Worker

\* The server's loop, the pool, the threads that repair and the programs: one
\* task again.
LEMMA OtherStepsFit ==
    ASSUME ServiceInv, StoreInv, NEW t \in Tasks,
           \/ CreateTask(t) \/ StartBackground(t)
           \/ CancelTask(t) \/ FindControl(t) \/ RequestCancelControl(t) \/ DropFuture(t)
           \/ PickUp(t) \/ Analysis(t) \/ ProcessExits(t) \/ RecoverWorkspace(t)
    PROVE  TaskFits(t)' /\ OthersUntouched(t)
<1> USE DEF ServiceInv, ProcessTypeOK, TypeOK, TaskFits, Goes, serviceVars, workerVars,
            storeVars, At, Exists, Active, Terminal
<1> rows \in [Tasks -> Row] /\ rows[t] \in Row /\ RowGood(rows[t])
  BY DEF StoreInv
<1> Idle.job = "idle"
  BY DEF Idle
<1>1. CASE CreateTask(t)
  <2>1. /\ service = "up" /\ desk = Idle /\ pc[t] = "none" /\ rows[t].status = "ABSENT"
        /\ desk' = [job |-> "creating", task |-> t, closed |-> FALSE]
        /\ UNCHANGED <<workerVars, serviceVars, artifacts>>
        /\ rows'[t].status = "PENDING" /\ ~rows'[t].cancel
        /\ \A u \in Tasks \ {t} : rows'[u] = rows[u]
    BY <1>1 DEF CreateTask, Save, WriteRow, AbsentRow
  <2>2. RowFits(t)'
    BY <2>1 DEF RowFits, ControlFits, CrashFits, DeskFits
  <2>3. DeskFits(t)'
    BY <2>1 DEF DeskFits, RowFits, ControlFits, CrashFits
  <2>4. ControlFits(t)'
    BY <2>1 DEF ControlFits, DeskFits
  <2>5. RequestFits(t)'
    BY <2>1 DEF RequestFits, ControlFits
  <2>6. ProcessFits(t)'
    BY <2>1 DEF ProcessFits
  <2>7. FilesFit(t)'
    BY <2>1 DEF FilesFit, ProcessFits, RowFits
  <2>8. CrashFits(t)'
    BY <2>1 DEF CrashFits, RowFits, ControlFits, DeskFits
  <2>9. OthersUntouched(t)
    BY <2>1 DEF OthersUntouched, Untouched
  <2> QED
    BY <2>2, <2>3, <2>4, <2>5, <2>6, <2>7, <2>8, <2>9
<1>2. CASE StartBackground(t)
  <2>1. RowFits(t)'
    BY <1>2 DEF RowFits, StartBackground, ControlFits, CrashFits, DeskFits
  <2>2. DeskFits(t)'
    BY <1>2 DEF DeskFits, StartBackground, RowFits, ControlFits, CrashFits
  <2>3. ControlFits(t)'
    BY <1>2 DEF ControlFits, StartBackground, DeskFits
  <2>4. RequestFits(t)'
    BY <1>2 DEF RequestFits, StartBackground, ControlFits
  <2>5. ProcessFits(t)'
    BY <1>2 DEF ProcessFits, StartBackground
  <2>6. FilesFit(t)'
    BY <1>2 DEF FilesFit, StartBackground, ProcessFits, RowFits
  <2>7. CrashFits(t)'
    BY <1>2 DEF CrashFits, StartBackground, RowFits, ControlFits, DeskFits
  <2>8. OthersUntouched(t)
    BY <1>2 DEF OthersUntouched, Untouched, StartBackground
  <2> QED
    BY <2>1, <2>2, <2>3, <2>4, <2>5, <2>6, <2>7, <2>8
<1>3. CASE CancelTask(t)
  <2>1. /\ service = "up" /\ desk = Idle /\ rows[t].status # "ABSENT"
        /\ desk' = [job |-> "finding", task |-> t, closed |-> rows'[t].status = "CANCELLED"]
        /\ UNCHANGED <<workerVars, serviceVars, artifacts>>
        /\ rows'[t].cancel
        /\ \/ rows'[t].status = rows[t].status
           \/ rows[t].status = "PENDING" /\ rows'[t].status = "CANCELLED"
        /\ \A u \in Tasks \ {t} : rows'[u] = rows[u]
    <3>1. CASE RequestCancel(t)
      <4>1. rows'[t] = CancelRequested(rows[t])
        BY <3>1 DEF RequestCancel, WriteRow
      <4>2. /\ rows'[t].cancel
            /\ \/ rows'[t].status = rows[t].status
               \/ rows[t].status = "PENDING" /\ rows'[t].status = "CANCELLED"
        BY <4>1 DEF CancelRequested, Row
      <4> QED
        BY <1>3, <3>1, <4>2 DEF CancelTask, RequestCancel, WriteRow
    <3>2. CASE UNCHANGED storeVars /\ rows[t].cancel
      BY <1>3, <3>2 DEF CancelTask
    <3> QED
      BY <1>3, <3>1, <3>2 DEF CancelTask
  <2>2. RowFits(t)'
    BY <2>1 DEF RowFits, ControlFits, CrashFits, DeskFits
  <2>3. DeskFits(t)'
    BY <2>1 DEF DeskFits, RowFits, ControlFits, CrashFits
  <2>4. ControlFits(t)'
    BY <2>1 DEF ControlFits, DeskFits
  <2>5. RequestFits(t)'
    BY <2>1 DEF RequestFits, ControlFits
  <2>6. ProcessFits(t)'
    BY <2>1 DEF ProcessFits
  <2>7. FilesFit(t)'
    BY <2>1 DEF FilesFit, ProcessFits, RowFits
  <2>8. CrashFits(t)'
    BY <2>1 DEF CrashFits, RowFits, ControlFits, DeskFits
  <2>9. OthersUntouched(t)
    BY <2>1 DEF OthersUntouched, Untouched
  <2> QED
    BY <2>2, <2>3, <2>4, <2>5, <2>6, <2>7, <2>8, <2>9
<1>4. CASE FindControl(t)
  <2>1. RowFits(t)'
    BY <1>4 DEF RowFits, FindControl, ControlFits, CrashFits, DeskFits
  <2>2. DeskFits(t)'
    BY <1>4 DEF DeskFits, FindControl, RowFits, ControlFits, CrashFits
  <2>3. ControlFits(t)'
    BY <1>4 DEF ControlFits, FindControl, DeskFits
  <2>4. RequestFits(t)'
    BY <1>4 DEF RequestFits, FindControl, ControlFits
  <2>5. ProcessFits(t)'
    BY <1>4 DEF ProcessFits, FindControl
  <2>6. FilesFit(t)'
    BY <1>4 DEF FilesFit, FindControl, ProcessFits, RowFits
  <2>7. CrashFits(t)'
    BY <1>4 DEF CrashFits, FindControl, RowFits, ControlFits, DeskFits
  <2>8. OthersUntouched(t)
    BY <1>4 DEF OthersUntouched, Untouched, FindControl
  <2> QED
    BY <2>1, <2>2, <2>3, <2>4, <2>5, <2>6, <2>7, <2>8
<1>5. CASE RequestCancelControl(t)
  <2>1. /\ service = "up" /\ desk # Idle /\ desk.job = "poking" /\ desk.task = t
        /\ desk' # Idle /\ desk'.job = "dropping" /\ desk'.task = t /\ desk'.closed = desk.closed
        /\ UNCHANGED <<rows, artifacts, pc, preparer, verdict, proc, workspace, service, recovered>>
        /\ control'[t].registered = control[t].registered
        /\ control'[t].launching = control[t].launching
        /\ control'[t].process = control[t].process
        /\ \/ /\ pc[t] \in OnThread \ {"finalizing", "cleaning", "failing"}
              /\ control'[t].cancelRequested
              /\ injected' = IF MustInterrupt(control[t]) THEN injected \cup {t} ELSE injected
           \/ /\ pc[t] \notin OnThread \ {"finalizing", "cleaning", "failing"}
              /\ control' = control /\ injected' = injected
        /\ \A u \in Tasks \ {t} : control'[u] = control[u]
    BY <1>5 DEF RequestCancelControl, PastAwaits, Control, Idle
  <2>2. RowFits(t)'
    BY <2>1 DEF RowFits, MustInterrupt, ControlFits, CrashFits, DeskFits
  <2>3. DeskFits(t)'
    BY <2>1 DEF DeskFits, MustInterrupt, RowFits, ControlFits, CrashFits
  <2>4. ControlFits(t)'
    BY <2>1 DEF ControlFits, MustInterrupt, DeskFits
  <2>5. RequestFits(t)'
    BY <2>1 DEF RequestFits, MustInterrupt, ControlFits
  <2>6. ProcessFits(t)'
    BY <2>1 DEF ProcessFits, MustInterrupt
  <2>7. FilesFit(t)'
    BY <2>1 DEF FilesFit, MustInterrupt, ProcessFits, RowFits
  <2>8. CrashFits(t)'
    BY <2>1 DEF CrashFits, MustInterrupt, RowFits, ControlFits, DeskFits
  <2>9. OthersUntouched(t)
    BY <2>1 DEF OthersUntouched, Untouched, MustInterrupt
  <2> QED
    BY <2>2, <2>3, <2>4, <2>5, <2>6, <2>7, <2>8, <2>9
<1>6. CASE DropFuture(t)
  <2>1. RowFits(t)'
    BY <1>6 DEF RowFits, DropFuture, ControlFits, CrashFits, DeskFits
  <2>2. DeskFits(t)'
    BY <1>6 DEF DeskFits, DropFuture, RowFits, ControlFits, CrashFits
  <2>3. ControlFits(t)'
    BY <1>6 DEF ControlFits, DropFuture, DeskFits
  <2>4. RequestFits(t)'
    BY <1>6 DEF RequestFits, DropFuture, ControlFits
  <2>5. ProcessFits(t)'
    BY <1>6 DEF ProcessFits, DropFuture
  <2>6. FilesFit(t)'
    BY <1>6 DEF FilesFit, DropFuture, ProcessFits, RowFits
  <2>7. CrashFits(t)'
    BY <1>6 DEF CrashFits, DropFuture, RowFits, ControlFits, DeskFits
  <2>8. OthersUntouched(t)
    BY <1>6 DEF OthersUntouched, Untouched, DropFuture
  <2> QED
    BY <2>1, <2>2, <2>3, <2>4, <2>5, <2>6, <2>7, <2>8
<1>7. CASE PickUp(t)
  <2>1. RowFits(t)'
    BY <1>7 DEF RowFits, PickUp, ControlFits, CrashFits, DeskFits
  <2>2. DeskFits(t)'
    BY <1>7 DEF DeskFits, PickUp, RowFits, ControlFits, CrashFits
  <2>3. ControlFits(t)'
    BY <1>7 DEF ControlFits, PickUp, DeskFits
  <2>4. RequestFits(t)'
    BY <1>7 DEF RequestFits, PickUp, ControlFits
  <2>5. ProcessFits(t)'
    BY <1>7 DEF ProcessFits, PickUp
  <2>6. FilesFit(t)'
    BY <1>7 DEF FilesFit, PickUp, ProcessFits, RowFits
  <2>7. CrashFits(t)'
    BY <1>7 DEF CrashFits, PickUp, RowFits, ControlFits, DeskFits
  <2>8. OthersUntouched(t)
    BY <1>7 DEF OthersUntouched, Untouched, PickUp
  <2> QED
    BY <2>1, <2>2, <2>3, <2>4, <2>5, <2>6, <2>7, <2>8
<1>8. CASE Analysis(t)
  <2>1. RowFits(t)'
    BY <1>8 DEF RowFits, Analysis, AnalysisReads, AnalysisWrites, ControlFits, CrashFits, DeskFits
  <2>2. DeskFits(t)'
    BY <1>8 DEF DeskFits, Analysis, AnalysisReads, AnalysisWrites, RowFits, ControlFits, CrashFits
  <2>3. ControlFits(t)'
    BY <1>8 DEF ControlFits, Analysis, AnalysisReads, AnalysisWrites, DeskFits
  <2>4. RequestFits(t)'
    BY <1>8 DEF RequestFits, Analysis, AnalysisReads, AnalysisWrites, ControlFits
  <2>5. ProcessFits(t)'
    BY <1>8 DEF ProcessFits, Analysis, AnalysisReads, AnalysisWrites, FilesFit
  <2>6. FilesFit(t)'
    BY <1>8 DEF FilesFit, Analysis, AnalysisReads, AnalysisWrites, ProcessFits, RowFits
  <2>7. CrashFits(t)'
    BY <1>8 DEF CrashFits, Analysis, AnalysisReads, AnalysisWrites, RowFits, ControlFits, DeskFits
  <2>8. OthersUntouched(t)
    BY <1>8 DEF OthersUntouched, Untouched, Analysis, AnalysisReads, AnalysisWrites
  <2> QED
    BY <2>1, <2>2, <2>3, <2>4, <2>5, <2>6, <2>7, <2>8
<1>9. CASE ProcessExits(t)
  <2>1. RowFits(t)'
    BY <1>9 DEF RowFits, ProcessExits, ControlFits, CrashFits, DeskFits
  <2>2. DeskFits(t)'
    BY <1>9 DEF DeskFits, ProcessExits, RowFits, ControlFits, CrashFits
  <2>3. ControlFits(t)'
    BY <1>9 DEF ControlFits, ProcessExits, DeskFits
  <2>4. RequestFits(t)'
    BY <1>9 DEF RequestFits, ProcessExits, ControlFits
  <2>5. ProcessFits(t)'
    BY <1>9 DEF ProcessFits, ProcessExits
  <2>6. FilesFit(t)'
    BY <1>9 DEF FilesFit, ProcessExits, ProcessFits, RowFits
  <2>7. CrashFits(t)'
    BY <1>9 DEF CrashFits, ProcessExits, RowFits, ControlFits, DeskFits
  <2>8. OthersUntouched(t)
    BY <1>9 DEF OthersUntouched, Untouched, ProcessExits
  <2> QED
    BY <2>1, <2>2, <2>3, <2>4, <2>5, <2>6, <2>7, <2>8
<1>10. CASE RecoverWorkspace(t)
  <2>1. RowFits(t)'
    BY <1>10 DEF RowFits, RecoverWorkspace, ControlFits, CrashFits, DeskFits
  <2>2. DeskFits(t)'
    BY <1>10 DEF DeskFits, RecoverWorkspace, RowFits, ControlFits, CrashFits
  <2>3. ControlFits(t)'
    BY <1>10 DEF ControlFits, RecoverWorkspace, DeskFits
  <2>4. RequestFits(t)'
    BY <1>10 DEF RequestFits, RecoverWorkspace, ControlFits
  <2>5. ProcessFits(t)'
    BY <1>10 DEF ProcessFits, RecoverWorkspace
  <2>6. FilesFit(t)'
    BY <1>10 DEF FilesFit, RecoverWorkspace, ProcessFits, RowFits, CrashFits
  <2>7. CrashFits(t)'
    BY <1>10 DEF CrashFits, RecoverWorkspace, RowFits, ControlFits, DeskFits
  <2>8. OthersUntouched(t)
    BY <1>10 DEF OthersUntouched, Untouched, RecoverWorkspace
  <2> QED
    BY <2>1, <2>2, <2>3, <2>4, <2>5, <2>6, <2>7, <2>8
<1> QED
  BY <1>1, <1>2, <1>3, <1>4, <1>5, <1>6, <1>7, <1>8, <1>9, <1>10

\* A crash ends every worker; what is left of each task is its row and its files.
LEMMA CrashAndStartupFit ==
    ASSUME ServiceInv, Crash \/ Restart \/ Serve, NEW t \in Tasks
    PROVE  TaskFits(t)'
<1> USE DEF ServiceInv, ProcessTypeOK, TypeOK, TaskFits, serviceVars, workerVars,
            storeVars, At, Exists, Active, Terminal
<1>1. CASE Crash
  <2>1. /\ service' = "down" /\ desk' = Idle /\ t \notin recovered' /\ t \notin injected'
        /\ pc'[t] = IF Exists(t) THEN "lost" ELSE "none"
        /\ control'[t] = NoControl /\ preparer'[t] = "none" /\ verdict'[t] = Broken
        /\ proc'[t] \in {"none", "dead"} /\ UNCHANGED <<rows, artifacts, workspace>>
    BY <1>1 DEF Crash
  <2>2. RowFits(t)' /\ DeskFits(t)' /\ CrashFits(t)'
    BY <2>1 DEF RowFits, DeskFits, CrashFits
  <2>3. ControlFits(t)' /\ RequestFits(t)' /\ ProcessFits(t)'
    BY <2>1 DEF ControlFits, RequestFits, ProcessFits, NoControl
  <2>4. FilesFit(t)'
    BY <2>1 DEF FilesFit, Broken
  <2> QED
    BY <2>2, <2>3, <2>4
<1>2. CASE Restart
  <2>1. /\ service = "down" /\ service' = "recovering" /\ artifacts' = artifacts
        /\ UNCHANGED <<desk, workerVars>>
        /\ rows'[t] = Recovered(rows[t])
        /\ t \in recovered' => rows[t].status \in Active
    BY <1>2 DEF Restart, RecoverInterrupted, Visited
  <2>2. /\ rows'[t].status \notin Active
        /\ rows'[t].status \in {rows[t].status, "CANCELLED", "FAILED"}
        /\ rows[t].status \in Active => rows'[t].status \in {"CANCELLED", "FAILED"}
        /\ rows[t].status \notin Active => rows'[t].status = rows[t].status
    <3>1. CASE rows[t].status \in Active
      BY <2>1, <3>1 DEF Recovered, Row
    <3>2. CASE rows[t].status \notin Active
      BY <2>1, <3>2 DEF Recovered
    <3> QED
      BY <3>1, <3>2
  <2>3. pc[t] \in {"none", "lost"} /\ (desk = Idle \/ desk.task # t)
    BY <2>1 DEF CrashFits, DeskFits
  <2>4. RowFits(t)' /\ DeskFits(t)' /\ CrashFits(t)'
    BY <2>1, <2>2, <2>3 DEF RowFits, DeskFits, CrashFits
  <2>5. ControlFits(t)' /\ RequestFits(t)' /\ ProcessFits(t)'
    BY <2>1, <2>3 DEF ControlFits, RequestFits, ProcessFits
  <2>6. FilesFit(t)'
    BY <2>1, <2>2, <2>3 DEF FilesFit
  <2> QED
    BY <2>4, <2>5, <2>6
<1>3. CASE Serve
  <2>1. /\ service = "recovering" /\ service' = "up" /\ t \notin recovered'
        /\ UNCHANGED <<storeVars, desk, workerVars>>
    BY <1>3 DEF Serve
  <2>2. /\ pc[t] \in {"none", "lost"} /\ rows[t].status \notin Active
        /\ desk = Idle \/ desk.task # t
    BY <2>1 DEF CrashFits, DeskFits
  <2>3. RowFits(t)' /\ DeskFits(t)' /\ CrashFits(t)'
    BY <2>1, <2>2 DEF RowFits, DeskFits, CrashFits
  <2>4. ControlFits(t)' /\ RequestFits(t)' /\ ProcessFits(t)'
    BY <2>1, <2>2 DEF ControlFits, RequestFits, ProcessFits
  <2>5. FilesFit(t)'
    BY <2>1, <2>2 DEF FilesFit
  <2> QED
    BY <2>3, <2>4, <2>5
<1> QED
  BY <1>1, <1>2, <1>3

LEMMA InitiallyFit == ProcessInit => ServiceInv
<1> SUFFICES ASSUME ProcessInit PROVE ServiceInv
  OBVIOUS
<1>1. ProcessTypeOK
  <2>1. TypeOK
    BY AbsentRowType, EmptyPatchType DEF ProcessInit, StoreInit, TypeOK
  <2>2. control \in [Tasks -> Control] /\ verdict \in [Tasks -> Outcome]
    BY NoControlType, OutcomesType DEF ProcessInit
  <2>3. crashes \in 0..MaxCrashes
    BY ProcessAssumption DEF ProcessInit
  <2> QED
    BY <2>1, <2>2, <2>3 DEF ProcessInit, ProcessTypeOK
<1>2. ASSUME NEW t \in Tasks PROVE TaskFits(t)
  <2>1. /\ rows[t].status = "ABSENT" /\ t \notin artifacts /\ t \notin workspace
        /\ pc[t] = "none" /\ control[t] = NoControl /\ preparer[t] = "none"
        /\ t \notin injected /\ verdict[t] = Broken /\ proc[t] = "none"
        /\ desk = Idle /\ service = "up" /\ t \notin recovered
    BY DEF ProcessInit, StoreInit, AbsentRow
  <2>2. RowFits(t) /\ DeskFits(t) /\ CrashFits(t)
    BY <2>1 DEF RowFits, DeskFits, CrashFits, Exists, Active
  <2>3. ControlFits(t) /\ RequestFits(t) /\ ProcessFits(t)
    BY <2>1 DEF ControlFits, RequestFits, ProcessFits, NoControl
  <2>4. FilesFit(t)
    BY <2>1 DEF FilesFit, Broken
  <2> QED
    BY <2>2, <2>3, <2>4 DEF TaskFits
<1> QED
  BY <1>1, <1>2 DEF ServiceInv

\* A step fits if the task it is about fits, and the others are left alone.
LEMMA OneTaskSteps ==
    ASSUME ServiceInv, NEW t \in Tasks, TaskFits(t)', OthersUntouched(t)
    PROVE  \A u \in Tasks : TaskFits(u)'
<1> TAKE u \in Tasks
<1>1. CASE u = t
  BY <1>1
<1>2. CASE u # t
  BY <1>2, UntouchedFits DEF ServiceInv, OthersUntouched
<1> QED
  BY <1>1, <1>2

LEMMA ServiceInvKept ==
    ASSUME ServiceInv, StoreInv, StoreInv', [ProcessNext]_vars
    PROVE  ServiceInv'
<1>1. ProcessTypeOK'
  BY TypesKept DEF ServiceInv, StoreInv
<1>2. ASSUME NEW t \in Tasks, Worker(t) PROVE \A u \in Tasks : TaskFits(u)'
  BY <1>2, WorkerFits, WorkerAlone, OneTaskSteps DEF ServiceInv
<1>3. ASSUME NEW t \in Tasks,
             \/ CreateTask(t) \/ StartBackground(t)
             \/ CancelTask(t) \/ FindControl(t) \/ RequestCancelControl(t) \/ DropFuture(t)
             \/ PickUp(t) \/ Analysis(t) \/ ProcessExits(t) \/ RecoverWorkspace(t)
      PROVE  \A u \in Tasks : TaskFits(u)'
  BY <1>3, OtherStepsFit, OneTaskSteps
<1>4. ASSUME Crash \/ Restart \/ Serve PROVE \A u \in Tasks : TaskFits(u)'
  BY <1>4, CrashAndStartupFit
<1>5. ASSUME UNCHANGED vars PROVE \A u \in Tasks : TaskFits(u)'
  <2> SUFFICES ASSUME NEW u \in Tasks PROVE Untouched(u)
    BY UntouchedFits DEF ServiceInv
  <2> QED
    BY <1>5 DEF vars, storeVars, workerVars, serviceVars, Untouched
<1>6. \A u \in Tasks : TaskFits(u)'
  BY <1>2, <1>3, <1>4, <1>5 DEF ProcessNext, Desk, Startup
<1> QED
  BY <1>1, <1>6 DEF ServiceInv

\* The store's invariant holds below the service, and is used to show its own.
LEMMA ServiceInvHolds == ProcessSpec => [](ServiceInv /\ StoreInv)
<1>1. ProcessSpec => []StoreInv
  BY ServiceUsesTheStore, StoreInvHolds, PTL DEF UsesTheStore
<1>2. ServiceInv /\ StoreInv /\ StoreInv' /\ [ProcessNext]_vars => ServiceInv'
  BY ServiceInvKept
<1> QED
  BY InitiallyFit, <1>1, <1>2, PTL DEF ProcessSpec

-----------------------------------------------------------------------------
(***************************************************************************)
(* What follows.                                                           *)
(***************************************************************************)
\* The types of all variables; no create_subprocess_exec is interrupted by a
\* cancellation (the launch boundary of _ProcessTaskControl); and no open row
\* is forgotten by the pool and the workers.
THEOREM ServiceIsSafe == ProcessSpec => []ProcessInv
<1>1. ServiceInv => ProcessInv
  <2> SUFFICES ASSUME ServiceInv, NEW t \in Tasks
               PROVE  /\ pc[t] \in {"spawning", "spawned"} => t \notin injected
                      /\ service = "up" =>
                           /\ rows[t].status = "PENDING"
                                => pc[t] \in {"queued", "starting"} \/ At("creating", t)
                           /\ rows[t].status = "RUNNING"
                                => pc[t] \in (OnThread \cup {"failed"})
                                               \ {"starting", "cleaning"}
    BY DEF ServiceInv, ProcessInv, SpawnNeverInterrupted, NobodyForgotten
  <2>1. RowFits(t) /\ ControlFits(t)
    BY DEF ServiceInv, TaskFits
  <2> QED
    BY <2>1 DEF RowFits, ControlFits
<1> QED
  BY <1>1, ServiceInvHolds, PTL

\* While a process, or anything of its group, is there, its row is RUNNING and
\* its directory exists: run kills the group before the row is closed and the
\* workspace deleted, whatever fails and whoever cancels.
THEOREM ProcessesEndWithTheirTask == ProcessSpec => []NoProcessOutlivesTask
<1>1. ServiceInv => NoProcessOutlivesTask
  BY DEF ServiceInv, NoProcessOutlivesTask, TaskFits, ProcessFits, RowFits, FilesFit
<1> QED
  BY <1>1, ServiceInvHolds, PTL

\* Artifacts on offer exist, and a worker that came to its end left nothing else.
THEOREM FilesAreAsOffered == ProcessSpec => []FilesAsOffered
<1>1. ServiceInv => FilesAsOffered
  <2> SUFFICES ASSUME ServiceInv PROVE OfferedFilesExist /\ NothingLeftBehind
    BY DEF FilesAsOffered
  <2>1. \A t \in Tasks : FilesFit(t)
    BY DEF ServiceInv, TaskFits
  <2>2. artifacts \subseteq Tasks
    BY DEF ServiceInv, ProcessTypeOK, TypeOK
  <2> QED
    BY <2>1, <2>2 DEF FilesFit, OfferedFilesExist, NothingLeftBehind
<1> QED
  BY <1>1, ServiceInvHolds, PTL

\* Once cancel_task has returned, a worker that awaits its preparer or its
\* process has been interrupted, and one in its launch will find the request:
\* the flag in the row and the control cannot both be missed.
THEOREM CancellationsReachWorkers == ProcessSpec => []CancelReachesWorker
<1>1. ServiceInv => CancelReachesWorker
  <2> SUFFICES ASSUME ServiceInv, NEW t \in Tasks,
                      rows[t].cancel, desk = Idle \/ desk.task # t
               PROVE  /\ pc[t] \in {"preparing", "running"} => t \in injected
                      /\ pc[t] \in {"spawning", "spawned"} => control[t].cancelRequested
    BY DEF CancelReachesWorker
  <2>1. RequestFits(t)
    BY DEF ServiceInv, TaskFits
  <2> QED
    BY <2>1 DEF RequestFits, At
<1> QED
  BY <1>1, ServiceInvHolds, PTL

-----------------------------------------------------------------------------
(***************************************************************************)
(* Repairs of makefiles.                                                   *)
(***************************************************************************)
\* A repair leaves the rules as they are.
LEMMA RepairedFields ==
    ASSUME NEW M, IsMakefile(M), NEW actual
    PROVE  /\ Repaired(M, actual).rules = M.rules
           /\ Repaired(M, actual).added = M.added \cup Missing(M, actual)
           /\ Repaired(M, actual) =
                  [rules |-> M.rules, added |-> M.added \cup Missing(M, actual)]
<1>1. M = [rules |-> M.rules, added |-> M.added]
    BY DEF IsMakefile
<1> QED
    BY <1>1 DEF Repaired

\* What the analysis finds depends on the rules alone, ...
LEMMA ActualOfRules ==
    ASSUME NEW M, NEW N, N.rules = M.rules, NEW scan
    PROVE  Actual(N, scan) = Actual(M, scan)
<1>1. Rules(N) = Rules(M)
    BY DEF Rules
<1>2. \A i, t : Makes(N, i, t) <=> Makes(M, i, t)
    BY <1>1 DEF Makes
<1>3. \A i : Evidence(N, i) = Evidence(M, i)
    BY DEF Evidence
<1>4. \A t : FromRecipes(N, t) = FromRecipes(M, t)
    BY <1>1, <1>2, <1>3 DEF FromRecipes
<1>5. \A i, t : FirstOf(N, i, t) <=> FirstOf(M, i, t)
    BY <1>2, <1>3 DEF FirstOf
<1>6. \A s : RecipeTargets(N, s) = RecipeTargets(M, s)
    BY <1>1, <1>4, <1>5 DEF RecipeTargets
<1>7. \A s : PatternTargets(N, s) = PatternTargets(M, s)
    <2>1. \A i, j, s : TargetsBy(N, i, j, s) = TargetsBy(M, i, j, s)
        BY DEF TargetsBy
    <2> QED
        BY <1>1, <2>1 DEF PatternTargets
<1>8. \A s : TargetsOf(N, scan, s) = TargetsOf(M, scan, s)
    BY <1>6, <1>7 DEF TargetsOf
<1> QED
    BY <1>4, <1>8 DEF Actual

\* ... and so does what make builds a target with.
LEMMA BuildersOfRules ==
    ASSUME NEW M, NEW N, N.rules = M.rules, NEW t
    PROVE  /\ Builders(N, t) = Builders(M, t)
           /\ ExplicitNeeds(N, t) = ExplicitNeeds(M, t)
           /\ ResolvedNeeds(N, t) = ResolvedNeeds(M, t)
<1>1. Rules(N) = Rules(M)
    BY DEF Rules
<1>2. HasRecipe(N, t) <=> HasRecipe(M, t)
    BY <1>1 DEF HasRecipe
<1>3. \A i : ResolvedBy(N, i, t) <=> ResolvedBy(M, i, t)
    BY <1>1 DEF ResolvedBy
<1> QED
    BY <1>1, <1>2, <1>3 DEF Builders, ExplicitNeeds, ResolvedNeeds

\* make's reasons to rebuild a target grow by what was missing.
LEMMA RepairedNeeds ==
    ASSUME NEW M, IsMakefile(M), NEW actual, NEW t \in Files
    PROVE  MakeNeeds(Repaired(M, actual), t) =
               MakeNeeds(M, t) \cup Of(Missing(M, actual), t)
<1> DEFINE R == Repaired(M, actual)
<1>1. R.rules = M.rules /\ R.added = M.added \cup Missing(M, actual)
    BY RepairedFields
<1>2. Of(R.added, t) = Of(M.added, t) \cup Of(Missing(M, actual), t)
    BY <1>1 DEF Of
<1>3. Builders(R, t) = Builders(M, t) /\ ExplicitNeeds(R, t) = ExplicitNeeds(M, t)
    BY <1>1, BuildersOfRules
<1>4. MakeNeeds(R, t) = ExplicitNeeds(M, t) \cup Of(R.added, t)
                          \cup UNION {NeedsOf(M.rules[i], t) : i \in Builders(M, t)}
    BY <1>1, <1>3 DEF MakeNeeds
<1> HIDE DEF R
<1>5. MakeNeeds(R, t) = MakeNeeds(M, t) \cup Of(Missing(M, actual), t)
    BY <1>2, <1>4 DEF MakeNeeds
<1> QED
    BY <1>5 DEF R

-----------------------------------------------------------------------------
\* A repair takes nothing away, and adds only what the analysis has found.
THEOREM OnlyAdds == RepairOnlyAdds
<1> SUFFICES ASSUME NEW M \in Makefiles, NEW scan \in Scans, NEW t \in Files \ Patterns
             PROVE  LET repaired == Repaired(M, Actual(M, scan))
                    IN  /\ MakeNeeds(M, t) \subseteq MakeNeeds(repaired, t)
                        /\ MakeNeeds(repaired, t)
                               \subseteq MakeNeeds(M, t) \cup Of(Actual(M, scan), t)
    BY DEF RepairOnlyAdds
<1>1. IsMakefile(M)
    BY DependencyAssumption
<1>2. MakeNeeds(Repaired(M, Actual(M, scan)), t) =
          MakeNeeds(M, t) \cup Of(Missing(M, Actual(M, scan)), t)
    BY <1>1, RepairedNeeds
<1>3. Of(Missing(M, Actual(M, scan)), t) \subseteq Of(Actual(M, scan), t)
    BY DEF Of, Missing
<1> QED
    BY <1>2, <1>3

\* A rule is a MakeRule.
LEMMA RuleType ==
    ASSUME NEW M, IsMakefile(M), NEW i \in Rules(M)
    PROVE  /\ Rules(M) = 1..Len(M.rules) /\ Len(M.rules) \in Nat
           /\ M.rules[i] \in MakeRule
           /\ M.rules[i].target \in Files /\ M.rules[i].recipe \in Command
           /\ M.rules[i].needs \in Seq(Files) /\ Written(M.rules[i]) \subseteq Files
           /\ LeadOf(M.rules[i]) \subseteq Written(M.rules[i])
<1>1. M.rules \in Seq(MakeRule) /\ i \in DOMAIN M.rules
    BY DEF IsMakefile, Rules
<1>2. DOMAIN M.rules = 1..Len(M.rules) /\ Len(M.rules) \in Nat /\ M.rules[i] \in MakeRule
    BY <1>1
<1>3. M.rules[i].target \in Files /\ M.rules[i].recipe \in Command
      /\ M.rules[i].needs \in Seq(Files)
    BY <1>2 DEF MakeRule
<1>4. \A j \in DOMAIN M.rules[i].needs : M.rules[i].needs[j] \in Files
    BY <1>3
<1> QED
    BY <1>2, <1>3, <1>4 DEF Rules, Written, LeadOf

\* What makes a file that is no pattern is a rule of its own or a pattern.
LEMMA BuilderIs ==
    ASSUME NEW M, IsMakefile(M), NEW t \in Files \ Patterns, NEW i \in Builders(M, t)
    PROVE  /\ i \in Rules(M)
           /\ \/ /\ HasRecipe(M, t) /\ ExplicitFor(M.rules[i], t)
                 /\ M.rules[i].target \notin Patterns
                 /\ NeedsOf(M.rules[i], t) = Written(M.rules[i])
              \/ /\ ~HasRecipe(M, t) /\ PatternFor(M.rules[i], t)
                 /\ M.rules[i].target \in Patterns /\ M.rules[i].target # t
                 /\ NeedsOf(M.rules[i], t) = Filled(Written(M.rules[i]), M.rules[i], t)
<1>1. i \in Rules(M)
    BY DEF Builders
<1>2. CASE HasRecipe(M, t)
    <2>1. ExplicitFor(M.rules[i], t) /\ M.rules[i].target \notin Patterns
        BY <1>2 DEF Builders, ExplicitFor
    <2>2. StemsOf(M.rules[i], t) = {}
        BY <2>1 DEF StemsOf
    <2> QED
        BY <1>1, <1>2, <2>1, <2>2 DEF NeedsOf, Filled
<1>3. CASE ~HasRecipe(M, t)
    <2>1. PatternFor(M.rules[i], t) /\ M.rules[i].target \in Patterns
        BY <1>3 DEF Builders, PatternFor, StemsOf
    <2> QED
        BY <1>1, <1>3, <2>1 DEF NeedsOf, ExplicitFor
<1> QED
    BY <1>2, <1>3

\* What the detector has been told of a known target, make rebuilds it for.
LEMMA DetectedIsNeeded ==
    ASSUME NEW M, IsMakefile(M), NEW actual, NEW t \in Files \ Patterns, IsPlain(M, t),
           NEW i \in Builders(M, t), NEW f \in Files, <<t, f>> \in actual, Known(M, t)
    PROVE  f \in MakeNeeds(Repaired(M, actual), t)
<1>1. CASE f \notin Declared(M, t)
    <2>1. <<t, f>> \in Missing(M, actual)
        BY <1>1 DEF Missing
    <2>2. f \in Of(Missing(M, actual), t)
        BY <2>1 DEF Of
    <2> QED
        BY <2>2, RepairedNeeds
<1>2. CASE f \in Declared(M, t)
    <2>1. CASE IsExplicit(M, t)
        <3>1. f \in ExplicitNeeds(M, t) \cup Of(M.added, t)
            BY <1>2, <2>1 DEF Declared
        <3> QED
            BY <3>1, RepairedNeeds DEF MakeNeeds
    <2>2. CASE ~IsExplicit(M, t)
        <3>1. PICK k \in Rules(M) :
                  ResolvedBy(M, k, t) /\ f \in Filled(Written(M.rules[k]), M.rules[k], t)
            BY <1>2, <2>2 DEF Declared, ResolvedNeeds
        <3>2. ~HasRecipe(M, t)
            BY <2>2 DEF IsExplicit, HasRecipe
        <3>3. k = i
            BY <3>1, <3>2, BuilderIs DEF ResolvedBy, IsPlain
        <3>4. f \in MakeNeeds(M, t)
            BY <3>1, <3>3 DEF MakeNeeds, NeedsOf
        <3> QED
            BY <3>4, RepairedNeeds
    <2> QED
        BY <2>1, <2>2
<1> QED
    BY <1>1, <1>2

\* A target that make has a command for is known to the detector.
LEMMA BuiltIsKnown ==
    ASSUME NEW M, IsMakefile(M), NEW t \in Files \ Patterns, IsPlain(M, t),
           NEW i \in Builders(M, t)
    PROVE  Known(M, t)
<1>1. i \in Rules(M) /\ Rules(M) = 1..Len(M.rules) /\ Len(M.rules) \in Nat
    BY BuilderIs, RuleType
<1>2. CASE ExplicitFor(M.rules[i], t)
    BY <1>1, <1>2 DEF Known, IsExplicit
<1>3. CASE PatternFor(M.rules[i], t)
    <2>1. \A k \in Rules(M) : PatternFor(M.rules[k], t) => k = i
        BY <1>1, <1>3 DEF IsPlain
    <2>2. \A k \in 1..i - 1 : ~PatternFor(M.rules[k], t)
        BY <1>1, <2>1
    <2> QED
        BY <1>1, <1>3, <2>2 DEF Known, ResolvedBy
<1> QED
    BY <1>2, <1>3, BuilderIs

\* Inputs are files; each is an argument.
LEMMA InputType ==
    ASSUME NEW rule, NEW t, NEW needs, NEW lead, NEW f \in InputsOf(rule, t, needs, lead)
    PROVE  /\ f \in Files /\ f \in ArgumentsOf(rule, t, needs, lead)
           /\ \A more, first : f \in ArgumentsOf(rule, t, more, first)
                                => f \in InputsOf(rule, t, more, first)
BY DependencyAssumption DEF InputsOf

\* What make puts for $< is a prerequisite of the rule.
LEMMA LeadIsNeeded ==
    ASSUME NEW M, IsMakefile(M), NEW t \in Files \ Patterns, NEW i \in Builders(M, t)
    PROVE  MakeLead(M.rules[i], t) \subseteq NeedsOf(M.rules[i], t)
<1>1. LeadOf(M.rules[i]) \subseteq Written(M.rules[i])
    BY BuilderIs, RuleType
<1> QED
    BY <1>1 DEF MakeLead, NeedsOf, Filled

\* The analyzer sees every input that make does not have as a prerequisite.
LEMMA InputsAreFound ==
    ASSUME NEW M, IsMakefile(M), NEW scan \in Scan, NEW t \in Files \ Patterns,
           IsPlain(M, t), NEW i \in Builders(M, t),
           NEW f \in InputsOf(M.rules[i], t, MakeNeeds(M, t), MakeLead(M.rules[i], t))
    PROVE  f \in MakeNeeds(M, t) \/ <<t, f>> \in Actual(M, scan)
<1> DEFINE rule == M.rules[i]
<1>1. i \in Rules(M) /\ f \in Files
    BY BuilderIs, InputType
<1>2. MakeLead(rule, t) \subseteq MakeNeeds(M, t)
    BY LeadIsNeeded DEF MakeNeeds
<1>3. f \in rule.recipe.words[t] \/ f \in MakeNeeds(M, t)
    BY <1>2, InputType DEF ArgumentsOf
<1>4. CASE f \in rule.recipe.words[t] /\ rule.target \in Patterns
    <2>1. f \in InputsOf(rule, t, {}, {})
        BY <1>4, InputType DEF ArgumentsOf
    <2> QED
        BY <1>1, <1>4, <2>1 DEF IsPlain
<1>5. CASE f \in rule.recipe.words[t] /\ rule.target \notin Patterns
    <2>1. rule.target = t
        BY <1>5, BuilderIs DEF ExplicitFor
    <2>2. f \in InputsOf(rule, t, Written(rule), LeadOf(rule))
        BY <1>5, InputType DEF ArgumentsOf
    <2>3. f \in Evidence(M, i)
        BY <2>1, <2>2 DEF Evidence
    <2>4. Makes(M, i, t)
        BY <1>1, <2>1 DEF Makes, IsPlain
    <2>5. f \in FromRecipes(M, t)
        BY <1>1, <2>3, <2>4 DEF FromRecipes
    <2>6. <<t, f>> \in UNION {{u} \X FromRecipes(M, u) : u \in Files}
        BY <2>5
    <2> QED
        BY <2>6 DEF Actual
<1> QED
    BY <1>3, <1>4, <1>5

\* A source that make has as a prerequisite of a target that has a command, is one
\* of the rule that has the command.
LEMMA SourceIsOfRule ==
    ASSUME NEW M, IsMakefile(M), M.added = {}, NEW t \in Files \ Patterns, IsPlain(M, t),
           NEW i \in Builders(M, t), NEW s \in Sources, s \in MakeNeeds(M, t)
    PROVE  s \in NeedsOf(M.rules[i], t)
<1>1. s \notin Of(M.added, t)
    BY DEF Of
<1>2. PICK k \in Rules(M) : /\ k \in Builders(M, t) \/ ExplicitFor(M.rules[k], t)
                            /\ s \in NeedsOf(M.rules[k], t)
    BY <1>1 DEF MakeNeeds, ExplicitNeeds, Builders, NeedsOf
<1>3. k = i
    BY <1>2 DEF IsPlain
<1> QED
    BY <1>2, <1>3

\* A source of make's command is a prerequisite of the pattern that has it, or
\* found in the recipe of the rule that has it.
LEMMA SourceOfRule ==
    ASSUME NEW M, IsMakefile(M), M.added = {}, NEW t \in Files \ Patterns, IsPlain(M, t),
           NEW i \in Builders(M, t), NEW s \in Sources,
           s \in InputsOf(M.rules[i], t, MakeNeeds(M, t), MakeLead(M.rules[i], t))
    PROVE  /\ M.rules[i].target \in Patterns => s \in Filled(Written(M.rules[i]), M.rules[i], t)
           /\ M.rules[i].target \notin Patterns => Makes(M, i, t) /\ s \in Evidence(M, i)
<1> DEFINE rule == M.rules[i]
<1>1. i \in Rules(M) /\ s \in ArgumentsOf(rule, t, MakeNeeds(M, t), MakeLead(rule, t))
    BY BuilderIs, InputType
<1>2. s \in MakeNeeds(M, t) => s \in NeedsOf(rule, t)
    BY SourceIsOfRule
<1>3. ASSUME rule.target \in Patterns PROVE s \in Filled(Written(rule), rule, t)
    <2>1. NeedsOf(rule, t) = Filled(Written(rule), rule, t)
        BY <1>3, BuilderIs
    <2>2. s \in rule.recipe.words[t] => s \in MakeNeeds(M, t)
        <3>1. s \in rule.recipe.words[t] => s \in InputsOf(rule, t, {}, {})
            BY InputType DEF ArgumentsOf
        <3> QED
            BY <1>3, <3>1 DEF IsPlain
    <2> QED
        BY <1>1, <1>2, <2>1, <2>2, LeadIsNeeded DEF ArgumentsOf
<1>4. ASSUME rule.target \notin Patterns PROVE Makes(M, i, t) /\ s \in Evidence(M, i)
    <2>1. rule.target = t /\ NeedsOf(rule, t) = Written(rule)
        BY <1>4, BuilderIs DEF ExplicitFor
    <2>2. Makes(M, i, t)
        BY <1>1, <2>1 DEF Makes, IsPlain
    <2>3. MakeLead(rule, t) = LeadOf(rule)
        BY <2>1 DEF MakeLead, ExplicitFor
    <2>4. s \in ArgumentsOf(rule, t, Written(rule), LeadOf(rule))
        BY <1>1, <1>2, <2>1, <2>3 DEF ArgumentsOf
    <2>5. s \in InputsOf(rule, t, Written(rule), LeadOf(rule))
        BY <2>4, InputType
    <2> QED
        BY <2>1, <2>2, <2>5 DEF Evidence
<1> QED
    BY <1>3, <1>4

\* What the compiler says of a source is put down to its only user.  Of a pattern,
\* the source stands for a "%" then: were it written in the rule, the pattern would
\* be a user too.
LEMMA PutDownToItsUser ==
    ASSUME NEW M, IsMakefile(M), M.added = {}, NEW scan \in Scan, NEW t \in Files \ Patterns,
           IsPlain(M, t), NEW i \in Builders(M, t), NEW s \in Sources,
           s \in InputsOf(M.rules[i], t, MakeNeeds(M, t), MakeLead(M.rules[i], t)),
           OnlyUser(M, t, s)
    PROVE  t \in TargetsOf(M, scan, s)
<1> DEFINE rule == M.rules[i]
           users == {u \in Files : s \in FromRecipes(M, u)}
<1>1. /\ i \in Rules(M) /\ Rules(M) = 1..Len(M.rules) /\ Len(M.rules) \in Nat
      /\ rule.target \in Files /\ Written(rule) \subseteq Files
    BY BuilderIs, RuleType
<1>2. users \subseteq {t}
    <2> SUFFICES ASSUME NEW u \in Files, s \in FromRecipes(M, u) PROVE u = t
        OBVIOUS
    <2>1. PICK k \in Rules(M) : Makes(M, k, u) /\ s \in Evidence(M, k)
        BY DEF FromRecipes
    <2> QED
        BY <2>1 DEF OnlyUser
<1>3. RecipeTargets(M, s) \subseteq {t}
    BY <1>2 DEF RecipeTargets
<1>4. CASE rule.target \notin Patterns
    <2>1. Makes(M, i, t) /\ s \in Evidence(M, i)
        BY <1>4, SourceOfRule
    <2>2. s \in FromRecipes(M, t)
        BY <1>1, <2>1 DEF FromRecipes
    <2>3. \A j, k \in Rules(M) : FirstOf(M, j, t) /\ FirstOf(M, k, t) => j <= k
        <3> SUFFICES ASSUME NEW j \in Rules(M), NEW k \in Rules(M),
                            FirstOf(M, j, t), FirstOf(M, k, t), ~(j <= k)
                     PROVE  FALSE
            OBVIOUS
        <3>1. k \in 1..j - 1
            BY <1>1
        <3> QED
            BY <3>1 DEF FirstOf
    <2>4. t \in RecipeTargets(M, s)
        BY <1>2, <2>2, <2>3 DEF RecipeTargets
    <2> QED
        BY <2>4 DEF TargetsOf
<1>5. CASE rule.target \in Patterns
    <2>1. PICK f \in Written(rule), x \in StemsOf(rule, t) : s = Fill[f][x]
        BY <1>5, SourceOfRule DEF Filled
    <2>2. PICK j \in DOMAIN rule.needs : f = rule.needs[j]
        BY DEF Written
    <2>3. x \in Stems /\ Fill[rule.target][x] = t
        BY DEF StemsOf
    <2>4. f \in Patterns
        <3> SUFFICES ASSUME f \notin Patterns PROVE FALSE
            OBVIOUS
        <3>1. s = f
            BY <1>1, <2>1, <2>3, DependencyAssumption
        <3>2. s \in NeedsOf(rule, rule.target)
            BY <3>1 DEF NeedsOf, ExplicitFor
        <3> QED
            BY <1>1, <1>5, <3>2 DEF OnlyUser
    <2>5. t \in TargetsBy(M, i, j, s)
        BY <1>5, <2>1, <2>2, <2>3, <2>4 DEF TargetsBy
    <2>6. ASSUME NEW k \in Rules(M), NEW l \in DOMAIN M.rules[k].needs
          PROVE  TargetsBy(M, k, l, s) \subseteq {t}
        <3> SUFFICES ASSUME NEW u \in TargetsBy(M, k, l, s) PROVE u = t
            OBVIOUS
        <3>1. PICK y \in Stems : /\ M.rules[k].target \in Patterns
                                 /\ Fill[M.rules[k].needs[l]][y] = s
                                 /\ u = Fill[M.rules[k].target][y]
            BY DEF TargetsBy
        <3>2. y \in StemsOf(M.rules[k], u)
            BY <3>1 DEF StemsOf
        <3>3. s \in NeedsOf(M.rules[k], u)
            BY <3>1, <3>2 DEF NeedsOf, Filled, Written
        <3>4. u \in Files
            BY <3>1, DependencyAssumption
        <3> QED
            BY <3>3, <3>4 DEF OnlyUser
    <2>7. t \in PatternTargets(M, s)
        BY <1>1, <2>5, <2>6 DEF PatternTargets
    <2> QED
        BY <1>3, <2>7 DEF TargetsOf
<1> QED
    BY <1>4, <1>5

-----------------------------------------------------------------------------
\* After a repair, make rebuilds a target whenever a file changes that its build
\* reads: an input is a prerequisite or found in the recipe, the headers of a
\* source are put down to its only user, and what was found is declared or added.
THEOREM IsComplete == RepairIsComplete
<1> SUFFICES ASSUME NEW M \in Makefiles, NEW scan \in Scans,
                    NEW t \in Files \ Patterns, IsPlain(M, t),
                    \A s \in Sources \cap Reads(M, scan, t) : OnlyUser(M, t, s),
                    NEW f \in Reads(M, scan, t)
             PROVE  f \in MakeNeeds(Repaired(M, Actual(M, scan)), t)
    BY DEF RepairIsComplete
<1> DEFINE actual == Actual(M, scan)
           inputs == Inputs(M, t)
<1>1. IsMakefile(M) /\ M.added = {} /\ scan \in Scan
    BY DependencyAssumption
<1>2. Reads(M, scan, t) = inputs \cup UNION {scan[s].headers : s \in inputs \cap Sources}
    BY DEF Reads
<1>3. ASSUME NEW i \in Builders(M, t), NEW g \in Files, <<t, g>> \in actual
      PROVE  g \in MakeNeeds(Repaired(M, actual), t)
    <2>1. Known(M, t)
        BY <1>1, BuiltIsKnown
    <2> QED
        BY <1>1, <1>3, <2>1, DetectedIsNeeded
<1>4. MakeNeeds(M, t) \subseteq MakeNeeds(Repaired(M, actual), t)
    BY <1>1, RepairedNeeds
<1>5. CASE f \in inputs
    <2>1. PICK i \in Builders(M, t) :
              f \in InputsOf(M.rules[i], t, MakeNeeds(M, t), MakeLead(M.rules[i], t))
        BY <1>5 DEF Inputs
    <2>2. f \in Files
        BY <2>1, InputType
    <2>3. f \in MakeNeeds(M, t) \/ <<t, f>> \in actual
        BY <1>1, <2>1, InputsAreFound
    <2> QED
        BY <1>3, <1>4, <2>2, <2>3
<1>6. CASE f \in UNION {scan[s].headers : s \in inputs \cap Sources}
    <2>1. PICK s \in inputs \cap Sources : f \in scan[s].headers
        BY <1>6
    <2>2. PICK i \in Builders(M, t) :
              s \in InputsOf(M.rules[i], t, MakeNeeds(M, t), MakeLead(M.rules[i], t))
        BY <2>1 DEF Inputs
    <2>3. f \in Files
        BY <1>1, <2>1 DEF Scan
    <2>4. OnlyUser(M, t, s)
        BY <1>2, <2>1
    <2>5. t \in TargetsOf(M, scan, s)
        BY <1>1, <2>2, <2>4, PutDownToItsUser
    <2>6. <<t, f>> \in UNION {TargetsOf(M, scan, u) \X ({u} \cup scan[u].headers) :
                                 u \in Sources}
        BY <2>1, <2>5
    <2>7. <<t, f>> \in actual
        BY <2>6 DEF Actual
    <2> QED
        BY <1>3, <2>3, <2>7
<1> QED
    BY <1>2, <1>5, <1>6

-----------------------------------------------------------------------------
\* Where a repair appends nothing for a target, the next one sees the target as
\* before.
LEMMA UntouchedIsSame ==
    ASSUME NEW M, IsMakefile(M), NEW actual, NEW t \in Files,
           Of(Missing(M, actual), t) = {}
    PROVE  /\ IsExplicit(Repaired(M, actual), t) <=> IsExplicit(M, t)
           /\ Known(Repaired(M, actual), t) <=> Known(M, t)
           /\ Declared(Repaired(M, actual), t) = Declared(M, t)
<1> DEFINE R == Repaired(M, actual)
<1>1. R.rules = M.rules /\ R.added = M.added \cup Missing(M, actual)
    BY RepairedFields
<1> HIDE DEF R
<1>2. Rules(R) = Rules(M) /\ Of(R.added, t) = Of(M.added, t)
    BY <1>1 DEF Rules, Of
<1>3. IsExplicit(R, t) <=> IsExplicit(M, t)
    BY <1>1, <1>2 DEF IsExplicit
<1>4. \A i : ResolvedBy(R, i, t) <=> ResolvedBy(M, i, t)
    BY <1>1, <1>2 DEF ResolvedBy
<1>5. Known(R, t) <=> Known(M, t)
    BY <1>2, <1>3, <1>4 DEF Known
<1>6. Declared(R, t) = Declared(M, t)
    BY <1>1, <1>2, <1>3, BuildersOfRules DEF Declared
<1> QED
    BY <1>3, <1>5, <1>6 DEF R

\* A target with a rule of its own has nothing missing after one repair.
LEMMA ExplicitIsRepaired ==
    ASSUME NEW M, IsMakefile(M), NEW actual, NEW t \in Files, IsExplicit(M, t)
    PROVE  Of(Missing(Repaired(M, actual), actual), t) = {}
<1> DEFINE R == Repaired(M, actual)
<1>1. R.rules = M.rules /\ R.added = M.added \cup Missing(M, actual)
    BY RepairedFields
<1> HIDE DEF R
<1>2. Of(R.added, t) = Of(M.added, t) \cup Of(Missing(M, actual), t)
    BY <1>1 DEF Of
<1>3. IsExplicit(R, t)
    BY <1>1, <1>2 DEF IsExplicit, Rules
<1>4. Declared(R, t) = Declared(M, t) \cup Of(Missing(M, actual), t)
    BY <1>1, <1>2, <1>3, BuildersOfRules DEF Declared
<1>5. Known(M, t)
    BY DEF Known
<1>6. ASSUME NEW f \in Files, <<t, f>> \in actual PROVE f \in Declared(R, t)
    <2>1. f \notin Declared(M, t) => f \in Of(Missing(M, actual), t)
        BY <1>5, <1>6 DEF Missing, Of
    <2> QED
        BY <1>4, <2>1
<1> QED
    BY <1>6 DEF Missing, Of, R

LEMMA ActualType ==
    ASSUME NEW M, NEW scan \in Scan
    PROVE  Actual(M, scan) \subseteq Dependency
<1>1. \A i : Evidence(M, i) \subseteq Files
    BY DependencyAssumption DEF Evidence, InputsOf
<1>2. \A t : FromRecipes(M, t) \subseteq Files
    BY <1>1 DEF FromRecipes
<1>3. \A s \in Sources : s \in Files /\ TargetsOf(M, scan, s) \subseteq Files
    BY DependencyAssumption DEF TargetsOf, RecipeTargets, PatternTargets, Scan, Sources
<1>4. \A s \in Sources : scan[s].headers \subseteq Files
    BY DEF Scan
<1>5. \A t \in Files : {t} \X FromRecipes(M, t) \subseteq Files \X Files
    BY <1>2
<1>6. \A s \in Sources :
          TargetsOf(M, scan, s) \X ({s} \cup scan[s].headers) \subseteq Files \X Files
    BY <1>3, <1>4
<1> QED
    BY <1>5, <1>6 DEF Actual, Dependency

\* A makefile that was repaired twice has nothing missing: a target has a rule of
\* its own before the second repair, or nothing was appended for it by the first.
THEOREM SecondIsLast == SecondRepairIsLast
<1> SUFFICES ASSUME NEW M \in Makefiles, NEW scan \in Scans
             PROVE  LET once  == Repaired(M, Actual(M, scan))
                        twice == Repaired(once, Actual(once, scan))
                    IN  NoNewPatterns(M) => Missing(twice, Actual(twice, scan)) = {}
    BY DEF SecondRepairIsLast
<1> DEFINE actual == Actual(M, scan)
           once   == Repaired(M, actual)
           twice  == Repaired(once, actual)
<1>1. IsMakefile(M) /\ scan \in Scan
    BY DependencyAssumption
<1>2. IsMakefile(once)
    <2>1. actual \subseteq Dependency
        BY <1>1, ActualType
    <2>2. Missing(M, actual) \subseteq Dependency
        BY <2>1 DEF Missing
    <2>3. /\ once.rules = M.rules
          /\ once.added = M.added \cup Missing(M, actual)
          /\ once = [rules |-> M.rules, added |-> M.added \cup Missing(M, actual)]
        BY <1>1, RepairedFields
    <2> QED
        BY <1>1, <2>2, <2>3 DEF IsMakefile
<1>3. Actual(once, scan) = actual /\ Actual(twice, scan) = actual
    BY <1>1, <1>2, RepairedFields, ActualOfRules
<1>4. ASSUME NEW t \in Files PROVE Of(Missing(twice, actual), t) = {}
    <2>1. CASE IsExplicit(once, t)
        BY <1>2, <2>1, ExplicitIsRepaired
    <2>2. CASE ~IsExplicit(once, t)
        <3>1. Of(Missing(M, actual), t) = {}
            BY <1>1, <2>2, RepairedFields DEF IsExplicit, Of
        <3>2. Of(Missing(once, actual), t) = {}
            BY <1>1, <3>1, UntouchedIsSame DEF Missing, Of
        <3> QED
            BY <1>2, <3>2, UntouchedIsSame DEF Missing, Of
    <2> QED
        BY <2>1, <2>2
<1>5. Missing(twice, actual) = {}
    <2> SUFFICES ASSUME NEW d \in Missing(twice, actual) PROVE FALSE
        OBVIOUS
    <2>1. d \in Dependency
        BY <1>1, ActualType DEF Missing
    <2>2. PICK t \in Files, f \in Files : d = <<t, f>>
        BY <2>1 DEF Dependency
    <2> QED
        BY <1>4, <2>2 DEF Of
<1> QED
    BY <1>3, <1>5

\* All that RepairHolds says of repairs.
THEOREM RepairsHold == RepairHolds
    BY OnlyAdds, IsComplete, SecondIsLast DEF RepairHolds

-----------------------------------------------------------------------------
\* make runs on what was repaired: nothing starts it before the thread that
\* repairs has come back, and that thread writes once.
THEOREM BuildsRepaired == ProcessSpec => []BuildsOnRepaired
<1>1. ServiceInv => BuildsOnRepaired
  <2> SUFFICES ASSUME ServiceInv, NEW t \in Repairs,
                      proc[t] \in {"alive", "exited0", "exited1"}
               PROVE  preparer[t] = "written"
    BY RepairsHold DEF BuildsOnRepaired
  <2>1. ProcessFits(t)
    BY ProcessAssumption DEF ServiceInv, TaskFits
  <2> QED
    BY <2>1 DEF ProcessFits, Living, WithProcess, PastPreparation
<1> QED
  BY <1>1, ServiceInvHolds, PTL
=============================================================================
