--------------------------- MODULE CodeGeneration ---------------------------
(***************************************************************************)
(* Code generation tasks: app/modules/code_generation/task_service.py on   *)
(* the managed half of app/platform/services/task_service.py.              *)
(*                                                                         *)
(* A task hands a copy of the project to NaturalCC, another service, whose *)
(* run works in that directory.  The run may outlive the request that made *)
(* it, the task and the server.  The danger is to delete the directory     *)
(* under a run that still uses it, or to lose track of it.  A durable hold *)
(* protects it, the metadata key cleanup_pending says that something is    *)
(* left to do, and three parties may do it, at the same time: the worker   *)
(* of the task, the cancellation handler on the server's event loop, and   *)
(* a retry that the worker or the startup leaves on that loop.             *)
(***************************************************************************)
EXTENDS TaskStore

CONSTANTS
    Faults,     \* "delete": the three attempts of a clean-up fail;
                \* "startup": so does the single attempt of the startup
    MaxTries,   \* bound: attempts of a retry (_CLEANUP_RETRY_ATTEMPTS is 3)
    MaxCrashes  \* bound: crashes of the server

ASSUME CodeGenerationAssumption ==
    /\ MetaKeys = {"cleanup_pending", "naturalcc_run_id",
                   "naturalcc_terminal_confirmed"}
    /\ Faults \subseteq {"delete", "startup"}
    /\ MaxTries \in Nat \ {0}
    /\ MaxCrashes \in Nat

VARIABLES
    at,         \* at[a][t]: where actor a is in its work for t
    future,     \* future[t]: none, queued, dropped, or taken by a thread
    verdict,    \* verdict[t]: what the worker of t will report
    runs,       \* tasks whose run id is in memory (_runs)
    scans,      \* tasks with a registered self scan (_self_scans)
    injected,   \* tasks whose worker has a CancelledError pending
    tries,      \* tries[t]: attempts the retry of t has left
    remote,     \* remote[t]: the NaturalCC run of t
    workspace,  \* tasks whose workspace directory exists
    service,    \* the server: up, down, or a phase of its startup
    recovered,  \* interrupted tasks the startup still visits
    missed,     \* (history) tasks whose only visit at startup failed or never came
    hindered,   \* (history) tasks that, since the last startup, NaturalCC did not
                \* confirm or whose files could not be deleted, or whose retry was
                \* through before they were closed
    crashes     \* crashes so far

memoryVars == <<at, future, verdict, runs, scans, injected, tries>>
worldVars  == <<remote, workspace>>
serverVars == <<service, recovered, missed, hindered, crashes>>
vars == <<storeVars, memoryVars, worldVars, serverVars>>

Actors == {"worker", "handler", "retry"}

\* What every actor goes through to be rid of a run and its workspace.
Converging == {"cancelling", "confirming", "settling", "deleting", "completing"}

WorkerSteps == {"starting", "opening", "reporting", "holding", "creating",
                "recording", "checking", "polling", "marking", "registering",
                "rechecking", "scanning", "leaving", "finalizing", "releasing"}

Places == {"idle", "finding", "waiting"} \cup WorkerSteps \cup Converging

Succeeded == [status |-> "SUCCEEDED", progress |-> FullProgress, error |-> "none"]
Failed    == [status |-> "FAILED", progress |-> FullProgress, error |-> "failed"]
Cancelled == [status |-> "CANCELLED", progress |-> 0, error |-> "none"]

CodeGenTypeOK ==
    /\ TypeOK
    /\ at \in [Actors -> [Tasks -> Places]]
    /\ future \in [Tasks -> {"none", "queued", "dropped", "taken"}]
    /\ verdict \in [Tasks -> Outcome]
    /\ runs \in SUBSET Tasks /\ scans \in SUBSET Tasks
    /\ injected \in SUBSET Tasks
    /\ tries \in [Tasks -> 0..MaxTries + 1]
    /\ remote \in [Tasks -> {"none", "active", "completed", "stopped"}]
    /\ workspace \in SUBSET Tasks
    /\ service \in {"up", "down", "queue", "visit", "converge"}
    /\ recovered \in SUBSET Tasks /\ missed \in SUBSET Tasks /\ hindered \in SUBSET Tasks
    /\ crashes \in 0..MaxCrashes

CodeGenInit ==
    /\ StoreInit
    /\ at = [a \in Actors |-> [t \in Tasks |-> "idle"]]
    /\ future = [t \in Tasks |-> "none"]
    /\ verdict = [t \in Tasks |-> Failed]
    /\ runs = {} /\ scans = {} /\ injected = {}
    /\ tries = [t \in Tasks |-> 0]
    /\ remote = [t \in Tasks |-> "none"]
    /\ workspace = {}
    /\ service = "up" /\ recovered = {} /\ missed = {} /\ hindered = {} /\ crashes = 0

Running == service # "down"

Goes(a, t, from, to) ==
    /\ Running
    /\ at[a][t] = from
    /\ at' = [at EXCEPT ![a][t] = to]

Set(key, value) == [EmptyPatch EXCEPT ![key] = value]

Pending(t)   == rows[t].meta["cleanup_pending"]
Confirmed(t) == rows[t].meta["naturalcc_terminal_confirmed"]
RunKnown(t)  == t \in runs \/ rows[t].meta["naturalcc_run_id"]
RemoteEnded(t) == remote[t] \in {"completed", "stopped"}

-----------------------------------------------------------------------------
(***************************************************************************)
(* The NaturalCC service (not part of this repository): a run ends by      *)
(* itself, and stays ended.                                                *)
(***************************************************************************)
RemoteEnds(t) ==
    /\ remote[t] = "active"
    /\ \E end \in {"completed", "stopped"} : remote' = [remote EXCEPT ![t] = end]
    /\ UNCHANGED <<storeVars, memoryVars, workspace, serverVars>>

-----------------------------------------------------------------------------
(***************************************************************************)
(* Getting rid of a run: _cancel_run, then _finish_confirmed_workspace.    *)
(***************************************************************************)

\* Where an actor goes on when it is through.
After(a, t) ==
    CASE a = "worker" -> IF rows[t].status = "RUNNING" THEN "leaving" ELSE "idle"
      [] a = "handler" -> "idle"
      [] a = "retry" -> "waiting"

\* The cancel request reaches the run, or is lost, or there is no run id.
CancelRun(a, t) ==
    /\ \/ RunKnown(t) /\ Goes(a, t, "cancelling", "confirming")
       \/ ~RunKnown(t) /\ Goes(a, t, "cancelling", After(a, t))
    /\ \/ /\ RunKnown(t) /\ remote[t] = "active"
          /\ remote' = [remote EXCEPT ![t] = "stopped"]
       \/ UNCHANGED remote
    /\ UNCHANGED <<storeVars, future, verdict, runs, scans, injected, tries,
                   workspace, serverVars>>

ConfirmsEnd(t) == RemoteEnded(t)

\* get_run says the run has ended, or fails, or says it has not.
ConfirmRun(a, t) ==
    /\ \/ /\ ConfirmsEnd(t)
          /\ MergeMetadata(t, Set("naturalcc_terminal_confirmed", TRUE))
          /\ Goes(a, t, "confirming", "settling")
          /\ UNCHANGED hindered
       \/ /\ Goes(a, t, "confirming", After(a, t))
          /\ hindered' = hindered \cup {t}
          /\ UNCHANGED storeVars
    /\ UNCHANGED <<future, verdict, runs, scans, injected, tries, worldVars,
                   service, recovered, missed, crashes>>

\* Mutant: the metadata says converged before the files are gone.
SettleAtOnce(a, t) ==
    /\ WriteRow(t, [rows[t] EXCEPT !.meta["cleanup_pending"] = FALSE])
    /\ queue' = queue \cup {t}
    /\ holds' = holds \ {t}
    /\ Goes(a, t, "settling", "deleting")
    /\ UNCHANGED <<completion, artifacts, future, verdict, runs, scans, injected,
                   tries, worldVars, serverVars>>

\* release_task_workspaces(cleanup=True): the intent and the end of the hold
\* in one transaction, then the files.
Settle(a, t) ==
    /\ QueueCleanupAndReleaseHold(t, Set("cleanup_pending", FALSE))
    /\ Goes(a, t, "settling", "deleting")
    /\ UNCHANGED <<future, verdict, runs, scans, injected, tries, worldVars,
                   serverVars>>

\* _cleanup_managed_task_workspaces
DeleteWorkspace(a, t) ==
    /\ \/ /\ t \in holds
          /\ Goes(a, t, "deleting", After(a, t))
          /\ UNCHANGED <<storeVars, workspace, hindered>>
       \/ /\ t \notin holds
          /\ workspace' = workspace \ {t}
          /\ Goes(a, t, "deleting", "completing")
          /\ UNCHANGED <<storeVars, hindered>>
       \/ /\ t \notin holds /\ "delete" \in Faults
          /\ MarkCleanupPending(t)
          /\ Goes(a, t, "deleting", After(a, t))
          /\ hindered' = hindered \cup {t}
          /\ UNCHANGED workspace
    /\ UNCHANGED <<future, verdict, runs, scans, injected, tries, remote,
                   service, recovered, missed, crashes>>

CompleteWorkspace(a, t) ==
    /\ \/ CompleteCleanup(t)
       \/ t \notin queue /\ UNCHANGED storeVars
    /\ Goes(a, t, "completing", After(a, t))
    /\ UNCHANGED <<future, verdict, runs, scans, injected, tries, worldVars,
                   serverVars>>

Converge(a, t) ==
    \/ CancelRun(a, t) \/ ConfirmRun(a, t) \/ Settle(a, t)
    \/ DeleteWorkspace(a, t) \/ CompleteWorkspace(a, t)

-----------------------------------------------------------------------------
(***************************************************************************)
(* The server's event loop: creation and cancellation.                     *)
(***************************************************************************)
CreateTask(t) ==
    /\ service = "up"
    /\ Save(t)
    /\ future' = [future EXCEPT ![t] = "queued"]
    /\ UNCHANGED <<at, verdict, runs, scans, injected, tries, worldVars, serverVars>>

\* TaskService.cancel_task up to the handler.  Bound: one at a time per task.
CancelTask(t) ==
    /\ service = "up"
    /\ \/ RequestCancel(t)
       \/ ~CanRequestCancel(t) /\ rows[t].cancel /\ UNCHANGED storeVars
    /\ Goes("handler", t, "idle", "finding")
    /\ UNCHANGED <<future, verdict, runs, scans, injected, tries, worldVars,
                   serverVars>>

\* Mutant: a self scan is not looked for, the run is ended as always.
InScanNever(t) == FALSE

InScan(t) == t \in scans

\* CodeGenerationTaskService.cancel_task: a self scan is interrupted, and its
\* worker does the rest; otherwise the run is cancelled from here.
HandleCancel(t) ==
    /\ \/ /\ InScan(t)
          /\ injected' = injected \cup {t}
          /\ Goes("handler", t, "finding", "idle")
       \/ /\ ~InScan(t)
          /\ Goes("handler", t, "finding", "cancelling")
          /\ UNCHANGED injected
    /\ future' = IF rows[t].status = "CANCELLED" /\ future[t] = "queued"
                 THEN [future EXCEPT ![t] = "dropped"] ELSE future
    /\ UNCHANGED <<storeVars, verdict, runs, scans, tries, worldVars, serverVars>>

-----------------------------------------------------------------------------
(***************************************************************************)
(* The worker: _run_managed_task around _execute.                          *)
(***************************************************************************)
PickUp(t) ==
    /\ future[t] = "queued"
    /\ future' = [future EXCEPT ![t] = "taken"]
    /\ Goes("worker", t, "idle", "starting")
    /\ UNCHANGED <<storeVars, verdict, runs, scans, injected, tries, worldVars,
                   serverVars>>

Start(t) ==
    /\ \/ TryStart(t) /\ Goes("worker", t, "starting", "opening")
       \/ ~CanStart(t) /\ Goes("worker", t, "starting", "idle") /\ UNCHANGED storeVars
    /\ UNCHANGED <<future, verdict, runs, scans, injected, tries, worldVars,
                   serverVars>>

\* The worker leaves its way with an outcome: "leaving" is the finally of
\* _execute, "cancelling" and "settling" get rid of the run before.
GivesUp(t, from, to, out) ==
    /\ Goes("worker", t, from, to)
    /\ verdict' = [verdict EXCEPT ![t] = out]

OpenWorkspace(t) ==
    /\ \/ /\ rows[t].cancel
          /\ GivesUp(t, "opening", "leaving", Cancelled)
          /\ UNCHANGED workspace
       \/ /\ ~rows[t].cancel
          /\ workspace' = workspace \cup {t}
          /\ \/ Goes("worker", t, "opening", "reporting") /\ UNCHANGED verdict
             \/ GivesUp(t, "opening", "leaving", Failed)
    /\ UNCHANGED <<storeVars, future, runs, scans, injected, tries, remote, serverVars>>

ReportStart(t) ==
    /\ \/ /\ UpdateProgress(t, 1)
          /\ Goes("worker", t, "reporting", "holding")
          /\ UNCHANGED verdict
       \/ /\ rows[t].cancel
          /\ GivesUp(t, "reporting", "leaving", Cancelled)
          /\ UNCHANGED storeVars
    /\ UNCHANGED <<future, runs, scans, injected, tries, worldVars, serverVars>>

\* Mutant: the run is created without a hold.
HoldNothing(t) ==
    /\ MergeMetadata(t, Set("cleanup_pending", TRUE))
    /\ Goes("worker", t, "holding", "creating")
    /\ UNCHANGED <<future, verdict, runs, scans, injected, tries, worldVars,
                   serverVars>>

Hold(t) ==
    /\ HoldWorkspaces(t, Set("cleanup_pending", TRUE))
    /\ Goes("worker", t, "holding", "creating")
    /\ UNCHANGED <<future, verdict, runs, scans, injected, tries, worldVars,
                   serverVars>>

\* Nobody knows whether there is a run: the hold stays.
AfterLostAnswer == "leaving"

\* create_run is answered, refused (the service cannot have made a run), or
\* its answer is lost, times out or makes no sense.
CreateRun(t) ==
    /\ \/ /\ Goes("worker", t, "creating", "recording")
          /\ remote' = [remote EXCEPT ![t] = "active"]
          /\ runs' = runs \cup {t}
          /\ UNCHANGED verdict
       \/ /\ GivesUp(t, "creating", "settling", Failed)
          /\ UNCHANGED <<remote, runs>>
       \/ /\ GivesUp(t, "creating", AfterLostAnswer, Failed)
          /\ \E made \in {"none", "active"} : remote' = [remote EXCEPT ![t] = made]
          /\ UNCHANGED runs
    /\ UNCHANGED <<storeVars, future, scans, injected, tries, workspace, serverVars>>

RecordRun(t) ==
    /\ MergeMetadata(t, Set("naturalcc_run_id", TRUE))
    /\ Goes("worker", t, "recording", "checking")
    /\ UNCHANGED <<future, verdict, runs, scans, injected, tries, worldVars,
                   serverVars>>

CheckCancelled(t) ==
    /\ \/ rows[t].cancel /\ GivesUp(t, "checking", "cancelling", Cancelled)
       \/ ~rows[t].cancel /\ Goes("worker", t, "checking", "polling") /\ UNCHANGED verdict
    /\ UNCHANGED <<storeVars, future, runs, scans, injected, tries, worldVars,
                   serverVars>>

\* _run_and_poll ends with the state of an ended run, with a cancellation, or
\* with an error, a timeout, or a run that waits for what is not allowed.
Poll(t) ==
    /\ \/ RemoteEnded(t) /\ Goes("worker", t, "polling", "marking") /\ UNCHANGED verdict
       \/ rows[t].cancel /\ GivesUp(t, "polling", "cancelling", Cancelled)
       \/ GivesUp(t, "polling", "cancelling", Failed)
    /\ UNCHANGED <<storeVars, future, runs, scans, injected, tries, worldVars,
                   serverVars>>

MarkConfirmed(t) ==
    /\ MergeMetadata(t, Set("naturalcc_terminal_confirmed", TRUE))
    /\ \/ /\ remote[t] = "completed"
          /\ GivesUp(t, "marking", "registering", Succeeded)
       \/ /\ remote[t] = "stopped"
          /\ \E out \in {Failed, Cancelled} : GivesUp(t, "marking", "settling", out)
    /\ UNCHANGED <<future, runs, scans, injected, tries, worldVars, serverVars>>

\* _self_scan registers itself first and looks at the flag afterwards.
RegisterScan(t) ==
    /\ \/ Goes("worker", t, "registering", "rechecking") /\ scans' = scans \cup {t}
       \/ Goes("worker", t, "registering", "leaving") /\ UNCHANGED scans
    /\ UNCHANGED <<storeVars, future, verdict, runs, injected, tries, worldVars,
                   serverVars>>

ScanMayStart(t) == ~rows[t].cancel

RecheckCancelled(t) ==
    /\ \/ /\ ScanMayStart(t)
          /\ Goes("worker", t, "rechecking", "scanning")
          /\ UNCHANGED <<verdict, scans>>
       \/ /\ ~ScanMayStart(t)
          /\ GivesUp(t, "rechecking", "cancelling", Cancelled)
          /\ scans' = scans \ {t}
    /\ UNCHANGED <<storeVars, future, runs, injected, tries, worldVars, serverVars>>

\* An interruption meant for a scan that had ended reaches the next await.
InterruptedLate(t) ==
    /\ t \in injected
    /\ \E place \in {"cancelling", "confirming"} :
          GivesUp(t, place, "leaving", Cancelled)
    /\ injected' = injected \ {t}
    /\ UNCHANGED <<storeVars, future, runs, scans, tries, worldVars, serverVars>>

\* The scan fails or ends; a flag seen at its end, or an interruption, wins.
EndScan(t) ==
    /\ \/ Goes("worker", t, "scanning", "leaving") /\ UNCHANGED <<verdict, injected>>
       \/ /\ rows[t].cancel
          /\ GivesUp(t, "scanning", "cancelling", Cancelled)
          /\ UNCHANGED injected
       \/ /\ t \in injected
          /\ GivesUp(t, "scanning", "cancelling", Cancelled)
          /\ injected' = injected \ {t}
    /\ scans' = scans \ {t}
    /\ UNCHANGED <<storeVars, future, runs, tries, worldVars, serverVars>>

\* Mutant: the run is looked up in memory alone, which was just cleared.
NeedsRetryOfCleared(t) == Pending(t) /\ t \in runs \ {t}

\* The run was cleared from memory; its id is in the row, if it is known.
NeedsRetry(t) == Pending(t) /\ rows[t].meta["naturalcc_run_id"]

\* The finally of _execute: whatever is pending is left to a retry, unless
\* one is on its way already.
Leave(t) ==
    LET retries == /\ NeedsRetry(t)
                   /\ service = "up"
                   /\ at["retry"][t] = "idle"
    IN  /\ Running
        /\ at["worker"][t] = "leaving"
        /\ at' = [at EXCEPT !["worker"][t] = "finalizing",
                            !["retry"][t] = IF retries THEN "waiting" ELSE @]
        /\ tries' = IF retries THEN [tries EXCEPT ![t] = MaxTries] ELSE tries
        /\ runs' = runs \ {t}
        /\ UNCHANGED <<storeVars, future, verdict, scans, injected, worldVars,
                       serverVars>>

\* Mutant: the intent to delete the files is left to the clean-up.
FinalizeWithoutIntent(t) ==
    /\ Finalize(t, verdict[t], TRUE, FALSE, TRUE)
    /\ Goes("worker", t, "finalizing", "releasing")
    /\ injected' = injected \ {t}
    /\ UNCHANGED <<future, verdict, runs, scans, tries, worldVars, serverVars>>

\* The verdict, the capability to fetch the files and the intent to delete
\* them commit together.
FinalizeTask(t) ==
    /\ Finalize(t, verdict[t], TRUE, TRUE, TRUE)
    /\ Goes("worker", t, "finalizing", "releasing")
    /\ injected' = injected \ {t}
    /\ UNCHANGED <<future, verdict, runs, scans, tries, worldVars, serverVars>>

\* _finish_managed_task_workspaces
FinishWorkspaces(t) ==
    /\ \/ /\ rows[t].status = "SUCCEEDED"
          /\ ReleaseWorkspaces(t, Set("cleanup_pending", FALSE))
          /\ Goes("worker", t, "releasing", "idle")
       \/ /\ rows[t].status # "SUCCEEDED"
          /\ t \in holds \/ t \notin queue
          /\ Goes("worker", t, "releasing", "idle")
          /\ UNCHANGED storeVars
       \/ /\ rows[t].status # "SUCCEEDED"
          /\ t \notin holds /\ t \in queue
          /\ Goes("worker", t, "releasing", "deleting")
          /\ UNCHANGED storeVars
    /\ UNCHANGED <<future, verdict, runs, scans, injected, tries, worldVars,
                   serverVars>>

Worker(t) ==
    \/ PickUp(t) \/ Start(t) \/ OpenWorkspace(t) \/ ReportStart(t) \/ Hold(t)
    \/ CreateRun(t) \/ RecordRun(t) \/ CheckCancelled(t) \/ Poll(t)
    \/ MarkConfirmed(t) \/ RegisterScan(t) \/ RecheckCancelled(t) \/ EndScan(t)
    \/ InterruptedLate(t) \/ Leave(t) \/ FinalizeTask(t) \/ FinishWorkspaces(t)

-----------------------------------------------------------------------------
(***************************************************************************)
(* The retry: _retry_cleanup around _recover_cleanup.                      *)
(***************************************************************************)

\* One attempt, up to what it has to do.  An attempt that finds the task
\* still active is spent.
TryRecover(t) ==
    LET to(place) == Goes("retry", t, "waiting", place)
        attempts  == tries[t] > 0
    IN  /\ service \in {"converge", "up"}
        /\ tries' = [tries EXCEPT ![t] = IF attempts THEN @ - 1 ELSE 0]
        /\ \/ ~attempts /\ to("idle") /\ UNCHANGED storeVars
           \/ attempts /\ ~Pending(t) /\ to("idle") /\ UNCHANGED storeVars
           \/ /\ attempts /\ Pending(t) /\ rows[t].status \in Active
              /\ to("waiting")
              /\ UNCHANGED storeVars
           \/ /\ attempts /\ Pending(t) /\ rows[t].status \in Terminal
              /\ ~Confirmed(t)
              /\ to("cancelling")
              /\ UNCHANGED storeVars
           \/ /\ attempts /\ Pending(t) /\ rows[t].status \in {"FAILED", "CANCELLED"}
              /\ Confirmed(t)
              /\ to("settling")
              /\ UNCHANGED storeVars
           \/ /\ attempts /\ Pending(t) /\ rows[t].status = "SUCCEEDED"
              /\ Confirmed(t)
              /\ ReleaseWorkspaces(t, Set("cleanup_pending", FALSE))
              /\ to("waiting")
        /\ hindered' = IF tries[t] = 1 /\ rows[t].status \in Active
                       THEN hindered \cup {t} ELSE hindered
        /\ UNCHANGED <<future, verdict, runs, scans, injected, worldVars,
                       service, recovered, missed, crashes>>

-----------------------------------------------------------------------------
(***************************************************************************)
(* Crash and startup: the store's recovery, the durable clean-up queue, a  *)
(* visit of every interrupted task, one attempt for every pending task.    *)
(***************************************************************************)
Crash ==
    /\ Running
    /\ crashes < MaxCrashes
    /\ crashes' = crashes + 1
    /\ service' = "down"
    /\ at' = [a \in Actors |-> [t \in Tasks |-> "idle"]]
    /\ future' = [t \in Tasks |-> "none"]
    /\ verdict' = [t \in Tasks |-> Failed]
    /\ runs' = {} /\ scans' = {} /\ injected' = {}
    /\ tries' = [t \in Tasks |-> 0]
    /\ recovered' = {}
    /\ missed' = missed \cup recovered
    /\ UNCHANGED <<storeVars, worldVars, hindered>>

Restart ==
    /\ service = "down"
    /\ RecoverInterrupted
    /\ recovered' = {t \in Tasks : rows[t].status \in Active}
    /\ at' = [at EXCEPT !["retry"] =
                  [t \in Tasks |-> IF t \in queue THEN "deleting" ELSE "idle"]]
    /\ service' = "queue"
    /\ hindered' = {}
    /\ UNCHANGED <<future, verdict, runs, scans, injected, tries, worldVars,
                   missed, crashes>>

BeginVisit ==
    /\ service = "queue"
    /\ \A t \in Tasks : at["retry"][t] \in {"idle", "waiting"}
    /\ service' = "visit"
    /\ UNCHANGED <<storeVars, memoryVars, worldVars, recovered, missed, hindered,
                   crashes>>

VisitRecovered(t) ==
    /\ service = "visit"
    /\ t \in recovered
    /\ recovered' = recovered \ {t}
    /\ \/ t \notin holds /\ workspace' = workspace \ {t} /\ UNCHANGED missed
       \/ t \in holds /\ UNCHANGED <<workspace, missed>>
       \/ "startup" \in Faults /\ missed' = missed \cup {t} /\ UNCHANGED workspace
    /\ UNCHANGED <<storeVars, memoryVars, remote, service, hindered, crashes>>

BeginConverge ==
    LET mine == {t \in Tasks : Pending(t)}
    IN  /\ service = "visit"
        /\ recovered = {}
        /\ service' = "converge"
        /\ at' = [at EXCEPT !["retry"] =
                      [t \in Tasks |-> IF t \in mine THEN "waiting" ELSE "idle"]]
        /\ tries' = [t \in Tasks |-> IF t \in mine THEN MaxTries + 1 ELSE 0]
        /\ UNCHANGED <<storeVars, future, verdict, runs, scans, injected,
                       worldVars, recovered, missed, hindered, crashes>>

\* Every pending task had its attempt; a retry follows where a run is known.
Serve ==
    LET attempted(t) == at["retry"][t] = "waiting" /\ tries[t] <= MaxTries
    IN  /\ service = "converge"
        /\ \A t \in Tasks : at["retry"][t] = "idle" \/ attempted(t)
        /\ service' = "up"
        /\ at' = [at EXCEPT !["retry"] =
                      [t \in Tasks |-> IF attempted(t) /\ RunKnown(t)
                                       THEN "waiting" ELSE "idle"]]
        /\ UNCHANGED <<storeVars, future, verdict, runs, scans, injected, tries,
                       worldVars, recovered, missed, hindered, crashes>>

-----------------------------------------------------------------------------
CodeGenNext ==
    \/ \E t \in Tasks :
          \/ RemoteEnds(t)
          \/ CreateTask(t) \/ CancelTask(t) \/ HandleCancel(t)
          \/ Worker(t)
          \/ TryRecover(t)
          \/ \E a \in Actors : Converge(a, t)
          \/ VisitRecovered(t)
    \/ Crash \/ Restart \/ BeginVisit \/ BeginConverge \/ Serve

CodeGenSpec == CodeGenInit /\ [][CodeGenNext]_vars

Startup ==
    \/ Restart \/ BeginVisit \/ BeginConverge \/ Serve
    \/ \E t \in Tasks : VisitRecovered(t)

Handler(t) == HandleCancel(t) \/ Converge("handler", t)

Retry(t) == TryRecover(t) \/ Converge("retry", t)

\* Threads and loops keep going: a worker runs into its deadline, calls of
\* NaturalCC have a time limit, the startup comes to its end.  NaturalCC itself
\* and the clients owe us nothing.
CodeGenFairness ==
    /\ WF_vars(Startup)
    /\ \A t \in Tasks : /\ WF_vars(Worker(t) \/ Converge("worker", t))
                        /\ WF_vars(Handler(t))
                        /\ WF_vars(Retry(t))

FairCodeGenSpec == CodeGenSpec /\ CodeGenFairness

-----------------------------------------------------------------------------
(***************************************************************************)
(* Properties.                                                             *)
(***************************************************************************)

\* No directory is deleted under a run that may still write to it: not by
\* the cancellation handler, not by the worker, not by a retry, not by the
\* startup after a crash, and also when the answer that would have told us
\* of the run was lost.
RunKeepsItsFiles ==
    \A t \in Tasks : remote[t] = "active" => t \in workspace

\* What docs/naturalcc-integration.md promises of cleanup_pending: a closed
\* task that is no longer pending has no live run, and unless it succeeded
\* no workspace with a run's leftovers.
PendingUntilConverged ==
    \A t \in Tasks :
        rows[t].status \in Terminal /\ ~Pending(t)
            => /\ remote[t] # "active"
               /\ rows[t].status # "SUCCEEDED" /\ remote[t] # "none"
                      => t \notin workspace

\* The files of a task that offers them exist, whatever late cancellations,
\* retries and restarts do afterwards.
OfferedFilesExist == artifacts \subseteq workspace

\* A self scan never loses its workspace to the cancellation handler: the
\* handler sees the registered scan or the scan sees the flag.
ScanKeepsItsFiles ==
    \A t \in Tasks : at["worker"][t] = "scanning" => t \in workspace

\* At rest, a directory left by a closed task is known to the store as held
\* or queued, so that an operator or the next startup can find it, but for
\* the tasks whose one visit at a startup failed or was cut short by a crash.
LeftoversKnown ==
    \A t \in workspace \ artifacts :
        \/ service # "up"
        \/ rows[t].status \in Active
        \/ \E a \in Actors : at[a][t] # "idle"
        \/ t \in holds \cup queue \cup missed

\* Every task is closed, by its worker, by a cancel or by the next startup.
EveryTaskCloses ==
    \A t \in Tasks : rows[t].status = "PENDING" ~> rows[t].status \in Terminal

\* What docs/naturalcc-integration.md promises of the retries: if NaturalCC
\* confirms and the files can be deleted, a closed task does not stay pending,
\* whoever of worker, handler, retry and startup got in the way of another.
\* (But for a retry whose last attempt came before the task was closed: it was
\* spent, and nothing is done before the next startup.)
ClosedTasksConverge ==
    \A t \in Tasks :
        rows[t].status \in Terminal /\ Pending(t) /\ rows[t].meta["naturalcc_run_id"]
            ~> ~Pending(t) \/ t \in hindered

TasksConverge == EveryTaskCloses /\ ClosedTasksConverge

\* The variables keep their types, and nobody who was given files, a client
\* or a scan, finds them gone.
CodeGenInv == CodeGenTypeOK /\ OfferedFilesExist /\ ScanKeepsItsFiles

\* What is left of a closed task is what the store says is left.
LeftoversAccounted == PendingUntilConverged /\ LeftoversKnown
=============================================================================
