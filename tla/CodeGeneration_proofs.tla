------------------------- MODULE CodeGeneration_proofs -------------------------
(***************************************************************************)
(* Code generation tasks, for any number of tasks, attempts and crashes,   *)
(* and for every choice of the faults.                                     *)
(*                                                                         *)
(* First, the service uses the store as the store allows.  Then an         *)
(* invariant that says of each task, by itself, how its run, its files and *)
(* the places of its three actors fit together.  What makes it inductive   *)
(* is who may be where at the same time: as long as the worker has no run  *)
(* yet, or scans, nobody else is past asking for its end; and a retry goes *)
(* on only after the worker has left.                                      *)
(***************************************************************************)
EXTENDS CodeGeneration, TaskStore_proofs

WorkerAt(t)  == at["worker"][t]
HandlerAt(t) == at["handler"][t]
RetryAt(t)   == at["retry"][t]
PlacesOf(t)  == {WorkerAt(t), HandlerAt(t), RetryAt(t)}

BeforeHold == {"opening", "reporting", "holding"}
BeforeRun  == BeforeHold \cup {"creating"}

\* The hold is there, unless the task was cancelled.
WithRun == {"creating", "recording", "checking", "polling", "marking", "registering",
            "rechecking", "scanning"}

\* An actor past the request to cancel has known of a run.
PastRequest == Converging \ {"cancelling"}

WillSucceed(t) == verdict[t].status = "SUCCEEDED"

-----------------------------------------------------------------------------
(***************************************************************************)
(* What holds of each task.                                                *)
(***************************************************************************)
\* Nothing is there of a task that has not been started.
FreshFits(t) ==
    rows[t].status \in {"ABSENT", "PENDING"} =>
        /\ WorkerAt(t) \in {"idle", "starting"} /\ RetryAt(t) = "idle"
        /\ remote[t] = "none" /\ ~RunKnown(t) /\ ~Pending(t) /\ ~Confirmed(t)
        /\ t \notin workspace \cup holds \cup queue \cup recovered
        /\ completion[t] = EmptyPatch
        /\ ~Exists(t) => /\ WorkerAt(t) = "idle" /\ HandlerAt(t) = "idle"
                         /\ future[t] # "queued" /\ ~rows[t].cancel

\* What the row and the memory say of the run is true, and the files of a live
\* one are held.
RunFits(t) ==
    /\ Confirmed(t) => RemoteEnded(t)
    /\ RunKnown(t) => remote[t] # "none"
    /\ WillSucceed(t) => Confirmed(t)
    /\ remote[t] = "active" => t \in holds /\ Pending(t)
    /\ remote[t] # "none" /\ ~Pending(t) /\ rows[t].status # "SUCCEEDED" => t \notin workspace
    /\ completion[t] # EmptyPatch
         => remote[t] # "active" /\ completion[t] = Set("cleanup_pending", FALSE)
    /\ t \in holds => t \in workspace

\* The actors that get rid of the run and its files.
ConvergeFits(t) ==
    /\ "settling" \in PlacesOf(t) => remote[t] # "active"
    /\ "completing" \in PlacesOf(t) => t \notin workspace
    /\ HandlerAt(t) # "idle" => rows[t].cancel
    /\ HandlerAt(t) \in PastRequest => remote[t] # "none"
    /\ RetryAt(t) \in {"idle", "waiting"} \cup Converging
    /\ RetryAt(t) # "idle" =>
         /\ future[t] # "queued"
         /\ \/ WorkerAt(t) \in {"idle", "finalizing", "releasing"}
            \/ WorkerAt(t) \in {"deleting", "completing"} /\ rows[t].status \in Terminal
    /\ RetryAt(t) \in Converging => rows[t].status \in {"FAILED", "CANCELLED"}

\* The worker, before it has a run and with one.
WorkerFits(t) ==
    /\ WorkerAt(t) # "idle" => future[t] # "queued"
    /\ WorkerAt(t) \notin {"idle", "starting", "releasing", "deleting", "completing"}
         => rows[t].status = "RUNNING"
    /\ WorkerAt(t) \in BeforeRun =>
         /\ rows[t].status = "RUNNING" /\ remote[t] = "none"
         /\ ~RunKnown(t) /\ ~Confirmed(t)
         /\ t \notin queue /\ completion[t] = EmptyPatch
    /\ WorkerAt(t) \in {"reporting", "holding"} => t \in workspace
    /\ WorkerAt(t) = "creating" => t \in holds /\ Pending(t)
    /\ WorkerAt(t) = "recording" => remote[t] # "none"
    /\ WorkerAt(t) = "marking" => RemoteEnded(t)
    /\ WorkerAt(t) \in {"rechecking", "scanning"} => t \in scans
    /\ WorkerAt(t) = "scanning" => HandlerAt(t) \in {"idle", "finding"} /\ t \in holds
    /\ WorkerAt(t) = "releasing" => rows[t].status \in Terminal
    /\ rows[t].status = "RUNNING" =>
         /\ WorkerAt(t) \in Converging => ~WillSucceed(t)
         /\ ~rows[t].cancel /\ (WorkerAt(t) \in WithRun \/ WillSucceed(t))
              => t \in holds /\ t \notin queue

\* What is left of a closed task.
ClosedFits(t) ==
    /\ rows[t].status \in Terminal /\ t \in workspace
         => t \in artifacts \cup holds \cup queue \cup missed \cup recovered
    /\ rows[t].status = "SUCCEEDED" =>
         /\ WorkerAt(t) \in {"releasing", "idle"} /\ future[t] # "queued"
         /\ HandlerAt(t) = "idle" /\ RetryAt(t) \in {"idle", "waiting"}
         /\ Confirmed(t) /\ t \in workspace /\ t \in artifacts /\ t \notin queue

\* A crash, and the startup after it.
StartupFits(t) ==
    /\ service # "up" => WorkerAt(t) = "idle" /\ HandlerAt(t) = "idle" /\ future[t] # "queued"
    /\ service \in {"queue", "visit", "converge"} => rows[t].status \notin Active
    /\ t \in recovered
         => service \in {"queue", "visit"} /\ rows[t].status \in {"FAILED", "CANCELLED"}

TaskFits(t) ==
    /\ FreshFits(t) /\ RunFits(t) /\ ConvergeFits(t)
    /\ WorkerFits(t) /\ ClosedFits(t) /\ StartupFits(t)

ServiceInv == CodeGenTypeOK /\ \A t \in Tasks : TaskFits(t)

-----------------------------------------------------------------------------
(***************************************************************************)
(* The service uses the store.                                             *)
(***************************************************************************)
LEMMA OutcomesType == Succeeded \in Outcome /\ Failed \in Outcome /\ Cancelled \in Outcome
BY FullProgressAssumption DEF Outcome, Succeeded, Failed, Cancelled, Terminal, Progress

\* The keys are there, and a patch of one key is a patch.
LEMMA KeysAndPatches ==
    /\ "cleanup_pending" \in MetaKeys /\ "naturalcc_run_id" \in MetaKeys
    /\ "naturalcc_terminal_confirmed" \in MetaKeys
    /\ \A key \in MetaKeys : \A value \in BOOLEAN :
          /\ Set(key, value) \in Patch /\ Set(key, value)[key] = value
          /\ \A k \in MetaKeys \ {key} : Set(key, value)[k] = Keep
BY CodeGenerationAssumption DEF Set, EmptyPatch, Patch

VerdictOK == verdict \in [Tasks -> Outcome]

\* A worker's step changes its verdict, if at all, to a proper one.
LEMMA VerdictsKept ==
    ASSUME VerdictOK, [CodeGenNext]_vars
    PROVE  VerdictOK'
<1>1. ASSUME NEW t \in Tasks, NEW out \in Outcome, verdict' = [verdict EXCEPT ![t] = out]
      PROVE  VerdictOK'
  BY <1>1 DEF VerdictOK
<1>2. ASSUME UNCHANGED verdict PROVE VerdictOK'
  BY <1>2 DEF VerdictOK
<1>3. ASSUME NEW t \in Tasks, Worker(t) PROVE VerdictOK'
  <2>1. UNCHANGED verdict \/ \E out \in Outcome : verdict' = [verdict EXCEPT ![t] = out]
    BY <1>3, OutcomesType
       DEF Worker, PickUp, Start, OpenWorkspace, ReportStart, Hold, CreateRun, RecordRun,
           CheckCancelled, Poll, MarkConfirmed, RegisterScan, RecheckCancelled, EndScan,
           InterruptedLate, Leave, FinalizeTask, FinishWorkspaces, GivesUp
  <2> QED
    BY <1>1, <1>2, <2>1
<1>4. ASSUME NEW t \in Tasks, NEW a \in Actors, Converge(a, t) PROVE UNCHANGED verdict
  BY <1>4 DEF Converge, CancelRun, ConfirmRun, Settle, DeleteWorkspace, CompleteWorkspace
<1>5. ASSUME NEW t \in Tasks,
             \/ RemoteEnds(t) \/ CreateTask(t) \/ CancelTask(t) \/ HandleCancel(t)
             \/ TryRecover(t) \/ VisitRecovered(t)
      PROVE  UNCHANGED verdict
  BY <1>5 DEF RemoteEnds, CreateTask, CancelTask, HandleCancel, TryRecover, VisitRecovered,
              memoryVars
<1>6. CASE Crash
  BY <1>6, OutcomesType DEF Crash, VerdictOK
<1>7. CASE Restart \/ BeginVisit \/ BeginConverge \/ Serve \/ UNCHANGED vars
  BY <1>2, <1>7 DEF Restart, BeginVisit, BeginConverge, Serve, vars, memoryVars
<1> QED
  BY <1>2, <1>3, <1>4, <1>5, <1>6, <1>7 DEF CodeGenNext

\* Each step of the service is one call of the store, its recovery, or none.
LEMMA StepUsesTheStore ==
    ASSUME VerdictOK, [CodeGenNext]_vars
    PROVE  [StoreNext]_storeVars
<1>1. ASSUME NEW t \in Tasks, StoreCall(t) PROVE StoreNext
  BY <1>1 DEF StoreNext
<1>2. ASSUME NEW t \in Tasks,
             \/ \E key \in MetaKeys : \E value \in BOOLEAN :
                   \/ MergeMetadata(t, Set(key, value)) \/ HoldWorkspaces(t, Set(key, value))
                   \/ ReleaseWorkspaces(t, Set(key, value))
                   \/ QueueCleanupAndReleaseHold(t, Set(key, value))
      PROVE  StoreNext
  BY <1>1, <1>2, KeysAndPatches DEF StoreCall
<1>3. ASSUME NEW t \in Tasks, Worker(t) PROVE StoreNext \/ UNCHANGED storeVars
  <2>1. CASE Start(t) \/ ReportStart(t)
    <3>1. 1 \in Progress
      BY FullProgressAssumption DEF Progress
    <3> QED
      BY <1>1, <2>1, <3>1 DEF Start, ReportStart, StoreCall
  <2>2. CASE Hold(t) \/ RecordRun(t) \/ MarkConfirmed(t) \/ FinishWorkspaces(t)
    BY <1>2, <2>2, KeysAndPatches DEF Hold, RecordRun, MarkConfirmed, FinishWorkspaces
  <2>3. CASE FinalizeTask(t)
    <3>1. verdict[t] \in Outcome
      BY DEF VerdictOK
    <3> QED
      BY <1>1, <2>3, <3>1 DEF FinalizeTask, StoreCall
  <2>4. ~(Start(t) \/ ReportStart(t) \/ Hold(t) \/ RecordRun(t) \/ MarkConfirmed(t)
            \/ FinishWorkspaces(t) \/ FinalizeTask(t)) => UNCHANGED storeVars
    BY <1>3
       DEF Worker, PickUp, OpenWorkspace, CreateRun, CheckCancelled, Poll, RegisterScan,
           RecheckCancelled, EndScan, InterruptedLate, Leave
  <2> QED
    BY <2>1, <2>2, <2>3, <2>4
<1>4. ASSUME NEW t \in Tasks, NEW a \in Actors, Converge(a, t)
      PROVE  StoreNext \/ UNCHANGED storeVars
  <2>1. CASE ConfirmRun(a, t) \/ Settle(a, t)
    BY <1>2, <2>1, KeysAndPatches DEF ConfirmRun, Settle
  <2>2. CASE DeleteWorkspace(a, t) \/ CompleteWorkspace(a, t)
    BY <1>1, <2>2 DEF DeleteWorkspace, CompleteWorkspace, StoreCall
  <2>3. CASE CancelRun(a, t)
    BY <2>3 DEF CancelRun
  <2> QED
    BY <1>4, <2>1, <2>2, <2>3 DEF Converge
<1>5. ASSUME NEW t \in Tasks, CreateTask(t) \/ CancelTask(t)
      PROVE  StoreNext \/ UNCHANGED storeVars
  BY <1>1, <1>5 DEF CreateTask, CancelTask, StoreCall
<1>6. ASSUME NEW t \in Tasks, TryRecover(t) PROVE StoreNext \/ UNCHANGED storeVars
  BY <1>2, <1>6, KeysAndPatches DEF TryRecover
<1>7. ASSUME NEW t \in Tasks, RemoteEnds(t) \/ HandleCancel(t) \/ VisitRecovered(t)
      PROVE  UNCHANGED storeVars
  BY <1>7 DEF RemoteEnds, HandleCancel, VisitRecovered
<1>8. CASE Restart
  BY <1>8 DEF Restart, StoreNext
<1>9. CASE Crash \/ BeginVisit \/ BeginConverge \/ Serve \/ UNCHANGED vars
  BY <1>9 DEF Crash, BeginVisit, BeginConverge, Serve, vars
<1> QED
  BY <1>3, <1>4, <1>5, <1>6, <1>7, <1>8, <1>9 DEF CodeGenNext

\* The service above the store is a client of it, and so what is proved of the
\* store in TaskStore_proofs holds here.
THEOREM GenerationUsesTheStore == CodeGenSpec => StoreSpec
<1>1. CodeGenInit => StoreInit /\ VerdictOK
  BY OutcomesType DEF CodeGenInit, VerdictOK
<1> QED
  BY <1>1, StepUsesTheStore, VerdictsKept, PTL DEF CodeGenSpec, StoreSpec

-----------------------------------------------------------------------------
(***************************************************************************)
(* The types.                                                              *)
(***************************************************************************)
\* An actor goes from one place to another, and nobody else does.
LEMMA Going ==
    ASSUME at \in [Actors -> [Tasks -> Places]], NEW a \in Actors, NEW t \in Tasks,
           NEW from, NEW to \in Places, Goes(a, t, from, to)
    PROVE  /\ at' \in [Actors -> [Tasks -> Places]]
           /\ at[a][t] = from /\ at'[a][t] = to
           /\ \A b \in Actors \ {a} : at'[b][t] = at[b][t]
           /\ \A u \in Tasks \ {t} : \A b \in Actors : at'[b][u] = at[b][u]
BY DEF Goes

LEMMA AfterPlaces ==
    ASSUME NEW a \in Actors, NEW t \in Tasks
    PROVE  /\ After(a, t) \in Places
           /\ a = "worker" => After(a, t) = IF rows[t].status = "RUNNING" THEN "leaving" ELSE "idle"
           /\ a = "handler" => After(a, t) = "idle"
           /\ a = "retry" => After(a, t) = "waiting"
BY DEF Actors, After, Places, WorkerSteps

\* A worker only goes to the places of a worker.
LEMMA WorkerTyped ==
    ASSUME CodeGenTypeOK, TypeOK', NEW t \in Tasks, Worker(t)
    PROVE  CodeGenTypeOK'
<1>1. at' \in [Actors -> [Tasks -> Places]]
  <2>1. ASSUME NEW from, NEW to \in Places, Goes("worker", t, from, to)
        PROVE  at' \in [Actors -> [Tasks -> Places]]
    BY <2>1, Going DEF CodeGenTypeOK, Actors
  <2>2. CASE Leave(t)
    <3>1. at' = [at EXCEPT !["worker"][t] = "finalizing",
                           !["retry"][t] = IF NeedsRetry(t) /\ service = "up"
                                                /\ at["retry"][t] = "idle"
                                           THEN "waiting" ELSE @]
      BY <2>2 DEF Leave
    <3>2. "finalizing" \in Places /\ "waiting" \in Places
      BY DEF Places, WorkerSteps
    <3> QED
      BY <3>1, <3>2 DEF CodeGenTypeOK, Actors
  <2>3. {"idle"} \cup WorkerSteps \cup Converging \subseteq Places
    BY DEF Places
  <2>4. CASE PickUp(t) \/ Start(t) \/ OpenWorkspace(t) \/ ReportStart(t) \/ Hold(t)
               \/ CreateRun(t) \/ RecordRun(t) \/ CheckCancelled(t) \/ Poll(t)
    BY <2>1, <2>3, <2>4
       DEF PickUp, Start, OpenWorkspace, ReportStart, Hold, CreateRun, RecordRun,
           CheckCancelled, Poll, GivesUp, AfterLostAnswer, WorkerSteps, Converging
  <2>5. CASE MarkConfirmed(t) \/ RegisterScan(t) \/ RecheckCancelled(t) \/ EndScan(t)
               \/ InterruptedLate(t) \/ FinalizeTask(t) \/ FinishWorkspaces(t)
    BY <2>1, <2>3, <2>5
       DEF MarkConfirmed, RegisterScan, RecheckCancelled, EndScan, InterruptedLate,
           FinalizeTask, FinishWorkspaces, GivesUp, WorkerSteps, Converging
  <2> QED
    BY <2>2, <2>4, <2>5 DEF Worker
<1>2. UNCHANGED verdict \/ \E out \in Outcome : verdict' = [verdict EXCEPT ![t] = out]
  BY OutcomesType
     DEF Worker, PickUp, Start, OpenWorkspace, ReportStart, Hold, CreateRun, RecordRun,
         CheckCancelled, Poll, MarkConfirmed, RegisterScan, RecheckCancelled, EndScan,
         InterruptedLate, Leave, FinalizeTask, FinishWorkspaces, GivesUp
<1>3. /\ future' \in {future, [future EXCEPT ![t] = "taken"]}
      /\ remote' \in {remote, [remote EXCEPT ![t] = "active"], [remote EXCEPT ![t] = "none"]}
      /\ tries' \in {tries, [tries EXCEPT ![t] = MaxTries]}
  BY DEF Worker, PickUp, Start, OpenWorkspace, ReportStart, Hold, CreateRun, RecordRun,
         CheckCancelled, Poll, MarkConfirmed, RegisterScan, RecheckCancelled, EndScan,
         InterruptedLate, Leave, FinalizeTask, FinishWorkspaces, worldVars
<1>4. /\ runs' \in {runs, runs \cup {t}, runs \ {t}}
      /\ scans' \in {scans, scans \cup {t}, scans \ {t}}
      /\ injected' \in {injected, injected \ {t}}
      /\ workspace' \in {workspace, workspace \cup {t}}
  BY DEF Worker, PickUp, Start, OpenWorkspace, ReportStart, Hold, CreateRun, RecordRun,
         CheckCancelled, Poll, MarkConfirmed, RegisterScan, RecheckCancelled, EndScan,
         InterruptedLate, Leave, FinalizeTask, FinishWorkspaces, worldVars
<1>5. UNCHANGED serverVars
  BY DEF Worker, PickUp, Start, OpenWorkspace, ReportStart, Hold, CreateRun, RecordRun,
         CheckCancelled, Poll, MarkConfirmed, RegisterScan, RecheckCancelled, EndScan,
         InterruptedLate, Leave, FinalizeTask, FinishWorkspaces
<1>6. verdict' \in [Tasks -> Outcome]
  BY <1>2 DEF CodeGenTypeOK
<1>7. /\ future' \in [Tasks -> {"none", "queued", "dropped", "taken"}]
      /\ remote' \in [Tasks -> {"none", "active", "completed", "stopped"}]
  BY <1>3 DEF CodeGenTypeOK
<1>8. tries' \in [Tasks -> 0..MaxTries + 1]
  <2>1. MaxTries \in 0..MaxTries + 1
    BY CodeGenerationAssumption
  <2> QED
    BY <1>3, <2>1 DEF CodeGenTypeOK
<1>9. /\ runs' \in SUBSET Tasks /\ scans' \in SUBSET Tasks
      /\ injected' \in SUBSET Tasks /\ workspace' \in SUBSET Tasks
  BY <1>4 DEF CodeGenTypeOK
<1> QED
  BY <1>1, <1>5, <1>6, <1>7, <1>8, <1>9 DEF CodeGenTypeOK, serverVars

\* Nor does one of the three that get rid of a run leave these places.
LEMMA ConvergeTyped ==
    ASSUME CodeGenTypeOK, TypeOK', NEW t \in Tasks, NEW a \in Actors, Converge(a, t)
    PROVE  CodeGenTypeOK'
<1>1. at' \in [Actors -> [Tasks -> Places]]
  <2>1. ASSUME NEW from, NEW to \in Places, Goes(a, t, from, to)
        PROVE  at' \in [Actors -> [Tasks -> Places]]
    BY <2>1, Going DEF CodeGenTypeOK
  <2>2. Converging \subseteq Places
    BY DEF Places
  <2> QED
    BY <2>1, <2>2, AfterPlaces
       DEF Converge, CancelRun, ConfirmRun, Settle, DeleteWorkspace, CompleteWorkspace, Converging
<1>2. /\ remote' \in {remote, [remote EXCEPT ![t] = "stopped"]}
      /\ workspace' \in {workspace, workspace \ {t}}
      /\ hindered' \in {hindered, hindered \cup {t}}
      /\ UNCHANGED <<future, verdict, runs, scans, injected, tries, service, recovered,
                     missed, crashes>>
  BY DEF Converge, CancelRun, ConfirmRun, Settle, DeleteWorkspace, CompleteWorkspace,
         worldVars, serverVars
<1> QED
  BY <1>1, <1>2 DEF CodeGenTypeOK

LEMMA OthersTyped ==
    ASSUME CodeGenTypeOK, TypeOK', NEW t \in Tasks,
           \/ RemoteEnds(t) \/ CreateTask(t) \/ CancelTask(t) \/ HandleCancel(t)
           \/ TryRecover(t) \/ VisitRecovered(t)
    PROVE  CodeGenTypeOK'
<1>1. at' \in [Actors -> [Tasks -> Places]]
  <2>1. ASSUME NEW a \in Actors, NEW from, NEW to \in Places, Goes(a, t, from, to)
        PROVE  at' \in [Actors -> [Tasks -> Places]]
    BY <2>1, Going DEF CodeGenTypeOK
  <2>2. {"idle", "finding", "waiting"} \cup Converging \subseteq Places
    BY DEF Places
  <2>3. ASSUME UNCHANGED at PROVE at' \in [Actors -> [Tasks -> Places]]
    BY <2>3 DEF CodeGenTypeOK
  <2> QED
    BY <2>1, <2>2, <2>3
       DEF RemoteEnds, CreateTask, CancelTask, HandleCancel, TryRecover, VisitRecovered,
           memoryVars, Actors, Converging
<1>2. /\ future' \in {future, [future EXCEPT ![t] = "queued"], [future EXCEPT ![t] = "dropped"]}
      /\ remote' \in {remote, [remote EXCEPT ![t] = "completed"],
                      [remote EXCEPT ![t] = "stopped"]}
      /\ tries' \in {tries, [tries EXCEPT ![t] = IF tries[t] > 0 THEN @ - 1 ELSE 0]}
      /\ workspace' \in {workspace, workspace \ {t}}
      /\ injected' \in {injected, injected \cup {t}}
  BY DEF RemoteEnds, CreateTask, CancelTask, HandleCancel, TryRecover, VisitRecovered,
         memoryVars, worldVars
<1>3. /\ recovered' \in {recovered, recovered \ {t}} /\ missed' \in {missed, missed \cup {t}}
      /\ hindered' \in {hindered, hindered \cup {t}}
      /\ UNCHANGED <<verdict, runs, scans, service, crashes>>
  BY DEF RemoteEnds, CreateTask, CancelTask, HandleCancel, TryRecover, VisitRecovered,
         memoryVars, serverVars
<1>4. tries' \in [Tasks -> 0..MaxTries + 1]
  <2>1. (IF tries[t] > 0 THEN tries[t] - 1 ELSE 0) \in 0..MaxTries + 1
    BY CodeGenerationAssumption DEF CodeGenTypeOK
  <2> QED
    BY <1>2, <2>1 DEF CodeGenTypeOK
<1> QED
  BY <1>1, <1>2, <1>3, <1>4 DEF CodeGenTypeOK

LEMMA ServerTyped ==
    ASSUME CodeGenTypeOK, TypeOK', Crash \/ Restart \/ BeginVisit \/ BeginConverge \/ Serve
    PROVE  CodeGenTypeOK'
<1>1. /\ "retry" \in Actors /\ 0 \in 0..MaxTries + 1 /\ MaxTries + 1 \in 0..MaxTries + 1
      /\ {"idle", "waiting", "deleting"} \subseteq Places
  BY CodeGenerationAssumption DEF Actors, Places, Converging
<1>2. CASE Crash
  <2>1. crashes' \in 0..MaxCrashes
    BY <1>2, CodeGenerationAssumption DEF Crash, CodeGenTypeOK
  <2>2. tries' \in [Tasks -> 0..MaxTries + 1] /\ at' \in [Actors -> [Tasks -> Places]]
    BY <1>1, <1>2 DEF Crash
  <2>3. /\ future' \in [Tasks -> {"none"}] /\ verdict' \in [Tasks -> Outcome]
        /\ runs' = {} /\ scans' = {} /\ injected' = {} /\ recovered' = {}
        /\ missed' = missed \cup recovered /\ service' = "down"
        /\ UNCHANGED <<remote, workspace, hindered>>
    BY <1>2, OutcomesType DEF Crash, worldVars
  <2> QED
    BY <2>1, <2>2, <2>3 DEF CodeGenTypeOK
<1>3. CASE Restart
  <2>1. at' \in [Actors -> [Tasks -> Places]]
    BY <1>1, <1>3 DEF Restart, CodeGenTypeOK
  <2>2. /\ recovered' \subseteq Tasks /\ service' = "queue" /\ hindered' = {}
        /\ UNCHANGED <<future, verdict, runs, scans, injected, tries, remote, workspace,
                       missed, crashes>>
    BY <1>3 DEF Restart, worldVars
  <2> QED
    BY <2>1, <2>2 DEF CodeGenTypeOK
<1>4. CASE BeginVisit
  BY <1>4 DEF BeginVisit, CodeGenTypeOK, memoryVars, worldVars
<1>5. CASE BeginConverge
  <2>1. at' \in [Actors -> [Tasks -> Places]] /\ tries' \in [Tasks -> 0..MaxTries + 1]
    BY <1>1, <1>5 DEF BeginConverge, CodeGenTypeOK
  <2>2. /\ service' = "converge"
        /\ UNCHANGED <<future, verdict, runs, scans, injected, remote, workspace, recovered,
                       missed, hindered, crashes>>
    BY <1>5 DEF BeginConverge, worldVars
  <2> QED
    BY <2>1, <2>2 DEF CodeGenTypeOK
<1>6. CASE Serve
  <2>1. at' \in [Actors -> [Tasks -> Places]]
    BY <1>1, <1>6 DEF Serve, CodeGenTypeOK
  <2>2. /\ service' = "up"
        /\ UNCHANGED <<future, verdict, runs, scans, injected, tries, remote, workspace,
                       recovered, missed, hindered, crashes>>
    BY <1>6 DEF Serve, worldVars
  <2> QED
    BY <2>1, <2>2 DEF CodeGenTypeOK
<1> QED
  BY <1>2, <1>3, <1>4, <1>5, <1>6

\* The variables keep their types.
LEMMA TypesKept ==
    ASSUME CodeGenTypeOK, TypeOK', [CodeGenNext]_vars
    PROVE  CodeGenTypeOK'
<1>1. CASE UNCHANGED vars
  BY <1>1 DEF vars, memoryVars, worldVars, serverVars, CodeGenTypeOK
<1> QED
  BY <1>1, WorkerTyped, ConvergeTyped, OthersTyped, ServerTyped DEF CodeGenNext

-----------------------------------------------------------------------------
(***************************************************************************)
(* What the calls of the store do to the rows.                             *)
(***************************************************************************)
OtherRows(t) == \A u \in Tasks \ {t} : rows'[u] = rows[u]

\* Of a row, the invariant sees the status, the request to cancel and the metadata.
SameRest(t) == rows'[t].status = rows[t].status /\ rows'[t].cancel = rows[t].cancel

MetaSet(t, key, value) ==
    /\ rows'[t].meta[key] = value
    /\ \A k \in MetaKeys \ {key} : rows'[t].meta[k] = rows[t].meta[k]

LEMMA MergeCalls ==
    ASSUME TypeOK, NEW t \in Tasks, NEW key \in MetaKeys, NEW value \in BOOLEAN,
           WriteRow(t, [rows[t] EXCEPT !.meta = Patched(@, Set(key, value))])
    PROVE  OtherRows(t) /\ SameRest(t) /\ MetaSet(t, key, value)
<1> DEFINE meta == Patched(rows[t].meta, Set(key, value))
<1>1. rows[t] \in Row /\ rows \in [Tasks -> Row]
  BY DEF TypeOK
<1>2. meta[key] = value /\ \A k \in MetaKeys \ {key} : meta[k] = rows[t].meta[k]
  BY KeysAndPatches, KeepAssumption DEF Patched
<1> HIDE DEF meta
<1>3. rows' = [rows EXCEPT ![t] = [rows[t] EXCEPT !.meta = meta]]
  BY DEF WriteRow, meta
<1>4. rows'[t] = [rows[t] EXCEPT !.meta = meta] /\ OtherRows(t)
  BY <1>1, <1>3 DEF OtherRows
<1>5. /\ rows'[t].meta = meta
      /\ rows'[t].status = rows[t].status /\ rows'[t].cancel = rows[t].cancel
  BY <1>1, <1>4 DEF Row
<1> QED
  BY <1>2, <1>4, <1>5 DEF SameRest, MetaSet

\* The metadata that waits for the end of a clean-up comes into the row with it.
LEMMA CompletionCall ==
    ASSUME TypeOK, NEW t \in Tasks, CompleteCleanup(t)
    PROVE  /\ OtherRows(t) /\ SameRest(t)
           /\ completion[t] = EmptyPatch =>
                 \A k \in MetaKeys : rows'[t].meta[k] = rows[t].meta[k]
           /\ \A key \in MetaKeys, value \in BOOLEAN :
                 completion[t] = Set(key, value) => MetaSet(t, key, value)
<1> DEFINE meta == Patched(rows[t].meta, completion[t])
<1>1. rows[t] \in Row /\ rows \in [Tasks -> Row]
  BY DEF TypeOK
<1>2. completion[t] = EmptyPatch => \A k \in MetaKeys : meta[k] = rows[t].meta[k]
  BY DEF Patched, EmptyPatch
<1>3. \A key \in MetaKeys, value \in BOOLEAN :
        completion[t] = Set(key, value) =>
            meta[key] = value /\ \A k \in MetaKeys \ {key} : meta[k] = rows[t].meta[k]
  BY KeysAndPatches, KeepAssumption DEF Patched
<1> HIDE DEF meta
<1>4. rows' = [rows EXCEPT ![t] = [rows[t] EXCEPT !.meta = meta]]
  BY DEF CompleteCleanup, WriteRow, meta
<1>5. rows'[t] = [rows[t] EXCEPT !.meta = meta] /\ OtherRows(t)
  BY <1>1, <1>4 DEF OtherRows
<1>6. /\ rows'[t].meta = meta
      /\ rows'[t].status = rows[t].status /\ rows'[t].cancel = rows[t].cancel
  BY <1>1, <1>5 DEF Row
<1> QED
  BY <1>2, <1>3, <1>5, <1>6 DEF SameRest, MetaSet

\* Settling twice leaves the same to do.
LEMMA SettleCall ==
    ASSUME TypeOK, NEW t \in Tasks, NEW key \in MetaKeys, NEW value \in BOOLEAN,
           QueueCleanupAndReleaseHold(t, Set(key, value)),
           completion[t] \in {EmptyPatch, Set(key, value)}
    PROVE  /\ UNCHANGED <<rows, artifacts>>
           /\ queue' = queue \cup {t} /\ holds' = holds \ {t}
           /\ completion'[t] = Set(key, value)
           /\ \A u \in Tasks \ {t} : completion'[u] = completion[u]
<1>1. Patched(completion[t], Set(key, value)) = Set(key, value)
  <2>1. \A old \in {EmptyPatch, Set(key, value)}, k \in MetaKeys :
          (IF Set(key, value)[k] = Keep THEN old[k] ELSE Set(key, value)[k]) = Set(key, value)[k]
    BY KeysAndPatches, KeepAssumption DEF EmptyPatch
  <2>2. Set(key, value) = [k \in MetaKeys |-> Set(key, value)[k]]
    BY DEF Set, EmptyPatch
  <2> QED
    BY <2>1, <2>2 DEF Patched
<1> QED
  BY <1>1 DEF QueueCleanupAndReleaseHold, TypeOK

\* The calls that move the status.
LEMMA StatusCalls ==
    ASSUME TypeOK, NEW t \in Tasks
    PROVE  /\ Save(t) =>
                /\ OtherRows(t)
                /\ rows'[t].status = "PENDING" /\ rows'[t].cancel = FALSE
                /\ \A k \in MetaKeys : rows'[t].meta[k] = FALSE
           /\ TryStart(t) =>
                /\ OtherRows(t) /\ rows[t].status = "PENDING"
                /\ rows'[t].status = "RUNNING" /\ rows'[t].cancel = rows[t].cancel
                /\ rows'[t].meta = rows[t].meta
           /\ RequestCancel(t) =>
                /\ OtherRows(t) /\ rows[t].status \in Active
                /\ rows'[t].status = IF rows[t].status = "PENDING" THEN "CANCELLED"
                                     ELSE rows[t].status
                /\ rows'[t].cancel = TRUE /\ rows'[t].meta = rows[t].meta
           /\ UpdateProgress(t, 1) =>
                OtherRows(t) /\ SameRest(t) /\ rows'[t].meta = rows[t].meta
           /\ WriteRow(t, Finalized(rows[t], verdict[t])) =>
                /\ OtherRows(t)
                /\ rows'[t].status = IF rows[t].cancel THEN "CANCELLED" ELSE verdict[t].status
                /\ rows'[t].cancel = rows[t].cancel /\ rows'[t].meta = rows[t].meta
<1>1. rows[t] \in Row /\ rows \in [Tasks -> Row]
  BY DEF TypeOK
<1>2. ASSUME NEW row, WriteRow(t, row) PROVE OtherRows(t) /\ rows'[t] = row
  BY <1>1, <1>2 DEF WriteRow, OtherRows
<1>3. ASSUME Save(t)
      PROVE  /\ OtherRows(t)
             /\ rows'[t].status = "PENDING" /\ rows'[t].cancel = FALSE
             /\ \A k \in MetaKeys : rows'[t].meta[k] = FALSE
  BY <1>2, <1>3 DEF Save, AbsentRow
<1>4. ASSUME TryStart(t)
      PROVE  /\ OtherRows(t) /\ rows[t].status = "PENDING"
             /\ rows'[t].status = "RUNNING" /\ rows'[t].cancel = rows[t].cancel
             /\ rows'[t].meta = rows[t].meta
  <2>1. /\ OtherRows(t) /\ rows[t].status = "PENDING"
        /\ rows'[t] = [rows[t] EXCEPT !.status = "RUNNING", !.started = TRUE]
    BY <1>2, <1>4 DEF TryStart, CanStart
  <2> QED
    BY <1>1, <2>1 DEF Row
<1>5. ASSUME RequestCancel(t)
      PROVE  /\ OtherRows(t) /\ rows[t].status \in Active
             /\ rows'[t].status = IF rows[t].status = "PENDING" THEN "CANCELLED"
                                  ELSE rows[t].status
             /\ rows'[t].cancel = TRUE /\ rows'[t].meta = rows[t].meta
  <2>1. /\ OtherRows(t) /\ rows[t].status \in Active
        /\ rows'[t] = CancelRequested(rows[t])
    BY <1>2, <1>5 DEF RequestCancel, CanRequestCancel
  <2>2. CASE rows[t].status = "PENDING"
    BY <1>1, <2>1, <2>2 DEF CancelRequested, Row
  <2>3. CASE rows[t].status # "PENDING"
    BY <1>1, <2>1, <2>3 DEF CancelRequested, Row
  <2> QED
    BY <2>1, <2>2, <2>3
<1>6. ASSUME UpdateProgress(t, 1)
      PROVE  OtherRows(t) /\ SameRest(t) /\ rows'[t].meta = rows[t].meta
  BY <1>1, <1>2, <1>6 DEF UpdateProgress, SameRest, Row
<1>7. ASSUME WriteRow(t, Finalized(rows[t], verdict[t]))
      PROVE  /\ OtherRows(t)
             /\ rows'[t].status = IF rows[t].cancel THEN "CANCELLED" ELSE verdict[t].status
             /\ rows'[t].cancel = rows[t].cancel /\ rows'[t].meta = rows[t].meta
  <2>1. OtherRows(t) /\ rows'[t] = Finalized(rows[t], verdict[t])
    BY <1>2, <1>7
  <2>2. CASE rows[t].cancel \/ verdict[t].status = "CANCELLED"
    <3>1. rows'[t] = [rows[t] EXCEPT !.status = "CANCELLED", !.finished = TRUE,
                                     !.error = "cancelled"]
      BY <2>1, <2>2 DEF Finalized
    <3> QED
      BY <1>1, <2>1, <2>2, <3>1 DEF Row
  <2>3. CASE ~(rows[t].cancel \/ verdict[t].status = "CANCELLED")
    <3> DEFINE p == Larger(rows[t].progress, verdict[t].progress)
    <3> HIDE DEF p
    <3>1. rows'[t] = [rows[t] EXCEPT !.status = verdict[t].status, !.finished = TRUE,
                                     !.reported = TRUE, !.error = verdict[t].error,
                                     !.progress = p]
      BY <2>1, <2>3 DEF Finalized, p
    <3> QED
      BY <1>1, <2>1, <2>3, <3>1 DEF Row
  <2> QED
    BY <2>2, <2>3
<1> QED
  BY <1>3, <1>4, <1>5, <1>6, <1>7

-----------------------------------------------------------------------------
(***************************************************************************)
(* A step of one task leaves the others as they are.                       *)
(***************************************************************************)
Untouched(u) ==
    /\ rows'[u] = rows[u] /\ completion'[u] = completion[u]
    /\ \A a \in Actors : at'[a][u] = at[a][u]
    /\ future'[u] = future[u] /\ verdict'[u] = verdict[u] /\ remote'[u] = remote[u]
    /\ u \in holds' <=> u \in holds
    /\ u \in queue' <=> u \in queue
    /\ u \in artifacts' <=> u \in artifacts
    /\ u \in runs' <=> u \in runs
    /\ u \in scans' <=> u \in scans
    /\ u \in workspace' <=> u \in workspace
    /\ u \in recovered' <=> u \in recovered
    /\ u \in missed' <=> u \in missed
    /\ service' = service

LEMMA UntouchedFits ==
    ASSUME NEW u \in Tasks, TaskFits(u), Untouched(u)
    PROVE  TaskFits(u)'
<1> USE DEF Untouched, TaskFits, WorkerAt, HandlerAt, RetryAt
<1>0. "worker" \in Actors /\ "handler" \in Actors /\ "retry" \in Actors
  BY DEF Actors
<1>1. /\ (Pending(u) <=> Pending(u)') /\ (Confirmed(u) <=> Confirmed(u)')
      /\ (RunKnown(u) <=> RunKnown(u)') /\ (RemoteEnded(u) <=> RemoteEnded(u)')
      /\ (Exists(u) <=> Exists(u)') /\ (WillSucceed(u) <=> WillSucceed(u)')
  BY DEF Pending, Confirmed, RunKnown, RemoteEnded, Exists, WillSucceed
<1>2. FreshFits(u)'
  BY <1>0, <1>1 DEF FreshFits
<1>3. RunFits(u)'
  BY <1>1 DEF RunFits
<1>4. ConvergeFits(u)'
  BY <1>0 DEF ConvergeFits, PlacesOf
<1>5. WorkerFits(u)'
  BY <1>0, <1>1 DEF WorkerFits
<1>6. ClosedFits(u)'
  BY <1>0, <1>1 DEF ClosedFits
<1>7. StartupFits(u)'
  BY <1>0 DEF StartupFits
<1> QED
  BY <1>2, <1>3, <1>4, <1>5, <1>6, <1>7

OthersUntouched(t) == \A u \in Tasks \ {t} : Untouched(u)

\* Where the actors are after a step of one of them.
LEMMA WorkerGoes ==
    ASSUME CodeGenTypeOK, NEW t \in Tasks, NEW from, NEW to \in Places,
           Goes("worker", t, from, to)
    PROVE  /\ WorkerAt(t) = from /\ WorkerAt(t)' = to
           /\ HandlerAt(t)' = HandlerAt(t) /\ RetryAt(t)' = RetryAt(t)
           /\ \A u \in Tasks \ {t} : \A a \in Actors : at'[a][u] = at[a][u]
           /\ service # "down"
<1>1. "worker" \in Actors /\ "handler" \in Actors /\ "retry" \in Actors
  BY DEF Actors
<1> QED
  BY <1>1, Going DEF CodeGenTypeOK, WorkerAt, HandlerAt, RetryAt, Goes, Running

USE DEF TaskFits, FreshFits, RunFits, ConvergeFits, WorkerFits, ClosedFits, StartupFits,
        Exists, Pending, Confirmed, RunKnown, RemoteEnded, WillSucceed, PlacesOf,
        BeforeHold, BeforeRun, WithRun, PastRequest, Converging, Terminal, Active

\* Up to the hold.
LEMMA BeginningFits ==
    ASSUME CodeGenTypeOK, NEW t \in Tasks, TaskFits(t),
           PickUp(t) \/ Start(t) \/ OpenWorkspace(t) \/ ReportStart(t) \/ Hold(t)
    PROVE  TaskFits(t)' /\ OthersUntouched(t)
<1>1. CASE PickUp(t)
  <2>1. /\ WorkerAt(t) = "idle" /\ WorkerAt(t)' = "starting"
        /\ HandlerAt(t)' = HandlerAt(t) /\ RetryAt(t)' = RetryAt(t)
        /\ \A u \in Tasks \ {t} : \A a \in Actors : at'[a][u] = at[a][u]
        /\ service # "down"
    BY <1>1, WorkerGoes DEF PickUp, Places, WorkerSteps
  <2>2. /\ future[t] = "queued" /\ future'[t] = "taken"
        /\ \A u \in Tasks \ {t} : future'[u] = future[u]
        /\ UNCHANGED <<rows, holds, queue, completion, artifacts, verdict, runs, scans,
                       remote, workspace, service, recovered, missed>>
    BY <1>1 DEF PickUp, storeVars, worldVars, serverVars, CodeGenTypeOK
  <2>3. TaskFits(t)'
    BY <2>1, <2>2
  <2> QED
    BY <2>1, <2>2, <2>3 DEF OthersUntouched, Untouched
<1>2. CASE Start(t)
  <2>1. UNCHANGED <<holds, queue, completion, artifacts, future, verdict, runs, scans,
                    remote, workspace, service, recovered, missed>>
    BY <1>2 DEF Start, TryStart, storeVars, worldVars, serverVars
  <2>2. CASE TryStart(t)
    <3>1. /\ WorkerAt(t) = "starting" /\ WorkerAt(t)' = "opening"
          /\ HandlerAt(t)' = HandlerAt(t) /\ RetryAt(t)' = RetryAt(t)
          /\ \A u \in Tasks \ {t} : \A a \in Actors : at'[a][u] = at[a][u]
      BY <1>2, <2>2, WorkerGoes DEF Start, TryStart, Places, WorkerSteps
    <3>2. /\ OtherRows(t) /\ rows[t].status = "PENDING"
          /\ rows'[t].status = "RUNNING" /\ rows'[t].cancel = rows[t].cancel
          /\ rows'[t].meta = rows[t].meta
      BY <2>2, StatusCalls DEF CodeGenTypeOK
    <3>3. service = "up"
      BY <3>1
    <3>4. TaskFits(t)'
      BY <2>1, <3>1, <3>2, <3>3
    <3> QED
      BY <2>1, <3>1, <3>2, <3>4 DEF OthersUntouched, Untouched, OtherRows
  <2>3. CASE Goes("worker", t, "starting", "idle") /\ UNCHANGED storeVars
    <3>1. /\ WorkerAt(t) = "starting" /\ WorkerAt(t)' = "idle"
          /\ HandlerAt(t)' = HandlerAt(t) /\ RetryAt(t)' = RetryAt(t)
          /\ \A u \in Tasks \ {t} : \A a \in Actors : at'[a][u] = at[a][u]
      BY <2>3, WorkerGoes DEF Places
    <3>2. TaskFits(t)'
      BY <2>1, <2>3, <3>1 DEF storeVars
    <3> QED
      BY <2>1, <2>3, <3>1, <3>2 DEF OthersUntouched, Untouched, storeVars
  <2> QED
    BY <1>2, <2>2, <2>3 DEF Start
<1>3. CASE OpenWorkspace(t)
  <2>1. /\ UNCHANGED <<rows, holds, queue, completion, artifacts, future, runs, scans, remote,
                       service, recovered, missed>>
        /\ verdict' = verdict \/ \E out \in {Cancelled, Failed} :
                                  verdict' = [verdict EXCEPT ![t] = out]
        /\ workspace' = workspace \/ workspace' = workspace \cup {t}
    BY <1>3 DEF OpenWorkspace, GivesUp, storeVars, serverVars
  <2>2. /\ WillSucceed(t)' => WillSucceed(t)
        /\ \A u \in Tasks \ {t} : verdict'[u] = verdict[u]
    BY <2>1 DEF CodeGenTypeOK, Cancelled, Failed
  <2>3. PICK to \in {"leaving", "reporting"} : Goes("worker", t, "opening", to)
                                             /\ (to = "reporting" => t \in workspace')
    BY <1>3 DEF OpenWorkspace, GivesUp
  <2>4. /\ WorkerAt(t) = "opening" /\ WorkerAt(t)' = to
        /\ HandlerAt(t)' = HandlerAt(t) /\ RetryAt(t)' = RetryAt(t)
        /\ \A u \in Tasks \ {t} : \A a \in Actors : at'[a][u] = at[a][u]
    BY <2>3, WorkerGoes DEF Places, WorkerSteps
  <2>5. TaskFits(t)'
    BY <2>1, <2>2, <2>3, <2>4
  <2> QED
    BY <2>1, <2>2, <2>4, <2>5 DEF OthersUntouched, Untouched
<1>4. CASE ReportStart(t)
  <2>1. /\ UNCHANGED <<holds, queue, completion, artifacts, future, runs, scans, remote,
                       workspace, service, recovered, missed>>
        /\ OtherRows(t) /\ SameRest(t) /\ rows'[t].meta = rows[t].meta
    <3>1. UNCHANGED rows => OtherRows(t) /\ SameRest(t) /\ rows'[t].meta = rows[t].meta
      BY DEF OtherRows, SameRest
    <3> QED
      BY <1>4, <3>1, StatusCalls
         DEF ReportStart, UpdateProgress, CodeGenTypeOK, storeVars, worldVars, serverVars
  <2>2. /\ WillSucceed(t)' => WillSucceed(t)
        /\ \A u \in Tasks \ {t} : verdict'[u] = verdict[u]
    BY <1>4 DEF ReportStart, GivesUp, CodeGenTypeOK, Cancelled
  <2>3. PICK to \in {"leaving", "holding"} : Goes("worker", t, "reporting", to)
    BY <1>4 DEF ReportStart, GivesUp
  <2>4. /\ WorkerAt(t) = "reporting" /\ WorkerAt(t)' = to
        /\ HandlerAt(t)' = HandlerAt(t) /\ RetryAt(t)' = RetryAt(t)
        /\ \A u \in Tasks \ {t} : \A a \in Actors : at'[a][u] = at[a][u]
    BY <2>3, WorkerGoes DEF Places, WorkerSteps
  <2>5. TaskFits(t)'
    BY <2>1, <2>2, <2>3, <2>4 DEF SameRest
  <2> QED
    BY <2>1, <2>2, <2>4, <2>5 DEF OthersUntouched, Untouched, OtherRows
<1>5. CASE Hold(t)
  <2>1. /\ UNCHANGED <<queue, completion, artifacts, future, verdict, runs, scans, remote,
                       workspace, service, recovered, missed>>
        /\ holds' = holds \cup {t}
        /\ OtherRows(t) /\ SameRest(t) /\ MetaSet(t, "cleanup_pending", TRUE)
    BY <1>5, MergeCalls, KeysAndPatches
       DEF Hold, HoldWorkspaces, CodeGenTypeOK, worldVars, serverVars
  <2>2. /\ WorkerAt(t) = "holding" /\ WorkerAt(t)' = "creating"
        /\ HandlerAt(t)' = HandlerAt(t) /\ RetryAt(t)' = RetryAt(t)
        /\ \A u \in Tasks \ {t} : \A a \in Actors : at'[a][u] = at[a][u]
    BY <1>5, WorkerGoes DEF Hold, Places, WorkerSteps
  <2>3. TaskFits(t)'
    BY <2>1, <2>2, KeysAndPatches DEF SameRest, MetaSet
  <2> QED
    BY <2>1, <2>2, <2>3 DEF OthersUntouched, Untouched, OtherRows
<1> QED
  BY <1>1, <1>2, <1>3, <1>4, <1>5

\* With a run: from its creation to its end.
LEMMA RunningFits ==
    ASSUME CodeGenTypeOK, NEW t \in Tasks, TaskFits(t),
           CreateRun(t) \/ RecordRun(t) \/ CheckCancelled(t) \/ Poll(t) \/ MarkConfirmed(t)
    PROVE  TaskFits(t)' /\ OthersUntouched(t)
<1>1. CASE CreateRun(t)
  <2>1. /\ UNCHANGED <<rows, holds, queue, completion, artifacts, future, scans, workspace,
                       service, recovered, missed>>
        /\ \A u \in Tasks \ {t} : remote'[u] = remote[u] /\ verdict'[u] = verdict[u]
        /\ \A u \in Tasks \ {t} : u \in runs' <=> u \in runs
        /\ WillSucceed(t)' => WillSucceed(t)
    BY <1>1 DEF CreateRun, GivesUp, Failed, CodeGenTypeOK, storeVars, serverVars
  <2>2. PICK to \in {"recording", "settling", "leaving"} :
          /\ Goes("worker", t, "creating", to)
          /\ to = "recording" => remote'[t] = "active"
          /\ to = "settling" => remote'[t] = remote[t]
          /\ remote'[t] \in {remote[t], "none", "active"}
          /\ t \in runs' <=> (t \in runs \/ to = "recording")
          /\ to # "recording" => ~WillSucceed(t)'
    BY <1>1 DEF CreateRun, GivesUp, AfterLostAnswer, Failed, CodeGenTypeOK
  <2>3. /\ WorkerAt(t) = "creating" /\ WorkerAt(t)' = to
        /\ HandlerAt(t)' = HandlerAt(t) /\ RetryAt(t)' = RetryAt(t)
        /\ \A u \in Tasks \ {t} : \A a \in Actors : at'[a][u] = at[a][u]
    BY <2>2, WorkerGoes DEF Places, WorkerSteps
  <2>4. /\ RetryAt(t) = "idle" /\ HandlerAt(t) \notin PastRequest
        /\ rows[t].status = "RUNNING" /\ Pending(t) /\ t \in holds
    BY <2>3
  <2>5. FreshFits(t)' /\ RunFits(t)' /\ ClosedFits(t)' /\ StartupFits(t)'
    BY <2>1, <2>2, <2>3, <2>4
  <2>6. ConvergeFits(t)'
    BY <2>1, <2>2, <2>3, <2>4
  <2>7. WorkerFits(t)'
    BY <2>1, <2>2, <2>3, <2>4
  <2> QED
    BY <2>1, <2>3, <2>5, <2>6, <2>7 DEF OthersUntouched, Untouched
<1>2. CASE RecordRun(t)
  <2>1. /\ UNCHANGED <<holds, queue, completion, artifacts, future, verdict, runs, scans, remote,
                       workspace, service, recovered, missed>>
        /\ OtherRows(t) /\ SameRest(t) /\ MetaSet(t, "naturalcc_run_id", TRUE)
    BY <1>2, MergeCalls, KeysAndPatches
       DEF RecordRun, MergeMetadata, CodeGenTypeOK, worldVars, serverVars
  <2>2. /\ WorkerAt(t) = "recording" /\ WorkerAt(t)' = "checking"
        /\ HandlerAt(t)' = HandlerAt(t) /\ RetryAt(t)' = RetryAt(t)
        /\ \A u \in Tasks \ {t} : \A a \in Actors : at'[a][u] = at[a][u]
    BY <1>2, WorkerGoes DEF RecordRun, Places, WorkerSteps
  <2>3. TaskFits(t)'
    BY <2>1, <2>2, KeysAndPatches DEF SameRest, MetaSet
  <2> QED
    BY <2>1, <2>2, <2>3 DEF OthersUntouched, Untouched, OtherRows
<1>3. CASE CheckCancelled(t) \/ Poll(t)
  <2>1. UNCHANGED <<rows, holds, queue, completion, artifacts, future, runs, scans, remote,
                    workspace, service, recovered, missed>>
    BY <1>3 DEF CheckCancelled, Poll, storeVars, worldVars, serverVars
  <2>2. PICK from \in {"checking", "polling"}, to \in {"cancelling", "polling", "marking"} :
          /\ Goes("worker", t, from, to)
          /\ to = "marking" => RemoteEnded(t)
          /\ to = "cancelling" => ~WillSucceed(t)'
          /\ WillSucceed(t)' => WillSucceed(t)
          /\ \A u \in Tasks \ {t} : verdict'[u] = verdict[u]
    BY <1>3 DEF CheckCancelled, Poll, GivesUp, Cancelled, Failed, CodeGenTypeOK
  <2>3. /\ WorkerAt(t) = from /\ WorkerAt(t)' = to
        /\ HandlerAt(t)' = HandlerAt(t) /\ RetryAt(t)' = RetryAt(t)
        /\ \A u \in Tasks \ {t} : \A a \in Actors : at'[a][u] = at[a][u]
    BY <2>2, WorkerGoes DEF Places, WorkerSteps
  <2>4. FreshFits(t)' /\ RunFits(t)' /\ ClosedFits(t)' /\ StartupFits(t)'
    BY <2>1, <2>2, <2>3
  <2>5. ConvergeFits(t)'
    BY <2>1, <2>2, <2>3
  <2>6. WorkerFits(t)'
    BY <2>1, <2>2, <2>3
  <2> QED
    BY <2>1, <2>2, <2>3, <2>4, <2>5, <2>6 DEF OthersUntouched, Untouched
<1>4. CASE MarkConfirmed(t)
  <2>1. /\ UNCHANGED <<holds, queue, completion, artifacts, future, runs, scans, remote,
                       workspace, service, recovered, missed>>
        /\ OtherRows(t) /\ SameRest(t) /\ MetaSet(t, "naturalcc_terminal_confirmed", TRUE)
    BY <1>4, MergeCalls, KeysAndPatches
       DEF MarkConfirmed, MergeMetadata, CodeGenTypeOK, worldVars, serverVars
  <2>2. PICK to \in {"registering", "settling"} :
          /\ Goes("worker", t, "marking", to)
          /\ to = "settling" => ~WillSucceed(t)'
          /\ \A u \in Tasks \ {t} : verdict'[u] = verdict[u]
    BY <1>4 DEF MarkConfirmed, GivesUp, Cancelled, Failed, CodeGenTypeOK
  <2>3. /\ WorkerAt(t) = "marking" /\ WorkerAt(t)' = to
        /\ HandlerAt(t)' = HandlerAt(t) /\ RetryAt(t)' = RetryAt(t)
        /\ \A u \in Tasks \ {t} : \A a \in Actors : at'[a][u] = at[a][u]
    BY <2>2, WorkerGoes DEF Places, WorkerSteps
  <2>4. TaskFits(t)'
    BY <2>1, <2>2, <2>3, KeysAndPatches DEF SameRest, MetaSet
  <2> QED
    BY <2>1, <2>2, <2>3, <2>4 DEF OthersUntouched, Untouched, OtherRows
<1> QED
  BY <1>1, <1>2, <1>3, <1>4

\* The scan of what the run has written.
LEMMA ScanningFits ==
    ASSUME CodeGenTypeOK, NEW t \in Tasks, TaskFits(t),
           RegisterScan(t) \/ RecheckCancelled(t) \/ EndScan(t) \/ InterruptedLate(t)
    PROVE  TaskFits(t)' /\ OthersUntouched(t)
<1>1. /\ UNCHANGED <<rows, holds, queue, completion, artifacts, future, runs, remote,
                     workspace, service, recovered, missed>>
      /\ \A u \in Tasks \ {t} : u \in scans' <=> u \in scans
      /\ \A u \in Tasks \ {t} : verdict'[u] = verdict[u]
      /\ WillSucceed(t)' => WillSucceed(t)
  BY DEF RegisterScan, RecheckCancelled, EndScan, InterruptedLate, GivesUp, Cancelled,
         CodeGenTypeOK, storeVars, worldVars, serverVars
<1>2. CASE RegisterScan(t)
  <2>1. PICK to \in {"rechecking", "leaving"} :
          /\ Goes("worker", t, "registering", to)
          /\ to = "rechecking" => t \in scans'
    BY <1>2 DEF RegisterScan
  <2>2. /\ WorkerAt(t) = "registering" /\ WorkerAt(t)' = to
        /\ HandlerAt(t)' = HandlerAt(t) /\ RetryAt(t)' = RetryAt(t)
        /\ \A u \in Tasks \ {t} : \A a \in Actors : at'[a][u] = at[a][u]
    BY <2>1, WorkerGoes DEF Places, WorkerSteps
  <2>3. TaskFits(t)'
    <3>1. FreshFits(t)' /\ StartupFits(t)'
      BY <1>1, <2>1, <2>2
    <3>2. RunFits(t)'
      BY <1>1, <2>1, <2>2
    <3>3. ClosedFits(t)'
      BY <1>1, <2>1, <2>2
    <3>4. ConvergeFits(t)'
      BY <1>1, <2>1, <2>2
    <3>5. WorkerFits(t)'
      BY <1>1, <2>1, <2>2
    <3> QED
      BY <3>1, <3>2, <3>3, <3>4, <3>5
  <2> QED
    BY <1>1, <2>2, <2>3 DEF OthersUntouched, Untouched
<1>3. CASE RecheckCancelled(t)
  <2>1. PICK to \in {"scanning", "cancelling"} :
          /\ Goes("worker", t, "rechecking", to)
          /\ to = "scanning" => ~rows[t].cancel /\ UNCHANGED scans
          /\ to = "cancelling" => ~WillSucceed(t)'
    BY <1>3 DEF RecheckCancelled, ScanMayStart, GivesUp, Cancelled, CodeGenTypeOK
  <2>2. /\ WorkerAt(t) = "rechecking" /\ WorkerAt(t)' = to
        /\ HandlerAt(t)' = HandlerAt(t) /\ RetryAt(t)' = RetryAt(t)
        /\ \A u \in Tasks \ {t} : \A a \in Actors : at'[a][u] = at[a][u]
        /\ service = "up"
    BY <2>1, WorkerGoes DEF Places, WorkerSteps
  <2>4. TaskFits(t)'
    <3>1. FreshFits(t)' /\ StartupFits(t)'
      BY <1>1, <2>1, <2>2
    <3>2. RunFits(t)'
      BY <1>1, <2>1, <2>2
    <3>3. ClosedFits(t)'
      BY <1>1, <2>1, <2>2
    <3>4. ConvergeFits(t)'
      BY <1>1, <2>1, <2>2
    <3>5. WorkerFits(t)'
      BY <1>1, <2>1, <2>2
    <3> QED
      BY <3>1, <3>2, <3>3, <3>4, <3>5
  <2> QED
    BY <1>1, <2>2, <2>4 DEF OthersUntouched, Untouched
<1>4. CASE EndScan(t) \/ InterruptedLate(t)
  <2>1. PICK from \in {"scanning", "cancelling", "confirming"}, to \in {"leaving", "cancelling"} :
          /\ Goes("worker", t, from, to)
          /\ to = "cancelling" \/ from # "scanning" => ~WillSucceed(t)'
    BY <1>4 DEF EndScan, InterruptedLate, GivesUp, Cancelled, CodeGenTypeOK
  <2>2. /\ WorkerAt(t) = from /\ WorkerAt(t)' = to
        /\ HandlerAt(t)' = HandlerAt(t) /\ RetryAt(t)' = RetryAt(t)
        /\ \A u \in Tasks \ {t} : \A a \in Actors : at'[a][u] = at[a][u]
    BY <2>1, WorkerGoes DEF Places, WorkerSteps
  <2>3. TaskFits(t)'
    <3>1. FreshFits(t)' /\ StartupFits(t)'
      BY <1>1, <2>1, <2>2
    <3>2. RunFits(t)'
      BY <1>1, <2>1, <2>2
    <3>3. ClosedFits(t)'
      BY <1>1, <2>1, <2>2
    <3>4. ConvergeFits(t)'
      BY <1>1, <2>1, <2>2
    <3>5. WorkerFits(t)'
      BY <1>1, <2>1, <2>2
    <3> QED
      BY <3>1, <3>2, <3>3, <3>4, <3>5
  <2> QED
    BY <1>1, <2>2, <2>3 DEF OthersUntouched, Untouched
<1> QED
  BY <1>2, <1>3, <1>4

\* The end: what is pending is left to a retry, and the task is closed.
LEMMA EndingFits ==
    ASSUME CodeGenTypeOK, NEW t \in Tasks, TaskFits(t),
           Leave(t) \/ FinalizeTask(t) \/ FinishWorkspaces(t)
    PROVE  TaskFits(t)' /\ OthersUntouched(t)
<1>1. CASE Leave(t)
  <2>1. /\ UNCHANGED <<rows, holds, queue, completion, artifacts, future, verdict, scans, remote,
                       workspace, service, recovered, missed>>
        /\ runs' = runs \ {t}
    BY <1>1 DEF Leave, storeVars, worldVars, serverVars
  <2>2. /\ WorkerAt(t) = "leaving" /\ WorkerAt(t)' = "finalizing"
        /\ HandlerAt(t)' = HandlerAt(t)
        /\ RetryAt(t)' = RetryAt(t) \/ (RetryAt(t) = "idle" /\ RetryAt(t)' = "waiting")
        /\ \A u \in Tasks \ {t} : \A a \in Actors : at'[a][u] = at[a][u]
    BY <1>1 DEF Leave, WorkerAt, HandlerAt, RetryAt, CodeGenTypeOK, Actors
  <2>3. TaskFits(t)'
    <3>1. FreshFits(t)' /\ StartupFits(t)'
      BY <2>1, <2>2
    <3>2. RunFits(t)'
      BY <2>1, <2>2
    <3>3. ClosedFits(t)'
      BY <2>1, <2>2
    <3>4. ConvergeFits(t)'
      BY <2>1, <2>2
    <3>5. WorkerFits(t)'
      BY <2>1, <2>2
    <3> QED
      BY <3>1, <3>2, <3>3, <3>4, <3>5
  <2> QED
    BY <2>1, <2>2, <2>3 DEF OthersUntouched, Untouched
<1>2. CASE FinalizeTask(t)
  <2>1. /\ UNCHANGED <<holds, completion, future, verdict, runs, scans, remote, workspace,
                       service, recovered, missed>>
        /\ rows[t].status = "RUNNING" /\ WriteRow(t, Finalized(rows[t], verdict[t]))
    BY <1>2 DEF FinalizeTask, Finalize, CanFinalize, worldVars, serverVars
  <2>2. /\ OtherRows(t)
        /\ rows'[t].status = IF rows[t].cancel THEN "CANCELLED" ELSE verdict[t].status
        /\ rows'[t].cancel = rows[t].cancel /\ rows'[t].meta = rows[t].meta
    BY <2>1, StatusCalls DEF CodeGenTypeOK
  <2>3. verdict[t].status \in {"SUCCEEDED", "FAILED", "CANCELLED"} /\ rows \in [Tasks -> Row]
    BY DEF CodeGenTypeOK, TypeOK, Outcome
  <2>4. Finalized(rows[t], verdict[t]).status = rows'[t].status
    BY <2>1, <2>3 DEF WriteRow
  <2>5. /\ artifacts' = IF rows'[t].status = "SUCCEEDED" THEN artifacts \cup {t} ELSE artifacts
        /\ queue' = IF rows'[t].status # "SUCCEEDED" /\ t \notin holds THEN queue \cup {t}
                    ELSE queue
    BY <1>2, <2>4 DEF FinalizeTask, Finalize
  <2>6. /\ WorkerAt(t) = "finalizing" /\ WorkerAt(t)' = "releasing"
        /\ HandlerAt(t)' = HandlerAt(t) /\ RetryAt(t)' = RetryAt(t)
        /\ \A u \in Tasks \ {t} : \A a \in Actors : at'[a][u] = at[a][u]
        /\ service = "up"
    BY <1>2, WorkerGoes DEF FinalizeTask, Places, WorkerSteps
  <2>7. TaskFits(t)'
    <3>1. FreshFits(t)' /\ StartupFits(t)'
      BY <2>1, <2>2, <2>3, <2>5, <2>6
    <3>2. RunFits(t)'
      BY <2>1, <2>2, <2>3, <2>5, <2>6
    <3>3. ClosedFits(t)'
      <4>1. CASE rows'[t].status = "SUCCEEDED"
        <5>1. ~rows[t].cancel /\ WillSucceed(t)
          BY <2>2, <4>1
        <5>2. /\ t \in holds /\ t \in workspace /\ t \notin queue /\ Confirmed(t)
              /\ HandlerAt(t) = "idle" /\ RetryAt(t) \in {"idle", "waiting"}
          BY <2>1, <5>1
        <5> QED
          BY <2>1, <2>2, <2>5, <2>6, <4>1, <5>2
      <4>2. CASE rows'[t].status # "SUCCEEDED"
        BY <2>1, <2>5, <4>2
      <4> QED
        BY <4>1, <4>2
    <3>4. ConvergeFits(t)'
      BY <2>1, <2>2, <2>3, <2>5, <2>6
    <3>5. WorkerFits(t)'
      <4>1. rows'[t].status \in Terminal
        BY <2>2, <2>3
      <4> QED
        BY <2>1, <2>6, <4>1
    <3> QED
      BY <3>1, <3>2, <3>3, <3>4, <3>5
  <2> QED
    BY <2>1, <2>2, <2>5, <2>6, <2>7 DEF OthersUntouched, Untouched, OtherRows
<1>3. CASE FinishWorkspaces(t)
  <2>1. /\ UNCHANGED <<queue, completion, artifacts, future, verdict, runs, scans, remote,
                       workspace, service, recovered, missed>>
        /\ \/ UNCHANGED <<rows, holds>>
           \/ /\ rows[t].status = "SUCCEEDED" /\ holds' = holds \ {t}
              /\ OtherRows(t) /\ SameRest(t) /\ MetaSet(t, "cleanup_pending", FALSE)
    BY <1>3, MergeCalls, KeysAndPatches
       DEF FinishWorkspaces, ReleaseWorkspaces, CodeGenTypeOK, storeVars, worldVars, serverVars
  <2>2. PICK to \in {"idle", "deleting"} :
          /\ Goes("worker", t, "releasing", to)
          /\ to = "deleting" => rows[t].status # "SUCCEEDED"
    BY <1>3 DEF FinishWorkspaces
  <2>3. /\ WorkerAt(t) = "releasing" /\ WorkerAt(t)' = to
        /\ HandlerAt(t)' = HandlerAt(t) /\ RetryAt(t)' = RetryAt(t)
        /\ \A u \in Tasks \ {t} : \A a \in Actors : at'[a][u] = at[a][u]
    BY <2>2, WorkerGoes DEF Places
  <2>4. CASE UNCHANGED <<rows, holds>>
    <3>1. TaskFits(t)'
      <4>1. FreshFits(t)' /\ StartupFits(t)'
        BY <2>1, <2>2, <2>3, <2>4
      <4>2. RunFits(t)'
        BY <2>1, <2>2, <2>3, <2>4
      <4>3. ClosedFits(t)'
        BY <2>1, <2>2, <2>3, <2>4
      <4>4. ConvergeFits(t)'
        BY <2>1, <2>2, <2>3, <2>4
      <4>5. WorkerFits(t)'
        BY <2>1, <2>2, <2>3, <2>4
      <4> QED
        BY <4>1, <4>2, <4>3, <4>4, <4>5
    <3> QED
      BY <2>1, <2>3, <2>4, <3>1 DEF OthersUntouched, Untouched
  <2>5. CASE /\ rows[t].status = "SUCCEEDED" /\ holds' = holds \ {t}
             /\ OtherRows(t) /\ SameRest(t) /\ MetaSet(t, "cleanup_pending", FALSE)
    <3>1. TaskFits(t)'
      <4>1. FreshFits(t)' /\ StartupFits(t)'
        BY <2>1, <2>2, <2>3, <2>5, KeysAndPatches DEF SameRest, MetaSet
      <4>2. RunFits(t)'
        BY <2>1, <2>2, <2>3, <2>5, KeysAndPatches DEF SameRest, MetaSet
      <4>3. ClosedFits(t)'
        BY <2>1, <2>2, <2>3, <2>5, KeysAndPatches DEF SameRest, MetaSet
      <4>4. ConvergeFits(t)'
        BY <2>1, <2>2, <2>3, <2>5, KeysAndPatches DEF SameRest, MetaSet
      <4>5. WorkerFits(t)'
        BY <2>1, <2>2, <2>3, <2>5, KeysAndPatches DEF SameRest, MetaSet
      <4> QED
        BY <4>1, <4>2, <4>3, <4>4, <4>5
    <3> QED
      BY <2>1, <2>3, <2>5, <3>1 DEF OthersUntouched, Untouched, OtherRows
  <2> QED
    BY <2>1, <2>4, <2>5
<1> QED
  BY <1>1, <1>2, <1>3

\* Whoever gets rid of the run, the others stay where they are.
LEMMA ActorGoes ==
    ASSUME CodeGenTypeOK, NEW t \in Tasks, NEW a \in Actors, NEW from, NEW to \in Places,
           Goes(a, t, from, to)
    PROVE  /\ \A u \in Tasks \ {t} : \A b \in Actors : at'[b][u] = at[b][u]
           /\ service # "down"
           /\ \/ /\ a = "worker" /\ WorkerAt(t) = from /\ WorkerAt(t)' = to
                 /\ HandlerAt(t)' = HandlerAt(t) /\ RetryAt(t)' = RetryAt(t)
              \/ /\ a = "handler" /\ HandlerAt(t) = from /\ HandlerAt(t)' = to
                 /\ WorkerAt(t)' = WorkerAt(t) /\ RetryAt(t)' = RetryAt(t)
              \/ /\ a = "retry" /\ RetryAt(t) = from /\ RetryAt(t)' = to
                 /\ WorkerAt(t)' = WorkerAt(t) /\ HandlerAt(t)' = HandlerAt(t)
BY Going DEF CodeGenTypeOK, WorkerAt, HandlerAt, RetryAt, Goes, Running, Actors

-----------------------------------------------------------------------------
(***************************************************************************)
(* To be rid of a run, by any of the three.                                *)
(***************************************************************************)
\* Where such a step leads: on, or away.
Moved(a, t, from, next, to) ==
    /\ \A u \in Tasks \ {t} : \A b \in Actors : at'[b][u] = at[b][u]
    /\ service # "down"
    /\ \/ /\ a = "worker" /\ WorkerAt(t) = from /\ WorkerAt(t)' = to
          /\ HandlerAt(t)' = HandlerAt(t) /\ RetryAt(t)' = RetryAt(t)
          /\ to \in {next, IF rows[t].status = "RUNNING" THEN "leaving" ELSE "idle"}
       \/ /\ a = "handler" /\ HandlerAt(t) = from /\ HandlerAt(t)' = to
          /\ WorkerAt(t)' = WorkerAt(t) /\ RetryAt(t)' = RetryAt(t)
          /\ to \in {next, "idle"}
       \/ /\ a = "retry" /\ RetryAt(t) = from /\ RetryAt(t)' = to
          /\ WorkerAt(t)' = WorkerAt(t) /\ HandlerAt(t)' = HandlerAt(t)
          /\ to \in {next, "waiting"}

LEMMA ConvergeGoes ==
    ASSUME CodeGenTypeOK, NEW t \in Tasks, NEW a \in Actors, NEW from, NEW next \in Places,
           NEW to \in {next, After(a, t)}, Goes(a, t, from, to)
    PROVE  Moved(a, t, from, next, to)
<1>1. to \in Places
  BY AfterPlaces
<1> QED
  BY <1>1, ActorGoes, AfterPlaces DEF Actors, Moved

LEMMA ConvergeFitsOn ==
    ASSUME CodeGenTypeOK, NEW t \in Tasks, TaskFits(t), NEW a \in Actors, Converge(a, t)
    PROVE  TaskFits(t)' /\ OthersUntouched(t)
<1>0. Converging \subseteq Places
  BY DEF Places
<1>6. completion[t] \in {EmptyPatch, Set("cleanup_pending", FALSE)}
  OBVIOUS
<1>1. CASE CancelRun(a, t)
  <2>1. /\ UNCHANGED <<rows, holds, queue, completion, artifacts, future, verdict, runs,
                       scans, workspace, service, recovered, missed>>
        /\ \A u \in Tasks \ {t} : remote'[u] = remote[u]
        /\ \/ remote'[t] = remote[t]
           \/ RunKnown(t) /\ remote[t] = "active" /\ remote'[t] = "stopped"
    BY <1>1 DEF CancelRun, CodeGenTypeOK, storeVars, serverVars
  <2>2. PICK to \in {"confirming", After(a, t)} :
          /\ Goes(a, t, "cancelling", to)
          /\ to = "confirming" => RunKnown(t)
    BY <1>1, AfterPlaces DEF CancelRun, Actors
  <2>3. Moved(a, t, "cancelling", "confirming", to)
    <3>1. "confirming" \in Places
      BY <1>0
    <3>2. Goes(a, t, "cancelling", to)
      BY <2>2
    <3> QED
      BY <3>1, <3>2, ConvergeGoes
  <2>4. ASSUME a = "worker", WorkerAt(t) = "cancelling", WorkerAt(t)' = to,
               HandlerAt(t)' = HandlerAt(t), RetryAt(t)' = RetryAt(t),
               to \in {"confirming", IF rows[t].status = "RUNNING" THEN "leaving" ELSE "idle"}
        PROVE  TaskFits(t)'
    <3>1. FreshFits(t)' /\ StartupFits(t)'
      BY <2>1, <2>2, <2>3, <2>4 DEF Moved
    <3>2. RunFits(t)'
      BY <2>1, <2>2, <2>3, <2>4 DEF Moved
    <3>3. ClosedFits(t)'
      BY <2>1, <2>2, <2>3, <2>4 DEF Moved
    <3>4. ConvergeFits(t)'
      BY <2>1, <2>2, <2>3, <2>4 DEF Moved
    <3>5. WorkerFits(t)'
      BY <2>1, <2>2, <2>3, <2>4 DEF Moved
    <3> QED
      BY <3>1, <3>2, <3>3, <3>4, <3>5
  <2>5. ASSUME a = "handler", HandlerAt(t) = "cancelling", HandlerAt(t)' = to,
               WorkerAt(t)' = WorkerAt(t), RetryAt(t)' = RetryAt(t),
               to \in {"confirming", "idle"}
        PROVE  TaskFits(t)'
    <3>1. FreshFits(t)' /\ StartupFits(t)'
      BY <2>1, <2>2, <2>3, <2>5 DEF Moved
    <3>2. RunFits(t)'
      BY <2>1, <2>2, <2>3, <2>5 DEF Moved
    <3>3. ClosedFits(t)'
      BY <2>1, <2>2, <2>3, <2>5 DEF Moved
    <3>4. ConvergeFits(t)'
      BY <2>1, <2>2, <2>3, <2>5 DEF Moved
    <3>5. WorkerFits(t)'
      BY <2>1, <2>2, <2>3, <2>5 DEF Moved
    <3> QED
      BY <3>1, <3>2, <3>3, <3>4, <3>5
  <2>6. ASSUME a = "retry", RetryAt(t) = "cancelling", RetryAt(t)' = to,
               WorkerAt(t)' = WorkerAt(t), HandlerAt(t)' = HandlerAt(t),
               to \in {"confirming", "waiting"}
        PROVE  TaskFits(t)'
    <3>1. FreshFits(t)' /\ StartupFits(t)'
      BY <2>1, <2>2, <2>3, <2>6 DEF Moved
    <3>2. RunFits(t)'
      BY <2>1, <2>2, <2>3, <2>6 DEF Moved
    <3>3. ClosedFits(t)'
      BY <2>1, <2>2, <2>3, <2>6 DEF Moved
    <3>4. ConvergeFits(t)'
      BY <2>1, <2>2, <2>3, <2>6 DEF Moved
    <3>5. WorkerFits(t)'
      BY <2>1, <2>2, <2>3, <2>6 DEF Moved
    <3> QED
      BY <3>1, <3>2, <3>3, <3>4, <3>5
  <2>7. TaskFits(t)'
    BY <2>3, <2>4, <2>5, <2>6 DEF Moved
  <2> QED
    BY <2>1, <2>2, <2>3, <2>7 DEF OthersUntouched, Untouched, Moved
<1>2. CASE ConfirmRun(a, t)
  <2>1. /\ UNCHANGED <<holds, queue, completion, artifacts, future, verdict, runs, scans, remote,
                       workspace, service, recovered, missed>>
        /\ OtherRows(t) /\ SameRest(t)
        /\ \A k \in MetaKeys \ {"naturalcc_terminal_confirmed"} :
              rows'[t].meta[k] = rows[t].meta[k]
        /\ Confirmed(t)' = Confirmed(t) \/ (RemoteEnded(t) /\ Confirmed(t)')
    BY <1>2, MergeCalls, KeysAndPatches
       DEF ConfirmRun, ConfirmsEnd, MergeMetadata, MetaSet, OtherRows, SameRest, CodeGenTypeOK,
           storeVars, worldVars
  <2>2. PICK to \in {"settling", After(a, t)} :
          /\ Goes(a, t, "confirming", to)
          /\ to = "settling" => RemoteEnded(t)
    BY <1>2, AfterPlaces DEF ConfirmRun, ConfirmsEnd, Actors
  <2>3. Moved(a, t, "confirming", "settling", to)
    <3>1. "settling" \in Places
      BY <1>0
    <3>2. Goes(a, t, "confirming", to)
      BY <2>2
    <3> QED
      BY <3>1, <3>2, ConvergeGoes
  <2>4. ASSUME a = "worker", WorkerAt(t) = "confirming", WorkerAt(t)' = to,
               HandlerAt(t)' = HandlerAt(t), RetryAt(t)' = RetryAt(t),
               to \in {"settling", IF rows[t].status = "RUNNING" THEN "leaving" ELSE "idle"}
        PROVE  TaskFits(t)'
    <3>1. FreshFits(t)' /\ StartupFits(t)'
      BY <2>1, <2>2, <2>3, KeysAndPatches, <2>4 DEF Moved, SameRest
    <3>2. RunFits(t)'
      BY <2>1, <2>2, <2>3, KeysAndPatches, <2>4 DEF Moved, SameRest
    <3>3. ClosedFits(t)'
      BY <2>1, <2>2, <2>3, KeysAndPatches, <2>4 DEF Moved, SameRest
    <3>4. ConvergeFits(t)'
      BY <2>1, <2>2, <2>3, KeysAndPatches, <2>4 DEF Moved, SameRest
    <3>5. WorkerFits(t)'
      BY <2>1, <2>2, <2>3, KeysAndPatches, <2>4 DEF Moved, SameRest
    <3> QED
      BY <3>1, <3>2, <3>3, <3>4, <3>5
  <2>5. ASSUME a = "handler", HandlerAt(t) = "confirming", HandlerAt(t)' = to,
               WorkerAt(t)' = WorkerAt(t), RetryAt(t)' = RetryAt(t),
               to \in {"settling", "idle"}
        PROVE  TaskFits(t)'
    <3>1. FreshFits(t)' /\ StartupFits(t)'
      BY <2>1, <2>2, <2>3, KeysAndPatches, <2>5 DEF Moved, SameRest
    <3>2. RunFits(t)'
      BY <2>1, <2>2, <2>3, KeysAndPatches, <2>5 DEF Moved, SameRest
    <3>3. ClosedFits(t)'
      BY <2>1, <2>2, <2>3, KeysAndPatches, <2>5 DEF Moved, SameRest
    <3>4. ConvergeFits(t)'
      BY <2>1, <2>2, <2>3, KeysAndPatches, <2>5 DEF Moved, SameRest
    <3>5. WorkerFits(t)'
      BY <2>1, <2>2, <2>3, KeysAndPatches, <2>5 DEF Moved, SameRest
    <3> QED
      BY <3>1, <3>2, <3>3, <3>4, <3>5
  <2>6. ASSUME a = "retry", RetryAt(t) = "confirming", RetryAt(t)' = to,
               WorkerAt(t)' = WorkerAt(t), HandlerAt(t)' = HandlerAt(t),
               to \in {"settling", "waiting"}
        PROVE  TaskFits(t)'
    <3>1. FreshFits(t)' /\ StartupFits(t)'
      BY <2>1, <2>2, <2>3, KeysAndPatches, <2>6 DEF Moved, SameRest
    <3>2. RunFits(t)'
      BY <2>1, <2>2, <2>3, KeysAndPatches, <2>6 DEF Moved, SameRest
    <3>3. ClosedFits(t)'
      BY <2>1, <2>2, <2>3, KeysAndPatches, <2>6 DEF Moved, SameRest
    <3>4. ConvergeFits(t)'
      BY <2>1, <2>2, <2>3, KeysAndPatches, <2>6 DEF Moved, SameRest
    <3>5. WorkerFits(t)'
      BY <2>1, <2>2, <2>3, KeysAndPatches, <2>6 DEF Moved, SameRest
    <3> QED
      BY <3>1, <3>2, <3>3, <3>4, <3>5
  <2>7. TaskFits(t)'
    BY <2>3, <2>4, <2>5, <2>6 DEF Moved
  <2> QED
    BY <2>1, <2>2, <2>3, <2>7 DEF OthersUntouched, Untouched, Moved, OtherRows
<1>3. CASE Settle(a, t)
  <2>1. /\ UNCHANGED <<rows, artifacts, future, verdict, runs, scans, remote, workspace,
                       service, recovered, missed>>
        /\ queue' = queue \cup {t} /\ holds' = holds \ {t}
        /\ completion'[t] = Set("cleanup_pending", FALSE)
        /\ \A u \in Tasks \ {t} : completion'[u] = completion[u]
    <3>1. /\ QueueCleanupAndReleaseHold(t, Set("cleanup_pending", FALSE))
          /\ UNCHANGED <<future, verdict, runs, scans, remote, workspace, service, recovered,
                         missed>>
      BY <1>3 DEF Settle, worldVars, serverVars
    <3>2. /\ UNCHANGED <<rows, artifacts>>
          /\ queue' = queue \cup {t} /\ holds' = holds \ {t}
          /\ completion'[t] = Set("cleanup_pending", FALSE)
          /\ \A u \in Tasks \ {t} : completion'[u] = completion[u]
      <4>1. TypeOK /\ "cleanup_pending" \in MetaKeys /\ FALSE \in BOOLEAN
        BY KeysAndPatches DEF CodeGenTypeOK
      <4> QED
        BY <1>6, <3>1, <4>1, SettleCall
    <3> QED
      BY <3>1, <3>2
  <2>2. PICK to \in {"deleting", After(a, t)} :
          /\ Goes(a, t, "settling", to)
          /\ to = "deleting"
    BY <1>3 DEF Settle
  <2>3. Moved(a, t, "settling", "deleting", to)
    <3>1. "deleting" \in Places
      BY <1>0
    <3>2. Goes(a, t, "settling", to)
      BY <2>2
    <3> QED
      BY <3>1, <3>2, ConvergeGoes
  <2>4. ASSUME a = "worker", WorkerAt(t) = "settling", WorkerAt(t)' = to,
               HandlerAt(t)' = HandlerAt(t), RetryAt(t)' = RetryAt(t),
               to \in {"deleting", IF rows[t].status = "RUNNING" THEN "leaving" ELSE "idle"}
        PROVE  TaskFits(t)'
    <3>1. FreshFits(t)' /\ StartupFits(t)'
      BY <2>1, <2>2, <2>3, KeysAndPatches, <2>4 DEF Moved
    <3>2. RunFits(t)'
      BY <2>1, <2>2, <2>3, KeysAndPatches, <2>4 DEF Moved
    <3>3. ClosedFits(t)'
      BY <2>1, <2>2, <2>3, KeysAndPatches, <2>4 DEF Moved
    <3>4. ConvergeFits(t)'
      BY <2>1, <2>2, <2>3, KeysAndPatches, <2>4 DEF Moved
    <3>5. WorkerFits(t)'
      BY <2>1, <2>2, <2>3, KeysAndPatches, <2>4 DEF Moved
    <3> QED
      BY <3>1, <3>2, <3>3, <3>4, <3>5
  <2>5. ASSUME a = "handler", HandlerAt(t) = "settling", HandlerAt(t)' = to,
               WorkerAt(t)' = WorkerAt(t), RetryAt(t)' = RetryAt(t),
               to \in {"deleting", "idle"}
        PROVE  TaskFits(t)'
    <3>1. FreshFits(t)' /\ StartupFits(t)'
      BY <2>1, <2>2, <2>3, KeysAndPatches, <2>5 DEF Moved
    <3>2. RunFits(t)'
      BY <2>1, <2>2, <2>3, KeysAndPatches, <2>5 DEF Moved
    <3>3. ClosedFits(t)'
      BY <2>1, <2>2, <2>3, KeysAndPatches, <2>5 DEF Moved
    <3>4. ConvergeFits(t)'
      BY <2>1, <2>2, <2>3, KeysAndPatches, <2>5 DEF Moved
    <3>5. WorkerFits(t)'
      BY <2>1, <2>2, <2>3, KeysAndPatches, <2>5 DEF Moved
    <3> QED
      BY <3>1, <3>2, <3>3, <3>4, <3>5
  <2>6. ASSUME a = "retry", RetryAt(t) = "settling", RetryAt(t)' = to,
               WorkerAt(t)' = WorkerAt(t), HandlerAt(t)' = HandlerAt(t),
               to \in {"deleting", "waiting"}
        PROVE  TaskFits(t)'
    <3>1. FreshFits(t)' /\ StartupFits(t)'
      BY <2>1, <2>2, <2>3, KeysAndPatches, <2>6 DEF Moved
    <3>2. RunFits(t)'
      BY <2>1, <2>2, <2>3, KeysAndPatches, <2>6 DEF Moved
    <3>3. ClosedFits(t)'
      BY <2>1, <2>2, <2>3, KeysAndPatches, <2>6 DEF Moved
    <3>4. ConvergeFits(t)'
      BY <2>1, <2>2, <2>3, KeysAndPatches, <2>6 DEF Moved
    <3>5. WorkerFits(t)'
      BY <2>1, <2>2, <2>3, KeysAndPatches, <2>6 DEF Moved
    <3> QED
      BY <3>1, <3>2, <3>3, <3>4, <3>5
  <2>7. TaskFits(t)'
    BY <2>3, <2>4, <2>5, <2>6 DEF Moved
  <2> QED
    BY <2>1, <2>2, <2>3, <2>7 DEF OthersUntouched, Untouched, Moved
<1>4. CASE DeleteWorkspace(a, t)
  <2>1. /\ UNCHANGED <<rows, holds, completion, artifacts, future, verdict, runs, scans, remote,
                       service, recovered, missed>>
        /\ queue' = queue \/ (t \notin holds /\ queue' = queue \cup {t})
    BY <1>4 DEF DeleteWorkspace, MarkCleanupPending, storeVars
  <2>2. PICK to \in {"completing", After(a, t)} :
          /\ Goes(a, t, "deleting", to)
          /\ to = "completing" => t \notin holds /\ workspace' = workspace \ {t}
          /\ to # "completing" => workspace' = workspace
    BY <1>4, AfterPlaces DEF DeleteWorkspace, Actors
  <2>3. Moved(a, t, "deleting", "completing", to)
    <3>1. "completing" \in Places
      BY <1>0
    <3>2. Goes(a, t, "deleting", to)
      BY <2>2
    <3> QED
      BY <3>1, <3>2, ConvergeGoes
  <2>4. ASSUME a = "worker", WorkerAt(t) = "deleting", WorkerAt(t)' = to,
               HandlerAt(t)' = HandlerAt(t), RetryAt(t)' = RetryAt(t),
               to \in {"completing", IF rows[t].status = "RUNNING" THEN "leaving" ELSE "idle"}
        PROVE  TaskFits(t)'
    <3>1. FreshFits(t)' /\ StartupFits(t)'
      BY <2>1, <2>2, <2>3, <2>4 DEF Moved
    <3>2. RunFits(t)'
      BY <2>1, <2>2, <2>3, <2>4 DEF Moved
    <3>3. ClosedFits(t)'
      BY <2>1, <2>2, <2>3, <2>4 DEF Moved
    <3>4. ConvergeFits(t)'
      BY <2>1, <2>2, <2>3, <2>4 DEF Moved
    <3>5. WorkerFits(t)'
      BY <2>1, <2>2, <2>3, <2>4 DEF Moved
    <3> QED
      BY <3>1, <3>2, <3>3, <3>4, <3>5
  <2>5. ASSUME a = "handler", HandlerAt(t) = "deleting", HandlerAt(t)' = to,
               WorkerAt(t)' = WorkerAt(t), RetryAt(t)' = RetryAt(t),
               to \in {"completing", "idle"}
        PROVE  TaskFits(t)'
    <3>1. FreshFits(t)' /\ StartupFits(t)'
      BY <2>1, <2>2, <2>3, <2>5 DEF Moved
    <3>2. RunFits(t)'
      BY <2>1, <2>2, <2>3, <2>5 DEF Moved
    <3>3. ClosedFits(t)'
      BY <2>1, <2>2, <2>3, <2>5 DEF Moved
    <3>4. ConvergeFits(t)'
      BY <2>1, <2>2, <2>3, <2>5 DEF Moved
    <3>5. WorkerFits(t)'
      BY <2>1, <2>2, <2>3, <2>5 DEF Moved
    <3> QED
      BY <3>1, <3>2, <3>3, <3>4, <3>5
  <2>6. ASSUME a = "retry", RetryAt(t) = "deleting", RetryAt(t)' = to,
               WorkerAt(t)' = WorkerAt(t), HandlerAt(t)' = HandlerAt(t),
               to \in {"completing", "waiting"}
        PROVE  TaskFits(t)'
    <3>1. FreshFits(t)' /\ StartupFits(t)'
      BY <2>1, <2>2, <2>3, <2>6 DEF Moved
    <3>2. RunFits(t)'
      BY <2>1, <2>2, <2>3, <2>6 DEF Moved
    <3>3. ClosedFits(t)'
      BY <2>1, <2>2, <2>3, <2>6 DEF Moved
    <3>4. ConvergeFits(t)'
      BY <2>1, <2>2, <2>3, <2>6 DEF Moved
    <3>5. WorkerFits(t)'
      BY <2>1, <2>2, <2>3, <2>6 DEF Moved
    <3> QED
      BY <3>1, <3>2, <3>3, <3>4, <3>5
  <2>7. TaskFits(t)'
    BY <2>3, <2>4, <2>5, <2>6 DEF Moved
  <2> QED
    BY <2>1, <2>2, <2>3, <2>7 DEF OthersUntouched, Untouched, Moved
<1>5. CASE CompleteWorkspace(a, t)
  <2>1. /\ UNCHANGED <<holds, artifacts, future, verdict, runs, scans, remote, workspace,
                       service, recovered, missed>>
        /\ OtherRows(t) /\ SameRest(t)
        /\ \/ /\ MetaSet(t, "cleanup_pending", FALSE)
              /\ completion[t] = Set("cleanup_pending", FALSE)
           \/ \A k \in MetaKeys : rows'[t].meta[k] = rows[t].meta[k]
        /\ queue' = queue \ {t}
        /\ completion'[t] \in {EmptyPatch, completion[t]}
        /\ \A u \in Tasks \ {t} : completion'[u] = completion[u]
    <3>1. CASE CompleteCleanup(t)
      <4>1. TypeOK /\ "cleanup_pending" \in MetaKeys /\ FALSE \in BOOLEAN
        BY KeysAndPatches DEF CodeGenTypeOK
      <4>2. /\ OtherRows(t) /\ SameRest(t)
            /\ \/ /\ MetaSet(t, "cleanup_pending", FALSE)
                  /\ completion[t] = Set("cleanup_pending", FALSE)
               \/ \A k \in MetaKeys : rows'[t].meta[k] = rows[t].meta[k]
        BY <1>6, <3>1, <4>1, CompletionCall
      <4>3. /\ queue' = queue \ {t} /\ UNCHANGED <<holds, artifacts>>
            /\ completion'[t] = EmptyPatch
            /\ \A u \in Tasks \ {t} : completion'[u] = completion[u]
        BY <3>1, <4>1 DEF CompleteCleanup, TypeOK
      <4> QED
        BY <1>5, <4>2, <4>3 DEF CompleteWorkspace, worldVars, serverVars
    <3>2. CASE t \notin queue /\ UNCHANGED storeVars
      BY <1>5, <3>2 DEF CompleteWorkspace, OtherRows, SameRest, storeVars, worldVars, serverVars
    <3> QED
      BY <1>5, <3>1, <3>2 DEF CompleteWorkspace
  <2>2. PICK to \in {"completing", After(a, t)} :
          /\ Goes(a, t, "completing", to)
          /\ to = After(a, t)
    BY <1>5 DEF CompleteWorkspace
  <2>3. Moved(a, t, "completing", "completing", to)
    <3>1. "completing" \in Places
      BY <1>0
    <3>2. Goes(a, t, "completing", to)
      BY <2>2
    <3> QED
      BY <3>1, <3>2, ConvergeGoes
  <2>4. ASSUME a = "worker", WorkerAt(t) = "completing", WorkerAt(t)' = to,
               HandlerAt(t)' = HandlerAt(t), RetryAt(t)' = RetryAt(t),
               to \in {"completing", IF rows[t].status = "RUNNING" THEN "leaving" ELSE "idle"}
        PROVE  TaskFits(t)'
    <3>1. FreshFits(t)' /\ StartupFits(t)'
      BY <2>1, <2>2, <2>3, KeysAndPatches, <2>4 DEF Moved, SameRest, MetaSet
    <3>2. RunFits(t)'
      BY <2>1, <2>2, <2>3, KeysAndPatches, <2>4 DEF Moved, SameRest, MetaSet
    <3>3. ClosedFits(t)'
      BY <2>1, <2>2, <2>3, KeysAndPatches, <2>4 DEF Moved, SameRest, MetaSet
    <3>4. ConvergeFits(t)'
      BY <2>1, <2>2, <2>3, KeysAndPatches, <2>4 DEF Moved, SameRest, MetaSet
    <3>5. WorkerFits(t)'
      BY <2>1, <2>2, <2>3, KeysAndPatches, <2>4 DEF Moved, SameRest, MetaSet
    <3> QED
      BY <3>1, <3>2, <3>3, <3>4, <3>5
  <2>5. ASSUME a = "handler", HandlerAt(t) = "completing", HandlerAt(t)' = to,
               WorkerAt(t)' = WorkerAt(t), RetryAt(t)' = RetryAt(t),
               to \in {"completing", "idle"}
        PROVE  TaskFits(t)'
    <3>1. FreshFits(t)' /\ StartupFits(t)'
      BY <2>1, <2>2, <2>3, KeysAndPatches, <2>5 DEF Moved, SameRest, MetaSet
    <3>2. RunFits(t)'
      BY <2>1, <2>2, <2>3, KeysAndPatches, <2>5 DEF Moved, SameRest, MetaSet
    <3>3. ClosedFits(t)'
      BY <2>1, <2>2, <2>3, KeysAndPatches, <2>5 DEF Moved, SameRest, MetaSet
    <3>4. ConvergeFits(t)'
      BY <2>1, <2>2, <2>3, KeysAndPatches, <2>5 DEF Moved, SameRest, MetaSet
    <3>5. WorkerFits(t)'
      BY <2>1, <2>2, <2>3, KeysAndPatches, <2>5 DEF Moved, SameRest, MetaSet
    <3> QED
      BY <3>1, <3>2, <3>3, <3>4, <3>5
  <2>6. ASSUME a = "retry", RetryAt(t) = "completing", RetryAt(t)' = to,
               WorkerAt(t)' = WorkerAt(t), HandlerAt(t)' = HandlerAt(t),
               to \in {"completing", "waiting"}
        PROVE  TaskFits(t)'
    <3>1. FreshFits(t)' /\ StartupFits(t)'
      BY <2>1, <2>2, <2>3, KeysAndPatches, <2>6 DEF Moved, SameRest, MetaSet
    <3>2. RunFits(t)'
      BY <2>1, <2>2, <2>3, KeysAndPatches, <2>6 DEF Moved, SameRest, MetaSet
    <3>3. ClosedFits(t)'
      BY <2>1, <2>2, <2>3, KeysAndPatches, <2>6 DEF Moved, SameRest, MetaSet
    <3>4. ConvergeFits(t)'
      BY <2>1, <2>2, <2>3, KeysAndPatches, <2>6 DEF Moved, SameRest, MetaSet
    <3>5. WorkerFits(t)'
      BY <2>1, <2>2, <2>3, KeysAndPatches, <2>6 DEF Moved, SameRest, MetaSet
    <3> QED
      BY <3>1, <3>2, <3>3, <3>4, <3>5
  <2>7. TaskFits(t)'
    BY <2>3, <2>4, <2>5, <2>6 DEF Moved
  <2> QED
    BY <2>1, <2>2, <2>3, <2>7 DEF OthersUntouched, Untouched, Moved, OtherRows
<1> QED
  BY <1>1, <1>2, <1>3, <1>4, <1>5 DEF Converge

-----------------------------------------------------------------------------
(***************************************************************************)
(* The requests of a client, NaturalCC, the retry and the startup's visit. *)
(***************************************************************************)
LEMMA RequestFits ==
    ASSUME CodeGenTypeOK, CancelWins, NEW t \in Tasks, TaskFits(t),
           CreateTask(t) \/ CancelTask(t) \/ HandleCancel(t)
    PROVE  TaskFits(t)' /\ OthersUntouched(t)
<1>0. "handler" \in Actors /\ {"finding", "idle", "cancelling"} \subseteq Places
  BY DEF Actors, Places
<1>1. CASE CreateTask(t)
  <2>1. /\ UNCHANGED <<holds, queue, completion, artifacts, at, verdict, runs, scans, remote,
                       workspace, service, recovered, missed>>
        /\ future'[t] = "queued" /\ \A u \in Tasks \ {t} : future'[u] = future[u]
        /\ service = "up" /\ rows[t].status = "ABSENT"
    BY <1>1 DEF CreateTask, Save, CodeGenTypeOK, worldVars, serverVars
  <2>2. /\ OtherRows(t)
        /\ rows'[t].status = "PENDING" /\ rows'[t].cancel = FALSE
        /\ \A k \in MetaKeys : rows'[t].meta[k] = FALSE
    BY <1>1, StatusCalls DEF CreateTask, CodeGenTypeOK
  <2>3. TaskFits(t)'
    <3>1. FreshFits(t)' /\ StartupFits(t)'
      BY <2>1, <2>2, KeysAndPatches DEF WorkerAt, HandlerAt, RetryAt
    <3>2. RunFits(t)'
      BY <2>1, <2>2, KeysAndPatches DEF WorkerAt, HandlerAt, RetryAt
    <3>3. ClosedFits(t)'
      BY <2>1, <2>2, KeysAndPatches DEF WorkerAt, HandlerAt, RetryAt
    <3>4. ConvergeFits(t)'
      BY <2>1, <2>2, KeysAndPatches DEF WorkerAt, HandlerAt, RetryAt
    <3>5. WorkerFits(t)'
      BY <2>1, <2>2, KeysAndPatches DEF WorkerAt, HandlerAt, RetryAt
    <3> QED
      BY <3>1, <3>2, <3>3, <3>4, <3>5
  <2> QED
    BY <2>1, <2>2, <2>3 DEF OthersUntouched, Untouched, OtherRows
<1>2. CASE CancelTask(t)
  <2>1. /\ UNCHANGED <<holds, queue, completion, artifacts, future, verdict, runs, scans, remote,
                       workspace, service, recovered, missed>>
        /\ service = "up"
    BY <1>2 DEF CancelTask, RequestCancel, storeVars, worldVars, serverVars
  <2>2. /\ OtherRows(t) /\ rows'[t].meta = rows[t].meta /\ rows'[t].cancel
        /\ \/ rows[t].status = "PENDING" /\ rows'[t].status = "CANCELLED"
           \/ /\ rows[t].status # "PENDING" /\ rows'[t].status = rows[t].status
              /\ rows[t].status \in Active \/ rows[t].cancel
           \/ rows'[t].status = rows[t].status /\ rows[t].cancel
    <3>1. CASE RequestCancel(t)
      BY <3>1, StatusCalls DEF CodeGenTypeOK
    <3>2. CASE rows[t].cancel /\ UNCHANGED storeVars
      BY <3>2 DEF storeVars, OtherRows
    <3> QED
      BY <1>2, <3>1, <3>2 DEF CancelTask
  <2>3. rows'[t].status # "SUCCEEDED"
    BY <2>2 DEF CancelWins
  <2>4. /\ HandlerAt(t) = "idle" /\ HandlerAt(t)' = "finding"
        /\ WorkerAt(t)' = WorkerAt(t) /\ RetryAt(t)' = RetryAt(t)
        /\ \A u \in Tasks \ {t} : \A b \in Actors : at'[b][u] = at[b][u]
    BY <1>0, <1>2, ActorGoes DEF CancelTask
  <2>5. Exists(t)
    BY <2>2
  <2>6. TaskFits(t)'
    <3>1. FreshFits(t)' /\ StartupFits(t)'
      BY <2>1, <2>2, <2>3, <2>4, <2>5, KeysAndPatches
    <3>2. RunFits(t)'
      BY <2>1, <2>2, <2>3, <2>4, <2>5, KeysAndPatches
    <3>3. ClosedFits(t)'
      BY <2>1, <2>2, <2>3, <2>4, <2>5, KeysAndPatches
    <3>4. ConvergeFits(t)'
      BY <2>1, <2>2, <2>3, <2>4, <2>5, KeysAndPatches
    <3>5. WorkerFits(t)'
      BY <2>1, <2>2, <2>3, <2>4, <2>5, KeysAndPatches
    <3> QED
      BY <3>1, <3>2, <3>3, <3>4, <3>5
  <2> QED
    BY <2>1, <2>2, <2>4, <2>6 DEF OthersUntouched, Untouched, OtherRows
<1>3. CASE HandleCancel(t)
  <2>1. /\ UNCHANGED <<rows, holds, queue, completion, artifacts, verdict, runs, scans, remote,
                       workspace, service, recovered, missed>>
        /\ future'[t] \in {future[t], "dropped"}
        /\ \A u \in Tasks \ {t} : future'[u] = future[u]
    BY <1>3 DEF HandleCancel, CodeGenTypeOK, storeVars, worldVars, serverVars
  <2>2. PICK to \in {"idle", "cancelling"} :
          /\ Goes("handler", t, "finding", to)
          /\ to = "cancelling" => t \notin scans
    BY <1>3 DEF HandleCancel, InScan
  <2>3. /\ HandlerAt(t) = "finding" /\ HandlerAt(t)' = to
        /\ WorkerAt(t)' = WorkerAt(t) /\ RetryAt(t)' = RetryAt(t)
        /\ \A u \in Tasks \ {t} : \A b \in Actors : at'[b][u] = at[b][u]
        /\ service # "down"
    BY <1>0, <2>2, ActorGoes
  <2>4. TaskFits(t)'
    <3>1. FreshFits(t)' /\ StartupFits(t)'
      BY <2>1, <2>2, <2>3
    <3>2. RunFits(t)'
      BY <2>1, <2>2, <2>3
    <3>3. ClosedFits(t)'
      BY <2>1, <2>2, <2>3
    <3>4. ConvergeFits(t)'
      BY <2>1, <2>2, <2>3
    <3>5. WorkerFits(t)'
      BY <2>1, <2>2, <2>3
    <3> QED
      BY <3>1, <3>2, <3>3, <3>4, <3>5
  <2> QED
    BY <2>1, <2>3, <2>4 DEF OthersUntouched, Untouched
<1> QED
  BY <1>1, <1>2, <1>3

LEMMA RemoteEndsFits ==
    ASSUME CodeGenTypeOK, NEW t \in Tasks, TaskFits(t), RemoteEnds(t)
    PROVE  TaskFits(t)' /\ OthersUntouched(t)
<1>1. /\ UNCHANGED <<rows, holds, queue, completion, artifacts, at, future, verdict, runs, scans,
                     workspace, service, recovered, missed>>
      /\ remote[t] = "active" /\ remote'[t] \in {"completed", "stopped"}
      /\ \A u \in Tasks \ {t} : remote'[u] = remote[u]
  BY DEF RemoteEnds, CodeGenTypeOK, storeVars, memoryVars, serverVars
<1>2. TaskFits(t)'
  <2>1. FreshFits(t)' /\ StartupFits(t)'
    BY <1>1 DEF WorkerAt, HandlerAt, RetryAt
  <2>2. RunFits(t)'
    BY <1>1 DEF WorkerAt, HandlerAt, RetryAt
  <2>3. ClosedFits(t)'
    BY <1>1 DEF WorkerAt, HandlerAt, RetryAt
  <2>4. ConvergeFits(t)'
    BY <1>1 DEF WorkerAt, HandlerAt, RetryAt
  <2>5. WorkerFits(t)'
    BY <1>1 DEF WorkerAt, HandlerAt, RetryAt
  <2> QED
    BY <2>1, <2>2, <2>3, <2>4, <2>5
<1> QED
  BY <1>1, <1>2 DEF OthersUntouched, Untouched

LEMMA TryRecoverFits ==
    ASSUME CodeGenTypeOK, NEW t \in Tasks, TaskFits(t), TryRecover(t)
    PROVE  TaskFits(t)' /\ OthersUntouched(t)
<1>0. "retry" \in Actors /\ {"waiting", "idle", "cancelling", "settling"} \subseteq Places
  BY DEF Actors, Places
<1>1. UNCHANGED <<queue, completion, artifacts, future, verdict, runs, scans, remote,
                  workspace, service, recovered, missed>>
  BY DEF TryRecover, ReleaseWorkspaces, storeVars, worldVars
<1>2. PICK to \in {"waiting", "idle", "cancelling", "settling"} :
        /\ Goes("retry", t, "waiting", to)
        /\ to \in {"cancelling", "settling"} =>
             rows[t].status \in Terminal /\ (Confirmed(t) => rows[t].status # "SUCCEEDED")
        /\ to = "settling" => Confirmed(t)
  BY DEF TryRecover
<1>3. \/ UNCHANGED <<rows, holds>>
      \/ /\ rows[t].status = "SUCCEEDED" /\ holds' = holds \ {t}
         /\ OtherRows(t) /\ SameRest(t) /\ MetaSet(t, "cleanup_pending", FALSE)
  <2>1. TypeOK /\ "cleanup_pending" \in MetaKeys /\ FALSE \in BOOLEAN
    BY KeysAndPatches DEF CodeGenTypeOK
  <2>2. CASE UNCHANGED storeVars
    BY <2>2 DEF storeVars
  <2>3. CASE rows[t].status = "SUCCEEDED" /\ ReleaseWorkspaces(t, Set("cleanup_pending", FALSE))
    BY <2>1, <2>3, MergeCalls DEF ReleaseWorkspaces
  <2> QED
    BY <2>2, <2>3 DEF TryRecover
<1>4. /\ RetryAt(t) = "waiting" /\ RetryAt(t)' = to
      /\ WorkerAt(t)' = WorkerAt(t) /\ HandlerAt(t)' = HandlerAt(t)
      /\ \A u \in Tasks \ {t} : \A b \in Actors : at'[b][u] = at[b][u]
      /\ service # "down"
  BY <1>0, <1>2, ActorGoes
<1>5. CASE UNCHANGED <<rows, holds>>
  <2>1. TaskFits(t)'
    <3>1. FreshFits(t)' /\ StartupFits(t)'
      BY <1>1, <1>2, <1>4, <1>5
    <3>2. RunFits(t)'
      BY <1>1, <1>2, <1>4, <1>5
    <3>3. ClosedFits(t)'
      BY <1>1, <1>2, <1>4, <1>5
    <3>4. ConvergeFits(t)'
      BY <1>1, <1>2, <1>4, <1>5
    <3>5. WorkerFits(t)'
      BY <1>1, <1>2, <1>4, <1>5
    <3> QED
      BY <3>1, <3>2, <3>3, <3>4, <3>5
  <2> QED
    BY <1>1, <1>4, <1>5, <2>1 DEF OthersUntouched, Untouched
<1>6. CASE /\ rows[t].status = "SUCCEEDED" /\ holds' = holds \ {t}
           /\ OtherRows(t) /\ SameRest(t) /\ MetaSet(t, "cleanup_pending", FALSE)
  <2>1. TaskFits(t)'
    <3>1. FreshFits(t)' /\ StartupFits(t)'
      BY <1>1, <1>2, <1>4, <1>6, KeysAndPatches DEF SameRest, MetaSet
    <3>2. RunFits(t)'
      BY <1>1, <1>2, <1>4, <1>6, KeysAndPatches DEF SameRest, MetaSet
    <3>3. ClosedFits(t)'
      BY <1>1, <1>2, <1>4, <1>6, KeysAndPatches DEF SameRest, MetaSet
    <3>4. ConvergeFits(t)'
      BY <1>1, <1>2, <1>4, <1>6, KeysAndPatches DEF SameRest, MetaSet
    <3>5. WorkerFits(t)'
      BY <1>1, <1>2, <1>4, <1>6, KeysAndPatches DEF SameRest, MetaSet
    <3> QED
      BY <3>1, <3>2, <3>3, <3>4, <3>5
  <2> QED
    BY <1>1, <1>4, <1>6, <2>1 DEF OthersUntouched, Untouched, OtherRows
<1> QED
  BY <1>3, <1>5, <1>6

LEMMA VisitFits ==
    ASSUME CodeGenTypeOK, NEW t \in Tasks, TaskFits(t), VisitRecovered(t)
    PROVE  TaskFits(t)' /\ OthersUntouched(t)
<1>1. /\ UNCHANGED <<rows, holds, queue, completion, artifacts, at, future, verdict, runs, scans,
                     remote, service>>
      /\ service = "visit" /\ t \in recovered /\ recovered' = recovered \ {t}
      /\ \/ /\ t \notin holds /\ workspace' = workspace \ {t} /\ missed' = missed
         \/ /\ t \in holds /\ workspace' = workspace /\ missed' = missed
         \/ /\ workspace' = workspace /\ missed' = missed \cup {t}
  BY DEF VisitRecovered, storeVars, memoryVars
<1>2. TaskFits(t)'
  <2>1. FreshFits(t)' /\ StartupFits(t)'
    BY <1>1 DEF WorkerAt, HandlerAt, RetryAt
  <2>2. RunFits(t)'
    BY <1>1 DEF WorkerAt, HandlerAt, RetryAt
  <2>3. ClosedFits(t)'
    BY <1>1 DEF WorkerAt, HandlerAt, RetryAt
  <2>4. ConvergeFits(t)'
    BY <1>1 DEF WorkerAt, HandlerAt, RetryAt
  <2>5. WorkerFits(t)'
    BY <1>1 DEF WorkerAt, HandlerAt, RetryAt
  <2> QED
    BY <2>1, <2>2, <2>3, <2>4, <2>5
<1> QED
  BY <1>1, <1>2 DEF OthersUntouched, Untouched

-----------------------------------------------------------------------------
(***************************************************************************)
(* A crash and the startup, of all tasks at once.                          *)
(***************************************************************************)
LEMMA CrashFits ==
    ASSUME CodeGenTypeOK, NEW t \in Tasks, TaskFits(t), Crash
    PROVE  TaskFits(t)'
<1>1. /\ UNCHANGED <<rows, holds, queue, completion, artifacts, remote, workspace>>
      /\ service' = "down" /\ recovered' = {} /\ missed' = missed \cup recovered
      /\ runs' = {} /\ future'[t] = "none" /\ verdict'[t].status = "FAILED"
      /\ WorkerAt(t)' = "idle" /\ HandlerAt(t)' = "idle" /\ RetryAt(t)' = "idle"
  BY DEF Crash, Failed, WorkerAt, HandlerAt, RetryAt, Actors, storeVars, worldVars
<1>2. FreshFits(t)' /\ StartupFits(t)'
  BY <1>1
<1>3. RunFits(t)'
  BY <1>1
<1>4. ClosedFits(t)'
  BY <1>1
<1>5. ConvergeFits(t)'
  BY <1>1
<1>6. WorkerFits(t)'
  BY <1>1
<1> QED
  BY <1>2, <1>3, <1>4, <1>5, <1>6

LEMMA RestartFits ==
    ASSUME CodeGenTypeOK, NEW t \in Tasks, TaskFits(t), Restart
    PROVE  TaskFits(t)'
<1>1. /\ UNCHANGED <<holds, queue, completion, artifacts, future, verdict, runs, scans, remote,
                     workspace, missed>>
      /\ service = "down" /\ service' = "queue"
      /\ t \in recovered' <=> rows[t].status \in Active
      /\ WorkerAt(t)' = WorkerAt(t) /\ HandlerAt(t)' = HandlerAt(t)
      /\ RetryAt(t)' = IF t \in queue THEN "deleting" ELSE "idle"
  BY DEF Restart, RecoverInterrupted, CodeGenTypeOK, WorkerAt, HandlerAt, RetryAt, Actors, worldVars
<1>2. /\ rows'[t].meta = rows[t].meta /\ rows'[t].cancel = rows[t].cancel
      /\ \/ rows[t].status \in Active /\ rows'[t].status \in {"FAILED", "CANCELLED"}
         \/ rows[t].status \notin Active /\ rows'[t].status = rows[t].status
  <2>1. rows[t] \in Row /\ rows'[t] = Recovered(rows[t])
    BY DEF Restart, RecoverInterrupted, CodeGenTypeOK, TypeOK
  <2> QED
    BY <2>1 DEF Recovered, Row
<1>3. /\ WorkerAt(t) = "idle" /\ HandlerAt(t) = "idle" /\ future[t] # "queued"
      /\ rows[t] \in Row
  BY <1>1 DEF CodeGenTypeOK, TypeOK
<1>4. FreshFits(t)' /\ StartupFits(t)'
  BY <1>1, <1>2, <1>3
<1>5. RunFits(t)'
  BY <1>1, <1>2, <1>3
<1>6. ClosedFits(t)'
  BY <1>1, <1>2, <1>3
<1>7. ConvergeFits(t)'
  <2>1. t \in queue => rows'[t].status \in {"FAILED", "CANCELLED"}
    BY <1>2, <1>3 DEF Row, Status
  <2>2. HandlerAt(t)' = "idle" /\ WorkerAt(t)' = "idle" /\ future'[t] # "queued"
    BY <1>1, <1>3
  <2>3. "completing" \notin PlacesOf(t)' /\ "settling" \notin PlacesOf(t)'
    BY <1>1, <2>2
  <2> QED
    BY <1>1, <2>1, <2>2, <2>3
<1>8. WorkerFits(t)'
  BY <1>1, <1>2, <1>3
<1> QED
  BY <1>4, <1>5, <1>6, <1>7, <1>8

LEMMA StartupStepFits ==
    ASSUME CodeGenTypeOK, NEW t \in Tasks, TaskFits(t), BeginVisit \/ BeginConverge \/ Serve
    PROVE  TaskFits(t)'
<1>1. /\ UNCHANGED <<rows, holds, queue, completion, artifacts, future, verdict, runs, scans,
                     remote, workspace, recovered, missed>>
      /\ WorkerAt(t)' = WorkerAt(t) /\ HandlerAt(t)' = HandlerAt(t)
      /\ \/ service = "queue" /\ service' = "visit" /\ RetryAt(t)' = RetryAt(t)
         \/ /\ service = "visit" /\ service' = "converge" /\ recovered = {}
            /\ RetryAt(t)' = IF Pending(t) THEN "waiting" ELSE "idle"
         \/ /\ service = "converge" /\ service' = "up"
            /\ RetryAt(t)' = "idle" \/ (RetryAt(t) = "waiting" /\ RetryAt(t)' = "waiting")
  <2>1. CASE BeginVisit
    BY <2>1 DEF BeginVisit, WorkerAt, HandlerAt, RetryAt, storeVars, memoryVars, worldVars
  <2>2. CASE BeginConverge
    BY <2>2 DEF BeginConverge, CodeGenTypeOK, WorkerAt, HandlerAt, RetryAt, Actors,
                storeVars, worldVars
  <2>3. CASE Serve
    BY <2>3 DEF Serve, CodeGenTypeOK, WorkerAt, HandlerAt, RetryAt, Actors, storeVars, worldVars
  <2> QED
    BY <2>1, <2>2, <2>3
<1>2. service # "up" /\ WorkerAt(t) = "idle" /\ HandlerAt(t) = "idle" /\ future[t] # "queued"
  BY <1>1
<1>3. FreshFits(t)' /\ StartupFits(t)'
  BY <1>1, <1>2
<1>4. RunFits(t)'
  BY <1>1, <1>2
<1>5. ClosedFits(t)'
  BY <1>1, <1>2
<1>6. ConvergeFits(t)'
  BY <1>1, <1>2
<1>7. WorkerFits(t)'
  BY <1>1, <1>2
<1> QED
  BY <1>3, <1>4, <1>5, <1>6, <1>7

-----------------------------------------------------------------------------
(***************************************************************************)
(* The invariant.                                                          *)
(***************************************************************************)
HIDE DEF TaskFits, FreshFits, RunFits, ConvergeFits, WorkerFits, ClosedFits, StartupFits,
         Exists, Pending, Confirmed, RunKnown, RemoteEnded, WillSucceed, PlacesOf,
         BeforeHold, BeforeRun, WithRun, PastRequest, Converging, Terminal, Active

LEMMA InitiallyFit == CodeGenInit => ServiceInv
<1> SUFFICES ASSUME CodeGenInit PROVE ServiceInv
  OBVIOUS
<1>1. TypeOK
  BY FullProgressAssumption, EmptyPatchType
     DEF CodeGenInit, StoreInit, TypeOK, AbsentRow, Row, Status, Errors, Progress, Metadata
<1>2. CodeGenTypeOK
  <2>1. /\ at \in [Actors -> [Tasks -> Places]] /\ verdict \in [Tasks -> Outcome]
        /\ tries \in [Tasks -> 0..MaxTries + 1] /\ crashes \in 0..MaxCrashes
    BY OutcomesType, CodeGenerationAssumption DEF CodeGenInit, Places
  <2> QED
    BY <1>1, <2>1 DEF CodeGenInit, CodeGenTypeOK
<1>3. ASSUME NEW t \in Tasks PROVE TaskFits(t)
  <2>1. /\ rows[t].status = "ABSENT" /\ ~rows[t].cancel
        /\ \A k \in MetaKeys : rows[t].meta[k] = FALSE
        /\ WorkerAt(t) = "idle" /\ HandlerAt(t) = "idle" /\ RetryAt(t) = "idle"
        /\ remote[t] = "none" /\ verdict[t].status = "FAILED" /\ future[t] = "none"
        /\ holds = {} /\ queue = {} /\ completion[t] = EmptyPatch /\ runs = {} /\ workspace = {}
        /\ recovered = {} /\ service = "up"
    BY DEF CodeGenInit, StoreInit, AbsentRow, Failed, WorkerAt, HandlerAt, RetryAt, Actors
  <2> QED
    BY <2>1, KeysAndPatches
       DEF TaskFits, FreshFits, RunFits, ConvergeFits, WorkerFits, ClosedFits, StartupFits,
           Exists, Pending, Confirmed, RunKnown, RemoteEnded, WillSucceed, PlacesOf,
           BeforeHold, BeforeRun, WithRun, PastRequest, Converging, Terminal, Active
<1> QED
  BY <1>2, <1>3 DEF ServiceInv

\* Each step is of one task, and leaves the others as they are, or of all.
LEMMA ServiceInvKept ==
    ASSUME ServiceInv, StoreInv, [CodeGenNext]_vars
    PROVE  ServiceInv'
<1>1. CodeGenTypeOK /\ VerdictOK /\ CancelWins /\ TypeOK'
  <2>1. CodeGenTypeOK /\ VerdictOK /\ CancelWins
    BY DEF ServiceInv, CodeGenTypeOK, VerdictOK, StoreInv, CancelWins, RowGood
  <2> QED
    BY <2>1, StepUsesTheStore, StoreInvKept DEF StoreInv
<1>2. CodeGenTypeOK'
  BY <1>1, TypesKept
<1>3. \A t \in Tasks : TaskFits(t)
  BY DEF ServiceInv
<1>4. ASSUME NEW t \in Tasks, TaskFits(t)' /\ OthersUntouched(t)
      PROVE  \A u \in Tasks : TaskFits(u)'
  BY <1>3, <1>4, UntouchedFits DEF OthersUntouched
<1>5. CASE UNCHANGED vars
  <2>1. \A u \in Tasks : Untouched(u)
    BY <1>5 DEF vars, storeVars, memoryVars, worldVars, serverVars, Untouched
  <2>2. \A u \in Tasks : TaskFits(u)'
    BY <1>3, <2>1, UntouchedFits
  <2> QED
    BY <1>2, <2>2 DEF ServiceInv
<1>6. ASSUME NEW t \in Tasks, Worker(t) PROVE \A u \in Tasks : TaskFits(u)'
  <2>1. TaskFits(t)' /\ OthersUntouched(t)
    BY <1>1, <1>3, <1>6, BeginningFits, RunningFits, ScanningFits, EndingFits DEF Worker
  <2> QED
    BY <1>4, <2>1
<1>7. ASSUME NEW t \in Tasks, NEW a \in Actors, Converge(a, t)
      PROVE  \A u \in Tasks : TaskFits(u)'
  <2>1. TaskFits(t)' /\ OthersUntouched(t)
    BY <1>1, <1>3, <1>7, ConvergeFitsOn
  <2> QED
    BY <1>4, <2>1
<1>8. ASSUME NEW t \in Tasks,
             \/ RemoteEnds(t) \/ CreateTask(t) \/ CancelTask(t) \/ HandleCancel(t)
             \/ TryRecover(t) \/ VisitRecovered(t)
      PROVE  \A u \in Tasks : TaskFits(u)'
  <2>1. TaskFits(t)' /\ OthersUntouched(t)
    BY <1>1, <1>3, <1>8, RemoteEndsFits, RequestFits, TryRecoverFits, VisitFits
  <2> QED
    BY <1>4, <2>1
<1>9. ASSUME Crash \/ Restart \/ BeginVisit \/ BeginConverge \/ Serve
      PROVE  \A u \in Tasks : TaskFits(u)'
  BY <1>1, <1>3, <1>9, CrashFits, RestartFits, StartupStepFits
<1>10. CASE CodeGenNext
  <2>1. \A u \in Tasks : TaskFits(u)'
    BY <1>6, <1>7, <1>8, <1>9, <1>10 DEF CodeGenNext
  <2> QED
    BY <1>2, <2>1 DEF ServiceInv
<1> QED
  BY <1>5, <1>10

LEMMA ServiceInvHolds == CodeGenSpec => [](ServiceInv /\ StoreInv)
<1>1. CodeGenSpec => []StoreInv
  BY GenerationUsesTheStore, StoreInvHolds, PTL
<1> QED
  BY <1>1, InitiallyFit, ServiceInvKept, PTL DEF CodeGenSpec

-----------------------------------------------------------------------------
(***************************************************************************)
(* The theorems.                                                           *)
(***************************************************************************)
\* No directory is deleted under a run that may still write to it, whichever of
\* worker, handler, retry and startup gets to it first: a live run is held, and
\* what is held is there.
THEOREM RunsKeepTheirFiles == CodeGenSpec => []RunKeepsItsFiles
<1>1. ServiceInv => RunKeepsItsFiles
  BY DEF ServiceInv, TaskFits, RunFits, RunKeepsItsFiles
<1> QED
  BY <1>1, ServiceInvHolds, PTL

\* The types, and that neither a client who was offered files nor a scan ever
\* finds them gone.
THEOREM GenerationIsSafe == CodeGenSpec => []CodeGenInv
<1>1. ServiceInv /\ StoreInv => CodeGenInv
  <2> SUFFICES ASSUME ServiceInv, StoreInv PROVE CodeGenInv
    OBVIOUS
  <2>1. OfferedFilesExist
    BY DEF ServiceInv, TaskFits, ClosedFits, StoreInv, TypeOK, ArtifactsOnlyOfSucceeded,
           OfferedFilesExist
  <2>2. ScanKeepsItsFiles
    BY DEF ServiceInv, TaskFits, RunFits, WorkerFits, ScanKeepsItsFiles, WorkerAt
  <2> QED
    BY <2>1, <2>2 DEF ServiceInv, CodeGenInv
<1> QED
  BY <1>1, ServiceInvHolds, PTL

\* What is left of a closed task is what the store says is left: a closed task
\* that is not pending has no live run and no leftovers, and a directory that is
\* left is held, queued, or was missed by a startup.
THEOREM LeftoversAreKnown == CodeGenSpec => []LeftoversAccounted
<1>1. ServiceInv => LeftoversAccounted
  <2> SUFFICES ASSUME ServiceInv PROVE LeftoversAccounted
    OBVIOUS
  <2>1. PendingUntilConverged
    BY DEF ServiceInv, TaskFits, RunFits, PendingUntilConverged, Terminal
  <2>2. ASSUME NEW t \in workspace \ artifacts
        PROVE  \/ service # "up"
               \/ rows[t].status \in Active
               \/ t \in holds \cup queue \cup missed
    <3>1. t \in Tasks /\ TaskFits(t) /\ rows[t] \in Row
      BY DEF ServiceInv, CodeGenTypeOK, TypeOK
    <3> QED
      BY <2>2, <3>1 DEF TaskFits, FreshFits, ClosedFits, StartupFits, Row, Status, Active, Terminal
  <2> QED
    BY <2>1, <2>2 DEF LeftoversAccounted, LeftoversKnown
<1> QED
  BY <1>1, ServiceInvHolds, PTL
================================================================================
