-------------------------- MODULE VulnerabilityScan --------------------------
(***************************************************************************)
(* Vulnerability scans of one project: VulnerabilityTaskService._execute   *)
(* with sync_project_incremental_workspace of the workspace service.       *)
(*                                                                         *)
(* Every scan runs in a worker thread with an event loop of its own and    *)
(* has the Pipeline service read a directory.  Incremental scans of a      *)
(* project all use the same directory, the stable tree, which each of them *)
(* replaces by a copy of its own workspace under the project's lock.  The  *)
(* API's loop cancels a scan through the loop of its worker.               *)
(*                                                                         *)
(* A tree is known by the task whose workspace it is a copy of.  Left out: *)
(* the validation of requests and results, the row of the task beyond      *)
(* cancel_requested, which TaskStore and ProcessTasks are about, and what  *)
(* the service does when its stream is closed: it may go on reading the    *)
(* tree for a while, but for nobody.                                       *)
(***************************************************************************)
EXTENDS Naturals, FiniteSets

CONSTANTS
    Tasks,
    Incremental,   \* the tasks that ask for incremental=true
    Faults         \* what may fail: "copy", "rename", "sweep", "drop", "crash"

ASSUME ScanAssumption ==
    /\ Incremental \subseteq Tasks
    /\ Faults \subseteq {"copy", "rename", "sweep", "drop", "crash"}
    /\ "none" \notin Tasks /\ "partial" \notin Tasks

VARIABLES
    place,    \* where the worker of t is
    cancel,   \* cancel_requested of the row
    handler,  \* cancel_task of the API: "idle", "looking" or "done"
    active,   \* the tasks in _active
    posted,   \* task.cancel is scheduled in the worker's loop
    lock,     \* who holds the project's lock, or "none"
    stable,   \* the stable tree, or "none"
    staging, backup,  \* the directories of t's swap, or "none"
    wrecked   \* history: a crash, or a clean-up that failed, cut a swap short

trees == <<stable, staging, backup>>
vars == <<place, cancel, handler, active, posted, lock, stable, staging, backup, wrecked>>

Syncing == {"locked", "copying", "moving", "placing", "dropping"}
Places == {"unborn", "new", "ready", "registered", "locking", "scanning", "over"} \cup Syncing
Running == Places \ {"unborn", "over"}
Tree == Tasks \cup {"none", "partial"}

ScanTypeOK ==
    /\ place \in [Tasks -> Places]
    /\ cancel \in [Tasks -> BOOLEAN]
    /\ handler \in [Tasks -> {"idle", "looking", "done"}]
    /\ active \subseteq {t \in Tasks : place[t] \in Running}
    /\ posted \subseteq Tasks
    /\ lock \in Tasks \cup {"none"}
    /\ \A t \in Tasks :
          /\ place[t] \in Syncing => lock = t
          /\ lock = t => t \in Incremental /\ place[t] \in Syncing \cup {"scanning"}
    /\ stable \in Tree \ {"partial"}
    /\ staging \in [Tasks -> Tree] /\ backup \in [Tasks -> Tree]
    /\ wrecked \in BOOLEAN

ScanInit ==
    /\ place = [t \in Tasks |-> "unborn"]
    /\ cancel = [t \in Tasks |-> FALSE]
    /\ handler = [t \in Tasks |-> "idle"]
    /\ active = {}
    /\ posted = {}
    /\ lock = "none"
    /\ stable = "none"
    /\ staging = [t \in Tasks |-> "none"]
    /\ backup = [t \in Tasks |-> "none"]
    /\ wrecked = FALSE

-----------------------------------------------------------------------------
(***************************************************************************)
(* The worker.                                                             *)
(***************************************************************************)

Goes(t, from, to) == place[t] = from /\ place' = [place EXCEPT ![t] = to]

\* Mutant: the finally clause forgets the lock.
EndsHolding(t) ==
    /\ place' = [place EXCEPT ![t] = "over"]
    /\ active' = active \ {t}
    /\ UNCHANGED lock

\* The finally clause of _execute, after which the task is closed.
Ends(t) ==
    /\ place' = [place EXCEPT ![t] = "over"]
    /\ active' = active \ {t}
    /\ lock' = IF lock = t THEN "none" ELSE lock

Start(t) ==
    /\ Goes(t, "unborn", "new")
    /\ UNCHANGED <<cancel, handler, active, posted, lock, trees, wrecked>>

\* raise_if_cancelled, once the workspace is there.
CheckNew(t) ==
    /\ place[t] = "new"
    /\ \/ cancel[t] /\ Ends(t)
       \/ ~cancel[t] /\ Goes(t, "new", "ready") /\ UNCHANGED <<active, lock>>
    /\ UNCHANGED <<cancel, handler, posted, trees, wrecked>>

Register(t) ==
    /\ Goes(t, "ready", "registered")
    /\ active' = active \cup {t}
    /\ UNCHANGED <<cancel, handler, posted, lock, trees, wrecked>>

\* Mutant: the flag is not looked at again once the worker can be found.
SeesCancelNever(t) == FALSE

SeesCancel(t) == cancel[t]

\* Mutant: the lock is given back once the tree is in place.
ScansUnlocked(t, from) ==
    /\ Goes(t, from, "scanning")
    /\ lock' = IF lock = t THEN "none" ELSE lock
    /\ UNCHANGED active

\* The Pipeline service is asked to scan.  Too little time left, or an answer
\* that ends the scan at once, is an end like any other.
Scans(t, from) ==
    /\ Goes(t, from, "scanning")
    /\ UNCHANGED <<active, lock>>

CheckRegistered(t) ==
    /\ place[t] = "registered"
    /\ \/ SeesCancel(t) /\ Ends(t)
       \/ /\ ~SeesCancel(t)
          /\ \/ t \in Incremental /\ Goes(t, "registered", "locking")
                /\ UNCHANGED <<active, lock>>
             \/ t \notin Incremental /\ Scans(t, "registered")
    /\ UNCHANGED <<cancel, handler, posted, trees, wrecked>>

\* One round of _acquire_incremental_lock.
TryLock(t) ==
    /\ place[t] = "locking"
    /\ \/ lock = "none" /\ lock' = t /\ Goes(t, "locking", "locked") /\ UNCHANGED active
       \/ lock # "none" /\ cancel[t] /\ Ends(t)
    /\ UNCHANGED <<cancel, handler, posted, trees, wrecked>>

CheckLocked(t) ==
    /\ place[t] = "locked"
    /\ \/ SeesCancel(t) /\ Ends(t)
       \/ ~SeesCancel(t) /\ Goes(t, "locked", "copying") /\ UNCHANGED <<active, lock>>
    /\ UNCHANGED <<cancel, handler, posted, trees, wrecked>>

-----------------------------------------------------------------------------
(***************************************************************************)
(* sync_project_incremental_workspace.                                     *)
(***************************************************************************)

\* copytree(source, staging); what it leaves when it fails is not removed.
CopyTree(t) ==
    /\ place[t] = "copying"
    /\ \/ /\ Goes(t, "copying", "moving")
          /\ staging' = [staging EXCEPT ![t] = t]
          /\ UNCHANGED <<active, lock>>
       \/ /\ "copy" \in Faults
          /\ staging' = [staging EXCEPT ![t] = "partial"]
          /\ Ends(t)
    /\ UNCHANGED <<cancel, handler, posted, stable, backup, wrecked>>

\* Mutant: the old tree is left in backup.
RestoresStagingOnly(t, kept) ==
    /\ Ends(t)
    /\ staging' = [staging EXCEPT ![t] = "none"]
    /\ UNCHANGED <<stable, backup, wrecked>>

\* Mutant: the copy is left in staging.
RestoresOldOnly(t, kept) ==
    /\ Ends(t)
    /\ stable' = IF kept = "none" THEN stable ELSE kept
    /\ backup' = [backup EXCEPT ![t] = "none"]
    /\ UNCHANGED <<staging, wrecked>>

\* The except clause: staging is removed, then the old tree put back.  When
\* either fails, the old tree stays in backup.
Restores(t, kept) ==
    /\ Ends(t)
    /\ \/ /\ staging' = [staging EXCEPT ![t] = "none"]
          /\ stable' = IF kept = "none" THEN stable ELSE kept
          /\ backup' = [backup EXCEPT ![t] = "none"]
          /\ UNCHANGED wrecked
       \/ /\ "sweep" \in Faults
          /\ \E left \in {staging[t], "none"} : staging' = [staging EXCEPT ![t] = left]
          /\ wrecked' = TRUE
          /\ UNCHANGED <<stable, backup>>

MoveOld(t) ==
    /\ place[t] = "moving"
    /\ \/ /\ Goes(t, "moving", "placing")
          /\ backup' = [backup EXCEPT ![t] = stable]
          /\ stable' = "none"
          /\ UNCHANGED <<staging, active, lock, wrecked>>
       \/ "rename" \in Faults /\ stable # "none" /\ Restores(t, "none")
    /\ UNCHANGED <<cancel, handler, posted>>

PlaceNew(t) ==
    /\ place[t] = "placing"
    /\ \/ /\ Goes(t, "placing", "dropping")
          /\ stable' = staging[t]
          /\ staging' = [staging EXCEPT ![t] = "none"]
          /\ UNCHANGED <<backup, active, lock, wrecked>>
       \/ "rename" \in Faults /\ Restores(t, backup[t])
    /\ UNCHANGED <<cancel, handler, posted>>

\* rmtree(backup), whose failure is only logged, and the scan.
DropOld(t) ==
    /\ place[t] = "dropping"
    /\ Scans(t, "dropping")
    /\ \/ backup' = [backup EXCEPT ![t] = "none"]
       \/ "drop" \in Faults /\ backup[t] # "none"
          /\ backup' = [backup EXCEPT ![t] = "partial"]
    /\ UNCHANGED <<cancel, handler, posted, stable, staging, wrecked>>

-----------------------------------------------------------------------------
(***************************************************************************)
(* The end of a scan.                                                      *)
(***************************************************************************)

ScanEnds(t) ==
    /\ place[t] = "scanning"
    /\ Ends(t)
    /\ UNCHANGED <<cancel, handler, posted, trees, wrecked>>

\* Mutant: an interruption that is no cancellation is ignored.
InterruptIfCancelled(t) ==
    /\ place[t] \in {"locking", "scanning"}
    /\ cancel[t]
    /\ Ends(t)
    /\ UNCHANGED <<cancel, handler, posted, trees, wrecked>>

\* The worker is interrupted where it awaits.
Interrupt(t) ==
    /\ place[t] \in {"locking", "scanning"}
    /\ Ends(t)
    /\ UNCHANGED <<cancel, handler, posted, trees, wrecked>>

\* task.cancel, run by the worker's loop.
CancelArrives(t) == t \in posted /\ Interrupt(t)

\* asyncio.timeout(total_timeout_seconds)
TimeLimit(t) == Interrupt(t)

-----------------------------------------------------------------------------
(***************************************************************************)
(* Cancellation, and a crash of the server.                                *)
(***************************************************************************)

RequestCancel(t) ==
    /\ place[t] \in Running
    /\ ~cancel[t]
    /\ cancel' = [cancel EXCEPT ![t] = TRUE]
    /\ handler' = [handler EXCEPT ![t] = "looking"]
    /\ UNCHANGED <<place, active, posted, lock, trees, wrecked>>

\* VulnerabilityTaskService.cancel_task
CancelTask(t) ==
    /\ handler[t] = "looking"
    /\ handler' = [handler EXCEPT ![t] = "done"]
    /\ posted' = IF t \in active THEN posted \cup {t} ELSE posted
    /\ UNCHANGED <<place, cancel, active, lock, trees, wrecked>>

Crash ==
    /\ "crash" \in Faults
    /\ place' = [t \in Tasks |-> IF place[t] \in Running THEN "over" ELSE place[t]]
    /\ place' # place
    /\ handler' = [t \in Tasks |-> IF handler[t] = "looking" THEN "done" ELSE handler[t]]
    /\ active' = {}
    /\ posted' = {}
    /\ lock' = "none"
    /\ staging' = [t \in Tasks |-> IF place[t] = "copying" THEN "partial" ELSE staging[t]]
    /\ wrecked' = TRUE
    /\ UNCHANGED <<cancel, stable, backup>>

-----------------------------------------------------------------------------
Sync(t) == CopyTree(t) \/ MoveOld(t) \/ PlaceNew(t) \/ DropOld(t)

\* What the worker does by itself, with no answer of the Pipeline service.
Work(t) ==
    CheckNew(t) \/ Register(t) \/ CheckRegistered(t) \/ TryLock(t) \/ CheckLocked(t) \/ Sync(t)

ScanNext ==
    \/ \E t \in Tasks :
          \/ Start(t) \/ Work(t) \/ ScanEnds(t) \/ CancelArrives(t) \/ TimeLimit(t)
          \/ RequestCancel(t) \/ CancelTask(t)
    \/ Crash

ScanSpec == ScanInit /\ [][ScanNext]_vars

\* Workers and the API's loop go on.  Nothing is assumed of the Pipeline
\* service, which may never answer, nor of time limits.
FairScanSpec ==
    /\ ScanSpec
    /\ \A t \in Tasks : /\ WF_vars(Work(t))
                        /\ WF_vars(CancelTask(t))
                        /\ WF_vars(CancelArrives(t))

\* Every scan has a time limit, of the request or the default one.
LimitsExpire == \A t \in Tasks : WF_vars(TimeLimit(t))

-----------------------------------------------------------------------------
(***************************************************************************)
(* Properties.                                                             *)
(***************************************************************************)

\* The stable tree is, all the time that an incremental scan has the Pipeline
\* service read it, the exact copy of that task's workspace: no other scan of
\* the project, running, cancelled or crashed, replaces it or has left it mixed.
ScanSeesItsTree ==
    \A t \in Incremental : place[t] = "scanning" => stable = t

\* When a swap has failed, the tree before it is still the stable one: outside
\* a swap, an old tree is in backup only where a new one has replaced it.  (A
\* crash between the two renames leaves no stable tree, and nothing puts the
\* old one back.)
OldTreeSurvives ==
    ~wrecked /\ lock = "none" /\ (\E t \in Tasks : backup[t] # "none")
        => stable # "none"

\* A task leaves no directory of its swap behind, but for a part of a copy or
\* of an old tree that could not be finished or removed.
SwapsAreSwept ==
    ~wrecked =>
        \A t \in Tasks : place[t] = "over" => {staging[t], backup[t]} \cap Tasks = {}

\* The variables keep their types, and a swap loses no tree and leaves none.
ScanInv == ScanTypeOK /\ OldTreeSurvives /\ SwapsAreSwept

\* A cancel request ends the scan, even when the Pipeline service never
\* answers or another scan never gives the lock away, and however it falls
\* between the worker's checks and its registration.
CancelEndsScan == \A t \in Tasks : cancel[t] /\ place[t] \in Running ~> place[t] = "over"

\* With the time limit every scan ends, and with it its hold of the lock,
\* whoever waits for what.
EveryScanEnds ==
    LimitsExpire => \A t \in Tasks : place[t] \in Running ~> place[t] = "over"

\* A scan ends, by a cancel request or by its time limit.
ScansEnd == CancelEndsScan /\ EveryScanEnds
=============================================================================
