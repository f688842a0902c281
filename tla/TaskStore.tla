----------------------------- MODULE TaskStore -----------------------------
(***************************************************************************)
(* The SQLite task store: app/platform/services/task_store.py.             *)
(*                                                                         *)
(* Every public method runs one transaction under the store's lock, so a   *)
(* method is one action here.  What a method writes depends only on the    *)
(* row as the database holds it, never on the caller's copy of it: that is *)
(* the whole point of the conditional UPDATE statements.  The next-state   *)
(* relation lets any caller call any method with any argument in any       *)
(* order, so whatever holds here holds for every service above the store.  *)
(*                                                                         *)
(* The store is durable: a crash of the process loses none of these        *)
(* variables, and leaves no transaction half done.                         *)
(***************************************************************************)
EXTENDS Naturals

CONSTANTS
    Tasks,          \* task identifiers
    FullProgress,   \* the 100 of a progress percentage
    MetaKeys,       \* the metadata keys adapters write
    Keep            \* "this key is not in the patch"

ASSUME FullProgressAssumption == FullProgress \in Nat \ {0}
ASSUME KeepAssumption == Keep \notin BOOLEAN

VARIABLES
    rows,       \* rows[t]: the row of table tasks, status "ABSENT" if none
    holds,      \* table task_workspace_holds
    queue,      \* the tasks in table task_workspace_cleanup
    completion, \* completion[t]: the metadata queued with t, empty if none
    artifacts   \* table task_artifacts_available

storeVars == <<rows, holds, queue, completion, artifacts>>

Terminal == {"SUCCEEDED", "FAILED", "CANCELLED"}
Active   == {"PENDING", "RUNNING"}
Status   == {"ABSENT"} \cup Active \cup Terminal
Errors   == {"none", "cancelled", "failed", "interrupted"}
Progress == 0..FullProgress

Metadata == [MetaKeys -> BOOLEAN]
Patch    == [MetaKeys -> BOOLEAN \cup {Keep}]

EmptyPatch == [k \in MetaKeys |-> Keep]

Row == [status   : Status,
        cancel   : BOOLEAN,        \* cancel_requested
        started  : BOOLEAN,        \* started_at IS NOT NULL
        finished : BOOLEAN,        \* finished_at IS NOT NULL
        progress : Progress,
        reported : BOOLEAN,        \* result_json and exit_code were written
        error    : Errors,
        command  : {"initial", "prepared"},
        meta     : Metadata]

AbsentRow == [status |-> "ABSENT", cancel |-> FALSE, started |-> FALSE,
              finished |-> FALSE, progress |-> 0, reported |-> FALSE,
              error |-> "none", command |-> "initial",
              meta |-> [k \in MetaKeys |-> FALSE]]

\* What a worker hands to finalize: its own verdict and progress.
Outcome == [status : Terminal, progress : Progress, error : {"none", "failed"}]

TypeOK ==
    /\ rows \in [Tasks -> Row]
    /\ holds \in SUBSET Tasks
    /\ queue \in SUBSET Tasks
    /\ completion \in [Tasks -> Patch]
    /\ artifacts \in SUBSET Tasks

StoreInit ==
    /\ rows = [t \in Tasks |-> AbsentRow]
    /\ holds = {}
    /\ queue = {}
    /\ completion = [t \in Tasks |-> EmptyPatch]
    /\ artifacts = {}

Exists(t) == rows[t].status # "ABSENT"

\* SQLite's json_patch: a key of the patch wins, the others stay.
Patched(old, patch) ==
    [k \in MetaKeys |-> IF patch[k] = Keep THEN old[k] ELSE patch[k]]

WriteRow(t, row) == rows' = [rows EXCEPT ![t] = row]

-----------------------------------------------------------------------------
\* save, as the platform calls it: a new PENDING row.
Save(t) ==
    /\ ~Exists(t)
    /\ WriteRow(t, [AbsentRow EXCEPT !.status = "PENDING"])
    /\ UNCHANGED <<holds, queue, completion, artifacts>>

\* Mutant: the WHERE clause of try_start without its status.
CanStartAnyStatus(t) == Exists(t) /\ ~rows[t].cancel

\* try_start returns None, and changes nothing, unless the row is PENDING.
CanStart(t) == rows[t].status = "PENDING" /\ ~rows[t].cancel

TryStart(t) ==
    /\ CanStart(t)
    /\ WriteRow(t, [rows[t] EXCEPT !.status = "RUNNING", !.started = TRUE])
    /\ UNCHANGED <<holds, queue, completion, artifacts>>

\* A PENDING task is cancelled at once, a RUNNING one is only flagged.
CancelRequested(row) ==
    IF row.status = "PENDING"
    THEN [row EXCEPT !.cancel = TRUE, !.status = "CANCELLED",
                     !.finished = TRUE, !.error = "cancelled"]
    ELSE [row EXCEPT !.cancel = TRUE]

\* Mutant: a cancel that also reaches closed rows.
CanRequestCancelAlways(t) == Exists(t) /\ ~rows[t].cancel

CanRequestCancel(t) == rows[t].status \in Active /\ ~rows[t].cancel

RequestCancel(t) ==
    /\ CanRequestCancel(t)
    /\ WriteRow(t, CancelRequested(rows[t]))
    /\ UNCHANGED <<holds, queue, completion, artifacts>>

\* Mutant: a late report overwrites a newer one.
UpdateProgressUnordered(t, percent) ==
    /\ rows[t].status = "RUNNING"
    /\ ~rows[t].cancel
    /\ WriteRow(t, [rows[t] EXCEPT !.progress = percent])
    /\ UNCHANGED <<holds, queue, completion, artifacts>>

UpdateProgress(t, percent) ==
    /\ rows[t].status = "RUNNING"
    /\ ~rows[t].cancel
    /\ rows[t].progress <= percent
    /\ WriteRow(t, [rows[t] EXCEPT !.progress = percent])
    /\ UNCHANGED <<holds, queue, completion, artifacts>>

UpdateCommandIfRunning(t) ==
    /\ rows[t].status = "RUNNING"
    /\ ~rows[t].cancel
    /\ WriteRow(t, [rows[t] EXCEPT !.command = "prepared"])
    /\ UNCHANGED <<holds, queue, completion, artifacts>>

MergeMetadata(t, patch) ==
    /\ Exists(t)
    /\ WriteRow(t, [rows[t] EXCEPT !.meta = Patched(@, patch)])
    /\ UNCHANGED <<holds, queue, completion, artifacts>>

-----------------------------------------------------------------------------
\* The workspace tables: who may delete a task's files, and when.
HoldWorkspaces(t, patch) ==
    /\ Exists(t)
    /\ WriteRow(t, [rows[t] EXCEPT !.meta = Patched(@, patch)])
    /\ holds' = holds \cup {t}
    /\ UNCHANGED <<queue, completion, artifacts>>

ReleaseWorkspaces(t, patch) ==
    /\ Exists(t)
    /\ WriteRow(t, [rows[t] EXCEPT !.meta = Patched(@, patch)])
    /\ holds' = holds \ {t}
    /\ UNCHANGED <<queue, completion, artifacts>>

QueueCleanupAndReleaseHold(t, patch) ==
    /\ Exists(t)
    /\ queue' = queue \cup {t}
    /\ completion' = [completion EXCEPT ![t] = Patched(@, patch)]
    /\ holds' = holds \ {t}
    /\ UNCHANGED <<rows, artifacts>>

MarkCleanupPending(t) ==
    /\ Exists(t)
    /\ queue' = queue \cup {t}
    /\ UNCHANGED <<rows, holds, completion, artifacts>>

\* The completion metadata reaches the row in the transaction that drops
\* the queue entry.
CompleteCleanup(t) ==
    /\ Exists(t)
    /\ t \in queue
    /\ WriteRow(t, [rows[t] EXCEPT !.meta = Patched(@, completion[t])])
    /\ queue' = queue \ {t}
    /\ completion' = [completion EXCEPT ![t] = EmptyPatch]
    /\ UNCHANGED <<holds, artifacts>>

ClearCleanupPending(t) ==
    /\ queue' = queue \ {t}
    /\ completion' = [completion EXCEPT ![t] = EmptyPatch]
    /\ UNCHANGED <<rows, holds, artifacts>>

-----------------------------------------------------------------------------
\* Mutant: the progress of the outcome is added to the row's.
AddedUp(a, b) == a + b

Larger(a, b) == IF a >= b THEN a ELSE b

\* Mutant: the worker's verdict is written as it is.
FinalizedAsTold(row, out) ==
    [row EXCEPT !.status = out.status, !.finished = TRUE,
                !.reported = TRUE, !.error = out.error,
                !.progress = Larger(@, out.progress)]

\* The verdict of finalize: a cancellation in the row beats the worker's.
Finalized(row, out) ==
    IF row.cancel \/ out.status = "CANCELLED"
    THEN [row EXCEPT !.status = "CANCELLED", !.finished = TRUE,
                     !.error = "cancelled"]
    ELSE [row EXCEPT !.status = out.status, !.finished = TRUE,
                     !.reported = TRUE, !.error = out.error,
                     !.progress = Larger(@, out.progress)]

\* Mutant: a second finalize of a closed row still counts.
CanFinalizeAgain(t) == rows[t].started

CanFinalize(t) == rows[t].status = "RUNNING"

\* One transaction: the verdict, the artifact capability and the intent to
\* clean the workspace up commit together or not at all.
Finalize(t, out, artifactsOnSuccess, queueCleanup, preserveOnSuccess) ==
    LET row == Finalized(rows[t], out)
        succeeded == row.status = "SUCCEEDED"
        queues == /\ queueCleanup
                  /\ ~(succeeded /\ preserveOnSuccess)
                  /\ t \notin holds
    IN  /\ CanFinalize(t)
        /\ WriteRow(t, row)
        /\ artifacts' = IF artifactsOnSuccess /\ succeeded
                        THEN artifacts \cup {t} ELSE artifacts
        /\ queue' = IF queues THEN queue \cup {t} ELSE queue
        /\ UNCHANGED <<holds, completion>>

\* Mutant: the recovery forgets finished_at.
RecoveredWithoutEnd(row) ==
    IF row.status \notin Active THEN row
    ELSE [row EXCEPT !.status = IF row.cancel THEN "CANCELLED" ELSE "FAILED",
                     !.error = IF row.cancel THEN "cancelled" ELSE "interrupted"]

\* Mutant: the recovery closes the running rows only.
RecoveredIfRunning(row) ==
    IF row.status # "RUNNING" THEN row
    ELSE [row EXCEPT !.status = IF row.cancel THEN "CANCELLED" ELSE "FAILED",
                     !.error = IF row.cancel THEN "cancelled" ELSE "interrupted",
                     !.finished = TRUE]

\* recover_interrupted_tasks: every active row, in one UPDATE.
Recovered(row) ==
    IF row.status \notin Active THEN row
    ELSE [row EXCEPT !.status = IF row.cancel THEN "CANCELLED" ELSE "FAILED",
                     !.error = IF row.cancel THEN "cancelled" ELSE "interrupted",
                     !.finished = TRUE]

RecoverInterrupted ==
    /\ rows' = [t \in Tasks |-> Recovered(rows[t])]
    /\ UNCHANGED <<holds, queue, completion, artifacts>>

-----------------------------------------------------------------------------
StoreCall(t) ==
    \/ Save(t)
    \/ TryStart(t)
    \/ RequestCancel(t)
    \/ \E percent \in Progress : UpdateProgress(t, percent)
    \/ UpdateCommandIfRunning(t)
    \/ \E patch \in Patch :
          \/ MergeMetadata(t, patch)
          \/ HoldWorkspaces(t, patch)
          \/ ReleaseWorkspaces(t, patch)
          \/ QueueCleanupAndReleaseHold(t, patch)
    \/ MarkCleanupPending(t)
    \/ CompleteCleanup(t)
    \/ ClearCleanupPending(t)
    \/ \E out \in Outcome, a, q, p \in BOOLEAN : Finalize(t, out, a, q, p)

StoreNext == (\E t \in Tasks : StoreCall(t)) \/ RecoverInterrupted

StoreSpec == StoreInit /\ [][StoreNext]_storeVars

-----------------------------------------------------------------------------
(***************************************************************************)
(* Properties.                                                             *)
(***************************************************************************)

\* A cancellation that was recorded is never lost: once the row is terminal
\* it is CANCELLED, says so in its error, and shows no result or exit code
\* of the work that was cancelled, whatever verdict a worker brings and
\* whether the row was closed by a worker, by the request itself or by the
\* recovery after a restart.
CancelWins ==
    \A t \in Tasks :
        rows[t].cancel /\ rows[t].status \in Terminal
            => /\ rows[t].status = "CANCELLED"
               /\ rows[t].error = "cancelled"
               /\ ~rows[t].reported

\* The fields of a row agree with its status in every reachable state: a
\* task waiting to run is not flagged, only closed tasks have an end time,
\* and only a worker that ran the task wrote a result.
RowCoherent ==
    \A t \in Tasks :
        /\ rows[t].status = "PENDING" => ~rows[t].cancel /\ ~rows[t].started
        /\ rows[t].status = "RUNNING" => rows[t].started /\ ~rows[t].reported
        /\ rows[t].finished <=> rows[t].status \in Terminal
        /\ rows[t].reported => rows[t].started /\ rows[t].status # "CANCELLED"

\* Files are offered for download only by a task that succeeded, even after
\* later cancels, recoveries and clean-ups of the same task.
ArtifactsOnlyOfSucceeded ==
    \A t \in artifacts : rows[t].status = "SUCCEEDED"

\* The three together: what a client reads of a task is never a lie.
StoreSafe == CancelWins /\ RowCoherent /\ ArtifactsOnlyOfSucceeded

\* What a row says about the outcome never changes once it is terminal, and
\* a verdict is never withdrawn.
Verdict(row) == [status |-> row.status, cancel |-> row.cancel,
                 error |-> row.error, reported |-> row.reported,
                 progress |-> row.progress, command |-> row.command]

TerminalIsFinal ==
    [][\A t \in Tasks :
          rows[t].status \in Terminal
              => Verdict(rows'[t]) = Verdict(rows[t])]_storeVars

\* Progress never falls, and stands still from the moment a cancellation is
\* requested until the task is closed.
ProgressNeverFalls ==
    [][\A t \in Tasks :
          /\ rows'[t].progress >= rows[t].progress
          /\ rows[t].cancel => rows'[t].progress = rows[t].progress]_storeVars

\* Both together: whatever the order of the calls, a row only moves on.
RowsOnlyAdvance == TerminalIsFinal /\ ProgressNeverFalls

\* The store implements the task life cycle a client relies on.
LifeOf(row) ==
    CASE row.status = "ABSENT" -> "unknown"
      [] row.status = "PENDING" -> "waiting"
      [] row.status = "RUNNING" /\ ~row.cancel -> "working"
      [] row.status = "RUNNING" /\ row.cancel -> "stopping"
      [] row.status = "SUCCEEDED" -> "succeeded"
      [] row.status = "FAILED" -> "failed"
      [] row.status = "CANCELLED" -> "cancelled"

Life == INSTANCE TaskLifecycle
            WITH life <- [t \in Tasks |-> LifeOf(rows[t])],
                 offered <- artifacts

\* Whatever the callers do, a client sees only the life cycle's steps.
ImplementsLifecycle == Life!LifeSpec
=============================================================================
