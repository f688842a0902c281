-------------------------- MODULE TaskStore_proofs --------------------------
(***************************************************************************)
(* What the task store guarantees for any number of tasks, any metadata    *)
(* keys and any progress scale, whoever calls it and in whatever order.    *)
(*                                                                         *)
(* Every method rewrites at most one row from that row alone, except the   *)
(* recovery, which rewrites each active row from itself.  So the argument  *)
(* is about one row: RowStep says what the rewriting of a good row may do, *)
(* a lemma per rewriting establishes it, StepOfEveryRow lifts it to        *)
(* StoreNext, and the theorems read their statement off RowStep.           *)
(***************************************************************************)
EXTENDS TaskStore, TLAPS

\* The invariants of the rows, for a single row.
RowGood(row) ==
    /\ row.cancel /\ row.status \in Terminal
         => row.status = "CANCELLED" /\ row.error = "cancelled" /\ ~row.reported
    /\ row.status = "ABSENT" => row.progress = 0
    /\ row.status = "PENDING" => ~row.cancel /\ ~row.started
    /\ row.status = "RUNNING" => row.started /\ ~row.reported
    /\ row.finished <=> row.status \in Terminal
    /\ row.reported => row.started /\ row.status # "CANCELLED"

RowStep(old, new) ==
    /\ new \in Row
    /\ RowGood(new)
    /\ old.status \in Terminal => Verdict(new) = Verdict(old)
    /\ new.progress >= old.progress
    /\ old.cancel => new.progress = old.progress

StoreInv ==
    /\ TypeOK
    /\ \A t \in Tasks : RowGood(rows[t])
    /\ ArtifactsOnlyOfSucceeded

-----------------------------------------------------------------------------
\* What a patch does to the metadata it is merged into.
LEMMA PatchedType ==
    ASSUME NEW patch \in Patch
    PROVE  /\ \A old \in Metadata : Patched(old, patch) \in Metadata
           /\ \A old \in Patch : Patched(old, patch) \in Patch
BY DEF Patch, Metadata, Patched

LEMMA EmptyPatchType == EmptyPatch \in Patch
BY DEF EmptyPatch, Patch

\* Merging metadata leaves everything else of a row alone.
LEMMA MergedRow ==
    ASSUME NEW row \in Row, RowGood(row), NEW meta \in Metadata
    PROVE  /\ RowStep(row, [row EXCEPT !.meta = meta])
           /\ [row EXCEPT !.meta = meta].status = row.status
BY DEF Row, Progress, RowGood, RowStep, Verdict

\* A row that is left alone takes a good step.
LEMMA SameRow ==
    ASSUME NEW row \in Row, RowGood(row)
    PROVE  RowStep(row, row)
BY FullProgressAssumption DEF Row, Progress, RowStep

\* What of a row the statements about it depend on.
LEMMA RowStepByFields ==
    ASSUME NEW old \in Row, NEW new \in Row, RowGood(new),
           old.status \in Terminal => new = old,
           \/ new.progress = old.progress
           \/ new.progress >= old.progress /\ ~old.cancel
    PROVE  RowStep(old, new)
BY FullProgressAssumption DEF Row, Progress, RowStep

\* The row of a task nobody created.
LEMMA AbsentRowType == AbsentRow \in Row /\ RowGood(AbsentRow)
<1>1. AbsentRow \in Row
  BY FullProgressAssumption
     DEF AbsentRow, Row, Status, Progress, Errors, Metadata
<1>2. RowGood(AbsentRow)
  BY DEF RowGood, AbsentRow, Terminal
<1> QED
  BY <1>1, <1>2

\* The row that save inserts.
LEMMA NewRow ==
    ASSUME NEW row \in Row, RowGood(row), row.status = "ABSENT"
    PROVE  RowStep(row, [AbsentRow EXCEPT !.status = "PENDING"])
<1> DEFINE new == [AbsentRow EXCEPT !.status = "PENDING"]
<1>1. new \in Row
  BY AbsentRowType DEF Row, Status, Active
<1>2. /\ new.status = "PENDING" /\ new.progress = 0
      /\ ~new.cancel /\ ~new.started /\ ~new.finished /\ ~new.reported
  BY DEF AbsentRow
<1> HIDE DEF new
<1>3. RowGood(new)
  BY <1>2 DEF RowGood, Terminal
<1>4. RowStep(row, new)
  BY <1>1, <1>2, <1>3, RowStepByFields DEF RowGood, Terminal
<1> QED
  BY <1>4 DEF new

\* try_start.
LEMMA StartedRow ==
    ASSUME NEW row \in Row, RowGood(row), row.status = "PENDING"
    PROVE  RowStep(row, [row EXCEPT !.status = "RUNNING", !.started = TRUE])
<1> DEFINE new == [row EXCEPT !.status = "RUNNING", !.started = TRUE]
<1>1. new \in Row
  BY DEF Row, Status, Active
<1>2. /\ new.status = "RUNNING" /\ new.progress = row.progress
      /\ new.started = TRUE
      /\ new.cancel = row.cancel
      /\ new.finished = row.finished
      /\ new.reported = row.reported
  BY DEF Row
<1>3. ~row.cancel /\ ~row.finished /\ ~row.reported
  BY DEF RowGood, Terminal
<1> HIDE DEF new
<1>4. ~new.cancel /\ ~new.finished /\ ~new.reported /\ new.started
  BY <1>2, <1>3
<1>5. RowGood(new)
  BY <1>2, <1>4 DEF RowGood, Terminal
<1>6. RowStep(row, new)
  BY <1>1, <1>2, <1>5, RowStepByFields DEF Terminal
<1> QED
  BY <1>6 DEF new

\* request_cancel: a waiting row is closed, a running one only flagged.
LEMMA CancelledRow ==
    ASSUME NEW row \in Row, RowGood(row), row.status \in Active
    PROVE  RowStep(row, CancelRequested(row))
<1> DEFINE new == CancelRequested(row)
<1>1. new \in Row /\ new.progress = row.progress
  BY DEF CancelRequested, Row, Status, Terminal, Errors
<1>2. new.cancel = TRUE /\ new.started = row.started
      /\ new.reported = row.reported
  BY DEF CancelRequested, Row
<1>3. CASE row.status = "PENDING"
  <2>1. new.status = "CANCELLED" /\ new.error = "cancelled"
        /\ new.finished = TRUE
    BY <1>3 DEF CancelRequested, Row
  <2>2. ~row.reported
    BY <1>3 DEF RowGood
  <2> HIDE DEF new
  <2>3. RowGood(new)
    BY <1>2, <2>1, <2>2 DEF RowGood, Terminal
  <2>4. RowStep(row, new)
    BY <1>1, <1>3, <2>3, RowStepByFields DEF Terminal
  <2> QED
    BY <2>4 DEF new
<1>4. CASE row.status = "RUNNING"
  <2>1. new.status = "RUNNING" /\ new.finished = row.finished
    BY <1>4 DEF CancelRequested, Row
  <2>2. row.started /\ ~row.reported /\ ~row.finished
    BY <1>4 DEF RowGood, Terminal
  <2> HIDE DEF new
  <2>3. new.started /\ ~new.reported /\ ~new.finished
    BY <1>2, <2>1, <2>2
  <2>4. RowGood(new)
    BY <2>1, <2>3 DEF RowGood, Terminal
  <2>5. RowStep(row, new)
    BY <2>4, <1>1, <1>4, RowStepByFields DEF Terminal
  <2> QED
    BY <2>5 DEF new
<1> QED
  BY <1>3, <1>4 DEF Active

\* update_progress and update_command_if_running.
LEMMA ReportedRow ==
    ASSUME NEW row \in Row, RowGood(row), row.status = "RUNNING", ~row.cancel
    PROVE  /\ \A p \in Progress :
                  row.progress <= p => RowStep(row, [row EXCEPT !.progress = p])
           /\ RowStep(row, [row EXCEPT !.command = "prepared"])
BY FullProgressAssumption
   DEF Row, Progress, RowGood, RowStep, Verdict, Terminal

\* finalize: the cancellation in the row beats the worker's verdict.
LEMMA FinalizedRow ==
    ASSUME NEW row \in Row, RowGood(row), row.status = "RUNNING",
           NEW out \in Outcome
    PROVE  /\ RowStep(row, Finalized(row, out))
           /\ Finalized(row, out).status \in Terminal
<1> DEFINE new == Finalized(row, out)
<1>1. row.started /\ ~row.reported
  BY DEF RowGood
<1>2. CASE row.cancel \/ out.status = "CANCELLED"
  <2>1. /\ new \in Row /\ new.progress = row.progress
        /\ new.status = "CANCELLED" /\ new.error = "cancelled"
        /\ new.finished = TRUE /\ new.reported = row.reported
    BY <1>2 DEF Finalized, Row, Status, Terminal, Errors
  <2> HIDE DEF new
  <2>2. RowGood(new)
    BY <1>1, <2>1 DEF RowGood, Terminal
  <2>3. RowStep(row, new)
    BY <2>1, <2>2, RowStepByFields DEF Terminal
  <2> QED
    BY <2>1, <2>3 DEF new, Terminal
<1>3. CASE ~(row.cancel \/ out.status = "CANCELLED")
  <2>1. out.status \in {"SUCCEEDED", "FAILED"} /\ out.progress \in Progress
        /\ out.error \in Errors
    BY <1>3 DEF Outcome, Terminal, Errors
  <2>2. Larger(row.progress, out.progress) \in Progress
        /\ Larger(row.progress, out.progress) >= row.progress
    BY <2>1, FullProgressAssumption DEF Larger, Row, Progress
  <2>3. /\ new \in Row
        /\ new.status = out.status
        /\ new.progress = Larger(row.progress, out.progress)
    BY <1>3, <2>1, <2>2 DEF Finalized, Row, Status, Terminal
  <2>4. /\ new.finished = TRUE /\ new.reported = TRUE
        /\ new.cancel = row.cancel /\ new.started = row.started
    BY <1>3 DEF Finalized, Row
  <2> HIDE DEF new
  <2>5. ~new.cancel /\ new.started /\ new.finished
    BY <1>1, <1>3, <2>4
  <2>6. RowGood(new)
    BY <2>1, <2>3, <2>5 DEF RowGood, Terminal
  <2>7. RowStep(row, new)
    BY <1>3, <2>2, <2>3, <2>6, RowStepByFields DEF Terminal
  <2> QED
    BY <2>1, <2>3, <2>7 DEF new, Terminal
<1> QED
  BY <1>2, <1>3

\* recover_interrupted_tasks.
LEMMA RecoveredRow ==
    ASSUME NEW row \in Row, RowGood(row)
    PROVE  RowStep(row, Recovered(row))
<1> DEFINE new == Recovered(row)
<1>1. CASE row.status \notin Active
  BY <1>1, SameRow DEF Recovered
<1>2. CASE row.status \in Active
  <2>1. ~row.reported
    BY <1>2 DEF RowGood, Active
  <2>2. /\ new \in Row /\ new.progress = row.progress
        /\ new.finished = TRUE /\ new.reported = row.reported
        /\ new.cancel = row.cancel
    BY <1>2 DEF Recovered, Row, Status, Terminal, Errors
  <2>3. /\ row.cancel => new.status = "CANCELLED" /\ new.error = "cancelled"
        /\ ~row.cancel => new.status = "FAILED"
    BY <1>2 DEF Recovered, Row
  <2> HIDE DEF new
  <2>4. RowGood(new)
    BY <2>1, <2>2, <2>3 DEF RowGood, Terminal
  <2>5. RowStep(row, new)
    BY <1>2, <2>2, <2>4, RowStepByFields DEF Terminal, Active
  <2> QED
    BY <2>5 DEF new
<1> QED
  BY <1>1, <1>2

-----------------------------------------------------------------------------
\* Every method of the store, and the recovery, takes a good step on each
\* row; only a worker's finalize of a running row, while it leaves the row
\* SUCCEEDED, adds to the tasks whose files are offered.
LEMMA StepOfEveryRow ==
    ASSUME StoreInv, [StoreNext]_storeVars
    PROVE  /\ \A t \in Tasks : RowStep(rows[t], rows'[t])
           /\ rows' \in [Tasks -> Row]
           /\ holds' \in SUBSET Tasks
           /\ queue' \in SUBSET Tasks
           /\ completion' \in [Tasks -> Patch]
           /\ \A t \in artifacts' :
                 \/ t \in artifacts
                 \/ t \in Tasks /\ rows'[t].status = "SUCCEEDED"
<1> DEFINE Others == /\ holds' \in SUBSET Tasks
                     /\ queue' \in SUBSET Tasks
                     /\ completion' \in [Tasks -> Patch]
                     /\ \A t \in artifacts' :
                           \/ t \in artifacts
                           \/ t \in Tasks /\ rows'[t].status = "SUCCEEDED"
<1> USE DEF StoreInv
<1>1. /\ rows \in [Tasks -> Row]
      /\ \A t \in Tasks : rows[t] \in Row /\ RowGood(rows[t])
  BY DEF TypeOK
\* What each method but the recovery must show.
<1>2. ASSUME NEW t \in Tasks, NEW new, WriteRow(t, new),
             RowStep(rows[t], new)
      PROVE  /\ \A u \in Tasks : RowStep(rows[u], rows'[u])
             /\ rows' \in [Tasks -> Row]
  BY <1>1, <1>2, SameRow DEF WriteRow, RowStep
<1>3. ASSUME rows' = rows
      PROVE  /\ \A u \in Tasks : RowStep(rows[u], rows'[u])
             /\ rows' \in [Tasks -> Row]
  BY <1>1, <1>3, SameRow
<1>4. EmptyPatch \in Patch
  BY DEF EmptyPatch, Patch
<1>5. ASSUME NEW t \in Tasks, StoreCall(t)
      PROVE  /\ \A u \in Tasks : RowStep(rows[u], rows'[u])
             /\ rows' \in [Tasks -> Row]
  <2>1. CASE Save(t)
    BY <1>1, <1>2, <2>1, NewRow DEF Save, Exists
  <2>2. CASE TryStart(t)
    BY <1>1, <1>2, <2>2, StartedRow DEF TryStart, CanStart
  <2>3. CASE RequestCancel(t)
    BY <1>1, <1>2, <2>3, CancelledRow DEF RequestCancel, CanRequestCancel
  <2>4. ASSUME NEW p \in Progress, UpdateProgress(t, p)
        PROVE  /\ \A u \in Tasks : RowStep(rows[u], rows'[u])
               /\ rows' \in [Tasks -> Row]
    BY <1>1, <1>2, <2>4, ReportedRow DEF UpdateProgress
  <2>5. CASE UpdateCommandIfRunning(t)
    BY <1>1, <1>2, <2>5, ReportedRow DEF UpdateCommandIfRunning
  <2>6. ASSUME NEW patch \in Patch,
               \/ MergeMetadata(t, patch)
               \/ HoldWorkspaces(t, patch)
               \/ ReleaseWorkspaces(t, patch)
        PROVE  /\ \A u \in Tasks : RowStep(rows[u], rows'[u])
               /\ rows' \in [Tasks -> Row]
    <3>1. Patched(rows[t].meta, patch) \in Metadata
      BY <1>1, PatchedType DEF Row
    <3>2. WriteRow(t, [rows[t] EXCEPT !.meta = Patched(rows[t].meta, patch)])
      BY <2>6 DEF MergeMetadata, HoldWorkspaces, ReleaseWorkspaces
    <3> QED
      BY <1>1, <1>2, <3>1, <3>2, MergedRow
  <2>7. ASSUME NEW patch \in Patch, QueueCleanupAndReleaseHold(t, patch)
        PROVE  rows' = rows
    BY <2>7 DEF QueueCleanupAndReleaseHold
  <2>8. CASE MarkCleanupPending(t)
    BY <1>3, <2>8 DEF MarkCleanupPending
  <2>9. CASE CompleteCleanup(t)
    <3>1. Patched(rows[t].meta, completion[t]) \in Metadata
      BY <1>1, PatchedType DEF Row, TypeOK
    <3>2. WriteRow(t, [rows[t] EXCEPT
                          !.meta = Patched(rows[t].meta, completion[t])])
      BY <2>9 DEF CompleteCleanup
    <3> QED
      BY <1>1, <1>2, <3>1, <3>2, MergedRow
  <2>10. CASE ClearCleanupPending(t)
    BY <1>3, <2>10 DEF ClearCleanupPending
  <2>11. ASSUME NEW out \in Outcome, NEW a \in BOOLEAN, NEW q \in BOOLEAN,
                NEW p \in BOOLEAN, Finalize(t, out, a, q, p)
         PROVE  /\ \A u \in Tasks : RowStep(rows[u], rows'[u])
                /\ rows' \in [Tasks -> Row]
    BY <1>1, <1>2, <2>11, FinalizedRow DEF Finalize, CanFinalize
  <2> QED
    BY <1>3, <1>5, <2>1, <2>2, <2>3, <2>4, <2>5, <2>6, <2>7, <2>8, <2>9,
       <2>10, <2>11
       DEF StoreCall
<1>6. ASSUME NEW t \in Tasks, StoreCall(t)
      PROVE  Others
  <2>1. \/ Save(t)
        \/ TryStart(t)
        \/ RequestCancel(t)
        \/ \E p \in Progress : UpdateProgress(t, p)
        \/ UpdateCommandIfRunning(t)
        \/ \E patch \in Patch : MergeMetadata(t, patch)
        => UNCHANGED <<holds, queue, completion, artifacts>>
    BY DEF Save, TryStart, RequestCancel, UpdateProgress,
           UpdateCommandIfRunning, MergeMetadata
  <2>2. ASSUME UNCHANGED <<holds, queue, completion, artifacts>>
        PROVE  Others
    BY <2>2 DEF TypeOK
  <2>3. ASSUME NEW patch \in Patch,
               HoldWorkspaces(t, patch) \/ ReleaseWorkspaces(t, patch)
        PROVE  Others
    BY <2>3 DEF HoldWorkspaces, ReleaseWorkspaces, TypeOK
  <2>4. ASSUME NEW patch \in Patch, QueueCleanupAndReleaseHold(t, patch)
        PROVE  Others
    BY <2>4, PatchedType DEF QueueCleanupAndReleaseHold, TypeOK
  <2>5. CASE MarkCleanupPending(t)
    BY <2>5 DEF MarkCleanupPending, TypeOK
  <2>6. CASE CompleteCleanup(t)
    BY <1>4, <2>6 DEF CompleteCleanup, TypeOK
  <2>7. CASE ClearCleanupPending(t)
    BY <1>4, <2>7 DEF ClearCleanupPending, TypeOK
  <2>8. ASSUME NEW out \in Outcome, NEW a \in BOOLEAN, NEW q \in BOOLEAN,
               NEW p \in BOOLEAN, Finalize(t, out, a, q, p)
        PROVE  Others
    <3>1. rows'[t] = Finalized(rows[t], out)
      BY <1>1, <2>8 DEF Finalize, WriteRow
    <3>2. \A u \in artifacts' : u \in artifacts
                                \/ (u = t /\ rows'[t].status = "SUCCEEDED")
      BY <2>8, <3>1 DEF Finalize
    <3>3. /\ UNCHANGED <<holds, completion>>
          /\ queue' \in {queue, queue \cup {t}}
      BY <2>8 DEF Finalize
    <3> QED
      BY <3>2, <3>3 DEF TypeOK
  <2> QED
    BY <1>6, <2>1, <2>2, <2>3, <2>4, <2>5, <2>6, <2>7, <2>8 DEF StoreCall
<1>7. CASE RecoverInterrupted
  <2>1. \A t \in Tasks : rows'[t] = Recovered(rows[t])
    BY <1>7 DEF RecoverInterrupted
  <2>2. \A t \in Tasks : RowStep(rows[t], rows'[t])
    BY <1>1, <2>1, RecoveredRow
  <2>3. rows' \in [Tasks -> Row]
    BY <1>7, <2>1, <2>2 DEF RecoverInterrupted, RowStep
  <2> QED
    BY <1>7, <2>2, <2>3 DEF RecoverInterrupted, TypeOK
<1>8. CASE UNCHANGED storeVars
  BY <1>3, <1>8 DEF storeVars, TypeOK
<1> QED
  BY <1>5, <1>6, <1>7, <1>8 DEF StoreNext

\* No call of the store breaks its invariant.
LEMMA StoreInvKept ==
    ASSUME StoreInv, [StoreNext]_storeVars
    PROVE  StoreInv'
<1>1. \A t \in Tasks : RowGood(rows'[t])
  BY StepOfEveryRow DEF RowStep
<1>2. \A t \in Tasks :
         rows[t].status = "SUCCEEDED" => rows'[t].status = "SUCCEEDED"
  BY StepOfEveryRow DEF RowStep, Verdict, Terminal
<1>3. ArtifactsOnlyOfSucceeded' /\ artifacts' \in SUBSET Tasks
  BY <1>2, StepOfEveryRow DEF StoreInv, TypeOK, ArtifactsOnlyOfSucceeded
<1> QED
  BY <1>1, <1>3, StepOfEveryRow DEF StoreInv, TypeOK

-----------------------------------------------------------------------------
\* The rows are well-formed and good in the initial state, and a step keeps
\* them so; a task whose files are offered stays SUCCEEDED, because the
\* verdict of a closed row is final.
LEMMA StoreInvHolds == StoreSpec => []StoreInv
<1>1. StoreInit => StoreInv
  <2> SUFFICES ASSUME StoreInit PROVE StoreInv
    OBVIOUS
  <2> QED
    BY AbsentRowType
       DEF StoreInit, StoreInv, TypeOK, EmptyPatch, Patch,
           ArtifactsOnlyOfSucceeded
<1> QED
  BY <1>1, StoreInvKept, PTL DEF StoreSpec

\* The tables always hold what their columns are meant to hold.
THEOREM StoreTypeCorrect == StoreSpec => []TypeOK
BY StoreInvHolds, PTL DEF StoreInv

\* A recorded cancellation is never lost, every row is coherent, and files are
\* only ever offered by tasks that succeeded.
THEOREM StoreIsSafe == StoreSpec => []StoreSafe
<1>1. StoreInv => StoreSafe
  BY DEF StoreInv, StoreSafe, CancelWins, RowCoherent, RowGood
<1> QED
  BY <1>1, StoreInvHolds, PTL

\* A verdict is final.
LEMMA StoreVerdictsFinal == StoreSpec => TerminalIsFinal
<1>1. StoreInv /\ [StoreNext]_storeVars
        => [\A t \in Tasks :
               rows[t].status \in Terminal
                 => Verdict(rows'[t]) = Verdict(rows[t])]_storeVars
  BY StepOfEveryRow DEF RowStep
<1> QED
  BY <1>1, StoreInvHolds, PTL DEF StoreSpec, TerminalIsFinal

\* Progress never falls, and stops at the request to cancel.
LEMMA StoreProgressMonotone == StoreSpec => ProgressNeverFalls
<1>1. StoreInv /\ [StoreNext]_storeVars
        => [\A t \in Tasks :
               /\ rows'[t].progress >= rows[t].progress
               /\ rows[t].cancel
                    => rows'[t].progress = rows[t].progress]_storeVars
  BY StepOfEveryRow DEF RowStep
<1> QED
  BY <1>1, StoreInvHolds, PTL DEF StoreSpec, ProgressNeverFalls

\* A row only moves on: its progress never falls and its verdict is final.
THEOREM StoreOnlyAdvances == StoreSpec => RowsOnlyAdvance
BY StoreVerdictsFinal, StoreProgressMonotone DEF RowsOnlyAdvance

-----------------------------------------------------------------------------
(***************************************************************************)
(* Refinement: the store implements the life cycle of a task.  LifeMap is  *)
(* what a client sees of the rows.                                         *)
(***************************************************************************)
LifeMap == [t \in Tasks |-> LifeOf(rows[t])]

\* A change of one row that moves its life as the life cycle allows.
LEMMA OneLifeMoves ==
    ASSUME TypeOK, NEW t \in Tasks, NEW new, WriteRow(t, new)
    PROVE  LifeMap' = [LifeMap EXCEPT ![t] = LifeOf(new)]
BY DEF LifeMap, WriteRow, TypeOK

LEMMA LifeUnmoved ==
    ASSUME TypeOK, NEW t \in Tasks, NEW new, WriteRow(t, new),
           LifeOf(new) = LifeOf(rows[t])
    PROVE  LifeMap' = LifeMap
BY OneLifeMoves DEF LifeMap

LEMMA LifeOfSameStatus ==
    ASSUME NEW old \in Row, NEW new \in Row, new.status = old.status,
           new.cancel = old.cancel
    PROVE  LifeOf(new) = LifeOf(old)
BY DEF LifeOf

\* Every step of the store is a step of the life cycle, or leaves it alone.
LEMMA StoreStepIsLifeStep ==
    ASSUME StoreInv, [StoreNext]_storeVars
    PROVE  [Life!LifeNext]_(Life!lifeVars)
<1> USE DEF LifeMap
<1>0. TypeOK /\ \A t \in Tasks : rows[t] \in Row /\ RowGood(rows[t])
  BY DEF StoreInv, TypeOK
<1>1. ASSUME NEW t \in Tasks, StoreCall(t)
      PROVE  [Life!LifeNext]_(Life!lifeVars)
  <2> DEFINE Stutters == LifeMap' = LifeMap /\ artifacts' = artifacts
  <2>0. ASSUME Stutters PROVE [Life!LifeNext]_(Life!lifeVars)
    BY <2>0 DEF Life!lifeVars
  <2>1. CASE Save(t)
    <3> DEFINE new == [AbsentRow EXCEPT !.status = "PENDING"]
    <3>1. LifeOf(rows[t]) = "unknown" /\ LifeOf(new) = "waiting"
      BY <2>1 DEF Save, Exists, LifeOf, AbsentRow
    <3>2. Life!Submit(t)
      BY <1>0, <2>1, <3>1, OneLifeMoves DEF Save, Life!Submit, Life!Moves
    <3> QED
      BY <3>2 DEF Life!LifeNext
  <2>2. CASE TryStart(t)
    <3> DEFINE new == [rows[t] EXCEPT !.status = "RUNNING", !.started = TRUE]
    <3>1. new.status = "RUNNING" /\ new.cancel = rows[t].cancel
      BY <1>0 DEF Row
    <3>2. LifeOf(rows[t]) = "waiting" /\ LifeOf(new) = "working"
      BY <2>2, <3>1 DEF TryStart, CanStart, LifeOf
    <3>3. Life!Begin(t)
      BY <1>0, <2>2, <3>2, OneLifeMoves DEF TryStart, Life!Begin, Life!Moves
    <3> QED
      BY <3>3 DEF Life!LifeNext
  <2>3. CASE RequestCancel(t)
    <3> DEFINE new == CancelRequested(rows[t])
    <3>1. /\ new.cancel = TRUE
          /\ rows[t].status = "PENDING" => new.status = "CANCELLED"
          /\ rows[t].status = "RUNNING" => new.status = "RUNNING"
      BY <1>0 DEF CancelRequested, Row
    <3>2. \/ LifeOf(rows[t]) = "waiting" /\ LifeOf(new) = "cancelled"
          \/ LifeOf(rows[t]) = "working" /\ LifeOf(new) = "stopping"
      BY <2>3, <3>1
         DEF RequestCancel, CanRequestCancel, Active, LifeOf
    <3>3. Life!Stop(t)
      BY <1>0, <2>3, <3>2, OneLifeMoves
         DEF RequestCancel, Life!Stop, Life!Moves
    <3> QED
      BY <3>3 DEF Life!LifeNext
  <2>4. ASSUME NEW new \in Row, WriteRow(t, new), artifacts' = artifacts,
               new.status = rows[t].status, new.cancel = rows[t].cancel
        PROVE  Stutters
    BY <1>0, <2>4, LifeUnmoved, LifeOfSameStatus
  <2>5. ASSUME NEW p \in Progress, UpdateProgress(t, p)
        PROVE  Stutters
    <3> DEFINE new == [rows[t] EXCEPT !.progress = p]
    <3>1. /\ new \in Row /\ WriteRow(t, new) /\ artifacts' = artifacts
          /\ new.status = rows[t].status /\ new.cancel = rows[t].cancel
      BY <1>0, <2>5 DEF UpdateProgress, Row
    <3> QED
      BY <2>4, <3>1
  <2>6. CASE UpdateCommandIfRunning(t)
    <3> DEFINE new == [rows[t] EXCEPT !.command = "prepared"]
    <3>1. /\ new \in Row /\ WriteRow(t, new) /\ artifacts' = artifacts
          /\ new.status = rows[t].status /\ new.cancel = rows[t].cancel
      BY <1>0, <2>6 DEF UpdateCommandIfRunning, Row
    <3> QED
      BY <2>0, <2>4, <3>1
  <2>7. ASSUME NEW patch \in Patch,
               \/ MergeMetadata(t, patch)
               \/ HoldWorkspaces(t, patch)
               \/ ReleaseWorkspaces(t, patch)
               \/ CompleteCleanup(t)
        PROVE  Stutters
    <3>1. PICK q \in Patch : /\ artifacts' = artifacts
                             /\ WriteRow(t, [rows[t] EXCEPT
                                   !.meta = Patched(rows[t].meta, q)])
      BY <2>7, <1>0
         DEF MergeMetadata, HoldWorkspaces, ReleaseWorkspaces,
             CompleteCleanup, TypeOK
    <3> DEFINE new == [rows[t] EXCEPT !.meta = Patched(rows[t].meta, q)]
    <3>2. Patched(rows[t].meta, q) \in Metadata
      BY <1>0, PatchedType DEF Row
    <3>3. /\ new \in Row
          /\ new.status = rows[t].status /\ new.cancel = rows[t].cancel
      BY <1>0, <3>2 DEF Row
    <3> QED
      BY <2>4, <3>1, <3>3
  <2>8. ASSUME NEW patch \in Patch,
               \/ QueueCleanupAndReleaseHold(t, patch)
               \/ MarkCleanupPending(t)
               \/ ClearCleanupPending(t)
        PROVE  Stutters
    BY <2>8 DEF QueueCleanupAndReleaseHold, MarkCleanupPending,
                ClearCleanupPending
  <2>9. ASSUME NEW out \in Outcome, NEW a \in BOOLEAN, NEW q \in BOOLEAN,
               NEW p \in BOOLEAN, Finalize(t, out, a, q, p)
        PROVE  Life!End(t)
    <3> DEFINE new == Finalized(rows[t], out)
    <3>1. /\ WriteRow(t, new)
          /\ artifacts' = IF a /\ new.status = "SUCCEEDED"
                          THEN artifacts \cup {t} ELSE artifacts
          /\ rows[t].status = "RUNNING"
      BY <2>9 DEF Finalize, CanFinalize
    <3>2. LifeMap' = [LifeMap EXCEPT ![t] = LifeOf(new)]
      BY <1>0, <3>1, OneLifeMoves
    <3>3. LifeMap[t] = LifeOf(rows[t])
      OBVIOUS
    <3>4. CASE rows[t].cancel \/ out.status = "CANCELLED"
      <4>1. new.status = "CANCELLED"
        BY <1>0, <3>4 DEF Finalized, Row
      <4>2. LifeOf(new) = "cancelled" /\ LifeOf(rows[t]) \in {"working", "stopping"}
        BY <3>1, <4>1 DEF LifeOf
      <4>3. artifacts' = artifacts
        BY <3>1, <4>1
      <4> HIDE DEF new, LifeMap
      <4> QED
        BY <3>2, <3>3, <4>2, <4>3 DEF Life!End, Life!Moves, LifeMap
    <3>5. CASE ~(rows[t].cancel \/ out.status = "CANCELLED")
      <4>1. new.status = out.status /\ out.status \in {"SUCCEEDED", "FAILED"}
        BY <1>0, <3>5 DEF Finalized, Row, Outcome, Terminal
      <4>2. /\ LifeOf(rows[t]) = "working"
            /\ out.status = "SUCCEEDED" => LifeOf(new) = "succeeded"
            /\ out.status = "FAILED" => LifeOf(new) = "failed"
        BY <3>1, <3>5, <4>1 DEF LifeOf
      <4>3. /\ out.status = "SUCCEEDED"
                 => artifacts' \in {artifacts, artifacts \cup {t}}
            /\ out.status = "FAILED" => artifacts' = artifacts
        BY <3>1, <4>1
      <4> HIDE DEF new
      <4> QED
        BY <3>2, <3>3, <4>1, <4>2, <4>3 DEF Life!End, Life!Moves
    <3> QED
      BY <3>4, <3>5
  <2> QED
    BY <1>1, <2>0, <2>1, <2>2, <2>3, <2>5, <2>6, <2>7, <2>8, <2>9,
       EmptyPatchType
       DEF StoreCall, Life!LifeNext
<1>2. CASE RecoverInterrupted
  <2>1. ASSUME NEW t \in Tasks
        PROVE  LifeOf(Recovered(rows[t])) =
                 CASE LifeOf(rows[t]) = "stopping" -> "cancelled"
                   [] LifeOf(rows[t]) \in {"waiting", "working"} -> "failed"
                   [] OTHER -> LifeOf(rows[t])
    <3> DEFINE row == rows[t]
               new == Recovered(row)
    <3>1. row \in Row /\ RowGood(row)
      BY <1>0
    <3>2. CASE row.status \notin Active
      <4>1. new = row
        BY <3>2 DEF Recovered
      <4>2. LifeOf(row) \in {"unknown", "succeeded", "failed", "cancelled"}
        BY <3>1, <3>2 DEF Row, Status, Active, Terminal, LifeOf
      <4> QED
        BY <4>1, <4>2
    <3>3. CASE row.status \in Active
      <4>1. /\ row.cancel => new.status = "CANCELLED"
            /\ ~row.cancel => new.status = "FAILED"
        BY <3>1, <3>3 DEF Recovered, Row
      <4>2. /\ row.cancel => LifeOf(new) = "cancelled"
            /\ ~row.cancel => LifeOf(new) = "failed"
        BY <4>1 DEF LifeOf
      <4>3. /\ row.cancel => LifeOf(row) = "stopping"
            /\ ~row.cancel => LifeOf(row) \in {"waiting", "working"}
        BY <3>1, <3>3 DEF LifeOf, Active, RowGood
      <4> QED
        BY <4>2, <4>3
    <3> QED
      BY <3>2, <3>3
  <2>2. LifeMap' = [t \in Tasks |-> LifeOf(Recovered(rows[t]))]
    BY <1>2 DEF RecoverInterrupted
  <2>3. Life!Settle
    BY <1>2, <2>1, <2>2 DEF RecoverInterrupted, Life!Settle
  <2> QED
    BY <2>3 DEF Life!LifeNext
<1>3. CASE UNCHANGED storeVars
  BY <1>3 DEF storeVars, Life!lifeVars
<1> QED
  BY <1>1, <1>2, <1>3 DEF StoreNext

\* The store implements the client's life cycle, for any number of tasks.
THEOREM StoreImplementsLifecycle == StoreSpec => ImplementsLifecycle
<1>1. StoreInit => Life!LifeInit
  <2> SUFFICES ASSUME StoreInit PROVE Life!LifeInit
    OBVIOUS
  <2>1. \A t \in Tasks : rows[t] = AbsentRow
    BY DEF StoreInit
  <2>2. LifeOf(AbsentRow) = "unknown"
    BY DEF LifeOf, AbsentRow
  <2> QED
    BY <2>1, <2>2 DEF StoreInit, Life!LifeInit
<1> QED
  BY <1>1, StoreInvHolds, StoreStepIsLifeStep, PTL
     DEF StoreSpec, ImplementsLifecycle, Life!LifeSpec
=============================================================================
