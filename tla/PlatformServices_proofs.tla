------------------------ MODULE PlatformServices_proofs -----------------------
(***************************************************************************)
(* Two services that all tasks share: the shutdown of the task service and *)
(* the log of a task with its live followers.  They have no state in       *)
(* common, so their proofs follow one another.                             *)
(*                                                                         *)
(* Shutdown, for any number of tasks and whatever the workers do           *)
(* meanwhile: the database is closed after its last user, and no future is *)
(* dropped while its row is open.  A future that may still use the         *)
(* database is registered, and what closes the database finds nothing      *)
(* registered; that nothing is registered later needs that the server has  *)
(* stopped serving by then.  A future is only dropped before a thread took *)
(* it, and what has such a future and is not cancelled yet is among the    *)
(* tasks that the shutdown has still to visit.                             *)
(*                                                                         *)
(* Logs, for any number of followers and any length of the log and of the  *)
(* buffers: a client never sees a gap.                                     *)
(***************************************************************************)
EXTENDS ServiceShutdown, LogStream, TaskStore_proofs, SequenceTheorems

(***************************************************************************)
(* The invariant of the shutdown.                                          *)
(***************************************************************************)
\* Callbacks of a future, before and after close_resources_when_idle hooks it.
Unhooked == {<<>>, <<"forget">>}
Callbacks == Unhooked \cup {<<"close">>, <<"forget", "close">>}

\* shutdown has visited every task; the code generation service has stopped too.
AfterStopping == {"cancelling", "polling", "retiring", "closing", "hooking", "ended"}
AfterRetiring == {"closing", "hooking", "ended"}
Closing == {"hooking", "ended"}

TypesFit == ShutdownTypeOK /\ callbacks \in [Tasks -> Callbacks]

\* A future is registered from its submission until it is settled, and has
\* been hooked only by the end of the shutdown.
FutureFits(t) ==
    /\ future[t] \in {"pending", "running"} => t \in registered
    /\ ~Exists(t) => callbacks[t] \notin {<<"forget">>, <<"forget", "close">>}
    /\ main = For("attaching", t) => Exists(t) /\ callbacks[t] = <<>>
    /\ main.at \notin Closing => callbacks[t] \in Unhooked
    /\ main.at = "hooking" /\ t \in todo => callbacks[t] \in Unhooked

\* What nobody runs yet waits, or is cancelled; after shutdown went round, it
\* is cancelled unless that failed; and what is dropped was cancelled before.
DropFits(t) ==
    /\ future[t] = "pending" => rows[t].status \in {"PENDING", "CANCELLED"}
    /\ future[t] = "cancelled"
         => rows[t].status = "CANCELLED" \/ (t \in unstopped /\ rows[t].status = "PENDING")
    /\ main = For("dropping", t) => rows[t].status = "CANCELLED"
    /\ future[t] = "pending" /\ main.at = "stopping" /\ t \notin todo
         => rows[t].status = "CANCELLED" \/ t \in unstopped
    /\ future[t] = "pending" /\ main.at \in AfterStopping
         => rows[t].status = "CANCELLED" \/ t \in unstopped

\* The code generation service has no retry any more once it is stopped, which
\* it is before anybody closes the database.
RetriesFit ==
    /\ main.at \in AfterRetiring => codegen = "CLOSED"
    /\ codegen = "CLOSED" => \A t \in Tasks : retry[t] # "alive"

\* Who closes the database finds nobody registered, and nobody comes after.
CloseFits ==
    ~storeOpen => main.at \in Closing /\ registered = {}

StopInv ==
    /\ TypesFit
    /\ \A t \in Tasks : FutureFits(t) /\ DropFits(t)
    /\ RetriesFit
    /\ CloseFits

-----------------------------------------------------------------------------
(***************************************************************************)
(* The server uses the store, and what becomes of a row by that.           *)
(***************************************************************************)
LEMMA ShutdownStepUsesTheStore ==
    ASSUME [ShutdownNext]_vars
    PROVE  [StoreNext]_storeVars
<1>1. ASSUME NEW t \in Tasks, SubmitTask(t) \/ CancelTask(t)
      PROVE  [StoreNext]_storeVars
  BY <1>1 DEF SubmitTask, CancelTask, StoreNext, StoreCall
<1>2. ASSUME NEW t \in Tasks, PoolThread(t) PROVE [StoreNext]_storeVars
  <2>1. CASE StartWork(t)
    BY <2>1 DEF StartWork, StoreNext, StoreCall
  <2>2. CASE FinishWork(t)
    <3>1. FALSE \in BOOLEAN
      OBVIOUS
    <3> QED
      BY <2>2, <3>1 DEF FinishWork, StoreNext, StoreCall
  <2>3. CASE RunFuture(t) \/ SettleFuture(t) \/ RunCallback(t) \/ PostRetry(t)
    BY <2>3 DEF RunFuture, SettleFuture, RunCallback, PostRetry
  <2> QED
    BY <1>2, <2>1, <2>2, <2>3 DEF PoolThread
<1>3. ASSUME NEW t \in Tasks, StopTask(t) \/ StopFails(t) PROVE [StoreNext]_storeVars
  BY <1>3 DEF StopTask, StopFails, StoreNext, StoreCall
<1>4. ASSUME NEW t \in Tasks,
             \/ AttachForget(t) \/ DropFuture(t) \/ StartRetry(t) \/ RetryEnds(t)
             \/ CancelRegistered(t) \/ HookFuture(t)
      PROVE  [StoreNext]_storeVars
  BY <1>4 DEF AttachForget, DropFuture, StartRetry, RetryEnds, CancelRegistered, HookFuture
<1>5. ASSUME \/ BeginShutdown \/ ListingFails \/ AllStopped \/ AllCancelled \/ StopWaiting
             \/ BeginRetiring \/ EndRetiring \/ CloseResources \/ AllHooked
      PROVE  [StoreNext]_storeVars
  BY <1>5 DEF BeginShutdown, ListingFails, AllStopped, AllCancelled, StopWaiting, BeginRetiring,
              EndRetiring, CloseResources, AllHooked
<1>6. CASE UNCHANGED vars
  BY <1>6 DEF vars
<1> QED
  BY <1>1, <1>2, <1>3, <1>4, <1>5, <1>6 DEF ShutdownNext, Stopping

LEMMA StoreInvBelow == ShutdownSpec => []StoreInv
<1>1. ShutdownInit => StoreInit
  BY DEF ShutdownInit
<1>2. ShutdownSpec => StoreSpec
  BY <1>1, ShutdownStepUsesTheStore, PTL DEF ShutdownSpec, StoreSpec
<1> QED
  BY <1>2, StoreInvHolds, PTL

\* The calls that the server and its workers make, by what they do to a status.
LEMMA CallsMoveStatus ==
    ASSUME TypeOK, NEW t \in Tasks
    PROVE  /\ Save(t) => rows[t].status = "ABSENT" /\ rows'[t].status = "PENDING"
           /\ TryStart(t) => rows[t].status = "PENDING" /\ rows'[t].status = "RUNNING"
           /\ RequestCancel(t) =>
                \/ rows[t].status = "PENDING" /\ rows'[t].status = "CANCELLED"
                \/ rows[t].status = "RUNNING" /\ rows'[t].status = "RUNNING"
           /\ \A out \in Outcome, a \in BOOLEAN :
                Finalize(t, out, a, FALSE, FALSE) =>
                    rows[t].status = "RUNNING" /\ rows'[t].status \in Terminal
           /\ Save(t) \/ TryStart(t) \/ RequestCancel(t)
                \/ (\E out \in Outcome, a \in BOOLEAN : Finalize(t, out, a, FALSE, FALSE))
                => \A u \in Tasks \ {t} : rows'[u] = rows[u]
<1>0. rows \in [Tasks -> Row] /\ rows[t] \in Row
  BY DEF TypeOK
<1>1. Save(t) => rows[t].status = "ABSENT" /\ rows'[t].status = "PENDING"
  BY <1>0 DEF Save, Exists, WriteRow, AbsentRow
<1>2. TryStart(t) => rows[t].status = "PENDING" /\ rows'[t].status = "RUNNING"
  BY <1>0 DEF TryStart, CanStart, WriteRow, Row
<1>3. RequestCancel(t) =>
        \/ rows[t].status = "PENDING" /\ rows'[t].status = "CANCELLED"
        \/ rows[t].status = "RUNNING" /\ rows'[t].status = "RUNNING"
  <2> SUFFICES ASSUME RequestCancel(t)
               PROVE  \/ rows[t].status = "PENDING" /\ rows'[t].status = "CANCELLED"
                      \/ rows[t].status = "RUNNING" /\ rows'[t].status = "RUNNING"
    OBVIOUS
  <2>1. rows'[t] = CancelRequested(rows[t]) /\ rows[t].status \in Active
    BY <1>0 DEF RequestCancel, CanRequestCancel, WriteRow
  <2> QED
    BY <1>0, <2>1 DEF CancelRequested, Row, Active
<1>4. ASSUME NEW out \in Outcome, NEW a \in BOOLEAN, Finalize(t, out, a, FALSE, FALSE)
      PROVE  rows[t].status = "RUNNING" /\ rows'[t].status \in Terminal
  <2>1. rows'[t] = Finalized(rows[t], out) /\ rows[t].status = "RUNNING"
    BY <1>0, <1>4 DEF Finalize, CanFinalize, WriteRow
  <2>2. out.status \in Terminal
    BY DEF Outcome
  <2>3. rows'[t].status \in {"CANCELLED", out.status}
    BY <1>0, <2>1 DEF Finalized, Row
  <2> QED
    BY <2>1, <2>2, <2>3 DEF Terminal
<1>5. ASSUME \/ Save(t) \/ TryStart(t) \/ RequestCancel(t)
             \/ \E out \in Outcome, a \in BOOLEAN : Finalize(t, out, a, FALSE, FALSE)
      PROVE  \A u \in Tasks \ {t} : rows'[u] = rows[u]
  <2>1. \E row : WriteRow(t, row)
    BY <1>5 DEF Save, TryStart, RequestCancel, Finalize
  <2> QED
    BY <1>0, <2>1 DEF WriteRow
<1> QED
  BY <1>1, <1>2, <1>3, <1>4, <1>5

-----------------------------------------------------------------------------
(***************************************************************************)
(* The callbacks of a future.                                              *)
(***************************************************************************)
LEMMA AppendToOne ==
    \A a, b : Append(<<a>>, b) = <<a, b>>
<1> TAKE a, b
<1> DEFINE s == Append(<<a>>, b)
           p == <<a, b>>
           S == {a, b}
<1>1. <<a>> \in Seq(S) /\ b \in S
  OBVIOUS
<1>2. s \in Seq(S) /\ Len(s) = 2 /\ s[1] = a /\ s[2] = b
  BY <1>1, AppendProperties
<1>3. p \in Seq(S) /\ Len(p) = 2 /\ p[1] = a /\ p[2] = b
  OBVIOUS
<1> HIDE DEF s, p, S
<1>4. \A i \in 1..Len(s) : s[i] = p[i]
  BY <1>2, <1>3
<1>5. s = p
  BY <1>2, <1>3, <1>4, SeqEqual
<1> QED
  BY <1>5 DEF s, p

LEMMA CallbackLists ==
    /\ Append(<<>>, "forget") = <<"forget">>
    /\ Append(<<>>, "close") = <<"close">>
    /\ Append(<<"forget">>, "close") = <<"forget", "close">>
    /\ Tail(<<"forget">>) = <<>>
    /\ Tail(<<"close">>) = <<>>
    /\ Tail(<<"forget", "close">>) = <<"close">>
<1>1. Append(<<>>, "forget") = <<"forget">>
  OBVIOUS
<1>2. Append(<<>>, "close") = <<"close">>
  OBVIOUS
<1>3. Append(<<"forget">>, "close") = <<"forget", "close">>
  BY AppendToOne, Zenon
<1>4. Tail(<<"forget">>) = <<>>
  OBVIOUS
<1>5. Tail(<<"close">>) = <<>>
  OBVIOUS
<1>6. Tail(<<"forget", "close">>) = <<"close">>
  OBVIOUS
<1> QED
  BY <1>1, <1>2, <1>3, <1>4, <1>5, <1>6

LEMMA CallbackHeads ==
    /\ Head(<<"forget">>) = "forget"
    /\ Head(<<"close">>) = "close"
    /\ Head(<<"forget", "close">>) = "forget"
OBVIOUS

LEMMA ListsDiffer ==
    /\ <<>> # <<"forget">> /\ <<>> # <<"close">> /\ <<>> # <<"forget", "close">>
    /\ <<"forget">> # <<"close">> /\ <<"forget">> # <<"forget", "close">>
    /\ <<"close">> # <<"forget", "close">>
OBVIOUS

-----------------------------------------------------------------------------
(***************************************************************************)
(* The invariant is kept.                                                  *)
(***************************************************************************)
\* What the invariant says of u depends on these.
Untouched(u) ==
    /\ rows'[u].status = rows[u].status /\ future'[u] = future[u]
    /\ callbacks'[u] = callbacks[u]
    /\ u \in registered' <=> u \in registered
    /\ u \in todo' <=> u \in todo
    /\ u \in unstopped' <=> u \in unstopped

\* The server's loop goes from one task to none, or from none to one.
LoopMoves(t) ==
    \/ main' = main
    \/ main = At("serving") /\ main' \in {For("attaching", t), For("dropping", t)}
    \/ main' = At("serving") /\ main \in {For("attaching", t), For("dropping", t)}

LEMMA UntouchedFits ==
    ASSUME NEW t \in Tasks, NEW u \in Tasks \ {t}, FutureFits(u), DropFits(u),
           Untouched(u), LoopMoves(t)
    PROVE  FutureFits(u)' /\ DropFits(u)'
<1>1. /\ main' = For("attaching", u) => main = For("attaching", u)
      /\ main' = For("dropping", u) => main = For("dropping", u)
  BY NobodyAssumption DEF LoopMoves, For, At
<1>2. /\ main'.at \notin Closing => main.at \notin Closing
      /\ main'.at = "hooking" => main.at = "hooking"
      /\ main'.at = "stopping" => main.at = "stopping"
      /\ main'.at \in AfterStopping => main.at \in AfterStopping
  BY DEF LoopMoves, For, At, Closing, AfterStopping
<1>3. FutureFits(u)'
  BY <1>1, <1>2 DEF FutureFits, Untouched, Exists
<1>4. DropFits(u)'
  BY <1>1, <1>2 DEF DropFits, Untouched
<1> QED
  BY <1>3, <1>4

\* A step of one task fits if that task fits.
LEMMA OneTaskFits ==
    ASSUME StopInv, NEW t \in Tasks, FutureFits(t)', DropFits(t)',
           \A u \in Tasks \ {t} : Untouched(u), LoopMoves(t)
    PROVE  \A u \in Tasks : FutureFits(u)' /\ DropFits(u)'
<1> TAKE u \in Tasks
<1>1. CASE u = t
  BY <1>1
<1>2. CASE u # t
  BY <1>2, UntouchedFits DEF StopInv
<1> QED
  BY <1>1, <1>2

LEMMA InitiallyStopInv == ShutdownInit => StopInv
<1> SUFFICES ASSUME ShutdownInit PROVE StopInv
  OBVIOUS
<1> USE DEF ShutdownInit
<1>1. TypeOK
  BY AbsentRowType, EmptyPatchType DEF StoreInit, TypeOK
<1>2. TypesFit
  BY <1>1 DEF TypesFit, ShutdownTypeOK, At, Callbacks, Unhooked
<1>3. ASSUME NEW t \in Tasks PROVE FutureFits(t) /\ DropFits(t)
  <2>1. main # For("attaching", t) /\ main # For("dropping", t) /\ main.at = "serving"
    BY DEF At, For
  <2>2. callbacks[t] = <<>> /\ future[t] = "none"
    OBVIOUS
  <2> QED
    BY <2>1, <2>2, ListsDiffer
       DEF FutureFits, DropFits, Closing, AfterStopping, Unhooked
<1>4. RetriesFit /\ CloseFits
  BY DEF RetriesFit, CloseFits, At, AfterRetiring
<1> QED
  BY <1>2, <1>3, <1>4 DEF StopInv

\* Cancelling a future: a pending one is settled and forgotten, others stay.
LEMMA FutureCancelled ==
    ASSUME StopInv, NEW t \in Tasks, CancelFuture(t)
    PROVE  /\ future' \in [Tasks -> {"none", "pending", "running"} \cup Done]
           /\ callbacks' \in [Tasks -> Callbacks] /\ registered' \in SUBSET Tasks
           /\ future'[t] # "pending"
           /\ future'[t] = "cancelled" => future[t] \in {"pending", "cancelled"}
           /\ future'[t] = "running" => future[t] = "running" /\ t \in registered'
           /\ callbacks'[t] \in {<<>>, callbacks[t]}
           /\ registered' \subseteq registered
           /\ \A u \in Tasks \ {t} : /\ future'[u] = future[u]
                                     /\ callbacks'[u] = callbacks[u]
                                     /\ u \in registered' <=> u \in registered
<1>0. /\ future \in [Tasks -> {"none", "pending", "running"} \cup Done]
      /\ callbacks \in [Tasks -> Callbacks] /\ registered \in SUBSET Tasks
      /\ future[t] = "running" => t \in registered
  BY DEF StopInv, TypesFit, ShutdownTypeOK, FutureFits
<1>1. CASE future[t] = "pending"
  <2>1. <<>> \in Callbacks
    BY DEF Callbacks, Unhooked
  <2> QED
    BY <1>0, <1>1, <2>1 DEF CancelFuture, Done
<1>2. CASE future[t] # "pending"
  BY <1>0, <1>2 DEF CancelFuture, futureVars
<1> QED
  BY <1>1, <1>2

LEMMA ServingFits ==
    ASSUME StopInv, StoreInv, StoreInv', NEW t \in Tasks,
           SubmitTask(t) \/ AttachForget(t) \/ CancelTask(t) \/ DropFuture(t)
    PROVE  StopInv'
<1>0. /\ future \in [Tasks -> {"none", "pending", "running"} \cup Done]
      /\ callbacks \in [Tasks -> Callbacks] /\ registered \in SUBSET Tasks
      /\ FutureFits(t) /\ DropFits(t) /\ RetriesFit /\ CloseFits
      /\ ShutdownTypeOK /\ TypeOK /\ TypeOK'
  BY DEF StopInv, TypesFit, ShutdownTypeOK, StoreInv
<1> SUFFICES /\ future' \in [Tasks -> {"none", "pending", "running"} \cup Done]
             /\ callbacks' \in [Tasks -> Callbacks] /\ registered' \in SUBSET Tasks
             /\ main' \in {main, At("serving"), For("attaching", t), For("dropping", t)}
             /\ main.at \in {"serving", "attaching", "dropping"}
             /\ FutureFits(t)' /\ DropFits(t)' /\ LoopMoves(t)
             /\ \A u \in Tasks \ {t} : Untouched(u)
             /\ UNCHANGED <<todo, lifecycle, storeOpen, codegenVars, unstopped>>
  <2>1. main'.at \in {"serving", "attaching", "dropping"}
    BY DEF At, For
  <2>2. TypesFit'
    BY <1>0 DEF TypesFit, ShutdownTypeOK, Callbacks, Unhooked, codegenVars, At, For
  <2>3. RetriesFit'
    BY <1>0, <2>1 DEF RetriesFit, AfterRetiring, codegenVars
  <2>4. CloseFits'
    BY <1>0 DEF CloseFits, Closing
  <2>5. \A u \in Tasks : FutureFits(u)' /\ DropFits(u)'
    BY OneTaskFits
  <2> QED
    BY <2>2, <2>3, <2>4, <2>5 DEF StopInv
<1>1. CASE SubmitTask(t)
  <2>1. /\ rows[t].status = "ABSENT" /\ rows'[t].status = "PENDING"
        /\ \A u \in Tasks \ {t} : rows'[u] = rows[u]
    BY <1>0, <1>1, CallsMoveStatus DEF SubmitTask
  <2>2. main.at = "serving" /\ main = At("serving") /\ main' = For("attaching", t)
        /\ main' # For("dropping", t) /\ main'.at = "attaching"
    BY <1>1 DEF SubmitTask, At, For
  <2>3. callbacks[t] = <<>>
    BY <1>0, <2>1, <2>2 DEF FutureFits, Exists, Unhooked, Closing
  <2>4. future'[t] = "pending" /\ t \in registered' /\ callbacks' = callbacks
    BY <1>0, <1>1 DEF SubmitTask
  <2>5. FutureFits(t)'
    BY <2>1, <2>2, <2>3, <2>4 DEF FutureFits, Exists, Unhooked, Closing
  <2>6. DropFits(t)'
    BY <2>1, <2>2, <2>4 DEF DropFits, AfterStopping
  <2>7. \A u \in Tasks \ {t} : Untouched(u)
    BY <1>0, <1>1, <2>1 DEF SubmitTask, Untouched
  <2> QED
    BY <1>0, <1>1, <2>2, <2>5, <2>6, <2>7 DEF SubmitTask, LoopMoves
<1>2. CASE AttachForget(t)
  <2>1. main = For("attaching", t) /\ main' = At("serving") /\ main.at = "attaching"
        /\ main'.at = "serving" /\ main' # For("dropping", t) /\ main' # For("attaching", t)
    BY <1>2 DEF AttachForget, At, For
  <2>2. callbacks[t] = <<>> /\ Exists(t) /\ Exists(t)'
    BY <1>0, <1>2, <2>1 DEF FutureFits, AttachForget, storeVars, Exists
  <2>3. \A u \in Tasks \ {t} : Untouched(u)
    BY <1>0, <1>2 DEF AttachForget, Untouched, storeVars
  <2>4. CASE future[t] \in Done
    <3>1. registered' = registered \ {t} /\ UNCHANGED <<callbacks, future, rows>>
      BY <1>2, <2>4 DEF AttachForget, storeVars
    <3>2. FutureFits(t)'
      BY <2>1, <2>2, <2>4, <3>1 DEF FutureFits, Unhooked, Closing, Done
    <3>3. DropFits(t)'
      BY <1>0, <1>2, <2>1, <3>1 DEF AttachForget, DropFits, AfterStopping
    <3> QED
      BY <1>0, <1>2, <2>1, <2>3, <3>1, <3>2, <3>3 DEF AttachForget, LoopMoves
  <2>5. CASE future[t] \notin Done
    <3>1. callbacks'[t] = <<"forget">> /\ UNCHANGED <<future, registered, rows>>
      BY <1>0, <1>2, <2>2, <2>5, CallbackLists DEF AttachForget, storeVars
    <3>2. callbacks' \in [Tasks -> Callbacks]
      BY <1>0, <1>2, <2>2, <2>5, CallbackLists DEF AttachForget, Callbacks, Unhooked
    <3>3. FutureFits(t)'
      BY <1>0, <2>1, <2>2, <3>1 DEF FutureFits, Unhooked, Closing
    <3>4. DropFits(t)'
      BY <1>0, <1>2, <2>1, <3>1 DEF AttachForget, DropFits, AfterStopping
    <3> QED
      BY <1>0, <1>2, <2>1, <2>3, <3>1, <3>2, <3>3, <3>4 DEF AttachForget, LoopMoves
  <2> QED
    BY <2>4, <2>5
<1>3. CASE CancelTask(t)
  <2>1. /\ \/ rows[t].status = "PENDING" /\ rows'[t].status = "CANCELLED"
           \/ rows[t].status = "RUNNING" /\ rows'[t].status = "RUNNING"
        /\ \A u \in Tasks \ {t} : rows'[u] = rows[u]
    BY <1>0, <1>3, CallsMoveStatus DEF CancelTask
  <2>2. /\ main = At("serving") /\ main.at = "serving"
        /\ main' # For("attaching", t) /\ main'.at \in {"serving", "dropping"}
        /\ main' = For("dropping", t) => rows'[t].status = "CANCELLED"
        /\ main' \in {main, For("dropping", t)}
    BY <1>3 DEF CancelTask, At, For
  <2>3. UNCHANGED <<todo, future, callbacks, registered, unstopped>>
    BY <1>3 DEF CancelTask, futureVars
  <2>4. FutureFits(t)'
    BY <1>0, <2>1, <2>2, <2>3 DEF FutureFits, Exists, Closing
  <2>5. DropFits(t)'
    BY <1>0, <2>1, <2>2, <2>3 DEF DropFits, AfterStopping
  <2>6. \A u \in Tasks \ {t} : Untouched(u)
    BY <2>1, <2>3 DEF Untouched
  <2> QED
    BY <1>0, <1>3, <2>2, <2>3, <2>4, <2>5, <2>6 DEF CancelTask, LoopMoves
<1>4. CASE DropFuture(t)
  <2>1. main = For("dropping", t) /\ main' = At("serving") /\ main.at = "dropping"
        /\ main'.at = "serving" /\ main' # For("dropping", t) /\ main' # For("attaching", t)
    BY <1>4 DEF DropFuture, At, For
  <2>2. CancelFuture(t) /\ UNCHANGED <<rows, todo, unstopped>>
    BY <1>4 DEF DropFuture, storeVars
  <2>3. rows[t].status = "CANCELLED"
    BY <1>0, <2>1 DEF DropFits
  <2>4. FutureFits(t)'
    BY <1>0, <2>1, <2>2, <2>3, FutureCancelled DEF FutureFits, Exists, Closing, Unhooked
  <2>5. DropFits(t)'
    BY <2>1, <2>2, <2>3, FutureCancelled DEF DropFits
  <2>6. \A u \in Tasks \ {t} : Untouched(u)
    BY <2>2, FutureCancelled DEF Untouched
  <2> QED
    BY <1>4, <2>1, <2>2, <2>4, <2>5, <2>6, FutureCancelled DEF DropFuture, LoopMoves
<1> QED
  BY <1>1, <1>2, <1>3, <1>4

\* The threads of the pool.
LEMMA PoolFits ==
    ASSUME StopInv, StoreInv, StoreInv', NEW t \in Tasks, PoolThread(t)
    PROVE  StopInv'
<1>0. /\ future \in [Tasks -> {"none", "pending", "running"} \cup Done]
      /\ callbacks \in [Tasks -> Callbacks] /\ registered \in SUBSET Tasks
      /\ retry \in [Tasks -> {"none", "posted", "alive", "over"}] /\ storeOpen \in BOOLEAN
      /\ FutureFits(t) /\ DropFits(t) /\ RetriesFit /\ CloseFits
      /\ ShutdownTypeOK /\ TypeOK /\ TypeOK'
  BY DEF StopInv, TypesFit, ShutdownTypeOK, StoreInv
<1>1. UNCHANGED <<main, todo, lifecycle, codegen, unstopped>>
  BY DEF PoolThread, RunFuture, StartWork, FinishWork, SettleFuture, RunCallback, PostRetry,
         stopVars, codegenVars, futureVars
<1> SUFFICES /\ future' \in [Tasks -> {"none", "pending", "running"} \cup Done]
             /\ callbacks' \in [Tasks -> Callbacks]
             /\ registered' \subseteq registered
             /\ retry' \in [Tasks -> {"none", "posted", "alive", "over"}]
             /\ codegen = "CLOSED" => retry' = retry
             /\ storeOpen' \in BOOLEAN
             /\ ~storeOpen' => main.at \in Closing /\ registered' = {}
             /\ FutureFits(t)' /\ DropFits(t)'
             /\ \A u \in Tasks \ {t} : Untouched(u)
  <2>1. TypesFit'
    BY <1>0, <1>1 DEF TypesFit, ShutdownTypeOK, Callbacks, Unhooked
  <2>2. RetriesFit' /\ CloseFits'
    BY <1>0, <1>1 DEF RetriesFit, CloseFits
  <2>3. \A u \in Tasks : FutureFits(u)' /\ DropFits(u)'
    BY <1>1, OneTaskFits DEF LoopMoves
  <2> QED
    BY <2>1, <2>2, <2>3 DEF StopInv
<1>2. CASE RunFuture(t)
  <2>1. /\ future[t] = "pending" /\ future' = [future EXCEPT ![t] = "running"]
        /\ UNCHANGED <<rows, callbacks, registered, storeOpen, retry>>
    BY <1>2 DEF RunFuture, storeVars, codegenVars
  <2> QED
    BY <1>0, <1>1, <2>1 DEF FutureFits, DropFits, Untouched, Exists, CloseFits
<1>3. CASE StartWork(t) \/ FinishWork(t)
  <2>1. UNCHANGED <<future, callbacks, registered, storeOpen, retry>> /\ future[t] = "running"
    BY <1>3 DEF StartWork, FinishWork, stopVars, codegenVars, futureVars
  <2>2. \/ rows[t].status = "PENDING" /\ rows'[t].status = "RUNNING"
        \/ rows[t].status = "RUNNING" /\ rows'[t].status \in Terminal
    BY <1>0, <1>3, CallsMoveStatus DEF StartWork, FinishWork
  <2>3. \A u \in Tasks \ {t} : rows'[u] = rows[u]
    <3>1. FALSE \in BOOLEAN
      OBVIOUS
    <3>2. TryStart(t) \/ \E out \in Outcome, a \in BOOLEAN : Finalize(t, out, a, FALSE, FALSE)
      BY <1>3 DEF StartWork, FinishWork
    <3> QED
      BY <1>0, <3>2, CallsMoveStatus
  <2>4. FutureFits(t)'
    BY <1>0, <1>1, <2>1, <2>2 DEF FutureFits, Exists, Terminal
  <2>5. DropFits(t)'
    BY <1>0, <1>1, <2>1, <2>2 DEF DropFits
  <2> QED
    BY <1>0, <1>1, <2>1, <2>3, <2>4, <2>5 DEF Untouched, CloseFits
<1>4. CASE SettleFuture(t)
  <2>1. /\ future[t] = "running" /\ future' = [future EXCEPT ![t] = "finished"]
        /\ UNCHANGED <<rows, callbacks, registered, storeOpen, retry>>
    BY <1>4 DEF SettleFuture, storeVars, codegenVars
  <2> QED
    BY <1>0, <1>1, <2>1 DEF FutureFits, DropFits, Untouched, Exists, CloseFits, Done
<1>5. CASE RunCallback(t)
  <2>1. /\ future[t] = "finished" /\ callbacks[t] # <<>>
        /\ callbacks' = [callbacks EXCEPT ![t] = Tail(@)]
        /\ UNCHANGED <<rows, future, retry>>
    BY <1>5 DEF RunCallback, storeVars, codegenVars
  <2>2. callbacks'[t] = Tail(callbacks[t]) /\ callbacks'[t] \in {<<>>, <<"close">>}
        /\ (callbacks[t] \in Unhooked => callbacks'[t] = <<>>)
    BY <1>0, <2>1, CallbackLists, ListsDiffer DEF Callbacks, Unhooked
  <2>3. callbacks' \in [Tasks -> Callbacks]
    BY <1>0, <2>1, <2>2 DEF Callbacks, Unhooked
  <2>4. FutureFits(t)'
    BY <1>0, <1>1, <2>1, <2>2, ListsDiffer DEF FutureFits, Exists, Unhooked
  <2>5. DropFits(t)'
    BY <1>0, <1>1, <2>1 DEF DropFits
  <2>6. /\ registered' \subseteq registered /\ storeOpen' \in BOOLEAN
        /\ \A u \in Tasks \ {t} : u \in registered' <=> u \in registered
    BY <1>0, <1>5 DEF RunCallback, CloseIfLast
  <2>7. ~storeOpen' => main.at \in Closing /\ registered' = {}
    <3>1. CASE storeOpen' = storeOpen
      BY <1>0, <2>6, <3>1 DEF CloseFits
    <3>2. CASE /\ Head(callbacks[t]) = "close" /\ CloseIfLast(registered)
               /\ UNCHANGED registered
      <4>1. callbacks[t] \notin Unhooked
        BY <2>1, <3>2, CallbackHeads DEF Unhooked
      <4> QED
        BY <1>0, <3>2, <4>1 DEF FutureFits, CloseIfLast, CloseFits
    <3> QED
      BY <1>5, <3>1, <3>2 DEF RunCallback
  <2> QED
    BY <1>0, <1>1, <2>1, <2>3, <2>4, <2>5, <2>6, <2>7 DEF Untouched
<1>6. CASE PostRetry(t)
  <2>1. /\ codegen = "RUNNING" /\ retry' = [retry EXCEPT ![t] = "posted"]
        /\ UNCHANGED <<rows, future, callbacks, registered, storeOpen>>
    BY <1>6 DEF PostRetry, storeVars, futureVars
  <2> QED
    BY <1>0, <1>1, <2>1 DEF FutureFits, DropFits, Untouched, Exists, CloseFits
<1> QED
  BY <1>2, <1>3, <1>4, <1>5, <1>6 DEF PoolThread

\* The retries in the server's loop.
LEMMA RetryFits ==
    ASSUME StopInv, StoreInv', NEW t \in Tasks, StartRetry(t) \/ RetryEnds(t)
    PROVE  StopInv'
<1>1. /\ UNCHANGED <<storeVars, main, todo, lifecycle, futureVars, storeOpen, codegen,
                     unstopped>>
      /\ \E now \in {"alive", "over"} :
            /\ retry' = [retry EXCEPT ![t] = now]
            /\ now = "alive" => codegen = "RUNNING"
  BY DEF StartRetry, RetryEnds, MayStartRetry
<1>2. retry \in [Tasks -> {"none", "posted", "alive", "over"}]
  BY DEF StopInv, TypesFit, ShutdownTypeOK
<1>3. TypesFit'
  BY <1>1, <1>2 DEF StopInv, TypesFit, ShutdownTypeOK, StoreInv, futureVars
<1>4. RetriesFit'
  BY <1>1, <1>2 DEF StopInv, RetriesFit
<1>5. CloseFits' /\ \A u \in Tasks : FutureFits(u)' /\ DropFits(u)'
  BY <1>1 DEF StopInv, CloseFits, FutureFits, DropFits, Exists, storeVars, futureVars
<1> QED
  BY <1>3, <1>4, <1>5 DEF StopInv

\* The steps of the lifespan that concern no task in particular.
LEMMA LifespanFits ==
    ASSUME StopInv, StoreInv',
           \/ BeginShutdown \/ AllStopped \/ AllCancelled \/ StopWaiting
           \/ BeginRetiring \/ EndRetiring \/ CloseResources \/ AllHooked
    PROVE  StopInv'
<1>1. UNCHANGED <<storeVars, future, callbacks, registered, retry, unstopped>>
  BY DEF BeginShutdown, AllStopped, AllCancelled, StopWaiting, BeginRetiring, EndRetiring,
         CloseResources, AllHooked, codegenVars, futureVars
<1>2. TypesFit'
  <2>1. todo' \in SUBSET Tasks
    BY DEF StopInv, TypesFit, ShutdownTypeOK, BeginShutdown, ToCancel, AllStopped,
           AllCancelled, StopWaiting, BeginRetiring, EndRetiring, CloseResources, AllHooked
  <2>2. main' \in [at : {"serving", "attaching", "dropping", "stopping", "cancelling",
                         "polling", "retiring", "closing", "hooking", "ended"},
                   task : Tasks \cup {Nobody}]
    BY DEF StopInv, TypesFit, ShutdownTypeOK, At, BeginShutdown, AllStopped, AllCancelled,
           StopWaiting, BeginRetiring, EndRetiring, CloseResources, AllHooked
  <2>3. /\ lifecycle' \in {"RUNNING", "CLOSING", "CLOSED"}
        /\ codegen' \in {"RUNNING", "CLOSING", "CLOSED"}
        /\ storeOpen' \in BOOLEAN
    BY DEF StopInv, TypesFit, ShutdownTypeOK, BeginShutdown, AllStopped, AllCancelled,
           StopWaiting, BeginRetiring, EndRetiring, CloseResources, AllHooked, codegenVars
  <2> QED
    BY <1>1, <2>1, <2>2, <2>3 DEF StopInv, TypesFit, ShutdownTypeOK, StoreInv
<1>3. main'.at \in {"stopping", "cancelling", "polling", "retiring", "closing", "hooking",
                    "ended"}
  BY DEF BeginShutdown, AllStopped, AllCancelled, StopWaiting, BeginRetiring, EndRetiring,
         CloseResources, AllHooked, At
<1>4. \A t \in Tasks : main' # For("attaching", t) /\ main' # For("dropping", t)
  BY <1>3 DEF For
<1>5. RetriesFit'
  BY <1>1 DEF StopInv, RetriesFit, AfterRetiring, BeginShutdown, AllStopped, AllCancelled,
              StopWaiting, BeginRetiring, EndRetiring, AllRetired, CloseResources, AllHooked,
              At, codegenVars
<1>6. CloseFits'
  BY <1>1 DEF StopInv, CloseFits, Closing, BeginShutdown, AllStopped, AllCancelled,
              StopWaiting, BeginRetiring, EndRetiring, CloseResources, AllHooked, At
<1>7. ASSUME NEW t \in Tasks PROVE FutureFits(t)'
  <2>1. FutureFits(t) /\ Exists(t)' = Exists(t)
    BY <1>1 DEF StopInv, Exists, storeVars
  <2>2. main'.at \notin Closing => main.at \notin Closing
    BY <1>3 DEF Closing, BeginShutdown, AllStopped, AllCancelled, StopWaiting,
                BeginRetiring, EndRetiring, CloseResources, AllHooked, At
  <2>3. main'.at = "hooking" => main.at \notin Closing
    BY DEF Closing, BeginShutdown, AllStopped, AllCancelled, StopWaiting, BeginRetiring,
           EndRetiring, CloseResources, AllHooked, At
  <2> QED
    BY <1>1, <1>4, <2>1, <2>2, <2>3 DEF FutureFits
<1>8. ASSUME NEW t \in Tasks PROVE DropFits(t)'
  <2>1. DropFits(t) /\ rows' = rows /\ future' = future /\ unstopped' = unstopped
    BY <1>1 DEF StopInv, storeVars
  <2>2. CASE BeginShutdown
    <3>1. future[t] = "pending" /\ t \notin todo' => rows[t].status = "CANCELLED"
      BY <2>1, <2>2 DEF DropFits, BeginShutdown, ToCancel, Active
    <3>2. main'.at = "stopping"
      BY <2>2 DEF BeginShutdown, At
    <3> QED
      BY <1>4, <2>1, <3>1, <3>2 DEF DropFits, AfterStopping
  <2>3. CASE AllStopped
    <3>1. main.at = "stopping" /\ t \notin todo /\ main'.at = "cancelling"
      BY <2>3 DEF AllStopped, At
    <3> QED
      BY <1>4, <2>1, <3>1 DEF DropFits
  <2>4. CASE ~BeginShutdown /\ ~AllStopped
    <3>1. main.at \in AfterStopping /\ main'.at # "stopping"
      BY <2>4 DEF AllCancelled, StopWaiting, BeginRetiring, EndRetiring, CloseResources,
                  AllHooked, At, AfterStopping
    <3> QED
      BY <1>4, <2>1, <3>1 DEF DropFits
  <2> QED
    BY <2>2, <2>3, <2>4
<1> QED
  BY <1>2, <1>5, <1>6, <1>7, <1>8 DEF StopInv

\* Dropping all that nobody runs yet.
LEMMA ListingFailsFits ==
    ASSUME StopInv, StoreInv', ListingFails
    PROVE  StopInv'
<1> DEFINE dropped == {t \in Tasks : future[t] = "pending"}
<1>0. /\ future \in [Tasks -> {"none", "pending", "running"} \cup Done]
      /\ callbacks \in [Tasks -> Callbacks] /\ registered \in SUBSET Tasks
      /\ ShutdownTypeOK /\ TypeOK' /\ CloseFits /\ RetriesFit
      /\ \A t \in Tasks : FutureFits(t) /\ DropFits(t)
  BY DEF StopInv, TypesFit, ShutdownTypeOK, StoreInv
<1>1. /\ main.at = "serving" /\ main'.at = "retiring" /\ lifecycle' = "CLOSED"
      /\ UNCHANGED <<rows, todo, storeOpen, codegen, retry>>
      /\ main' = [at |-> "retiring", task |-> Nobody]
      /\ registered' = registered \ dropped /\ unstopped' = unstopped \cup dropped
      /\ future' = [t \in Tasks |-> IF t \in dropped THEN "cancelled" ELSE future[t]]
      /\ callbacks' = [t \in Tasks |-> IF t \in dropped THEN <<>> ELSE callbacks[t]]
  BY DEF ListingFails, At, storeVars, codegenVars
<1>2. ASSUME NEW t \in Tasks
      PROVE  /\ t \in dropped => future'[t] = "cancelled" /\ callbacks'[t] = <<>>
             /\ t \notin dropped => future'[t] = future[t] /\ callbacks'[t] = callbacks[t]
             /\ t \in dropped <=> future[t] = "pending"
             /\ callbacks'[t] \in Callbacks
  BY <1>0, <1>1 DEF Callbacks, Unhooked
<1>3. TypesFit'
  <2>1. /\ future' \in [Tasks -> {"none", "pending", "running"} \cup Done]
        /\ callbacks' \in [Tasks -> Callbacks]
    BY <1>0, <1>1, <1>2 DEF Done
  <2>2. unstopped' \in SUBSET Tasks /\ registered' \in SUBSET Tasks
    BY <1>0, <1>1 DEF ShutdownTypeOK
  <2> QED
    BY <1>0, <1>1, <2>1, <2>2 DEF TypesFit, ShutdownTypeOK, Callbacks, Unhooked
<1>4. ASSUME NEW t \in Tasks PROVE FutureFits(t)' /\ DropFits(t)'
  <2>1. main' # For("attaching", t) /\ main' # For("dropping", t)
    BY <1>1 DEF For
  <2>2. FutureFits(t)'
    BY <1>0, <1>1, <1>2, <2>1, ListsDiffer DEF FutureFits, Exists, Closing, Unhooked
  <2>3. DropFits(t)'
    BY <1>0, <1>1, <1>2, <2>1 DEF DropFits
  <2> QED
    BY <2>2, <2>3
<1>5. RetriesFit' /\ CloseFits'
  BY <1>0, <1>1 DEF RetriesFit, CloseFits, AfterRetiring, Closing
<1> QED
  BY <1>3, <1>4, <1>5 DEF StopInv

\* The steps of the shutdown that visit one task.
LEMMA VisitFits ==
    ASSUME StopInv, StoreInv, StoreInv', NEW t \in Tasks,
           StopTask(t) \/ StopFails(t) \/ CancelRegistered(t) \/ HookFuture(t)
    PROVE  StopInv'
<1>0. /\ future \in [Tasks -> {"none", "pending", "running"} \cup Done]
      /\ callbacks \in [Tasks -> Callbacks] /\ registered \in SUBSET Tasks
      /\ FutureFits(t) /\ DropFits(t) /\ RetriesFit /\ CloseFits
      /\ ShutdownTypeOK /\ TypeOK /\ TypeOK' /\ RowGood(rows[t])
      /\ storeOpen \in BOOLEAN /\ todo \subseteq Tasks /\ unstopped \subseteq Tasks
  BY DEF StopInv, TypesFit, ShutdownTypeOK, StoreInv
<1>1. /\ UNCHANGED <<main, lifecycle, codegenVars>> /\ todo' = todo \ {t} /\ t \in todo
      /\ main.at \in {"stopping", "cancelling", "hooking"}
      /\ main # For("attaching", t) /\ main # For("dropping", t)
  BY DEF StopTask, StopFails, CancelRegistered, HookFuture, At, For
<1> SUFFICES /\ future' \in [Tasks -> {"none", "pending", "running"} \cup Done]
             /\ callbacks' \in [Tasks -> Callbacks]
             /\ registered' \subseteq registered /\ storeOpen' \in BOOLEAN
             /\ ~storeOpen' => main.at \in Closing /\ registered' = {}
             /\ unstopped' \subseteq Tasks
             /\ FutureFits(t)' /\ DropFits(t)'
             /\ \A u \in Tasks \ {t} : Untouched(u)
  <2>1. TypesFit'
    BY <1>0, <1>1 DEF TypesFit, ShutdownTypeOK, Callbacks, Unhooked, codegenVars
  <2>2. RetriesFit' /\ CloseFits'
    BY <1>0, <1>1 DEF RetriesFit, CloseFits, codegenVars
  <2>3. \A u \in Tasks : FutureFits(u)' /\ DropFits(u)'
    BY <1>1, OneTaskFits DEF LoopMoves
  <2> QED
    BY <2>1, <2>2, <2>3 DEF StopInv
<1>2. CASE StopTask(t)
  <2>1. main.at = "stopping" /\ UNCHANGED <<storeOpen, unstopped>>
    BY <1>2 DEF StopTask, At
  <2>2. /\ \/ rows[t].status = "PENDING" /\ rows'[t].status = "CANCELLED"
           \/ rows'[t].status = rows[t].status
              /\ (rows[t].status = "PENDING" => rows[t].cancel)
        /\ \A u \in Tasks \ {t} : rows'[u] = rows[u]
    <3>1. CASE RequestCancel(t)
      BY <1>0, <3>1, CallsMoveStatus
    <3>2. CASE ~CanRequestCancel(t) /\ UNCHANGED storeVars
      BY <3>2 DEF CanRequestCancel, Active, storeVars
    <3> QED
      BY <1>2, <3>1, <3>2 DEF StopTask
  <2>3. rows'[t].status # "PENDING"
    BY <1>0, <2>2 DEF RowGood
  <2>4. rows[t].status = "CANCELLED" => rows'[t].status = "CANCELLED"
    BY <2>2
  <2>5. Exists(t)' <=> Exists(t)
    BY <2>2 DEF Exists
  <2>6. CASE rows'[t].status = "CANCELLED"
    <3>1. CancelFuture(t)
      BY <1>2, <2>6 DEF StopTask
    <3>2. FutureFits(t)'
      BY <1>0, <1>1, <2>1, <2>5, <3>1, FutureCancelled DEF FutureFits, Unhooked, Closing
    <3>3. DropFits(t)'
      BY <2>6 DEF DropFits
    <3>4. \A u \in Tasks \ {t} : Untouched(u)
      BY <1>0, <1>1, <2>1, <2>2, <3>1, FutureCancelled DEF Untouched
    <3> QED
      BY <1>0, <2>1, <3>1, <3>2, <3>3, <3>4, FutureCancelled DEF CloseFits, Closing
  <2>7. CASE rows'[t].status # "CANCELLED"
    <3>1. UNCHANGED <<future, registered, callbacks>>
      BY <1>2, <2>7 DEF StopTask, futureVars
    <3>2. future[t] # "pending" /\ future[t] # "cancelled"
      BY <1>0, <2>3, <2>4, <2>7, <2>2 DEF DropFits
    <3>3. FutureFits(t)'
      BY <1>0, <1>1, <2>1, <2>5, <3>1 DEF FutureFits
    <3>4. DropFits(t)'
      BY <1>1, <3>1, <3>2 DEF DropFits
    <3>5. \A u \in Tasks \ {t} : Untouched(u)
      BY <1>1, <2>1, <2>2, <3>1 DEF Untouched
    <3> QED
      BY <1>0, <2>1, <3>1, <3>3, <3>4, <3>5 DEF CloseFits
  <2> QED
    BY <2>6, <2>7
<1>5. CASE StopFails(t)
  <2>1. /\ unstopped' = unstopped \cup {t}
        /\ UNCHANGED <<rows, future, callbacks, registered, storeOpen>>
    BY <1>5 DEF StopFails, storeVars, futureVars
  <2>2. FutureFits(t)' /\ DropFits(t)'
    BY <1>0, <1>1, <2>1 DEF FutureFits, DropFits, Exists
  <2> QED
    BY <1>0, <1>1, <2>1, <2>2 DEF Untouched, CloseFits
<1>3. CASE CancelRegistered(t)
  <2>1. /\ main.at = "cancelling" /\ UNCHANGED <<storeOpen, unstopped>> /\ rows' = rows
        /\ CancelFuture(t)
    BY <1>3 DEF CancelRegistered, At, storeVars
  <2>2. FutureFits(t)'
    BY <1>0, <1>1, <2>1, FutureCancelled DEF FutureFits, Exists, Unhooked, Closing
  <2>3. DropFits(t)'
    BY <1>0, <1>1, <2>1, FutureCancelled DEF DropFits, AfterStopping
  <2>4. \A u \in Tasks \ {t} : Untouched(u)
    BY <1>0, <1>1, <2>1, FutureCancelled DEF Untouched
  <2> QED
    BY <1>0, <2>1, <2>2, <2>3, <2>4, FutureCancelled DEF CloseFits, Closing
<1>4. CASE HookFuture(t)
  <2>1. main.at = "hooking" /\ UNCHANGED <<rows, future, registered, unstopped>>
    BY <1>4 DEF HookFuture, At, storeVars
  <2>2. callbacks[t] \in Unhooked
    BY <1>0, <1>1, <2>1 DEF FutureFits
  <2>3. \/ callbacks' = callbacks
        \/ /\ callbacks' = [callbacks EXCEPT ![t] = Append(@, "close")]
           /\ callbacks'[t] \in Callbacks
           /\ callbacks[t] # <<"forget">> => callbacks'[t] = <<"close">>
    BY <1>0, <1>4, <2>2, CallbackLists DEF HookFuture, Callbacks, Unhooked
  <2>4. callbacks' \in [Tasks -> Callbacks] /\ \A u \in Tasks \ {t} : callbacks'[u] = callbacks[u]
    BY <1>0, <2>3
  <2>5. FutureFits(t)'
    BY <1>0, <1>1, <2>1, <2>2, <2>3, ListsDiffer DEF FutureFits, Exists, Unhooked, Closing
  <2>6. DropFits(t)'
    BY <1>0, <1>1, <2>1 DEF DropFits, AfterStopping
  <2>7. storeOpen' \in BOOLEAN /\ (~storeOpen' => main.at \in Closing /\ registered' = {})
    BY <1>0, <1>4, <2>1 DEF HookFuture, CloseIfLast, CloseFits, Closing
  <2>8. \A u \in Tasks \ {t} : Untouched(u)
    BY <1>1, <2>1, <2>4 DEF Untouched
  <2> QED
    BY <1>0, <2>1, <2>4, <2>5, <2>6, <2>7, <2>8
<1> QED
  BY <1>2, <1>3, <1>4, <1>5

LEMMA StopInvKept ==
    ASSUME StopInv, StoreInv, StoreInv', [ShutdownNext]_vars
    PROVE  StopInv'
<1>1. CASE UNCHANGED vars
  BY <1>1 DEF vars, stopVars, futureVars, codegenVars, storeVars, StopInv, TypesFit, ShutdownTypeOK,
              StoreInv, RetriesFit, CloseFits, FutureFits, DropFits, Exists
<1> QED
  BY <1>1, ServingFits, PoolFits, RetryFits, LifespanFits, ListingFailsFits, VisitFits
     DEF ShutdownNext, Stopping

LEMMA StopInvHolds == ShutdownSpec => []StopInv
BY InitiallyStopInv, StopInvKept, StoreInvBelow, PTL DEF ShutdownSpec

-----------------------------------------------------------------------------
(***************************************************************************)
(* What follows.                                                           *)
(***************************************************************************)
\* The variables keep their types, and no future is dropped, by a client or by
\* the shutdown, whose row is not closed.
THEOREM DroppedFuturesHaveEnded == ShutdownSpec => []ShutdownInv
<1>1. StopInv => ShutdownInv
  BY DEF StopInv, TypesFit, DropFits, ShutdownInv, DroppedFuturesAreClosed
<1> QED
  BY <1>1, StopInvHolds, PTL

\* The database is closed after its last user: no worker and no retry of the
\* code generation service can write to it any more, nor will one come.
THEOREM DatabaseOutlivesItsUsers == ShutdownSpec => []NoUseAfterClose
<1>1. StopInv => NoUseAfterClose
  <2> SUFFICES ASSUME StopInv, ~storeOpen, NEW t \in Tasks
               PROVE  future[t] \notin {"pending", "running"} /\ retry[t] # "alive"
    BY DEF NoUseAfterClose
  <2>1. registered = {} /\ main.at \in AfterRetiring
    BY DEF StopInv, CloseFits, Closing, AfterRetiring
  <2> QED
    BY <2>1 DEF StopInv, FutureFits, RetriesFit
<1> QED
  BY <1>1, StopInvHolds, PTL

-----------------------------------------------------------------------------
(***************************************************************************)
(* Logs and their followers.                                               *)
(*                                                                         *)
(* What a client was sent and what is on its way to it are pieces of the   *)
(* log that lie end to end.  So the invariant is about the borders of the  *)
(* pieces: after lo up to r is received, up to b in what is left of the    *)
(* snapshot, up to q in the queue, and up to the last event in the staging *)
(* area, if the follower has not overflowed.                               *)
(***************************************************************************)
\* s consists of the events after lo up to hi.
Piece(s, lo, hi) ==
    /\ s \in Seq(Nat) /\ Len(s) = hi - lo
    /\ \A i \in 1..Len(s) : s[i] = lo + i

LEMMA NoPiece == \A lo \in Nat : Piece(<<>>, lo, lo)
BY DEF Piece

LEMMA EmptyPiece ==
    ASSUME NEW s, NEW lo \in Nat, NEW hi \in Nat, Piece(s, lo, hi)
    PROVE  lo <= hi /\ (s = <<>> <=> lo = hi)
BY DEF Piece

LEMMA AppendedPiece ==
    ASSUME NEW s, NEW lo \in Nat, NEW hi \in Nat, Piece(s, lo, hi)
    PROVE  Piece(Append(s, hi + 1), lo, hi + 1)
<1> DEFINE t == Append(s, hi + 1)
<1>1. s \in Seq(Nat) /\ Len(s) = hi - lo /\ hi + 1 \in Nat
  BY DEF Piece
<1>2. /\ t \in Seq(Nat) /\ Len(t) = Len(s) + 1
      /\ \A i \in 1..Len(s) : t[i] = s[i]
      /\ t[Len(s) + 1] = hi + 1
  BY <1>1, AppendProperties
<1> HIDE DEF t
<1>3. \A i \in 1..Len(t) : t[i] = lo + i
  BY <1>1, <1>2 DEF Piece
<1>4. Piece(t, lo, hi + 1)
  BY <1>1, <1>2, <1>3 DEF Piece
<1> QED
  BY <1>4 DEF t

LEMMA HeadOfPiece ==
    ASSUME NEW s, NEW lo \in Nat, NEW hi \in Nat, Piece(s, lo, hi), s # <<>>
    PROVE  Head(s) = lo + 1 /\ lo < hi /\ Piece(Tail(s), lo + 1, hi)
<1>1. /\ s \in Seq(Nat) /\ Len(s) = hi - lo /\ Len(s) \in Nat \ {0}
      /\ Head(s) = s[1] /\ Tail(s) \in Seq(Nat) /\ Len(Tail(s)) = Len(s) - 1
      /\ \A i \in 1..Len(Tail(s)) : Tail(s)[i] = s[i + 1]
  BY HeadTailProperties DEF Piece
<1>2. \A i \in 1..Len(Tail(s)) : Tail(s)[i] = (lo + 1) + i
  BY <1>1 DEF Piece
<1> QED
  BY <1>1, <1>2 DEF Piece

LEMMA JoinedPieces ==
    ASSUME NEW s, NEW t, NEW lo \in Nat, NEW mid \in Nat, NEW hi \in Nat,
           Piece(s, lo, mid), Piece(t, mid, hi)
    PROVE  Piece(s \o t, lo, hi)
<1>1. /\ s \in Seq(Nat) /\ Len(s) = mid - lo /\ Len(s) \in Nat
      /\ t \in Seq(Nat) /\ Len(t) = hi - mid /\ Len(t) \in Nat
  BY DEF Piece
<1>2. /\ s \o t \in Seq(Nat) /\ Len(s \o t) = Len(s) + Len(t)
      /\ \A i \in 1..(Len(s) + Len(t)) :
            (s \o t)[i] = IF i <= Len(s) THEN s[i] ELSE t[i - Len(s)]
  BY <1>1, ConcatProperties
<1>3. ASSUME NEW i \in 1..Len(s \o t) PROVE (s \o t)[i] = lo + i
  <2>1. CASE i <= Len(s)
    BY <1>1, <1>2, <2>1 DEF Piece
  <2>2. CASE i > Len(s)
    <3>1. i - Len(s) \in 1..Len(t) /\ (s \o t)[i] = t[i - Len(s)]
      BY <1>1, <1>2, <2>2
    <3>2. t[i - Len(s)] = mid + (i - Len(s))
      BY <3>1 DEF Piece
    <3> QED
      BY <1>1, <3>1, <3>2
  <2>3. i \in Nat /\ Len(s) \in Nat
    BY <1>1, <1>2
  <2> QED
    BY <2>1, <2>2, <2>3
<1> QED
  BY <1>1, <1>2, <1>3 DEF Piece

\* A piece has no gap, and ends with the event it goes up to.
LEMMA PieceHasNoGap ==
    ASSUME NEW s, NEW lo \in Nat, NEW hi \in Nat, Piece(s, lo, hi)
    PROVE  /\ Contiguous(s)
           /\ lo < hi => s # <<>> /\ Last(s) = hi
<1>1. s \in Seq(Nat) /\ Len(s) = hi - lo /\ Len(s) \in Nat
  BY DEF Piece
<1>2. \A i \in 1..(Len(s) - 1) : i \in 1..Len(s) /\ i + 1 \in 1..Len(s)
  BY <1>1
<1>3. Contiguous(s)
  BY <1>1, <1>2 DEF Piece, Contiguous
<1>4. lo < hi => Len(s) \in 1..Len(s)
  BY <1>1
<1> QED
  BY <1>1, <1>3, <1>4 DEF Piece, Last

LEMMA SpanIsPiece ==
    ASSUME NEW from \in Nat \ {0}, NEW to \in Nat, from <= to + 1
    PROVE  Piece(Span(from, to), from - 1, to)
<1>1. (to + 1) - from \in Nat
  OBVIOUS
<1>2. Span(from, to) \in Seq(Nat) /\ Len(Span(from, to)) = (to + 1) - from
  BY <1>1 DEF Span
<1>3. \A i \in 1..Len(Span(from, to)) : Span(from, to)[i] = (from - 1) + i
  BY <1>2 DEF Span
<1> QED
  BY <1>2, <1>3 DEF Piece

-----------------------------------------------------------------------------
Subscriber == [queue : Seq(Items), staging : Seq(Items), scheduled : BOOLEAN,
               overflowed : BOOLEAN, active : BOOLEAN,
               backlog : Seq(1..MaxEvents), cutover : 0..MaxEvents]

Small(s) == Len(s.queue) <= MaxLines /\ Len(s.staging) <= MaxLines
              /\ Len(s.backlog) <= MaxLines

LogTypes ==
    /\ last \in 0..MaxEvents
    /\ loopOpen \in BOOLEAN
    /\ socket \in [Followers -> {"new", "history", "live", "overflow", "gone"}]
    /\ subscribers \in SUBSET Followers
    /\ subscriber \in [Followers -> Subscriber]
    /\ \A f \in Followers : Small(subscriber[f])
    /\ received \in [Followers -> Seq(1..MaxEvents)]

\* A websocket that is not served yet.
NewFits(f) ==
    /\ socket[f] = "new"
    /\ f \notin subscribers /\ received[f] = <<>> /\ subscriber[f] = NewSubscriber

\* The borders between the pieces of a follower's log.  What is newer than the
\* snapshot is on its way through the queue, or the overflow is.
Borders(f, lo, r, b, q) ==
    LET s == subscriber[f]
    IN  /\ lo <= r /\ r <= b /\ b <= q /\ q <= last
        /\ Piece(received[f], lo, r)
        /\ socket[f] \in {"history", "live"} =>
              /\ Piece(s.backlog, r, b) /\ s.cutover <= b
              /\ \/ Piece(s.queue, b, q)
                 \/ s.queue = <<Overflow>> /\ s.staging = <<>> /\ s.overflowed
        /\ f \in subscribers /\ s.overflowed => s.staging \in {<<>>, <<Overflow>>}
        /\ f \in subscribers /\ ~s.overflowed =>
              /\ Piece(s.queue, b, q) /\ Piece(s.staging, q, last)
              /\ last > 0 => lo < last

\* A follower is subscribed while its handler runs, as long as the loop does.
ServedFits(f) ==
    /\ socket[f] # "new"
    /\ socket[f] \in {"history", "live"} /\ loopOpen => f \in subscribers
    /\ f \in subscribers => socket[f] \in {"history", "live"} /\ subscriber[f].active
    /\ f \notin subscribers => ~subscriber[f].active
    /\ socket[f] = "live" => subscriber[f].backlog = <<>>
    /\ \E lo, r, b, q \in Nat : Borders(f, lo, r, b, q)

FollowerFits(f) == NewFits(f) \/ ServedFits(f)

FollowInv == LogTypes /\ \A f \in Followers : FollowerFits(f)

\* The elements of a piece that ends within the log are events.
LEMMA PieceType ==
    ASSUME NEW s, NEW lo \in Nat, NEW hi \in 0..MaxEvents, Piece(s, lo, hi)
    PROVE  s \in Seq(1..MaxEvents) /\ s \in Seq(Items) /\ Len(s) <= MaxEvents
<1>1. MaxEvents \in Nat /\ s \in Seq(Nat) /\ Len(s) = hi - lo /\ Len(s) \in Nat
  BY LogAssumption DEF Piece
<1>2. \A i \in 1..Len(s) : s[i] \in 1..MaxEvents
  BY <1>1 DEF Piece
<1>3. s \in Seq(1..MaxEvents)
  BY <1>1, <1>2
<1> QED
  BY <1>1, <1>2, <1>3 DEF Items

LEMMA OverflowMarker ==
    /\ <<Overflow>> \in Seq(Items) /\ Len(<<Overflow>>) = 1 /\ Head(<<Overflow>>) = Overflow
    /\ <<Overflow>> # <<>> /\ <<>> \in Seq(Items) /\ Len(<<>>) = 0
    /\ Range(<<Overflow>>) = {Overflow} /\ Range(<<>>) = {}
    /\ MaxLines \in Nat /\ MaxLines >= 1 /\ MaxEvents \in Nat /\ Overflow \notin Nat
<1>1. /\ <<Overflow>> \in Seq(Items) /\ Len(<<Overflow>>) = 1
      /\ Head(<<Overflow>>) = Overflow
      /\ <<Overflow>> # <<>> /\ <<>> \in Seq(Items) /\ Len(<<>>) = 0
  BY DEF Items
<1>2. Range(<<Overflow>>) = {Overflow} /\ Range(<<>>) = {}
  BY DEF Range
<1> QED
  BY <1>1, <1>2, LogAssumption

\* Events only are in the range of a piece.
LEMMA PieceRange ==
    ASSUME NEW s, NEW lo \in Nat, NEW hi \in Nat, Piece(s, lo, hi)
    PROVE  Overflow \notin Range(s)
<1>1. s \in Seq(Nat)
  BY DEF Piece
<1> QED
  BY <1>1, LogAssumption DEF Range

\* The step is one of f's: the others' logs, and the log itself, stay.
OnlyFollower(f) ==
    /\ UNCHANGED <<last, loopOpen>>
    /\ \A u \in Followers \ {f} :
          /\ socket'[u] = socket[u] /\ subscriber'[u] = subscriber[u]
          /\ received'[u] = received[u]
          /\ u \in subscribers' <=> u \in subscribers

LEMMA OtherFollowersFit ==
    ASSUME FollowInv, NEW f \in Followers, OnlyFollower(f), LogTypes', FollowerFits(f)'
    PROVE  FollowInv'
<1>1. ASSUME NEW u \in Followers \ {f} PROVE FollowerFits(u)'
  <2>1. /\ socket'[u] = socket[u] /\ subscriber'[u] = subscriber[u]
        /\ received'[u] = received[u] /\ (u \in subscribers' <=> u \in subscribers)
        /\ last' = last /\ loopOpen' = loopOpen
    BY DEF OnlyFollower
  <2>2. CASE NewFits(u)
    BY <2>1, <2>2 DEF FollowerFits, NewFits
  <2>3. CASE ServedFits(u)
    <3>1. \A lo, r, b, q \in Nat : Borders(u, lo, r, b, q) => Borders(u, lo, r, b, q)'
      BY <2>1 DEF Borders
    <3> QED
      BY <2>1, <2>3, <3>1 DEF FollowerFits, ServedFits
  <2> QED
    BY <2>2, <2>3 DEF FollowInv, FollowerFits
<1> QED
  BY <1>1 DEF FollowInv

LEMMA SubscribeFits ==
    ASSUME FollowInv, NEW f \in Followers, Subscribe(f)
    PROVE  FollowInv'
<1> DEFINE s == [NewSubscriber EXCEPT !.backlog = History, !.cutover = last]
           lo == IF last <= MaxLines THEN 0 ELSE last - MaxLines
<1>1. /\ socket[f] = "new" /\ socket' = [socket EXCEPT ![f] = "history"]
      /\ subscriber' = [subscriber EXCEPT ![f] = s]
      /\ subscribers' = subscribers \cup {f}
      /\ UNCHANGED <<last, loopOpen, received>>
  BY DEF Subscribe
<1>2. /\ last \in Nat /\ MaxLines \in Nat \ {0} /\ lo \in Nat /\ lo <= last
      /\ last - lo <= MaxLines /\ (last > 0 => lo < last) /\ last \in 0..MaxEvents
  BY LogAssumption DEF FollowInv, LogTypes
<1>3. Piece(History, lo, last)
  <2>1. CASE last <= MaxLines
    BY <1>2, <2>1, SpanIsPiece DEF History
  <2>2. CASE last > MaxLines
    <3>1. (last + 1) - MaxLines \in Nat \ {0} /\ (last + 1) - MaxLines <= last + 1
          /\ ((last + 1) - MaxLines) - 1 = last - MaxLines
      BY <1>2, <2>2
    <3> QED
      BY <1>2, <2>2, <3>1, SpanIsPiece DEF History
  <2> QED
    BY <1>2, <2>1, <2>2
<1>4. received[f] = <<>> /\ f \notin subscribers
  BY <1>1 DEF FollowInv, FollowerFits, NewFits, ServedFits
<1>5. /\ s.queue = <<>> /\ s.staging = <<>> /\ ~s.overflowed
      /\ s.active /\ s.backlog = History /\ s.cutover = last
  BY DEF NewSubscriber
<1>6. History \in Seq(1..MaxEvents) /\ Len(History) <= MaxLines
  BY <1>2, <1>3, PieceType DEF Piece
<1>7. s \in Subscriber /\ Small(s)
  <2>1. s \in Subscriber
    BY <1>2, <1>6, OverflowMarker DEF Subscriber, NewSubscriber
  <2> QED
    BY <1>5, <1>6, <2>1, OverflowMarker DEF Small
<1> HIDE DEF s, lo
<1>8. LogTypes'
  BY <1>1, <1>7 DEF FollowInv, LogTypes
<1>9. /\ subscriber'[f] = s /\ socket'[f] = "history" /\ f \in subscribers'
      /\ received'[f] = <<>> /\ last' = last
  BY <1>1, <1>4 DEF FollowInv, LogTypes
<1>10. Piece(<<>>, lo, lo) /\ Piece(<<>>, last, last)
  BY <1>2, NoPiece
<1>11. FollowerFits(f)'
  <2>1. ASSUME NEW m \in Nat, m = lo, NEW n \in Nat, n = last
        PROVE  Borders(f, m, m, n, n)'
    BY <1>2, <1>3, <1>5, <1>9, <1>10, <2>1 DEF Borders
  <2>2. \E m, r, b, q \in Nat : Borders(f, m, r, b, q)'
    BY <1>2, <2>1
  <2>3. ServedFits(f)'
    BY <1>2, <1>5, <1>9, <2>2 DEF ServedFits
  <2> QED
    BY <2>3 DEF FollowerFits
<1>12. OnlyFollower(f)
  BY <1>1 DEF FollowInv, LogTypes, OnlyFollower
<1> QED
  BY <1>8, <1>11, <1>12, OtherFollowersFit

LEMMA SendHistoryFits ==
    ASSUME FollowInv, NEW f \in Followers, SendHistory(f)
    PROVE  FollowInv'
<1>1. socket[f] = "history" /\ loopOpen /\ UNCHANGED <<last, loopOpen, subscribers>>
  BY DEF SendHistory
<1>2. ServedFits(f) /\ f \in subscribers
  BY <1>1 DEF FollowInv, FollowerFits, NewFits, ServedFits
<1>3. PICK lo \in Nat, r \in Nat, b \in Nat, q \in Nat : Borders(f, lo, r, b, q)
  BY <1>2 DEF ServedFits
<1>4. /\ Piece(received[f], lo, r) /\ Piece(subscriber[f].backlog, r, b)
      /\ subscriber[f] \in Subscriber /\ Small(subscriber[f]) /\ last \in 0..MaxEvents
      /\ lo <= r /\ r <= b /\ b <= q /\ q <= last
  BY <1>1, <1>3 DEF FollowInv, LogTypes, Borders
<1>5. ASSUME subscriber[f].backlog # <<>>,
             received' = [received EXCEPT ![f] = Append(@, Head(subscriber[f].backlog))],
             subscriber' = [subscriber EXCEPT ![f].backlog = Tail(@)],
             UNCHANGED socket
      PROVE  FollowInv'
  <2>1. /\ Head(subscriber[f].backlog) = r + 1 /\ r < b
        /\ Piece(Tail(subscriber[f].backlog), r + 1, b)
    BY <1>4, <1>5, HeadOfPiece
  <2>2. received'[f] = Append(received[f], r + 1) /\ Piece(received'[f], lo, r + 1)
    BY <1>4, <1>5, <2>1, AppendedPiece DEF FollowInv, LogTypes
  <2>3. /\ subscriber'[f] = [subscriber[f] EXCEPT !.backlog = Tail(@)]
        /\ subscriber'[f] \in Subscriber /\ Small(subscriber'[f])
    <3>1. r + 1 \in Nat /\ b \in 0..MaxEvents /\ MaxLines \in Nat
      BY <1>4, <2>1, LogAssumption
    <3>2. Tail(subscriber[f].backlog) \in Seq(1..MaxEvents)
      BY <2>1, <3>1, PieceType
    <3>3. Len(Tail(subscriber[f].backlog)) <= MaxLines
      BY <1>4, <2>1, <3>1 DEF Piece, Small
    <3> QED
      BY <1>4, <1>5, <3>2, <3>3 DEF FollowInv, LogTypes, Subscriber, Small
  <2>4. received'[f] \in Seq(1..MaxEvents)
    <3>1. r + 1 \in 0..MaxEvents
      BY <1>4, <2>1, LogAssumption
    <3> QED
      BY <2>2, <3>1, PieceType
  <2>5. LogTypes'
    <3>1. received' \in [Followers -> Seq(1..MaxEvents)]
      BY <1>5, <2>2, <2>4 DEF FollowInv, LogTypes
    <3>2. subscriber' \in [Followers -> Subscriber] /\ \A u \in Followers : Small(subscriber'[u])
      BY <1>5, <2>3 DEF FollowInv, LogTypes
    <3> QED
      BY <1>1, <1>5, <3>1, <3>2 DEF FollowInv, LogTypes
  <2>6. LET s == subscriber[f]
            t == subscriber'[f]
        IN  /\ t.queue = s.queue /\ t.staging = s.staging /\ t.overflowed = s.overflowed
            /\ t.active = s.active /\ t.cutover = s.cutover /\ t.backlog = Tail(s.backlog)
    BY <1>4, <2>3 DEF Subscriber
  <2>7. FollowerFits(f)'
    <3>1. Borders(f, lo, r + 1, b, q)'
      BY <1>1, <1>3, <1>4, <1>5, <2>1, <2>2, <2>6 DEF Borders
    <3>2. \E m, n, o, p \in Nat : Borders(f, m, n, o, p)'
      <4>1. r + 1 \in Nat
        OBVIOUS
      <4> QED
        BY <3>1, <4>1, Zenon
    <3>3. ServedFits(f)'
      BY <1>1, <1>2, <1>5, <2>6, <3>2 DEF ServedFits
    <3> QED
      BY <3>3 DEF FollowerFits
  <2>8. OnlyFollower(f)
    BY <1>1, <1>5 DEF FollowInv, LogTypes, OnlyFollower
  <2> QED
    BY <2>5, <2>7, <2>8, OtherFollowersFit
<1>6. ASSUME subscriber[f].backlog = <<>>, socket' = [socket EXCEPT ![f] = "live"],
             UNCHANGED <<subscriber, received>>
      PROVE  FollowInv'
  <2>1. LogTypes' /\ OnlyFollower(f) /\ socket'[f] = "live"
    BY <1>1, <1>6 DEF FollowInv, LogTypes, OnlyFollower
  <2>2. Borders(f, lo, r, b, q)'
    BY <1>1, <1>3, <1>6, <2>1 DEF Borders
  <2>3. FollowerFits(f)'
    BY <1>1, <1>2, <1>6, <2>1, <2>2 DEF FollowerFits, ServedFits
  <2> QED
    BY <2>1, <2>3, OtherFollowersFit
<1> QED
  BY <1>5, <1>6 DEF SendHistory

\* A handler that comes to its end, whatever was on its way.
LEMMA LeavingFits ==
    ASSUME FollowInv, NEW f \in Followers, loopOpen, socket[f] \in {"history", "live"},
           NEW end \in {"overflow", "gone"}, socket' = [socket EXCEPT ![f] = end],
           Unsubscribed(f), UNCHANGED <<last, loopOpen, received>>
    PROVE  FollowInv'
<1>1. ServedFits(f) /\ f \in subscribers
  BY DEF FollowInv, FollowerFits, NewFits, ServedFits
<1>2. PICK lo \in Nat, r \in Nat, b \in Nat, q \in Nat : Borders(f, lo, r, b, q)
  BY <1>1 DEF ServedFits
<1>3. /\ subscriber[f] \in Subscriber /\ Small(subscriber[f])
      /\ subscriber'[f] = [subscriber[f] EXCEPT !.active = FALSE, !.staging = <<>>]
      /\ subscriber' = [subscriber EXCEPT ![f] = subscriber'[f]]
      /\ subscribers' = subscribers \ {f} /\ socket'[f] = end
  BY <1>1 DEF FollowInv, LogTypes, Unsubscribed, Subscriber
<1>4. subscriber'[f] \in Subscriber /\ Small(subscriber'[f]) /\ ~subscriber'[f].active
  <2>1. subscriber'[f] \in Subscriber
    BY <1>3, OverflowMarker DEF Subscriber
  <2>2. LET s == subscriber[f]
            t == subscriber'[f]
        IN  t.queue = s.queue /\ t.staging = <<>> /\ t.backlog = s.backlog /\ ~t.active
    BY <1>3 DEF Subscriber
  <2> QED
    BY <1>3, <2>1, <2>2, OverflowMarker DEF Small
<1>5. LogTypes'
  BY <1>3, <1>4 DEF FollowInv, LogTypes
<1>6. FollowerFits(f)'
  <2>1. Borders(f, lo, r, b, q)'
    BY <1>2, <1>3 DEF Borders
  <2> QED
    BY <1>3, <1>4, <2>1 DEF FollowerFits, ServedFits
<1>7. OnlyFollower(f)
  BY <1>3 DEF FollowInv, LogTypes, OnlyFollower
<1> QED
  BY <1>5, <1>6, <1>7, OtherFollowersFit

LEMMA DisconnectFits ==
    ASSUME FollowInv, NEW f \in Followers, Disconnect(f)
    PROVE  FollowInv'
<1>1. /\ loopOpen /\ socket[f] \in {"history", "live"} /\ Unsubscribed(f)
      /\ socket' = [socket EXCEPT ![f] = "gone"] /\ UNCHANGED <<last, loopOpen, received>>
  BY DEF Disconnect
<1> QED
  BY <1>1, LeavingFits

LEMMA SendLiveFits ==
    ASSUME FollowInv, NEW f \in Followers, SendLive(f)
    PROVE  FollowInv'
<1> DEFINE item == Head(subscriber[f].queue)
<1>1. /\ loopOpen /\ socket[f] = "live" /\ subscriber[f].queue # <<>>
      /\ UNCHANGED <<last, loopOpen>>
  BY DEF SendLive
<1>2. CASE item = Overflow
  <2>1. /\ socket' = [socket EXCEPT ![f] = "overflow"] /\ Unsubscribed(f)
        /\ UNCHANGED received
    BY <1>2 DEF SendLive
  <2> QED
    BY <1>1, <2>1, LeavingFits
<1>3. CASE item # Overflow
  <2>1. /\ received' = IF item > subscriber[f].cutover
                       THEN [received EXCEPT ![f] = Append(@, item)]
                       ELSE received
        /\ subscriber' = [subscriber EXCEPT ![f].queue = Tail(@)]
        /\ UNCHANGED <<socket, subscribers>>
    BY <1>3 DEF SendLive
  <2>2. ServedFits(f) /\ f \in subscribers /\ subscriber[f].backlog = <<>>
    BY <1>1 DEF FollowInv, FollowerFits, NewFits, ServedFits
  <2>3. PICK lo \in Nat, r \in Nat, b \in Nat, q \in Nat : Borders(f, lo, r, b, q)
    BY <2>2 DEF ServedFits
  <2>4. /\ Piece(received[f], lo, r) /\ Piece(subscriber[f].backlog, r, b)
        /\ subscriber[f] \in Subscriber /\ Small(subscriber[f]) /\ last \in 0..MaxEvents
        /\ lo <= r /\ r <= b /\ b <= q /\ q <= last /\ subscriber[f].cutover <= b
        /\ subscriber[f].cutover \in Nat
    BY <1>1, <2>3, LogAssumption DEF FollowInv, LogTypes, Borders, Subscriber
  <2>5. r = b /\ Piece(<<>>, b + 1, b + 1)
    BY <2>2, <2>4, EmptyPiece, NoPiece
  <2>6. Piece(subscriber[f].queue, b, q)
    BY <1>1, <1>3, <2>3, OverflowMarker DEF Borders
  <2>7. item = b + 1 /\ b < q /\ Piece(Tail(subscriber[f].queue), b + 1, q)
    BY <1>1, <2>6, HeadOfPiece
  <2>8. /\ received' = [received EXCEPT ![f] = Append(@, b + 1)]
        /\ received'[f] = Append(received[f], b + 1) /\ Piece(received'[f], lo, b + 1)
    <3>1. item > subscriber[f].cutover
      BY <2>4, <2>7
    <3>2. /\ received' = [received EXCEPT ![f] = Append(@, b + 1)]
          /\ received'[f] = Append(received[f], b + 1)
      BY <2>1, <2>7, <3>1 DEF FollowInv, LogTypes
    <3> QED
      BY <2>4, <2>5, <3>2, AppendedPiece
  <2>9. b + 1 \in 0..MaxEvents /\ q \in 0..MaxEvents /\ MaxLines \in Nat
    BY <2>4, <2>7, LogAssumption
  <2>10. LET s == subscriber[f]
             t == subscriber'[f]
         IN  /\ t \in Subscriber /\ Small(t)
             /\ t.queue = Tail(s.queue) /\ t.staging = s.staging
             /\ t.overflowed = s.overflowed /\ t.active = s.active
             /\ t.cutover = s.cutover /\ t.backlog = s.backlog
    <3>1. Tail(subscriber[f].queue) \in Seq(Items)
      <4>1. b + 1 \in Nat
        OBVIOUS
      <4> QED
        BY <2>7, <2>9, <4>1, PieceType
    <3>2. Len(Tail(subscriber[f].queue)) <= MaxLines
      BY <2>4, <2>6, <2>7, <2>9 DEF Piece, Small
    <3>3. subscriber'[f] = [subscriber[f] EXCEPT !.queue = Tail(@)]
      BY <2>1 DEF FollowInv, LogTypes
    <3> QED
      BY <2>4, <3>1, <3>2, <3>3 DEF Subscriber, Small
  <2>11. LogTypes'
    <3>1. received' \in [Followers -> Seq(1..MaxEvents)]
      <4>1. received'[f] \in Seq(1..MaxEvents)
        BY <2>8, <2>9, PieceType
      <4> QED
        BY <2>8, <4>1 DEF FollowInv, LogTypes
    <3>2. subscriber' \in [Followers -> Subscriber] /\ \A u \in Followers : Small(subscriber'[u])
      BY <2>1, <2>10 DEF FollowInv, LogTypes
    <3> QED
      BY <1>1, <2>1, <3>1, <3>2 DEF FollowInv, LogTypes
  <2>12. FollowerFits(f)'
    <3>1. Piece(<<>>, b + 1, b + 1) /\ b + 1 <= q /\ lo <= b + 1 /\ b + 1 \in Nat
          /\ subscriber[f].cutover <= b + 1
      BY <2>4, <2>5, <2>7
    <3>2. Borders(f, lo, b + 1, b + 1, q)'
      BY <1>1, <2>1, <2>2, <2>3, <2>4, <2>7, <2>8, <2>10, <3>1 DEF Borders
    <3>3. \E m, n, o, p \in Nat : Borders(f, m, n, o, p)'
      BY <3>1, <3>2, Zenon
    <3>4. ServedFits(f)'
      BY <1>1, <2>1, <2>2, <2>10, <3>3 DEF ServedFits
    <3> QED
      BY <3>4 DEF FollowerFits
  <2>13. OnlyFollower(f)
    BY <1>1, <2>1, <2>8 DEF FollowInv, LogTypes, OnlyFollower
  <2> QED
    BY <2>11, <2>12, <2>13, OtherFollowersFit
<1> QED
  BY <1>2, <1>3

\* What the loop makes of a subscriber whose drain was scheduled.
LEMMA DrainedType ==
    ASSUME NEW s \in Subscriber, Small(s)
    PROVE  LET t == [Drained(s) EXCEPT !.scheduled = FALSE]
           IN  /\ t \in Subscriber /\ Small(t)
               /\ t.active = s.active /\ t.backlog = s.backlog /\ t.cutover = s.cutover
               /\ t.staging = <<>>
               /\ s.active /\ (Overflow \in Range(s.staging)
                                 \/ Len(s.queue \o s.staging) > MaxLines) =>
                      t.queue = <<Overflow>> /\ t.overflowed
               /\ s.active /\ ~(Overflow \in Range(s.staging)
                                  \/ Len(s.queue \o s.staging) > MaxLines) =>
                      t.queue = s.queue \o s.staging /\ t.overflowed = s.overflowed
<1> DEFINE all == s.queue \o s.staging
           over == Overflow \in Range(s.staging) \/ Len(all) > MaxLines
           t == [Drained(s) EXCEPT !.scheduled = FALSE]
<1>1. all \in Seq(Items) /\ Len(all) \in Nat /\ Len(s.queue) <= MaxLines
      /\ Len(s.backlog) <= MaxLines
  BY ConcatProperties DEF Subscriber, Small
<1> HIDE DEF all
<1>2. CASE ~s.active
  <2>1. t = [s EXCEPT !.staging = <<>>, !.scheduled = FALSE]
    BY <1>2 DEF Drained
  <2>2. t \in Subscriber
    BY <2>1, OverflowMarker DEF Subscriber
  <2>3. t.queue = s.queue /\ t.staging = <<>> /\ t.backlog = s.backlog
        /\ t.active = s.active /\ t.cutover = s.cutover
    BY <2>1 DEF Subscriber
  <2> HIDE DEF t
  <2>4. Small(t)
    BY <1>1, <2>3, OverflowMarker DEF Small
  <2> QED
    BY <1>2, <2>2, <2>3, <2>4 DEF t
<1>3. CASE s.active /\ over
  <2>1. t = [s EXCEPT !.queue = <<Overflow>>, !.staging = <<>>, !.overflowed = TRUE,
                      !.scheduled = FALSE]
    BY <1>3 DEF Drained, DrainedActive, all
  <2>2. t \in Subscriber
    BY <2>1, OverflowMarker DEF Subscriber
  <2>3. t.queue = <<Overflow>> /\ t.staging = <<>> /\ t.backlog = s.backlog
        /\ t.active = s.active /\ t.cutover = s.cutover /\ t.overflowed
    BY <2>1 DEF Subscriber
  <2> HIDE DEF t
  <2>4. Small(t)
    BY <1>1, <2>3, OverflowMarker DEF Small
  <2> QED
    BY <1>3, <2>2, <2>3, <2>4 DEF t, all
<1>4. CASE s.active /\ ~over
  <2>1. t = [s EXCEPT !.queue = all, !.staging = <<>>, !.scheduled = FALSE]
    BY <1>4 DEF Drained, DrainedActive, all
  <2>2. t \in Subscriber
    BY <1>1, <2>1, OverflowMarker DEF Subscriber
  <2>3. t.queue = all /\ t.staging = <<>> /\ t.backlog = s.backlog
        /\ t.active = s.active /\ t.cutover = s.cutover /\ t.overflowed = s.overflowed
    BY <2>1 DEF Subscriber
  <2> HIDE DEF t
  <2>4. Small(t)
    BY <1>1, <1>4, <2>3, OverflowMarker DEF Small
  <2> QED
    BY <1>4, <2>2, <2>3, <2>4 DEF t, all
<1> QED
  BY <1>2, <1>3, <1>4 DEF all

LEMMA DrainFits ==
    ASSUME FollowInv, NEW f \in Followers, Drain(f)
    PROVE  FollowInv'
<1> DEFINE s == subscriber[f]
           t == [Drained(s) EXCEPT !.scheduled = FALSE]
<1>1. /\ s.scheduled /\ subscriber' = [subscriber EXCEPT ![f] = t]
      /\ UNCHANGED <<last, loopOpen, socket, subscribers, received>>
      /\ s \in Subscriber /\ Small(s) /\ subscriber'[f] = t
  BY DEF Drain, FollowInv, LogTypes
<1>2. /\ t \in Subscriber /\ Small(t)
      /\ t.active = s.active /\ t.backlog = s.backlog /\ t.cutover = s.cutover
      /\ t.staging = <<>>
      /\ s.active /\ (Overflow \in Range(s.staging)
                        \/ Len(s.queue \o s.staging) > MaxLines) =>
             t.queue = <<Overflow>> /\ t.overflowed
      /\ s.active /\ ~(Overflow \in Range(s.staging)
                         \/ Len(s.queue \o s.staging) > MaxLines) =>
             t.queue = s.queue \o s.staging /\ t.overflowed = s.overflowed
  BY <1>1, DrainedType
<1> HIDE DEF t
<1>3. ServedFits(f)
  BY <1>1 DEF FollowInv, FollowerFits, NewFits, NewSubscriber
<1>4. PICK lo \in Nat, r \in Nat, b \in Nat, q \in Nat : Borders(f, lo, r, b, q)
  BY <1>3 DEF ServedFits
<1>5. LogTypes'
  BY <1>1, <1>2 DEF FollowInv, LogTypes
<1>6. \E m, n, o, p \in Nat : Borders(f, m, n, o, p)'
  <2>1. CASE f \notin subscribers
    <3>1. ~s.active
      BY <1>3, <2>1 DEF ServedFits
    <3>2. \/ socket[f] \notin {"history", "live"}
          \/ ~loopOpen
      BY <1>3, <2>1 DEF ServedFits
    <3>3. socket[f] \notin {"history", "live"}
      BY <3>2 DEF Drain
    <3>4. Borders(f, lo, r, b, q)'
      BY <1>1, <1>4, <2>1, <3>3 DEF Borders
    <3> QED
      BY <3>4, Zenon
  <2>2. CASE f \in subscribers /\ s.overflowed
    <3>1. s.active /\ s.staging \in {<<>>, <<Overflow>>} /\ s.queue \in Seq(Items)
      BY <1>1, <1>3, <1>4, <2>2 DEF ServedFits, Borders, Subscriber
    <3>2. /\ t.overflowed
          /\ t.queue = <<Overflow>> \/ t.queue = s.queue
      <4>1. s.staging = <<>> => s.queue \o s.staging = s.queue
        BY <3>1, ConcatEmptySeq
      <4>2. s.staging = <<Overflow>> => Overflow \in Range(s.staging)
        BY OverflowMarker
      <4> QED
        BY <1>2, <2>2, <3>1, <4>1, <4>2
    <3>3. Borders(f, lo, r, b, q)'
      BY <1>1, <1>2, <1>4, <2>2, <3>2 DEF Borders
    <3> QED
      BY <3>3, Zenon
  <2>3. CASE f \in subscribers /\ ~s.overflowed
    <3>1. /\ s.active /\ socket[f] \in {"history", "live"}
          /\ Piece(s.queue, b, q) /\ Piece(s.staging, q, last) /\ last \in Nat
          /\ (last > 0 => lo < last) /\ q <= last
      BY <1>1, <1>3, <1>4, <2>3, LogAssumption DEF ServedFits, Borders, FollowInv, LogTypes
    <3>2. Piece(s.queue \o s.staging, b, last) /\ Piece(<<>>, last, last)
      BY <3>1, JoinedPieces, NoPiece
    <3>3. ASSUME NEW n \in Nat, n = last PROVE \E m, k, o, p \in Nat : Borders(f, m, k, o, p)'
      <4>1. CASE t.queue = <<Overflow>> /\ t.overflowed
        <5>1. Borders(f, lo, r, b, q)'
          BY <1>1, <1>2, <1>4, <2>3, <3>1, <4>1 DEF Borders
        <5> QED
          BY <5>1, Zenon
      <4>2. CASE t.queue = s.queue \o s.staging /\ t.overflowed = s.overflowed
        <5>1. /\ Piece(t.queue, b, n) /\ Piece(t.staging, n, n) /\ b <= n
              /\ ~t.overflowed /\ last' = n /\ (n > 0 => lo < n)
          BY <1>1, <1>2, <1>4, <2>3, <3>1, <3>2, <3>3, <4>2 DEF Borders
        <5>2. /\ lo <= r /\ r <= b /\ Piece(received[f], lo, r)
              /\ Piece(s.backlog, r, b) /\ s.cutover <= b
          BY <1>4, <3>1 DEF Borders
        <5>3. Borders(f, lo, r, b, n)'
          BY <1>1, <1>2, <5>1, <5>2 DEF Borders
        <5> QED
          BY <5>3, Zenon
      <4> QED
        BY <1>2, <3>1, <4>1, <4>2
    <3> QED
      BY <3>1, <3>3
  <2> QED
    BY <2>1, <2>2, <2>3
<1>7. ServedFits(f)'
  BY <1>1, <1>2, <1>3, <1>6 DEF ServedFits
<1>8. FollowerFits(f)'
  BY <1>7 DEF FollowerFits
<1>9. OnlyFollower(f)
  BY <1>1 DEF FollowInv, LogTypes, OnlyFollower
<1> QED
  BY <1>5, <1>8, <1>9, OtherFollowersFit

\* What an event makes of a subscriber.
LEMMA StagedType ==
    ASSUME NEW s \in Subscriber, Small(s), NEW event \in 1..MaxEvents, NEW on \in BOOLEAN
    PROVE  LET t == [Staged(s, event) EXCEPT !.active = on]
           IN  /\ t \in Subscriber /\ Small(t)
               /\ t.active = on /\ t.backlog = s.backlog /\ t.cutover = s.cutover
               /\ t.queue = s.queue
               /\ \/ s.overflowed /\ t.overflowed /\ t.staging = s.staging
                  \/ ~s.overflowed /\ t.overflowed /\ t.staging = <<Overflow>>
                  \/ /\ ~s.overflowed /\ ~t.overflowed
                     /\ t.staging = Append(s.staging, event)
<1> DEFINE t == [Staged(s, event) EXCEPT !.active = on]
<1>1. /\ Len(s.queue) <= MaxLines /\ Len(s.staging) <= MaxLines
      /\ Len(s.backlog) <= MaxLines /\ s.staging \in Seq(Items) /\ event \in Items
  BY DEF Small, Subscriber, Items
<1>2. CASE s.overflowed
  <2>1. t = [s EXCEPT !.active = on]
    BY <1>2 DEF Staged
  <2>2. t \in Subscriber
    BY <2>1 DEF Subscriber
  <2>3. t.queue = s.queue /\ t.staging = s.staging /\ t.backlog = s.backlog
        /\ t.active = on /\ t.cutover = s.cutover /\ t.overflowed = s.overflowed
    BY <2>1 DEF Subscriber
  <2> HIDE DEF t
  <2>4. Small(t)
    BY <1>1, <2>3 DEF Small
  <2> QED
    BY <1>2, <2>2, <2>3, <2>4 DEF t
<1>3. CASE ~s.overflowed /\ Len(s.staging) >= MaxLines
  <2>1. t = [s EXCEPT !.staging = <<Overflow>>, !.overflowed = TRUE, !.scheduled = TRUE,
                      !.active = on]
    BY <1>3 DEF Staged
  <2>2. t \in Subscriber
    BY <2>1, OverflowMarker DEF Subscriber
  <2>3. t.queue = s.queue /\ t.staging = <<Overflow>> /\ t.backlog = s.backlog
        /\ t.active = on /\ t.cutover = s.cutover /\ t.overflowed
    BY <2>1 DEF Subscriber
  <2> HIDE DEF t
  <2>4. Small(t)
    BY <1>1, <2>3, OverflowMarker DEF Small
  <2> QED
    BY <1>3, <2>2, <2>3, <2>4 DEF t
<1>4. CASE ~s.overflowed /\ ~(Len(s.staging) >= MaxLines)
  <2> DEFINE more == Append(s.staging, event)
  <2>1. t = [s EXCEPT !.staging = more, !.scheduled = TRUE, !.active = on]
    BY <1>4 DEF Staged
  <2>2. more \in Seq(Items) /\ Len(more) = Len(s.staging) + 1 /\ Len(s.staging) \in Nat
    BY <1>1, AppendProperties
  <2> HIDE DEF more
  <2>3. t \in Subscriber
    BY <2>1, <2>2 DEF Subscriber
  <2>4. t.queue = s.queue /\ t.staging = more /\ t.backlog = s.backlog
        /\ t.active = on /\ t.cutover = s.cutover /\ t.overflowed = s.overflowed
    BY <2>1 DEF Subscriber
  <2> HIDE DEF t
  <2>5. Small(t)
    BY <1>1, <1>4, <2>2, <2>4, OverflowMarker DEF Small
  <2> QED
    BY <1>4, <2>3, <2>4, <2>5 DEF t, more
<1> QED
  BY <1>2, <1>3, <1>4

LEMMA AppendEventFits ==
    ASSUME FollowInv, AppendEvent
    PROVE  FollowInv'
<1> DEFINE stale == {f \in subscribers : IsStale(subscriber[f])}
           after(f) == [Staged(subscriber[f], last + 1) EXCEPT
                            !.active = subscriber[f].active /\ f \notin stale]
<1>1. /\ last \in Nat /\ last + 1 \in 1..MaxEvents /\ last' = last + 1
      /\ UNCHANGED <<loopOpen, socket, received>>
      /\ subscribers' = subscribers \ stale
      /\ subscribers \in SUBSET Followers /\ subscriber \in [Followers -> Subscriber]
      /\ \A f \in Followers : Small(subscriber[f])
  BY LogAssumption DEF AppendEvent, FollowInv, LogTypes
<1>2. ASSUME NEW f \in subscribers
      PROVE  /\ subscriber'[f] = after(f) /\ subscriber'[f] \in Subscriber
             /\ Small(subscriber'[f])
             /\ LET s == subscriber[f]
                    t == subscriber'[f]
                IN  /\ t.active = (s.active /\ f \notin stale)
                    /\ t.backlog = s.backlog /\ t.cutover = s.cutover /\ t.queue = s.queue
                    /\ \/ s.overflowed /\ t.overflowed /\ t.staging = s.staging
                       \/ ~s.overflowed /\ t.overflowed /\ t.staging = <<Overflow>>
                       \/ /\ ~s.overflowed /\ ~t.overflowed
                          /\ t.staging = Append(s.staging, last + 1)
  <2>1. f \in Followers /\ subscriber[f] \in Subscriber /\ Small(subscriber[f])
        /\ (subscriber[f].active /\ f \notin stale) \in BOOLEAN
    BY <1>1
  <2>2. Staged(subscriber[f], last + 1).active = subscriber[f].active
    BY <2>1 DEF Staged, Subscriber
  <2>3. subscriber'[f] = after(f)
    BY <2>1, <2>2 DEF AppendEvent
  <2>4. PICK on \in BOOLEAN : on = (subscriber[f].active /\ f \notin stale)
    BY <2>1, Zenon
  <2>5. after(f) = [Staged(subscriber[f], last + 1) EXCEPT !.active = on]
    BY <2>4
  <2> HIDE DEF after
  <2>6. /\ after(f) \in Subscriber /\ Small(after(f))
        /\ after(f).active = on /\ after(f).backlog = subscriber[f].backlog
        /\ after(f).cutover = subscriber[f].cutover /\ after(f).queue = subscriber[f].queue
        /\ \/ /\ subscriber[f].overflowed /\ after(f).overflowed
              /\ after(f).staging = subscriber[f].staging
           \/ /\ ~subscriber[f].overflowed /\ after(f).overflowed
              /\ after(f).staging = <<Overflow>>
           \/ /\ ~subscriber[f].overflowed /\ ~after(f).overflowed
              /\ after(f).staging = Append(subscriber[f].staging, last + 1)
    BY <1>1, <2>1, <2>5, StagedType
  <2> QED
    BY <2>3, <2>4, <2>6
<1>3. ASSUME NEW f \in Followers \ subscribers PROVE subscriber'[f] = subscriber[f]
  BY DEF AppendEvent
<1>4. LogTypes'
  <2>1. DOMAIN subscriber' = Followers /\ subscriber' = [f \in Followers |-> subscriber'[f]]
    BY DEF AppendEvent
  <2>2. \A f \in Followers : subscriber'[f] \in Subscriber /\ Small(subscriber'[f])
    BY <1>1, <1>2, <1>3
  <2>3. subscriber' \in [Followers -> Subscriber]
    BY <2>1, <2>2
  <2>4. last' \in 0..MaxEvents
    BY <1>1
  <2> QED
    BY <1>1, <2>2, <2>3, <2>4 DEF FollowInv, LogTypes
<1>5. ASSUME NEW f \in Followers \ subscribers PROVE FollowerFits(f)'
  <2>1. CASE NewFits(f)
    BY <1>1, <1>3, <1>5, <2>1 DEF FollowerFits, NewFits
  <2>2. CASE ServedFits(f)
    <3>1. PICK lo \in Nat, r \in Nat, b \in Nat, q \in Nat : Borders(f, lo, r, b, q)
      BY <2>2 DEF ServedFits
    <3>2. Borders(f, lo, r, b, q)'
      BY <1>1, <1>3, <1>5, <3>1 DEF Borders
    <3>3. \E m, n, o, p \in Nat : Borders(f, m, n, o, p)'
      BY <3>2, Zenon
    <3> QED
      BY <1>1, <1>3, <1>5, <2>2, <3>3 DEF FollowerFits, ServedFits
  <2> QED
    BY <2>1, <2>2 DEF FollowInv, FollowerFits
<1>6. ASSUME NEW f \in subscribers PROVE FollowerFits(f)'
  <2> DEFINE s == subscriber[f]
             t == subscriber'[f]
  <2>0. f \in Followers /\ s \in Subscriber
    BY <1>1
  <2>1. ServedFits(f)
    BY <2>0 DEF FollowInv, FollowerFits, NewFits
  <2>2. PICK lo \in Nat, r \in Nat, b \in Nat, q \in Nat : Borders(f, lo, r, b, q)
    BY <2>1 DEF ServedFits
  <2>3. /\ t.active = (s.active /\ f \notin stale)
        /\ t.backlog = s.backlog /\ t.cutover = s.cutover /\ t.queue = s.queue
        /\ \/ s.overflowed /\ t.overflowed /\ t.staging = s.staging
           \/ ~s.overflowed /\ t.overflowed /\ t.staging = <<Overflow>>
           \/ ~s.overflowed /\ ~t.overflowed /\ t.staging = Append(s.staging, last + 1)
    BY <1>2
  <2>4. /\ lo <= r /\ r <= b /\ b <= q /\ q <= last /\ Piece(received[f], lo, r)
        /\ Piece(s.backlog, r, b) /\ s.cutover <= b
        /\ \/ Piece(s.queue, b, q)
           \/ s.queue = <<Overflow>> /\ s.staging = <<>> /\ s.overflowed
        /\ s.overflowed => s.staging \in {<<>>, <<Overflow>>}
        /\ ~s.overflowed => Piece(s.queue, b, q) /\ Piece(s.staging, q, last)
    BY <2>1, <2>2 DEF Borders, ServedFits
  <2>5. f \in stale => ~s.overflowed /\ ~loopOpen
    BY DEF IsStale
  <2>6. f \in subscribers' <=> f \notin stale
    BY <1>1
  <2> HIDE DEF stale
  <2>7. \E m, n, o, p \in Nat : Borders(f, m, n, o, p)'
    <3>1. CASE t.overflowed
      <4>1. Borders(f, lo, r, b, q)'
        <5>1. q <= last'
          BY <1>1, <2>4
        <5>2. t.staging \in {<<>>, <<Overflow>>}
          BY <2>3, <2>4, <3>1
        <5>3. \/ Piece(t.queue, b, q)
              \/ t.queue = <<Overflow>> /\ t.staging = <<>> /\ t.overflowed
          BY <2>3, <2>4, <3>1
        <5> QED
          BY <1>1, <2>3, <2>4, <3>1, <5>1, <5>2, <5>3 DEF Borders
      <4> QED
        BY <4>1, Zenon
    <3>2. CASE ~t.overflowed
      <4>1. Piece(t.queue, b, q) /\ Piece(t.staging, q, last + 1)
        BY <1>1, <2>3, <2>4, <3>2, AppendedPiece
      <4>2. q <= last + 1 /\ (last + 1 > 0 => lo < last + 1)
        BY <1>1, <2>4
      <4>3. Borders(f, lo, r, b, q)'
        BY <1>1, <2>3, <2>4, <3>2, <4>1, <4>2 DEF Borders
      <4> QED
        BY <4>3, Zenon
    <3> QED
      BY <3>1, <3>2
  <2>8. ServedFits(f)'
    BY <1>1, <2>1, <2>3, <2>5, <2>6, <2>7 DEF ServedFits
  <2> QED
    BY <2>8 DEF FollowerFits
<1> QED
  BY <1>4, <1>5, <1>6 DEF FollowInv

LEMMA CloseLoopFits ==
    ASSUME FollowInv, CloseLoop \/ UNCHANGED logVars
    PROVE  FollowInv'
<1>1. /\ UNCHANGED <<last, socket, subscriber, subscribers, received>>
      /\ loopOpen' \in BOOLEAN /\ (loopOpen' => loopOpen)
  <2>1. loopOpen \in BOOLEAN
    BY DEF FollowInv, LogTypes
  <2>2. CASE CloseLoop
    BY <2>2 DEF CloseLoop
  <2>3. CASE UNCHANGED logVars
    BY <2>1, <2>3 DEF logVars
  <2> QED
    BY <2>2, <2>3
<1>2. LogTypes'
  BY <1>1 DEF FollowInv, LogTypes
<1>3. ASSUME NEW f \in Followers PROVE FollowerFits(f)'
  <2>1. CASE NewFits(f)
    BY <1>1, <2>1 DEF FollowerFits, NewFits
  <2>2. CASE ServedFits(f)
    <3>1. \A lo, r, b, q \in Nat : Borders(f, lo, r, b, q) => Borders(f, lo, r, b, q)'
      BY <1>1 DEF Borders
    <3> QED
      BY <1>1, <2>2, <3>1 DEF FollowerFits, ServedFits
  <2> QED
    BY <2>1, <2>2 DEF FollowInv, FollowerFits
<1> QED
  BY <1>2, <1>3 DEF FollowInv

LEMMA FollowInvHolds == LogSpec => []FollowInv
<1>1. LogInit => FollowInv
  <2> SUFFICES ASSUME LogInit PROVE FollowInv
    OBVIOUS
  <2> USE DEF LogInit
  <2>1. NewSubscriber \in Subscriber
    BY OverflowMarker DEF NewSubscriber, Subscriber
  <2>2. Small(NewSubscriber)
    BY OverflowMarker DEF NewSubscriber, Small
  <2>3. LogTypes
    BY <2>1, <2>2, OverflowMarker DEF LogTypes
  <2>4. \A f \in Followers : NewFits(f)
    BY DEF NewFits
  <2> QED
    BY <2>3, <2>4 DEF FollowInv, FollowerFits
<1>2. FollowInv /\ [LogNext]_logVars => FollowInv'
  BY AppendEventFits, CloseLoopFits, SubscribeFits, DrainFits, SendHistoryFits,
     SendLiveFits, DisconnectFits
     DEF LogNext, Serving
<1> QED
  BY <1>1, <1>2, PTL DEF LogSpec

\* Whatever the threads append, however slow the clients are and wherever a
\* buffer overflows, a client is sent the log without a gap, and unless it is
\* marked as overflowed, what it was sent and what is on its way is the whole
\* log since its first line.
THEOREM LogsAreSeenWhole == LogSpec => []LogInv
<1>1. FollowInv => LogInv
  <2> SUFFICES ASSUME FollowInv PROVE LogInv
    OBVIOUS
  <2>0. MaxEvents \in Nat /\ MaxLines \in Nat /\ last \in 0..MaxEvents
    BY LogAssumption DEF FollowInv, LogTypes
  <2>1. ASSUME NEW f \in Followers
        PROVE  Contiguous(received[f]) /\ Len(received[f]) <= MaxEvents
    <3>1. CASE NewFits(f)
      BY <2>0, <3>1, OverflowMarker DEF NewFits, Contiguous
    <3>2. CASE ServedFits(f)
      <4>1. PICK lo \in Nat, r \in Nat, b \in Nat, q \in Nat : Borders(f, lo, r, b, q)
        BY <3>2 DEF ServedFits
      <4>2. Piece(received[f], lo, r) /\ r \in 0..MaxEvents
        BY <2>0, <4>1 DEF Borders
      <4> QED
        BY <4>2, PieceHasNoGap, PieceType
    <3> QED
      BY <3>1, <3>2 DEF FollowInv, FollowerFits
  <2>2. ASSUME NEW f \in subscribers, ~subscriber[f].overflowed
        PROVE  LET s == subscriber[f]
                   all == received[f] \o s.backlog \o s.queue \o s.staging
               IN  Contiguous(all) /\ (last > 0 => all # <<>> /\ Last(all) = last)
    <3> DEFINE s == subscriber[f]
               all == received[f] \o s.backlog \o s.queue \o s.staging
    <3>1. f \in Followers /\ ServedFits(f)
      BY DEF FollowInv, LogTypes, FollowerFits, NewFits
    <3>2. PICK lo \in Nat, r \in Nat, b \in Nat, q \in Nat : Borders(f, lo, r, b, q)
      BY <3>1 DEF ServedFits
    <3>3. /\ Piece(received[f], lo, r) /\ Piece(s.backlog, r, b) /\ Piece(s.queue, b, q)
          /\ Piece(s.staging, q, last) /\ (last > 0 => lo < last) /\ last \in Nat
      BY <2>0, <2>2, <3>1, <3>2 DEF Borders, ServedFits
    <3>4. Piece(received[f] \o s.backlog, lo, b)
      BY <3>3, JoinedPieces
    <3>5. Piece(received[f] \o s.backlog \o s.queue, lo, q)
      BY <3>3, <3>4, JoinedPieces
    <3>6. Piece(all, lo, last)
      BY <3>3, <3>5, JoinedPieces
    <3> HIDE DEF all
    <3>7. Contiguous(all) /\ (lo < last => all # <<>> /\ Last(all) = last)
      BY <3>3, <3>6, PieceHasNoGap
    <3> QED
      BY <3>3, <3>7 DEF all
  <2>3. \A S : \A n \in Nat : \A s \in Seq(S) : Len(s) <= n => s \in BoundedSeq(S, n)
    <3> SUFFICES ASSUME NEW S, NEW n \in Nat, NEW s \in Seq(S), Len(s) <= n
                 PROVE  \E m \in 0..n : s \in [1..m -> S]
      BY DEF BoundedSeq, SeqOf
    <3>1. Len(s) \in 0..n /\ s \in [1..Len(s) -> S]
      OBVIOUS
    <3> QED
      BY <3>1
  <2>4. LogTypeOK
    <3>1. ASSUME NEW f \in Followers
          PROVE  /\ subscriber[f].queue \in BoundedSeq(Items, MaxLines)
                 /\ subscriber[f].staging \in BoundedSeq(Items, MaxLines)
                 /\ subscriber[f].backlog \in BoundedSeq(1..MaxEvents, MaxLines)
                 /\ received[f] \in BoundedSeq(1..MaxEvents, MaxEvents)
      <4>1. subscriber[f] \in Subscriber /\ Small(subscriber[f])
            /\ received[f] \in Seq(1..MaxEvents)
        BY DEF FollowInv, LogTypes
      <4>2. /\ subscriber[f].queue \in Seq(Items) /\ subscriber[f].staging \in Seq(Items)
            /\ subscriber[f].backlog \in Seq(1..MaxEvents)
        BY <4>1 DEF Subscriber
      <4> QED
        BY <2>0, <2>1, <2>3, <4>1, <4>2 DEF Small
    <3> QED
      BY <3>1 DEF FollowInv, LogTypes, LogTypeOK, Subscriber
  <2> QED
    BY <2>1, <2>2, <2>4 DEF LogInv, ClientSeesNoGap, NothingLostQuietly
<1> QED
  BY <1>1, FollowInvHolds, PTL
=============================================================================
