-------------------------- MODULE ServiceShutdown --------------------------
(***************************************************************************)
(* How the server stops: TaskService.shutdown, close_resources_when_idle   *)
(* and the futures of the background pool they wait for.                   *)
(*                                                                         *)
(* A future of concurrent.futures is settled in two steps: its state       *)
(* becomes FINISHED, which done() reports at once, and then the pool's     *)
(* thread runs its callbacks in order.  add_done_callback appends to that  *)
(* list, or runs the callback itself if the future is settled already.     *)
(* _forget_background is the first callback of every future, and the last  *)
(* future to be forgotten should close the database behind it.             *)
(*                                                                         *)
(* "main" is where the event loop of the server is: it creates and cancels *)
(* tasks, then runs the lifespan's shutdown sequence, to which the code    *)
(* generation service belongs: workers leave it retries that run in this   *)
(* loop and use the database, and it is stopped before that is closed.     *)
(* What a worker does between its start and its end is left out            *)
(* (ProcessTasks and CodeGeneration have it).                              *)
(***************************************************************************)
EXTENDS TaskStore, Sequences

CONSTANTS
    Nobody,     \* no task
    Generating  \* tasks of the code generation service

ASSUME NobodyAssumption == Nobody \notin Tasks /\ Generating \subseteq Tasks

VARIABLES
    main,       \* main.at: the step the event loop is at; main.task: for whom
    todo,       \* the tasks the current loop of the shutdown still visits
    lifecycle,  \* _lifecycle_state
    future,     \* future[t]: the state of t's future, "none" before submit
    callbacks,  \* callbacks[t]: done callbacks that have yet to run
    registered, \* the keys of _background_futures
    unstopped,  \* tasks whose cancellation at shutdown raised and was only logged
    storeOpen,  \* the database and log connections are open
    codegen,    \* _lifecycle_state of the code generation service
    retry       \* retry[t]: the retry of t's clean-up, posted to the loop or alive

codegenVars == <<codegen, retry>>
futureVars == <<future, callbacks, registered>>
stopVars == <<main, todo, lifecycle, futureVars, unstopped, storeOpen, codegenVars, unstopped>>
vars == <<storeVars, stopVars>>

Done == {"finished", "cancelled"}

ShutdownTypeOK ==
    /\ TypeOK
    /\ main \in [at : {"serving", "attaching", "dropping", "stopping",
                       "cancelling", "polling", "retiring", "closing", "hooking",
                       "ended"},
                 task : Tasks \cup {Nobody}]
    /\ todo \in SUBSET Tasks
    /\ lifecycle \in {"RUNNING", "CLOSING", "CLOSED"}
    /\ future \in [Tasks -> {"none", "pending", "running"} \cup Done]
    /\ \A t \in Tasks :
          callbacks[t] \in {<<>>, <<"forget">>, <<"close">>, <<"forget", "close">>}
    /\ registered \in SUBSET Tasks
    /\ unstopped \in SUBSET Tasks
    /\ storeOpen \in BOOLEAN
    /\ codegen \in {"RUNNING", "CLOSING", "CLOSED"}
    /\ retry \in [Tasks -> {"none", "posted", "alive", "over"}]

At(step) == [at |-> step, task |-> Nobody]
For(step, t) == [at |-> step, task |-> t]

ShutdownInit ==
    /\ StoreInit
    /\ main = At("serving")
    /\ todo = {}
    /\ lifecycle = "RUNNING"
    /\ future = [t \in Tasks |-> "none"]
    /\ callbacks = [t \in Tasks |-> <<>>]
    /\ registered = {}
    /\ unstopped = {}
    /\ storeOpen = TRUE
    /\ codegen = "RUNNING"
    /\ retry = [t \in Tasks |-> "none"]

-----------------------------------------------------------------------------
(***************************************************************************)
(* Serving.                                                                *)
(***************************************************************************)

\* _new_task and _start_background up to the end of the lifecycle lock.
SubmitTask(t) ==
    /\ main = At("serving")
    /\ Save(t)
    /\ future' = [future EXCEPT ![t] = "pending"]
    /\ registered' = registered \cup {t}
    /\ main' = For("attaching", t)
    /\ UNCHANGED <<todo, lifecycle, callbacks, storeOpen, codegenVars, unstopped>>

\* future.add_done_callback(_forget_background): run here if it is too late.
AttachForget(t) ==
    /\ main = For("attaching", t)
    /\ IF future[t] \in Done
       THEN registered' = registered \ {t} /\ UNCHANGED callbacks
       ELSE /\ callbacks' = [callbacks EXCEPT ![t] = Append(@, "forget")]
            /\ UNCHANGED registered
    /\ main' = At("serving")
    /\ UNCHANGED <<storeVars, todo, lifecycle, future, storeOpen, codegenVars,
                   unstopped>>

CancelTask(t) ==
    /\ main = At("serving")
    /\ RequestCancel(t)
    /\ main' = IF rows'[t].status = "CANCELLED" THEN For("dropping", t) ELSE main
    /\ UNCHANGED <<todo, lifecycle, futureVars, storeOpen, codegenVars, unstopped>>

\* future.cancel(): a future nobody runs yet is settled, and forgotten, here.
CancelFuture(t) ==
    IF future[t] = "pending"
    THEN /\ future' = [future EXCEPT ![t] = "cancelled"]
         /\ registered' = registered \ {t}
         /\ callbacks' = [callbacks EXCEPT ![t] = <<>>]
    ELSE UNCHANGED <<futureVars, unstopped>>

DropFuture(t) ==
    /\ main = For("dropping", t)
    /\ CancelFuture(t)
    /\ main' = At("serving")
    /\ UNCHANGED <<storeVars, todo, lifecycle, storeOpen, codegenVars, unstopped>>

-----------------------------------------------------------------------------
(***************************************************************************)
(* The threads of the pool.                                                *)
(***************************************************************************)
RunFuture(t) ==
    /\ future[t] = "pending"
    /\ future' = [future EXCEPT ![t] = "running"]
    /\ UNCHANGED <<storeVars, main, todo, lifecycle, callbacks, registered,
                   storeOpen, codegenVars, unstopped>>

StartWork(t) ==
    /\ future[t] = "running"
    /\ TryStart(t)
    /\ UNCHANGED stopVars

FinishWork(t) ==
    /\ future[t] = "running"
    /\ \E out \in Outcome, artifactsOnSuccess \in BOOLEAN :
          Finalize(t, out, artifactsOnSuccess, FALSE, FALSE)
    /\ UNCHANGED stopVars

\* The coroutine is over: done() is true from here on.
SettleFuture(t) ==
    /\ future[t] = "running"
    /\ rows[t].status \in Terminal
    /\ future' = [future EXCEPT ![t] = "finished"]
    /\ UNCHANGED <<storeVars, main, todo, lifecycle, callbacks, registered,
                   storeOpen, codegenVars, unstopped>>

\* Mutant: the first worker to end closes the database.
CloseAlways(left) == storeOpen' = FALSE

\* close_when_done: only the last one closes.
CloseIfLast(left) == storeOpen' = IF left = {} THEN FALSE ELSE storeOpen

RunCallback(t) ==
    /\ future[t] = "finished" /\ callbacks[t] # <<>>
    /\ callbacks' = [callbacks EXCEPT ![t] = Tail(@)]
    /\ \/ /\ Head(callbacks[t]) = "forget"
          /\ registered' = registered \ {t}
          /\ UNCHANGED storeOpen
       \/ /\ Head(callbacks[t]) = "close"
          /\ CloseIfLast(registered)
          /\ UNCHANGED registered
    /\ UNCHANGED <<storeVars, main, todo, lifecycle, future, codegenVars, unstopped>>

\* _schedule_cleanup_retry: the worker of a code generation task posts a retry
\* to the server's loop, if the service was running when it looked.
PostRetry(t) ==
    /\ future[t] = "running" /\ t \in Generating
    /\ retry[t] = "none"
    /\ codegen = "RUNNING"
    /\ retry' = [retry EXCEPT ![t] = "posted"]
    /\ UNCHANGED <<storeVars, main, todo, lifecycle, futureVars, storeOpen,
                   codegen, unstopped>>

PoolThread(t) ==
    \/ RunFuture(t) \/ StartWork(t) \/ FinishWork(t) \/ SettleFuture(t)
    \/ RunCallback(t) \/ PostRetry(t)

-----------------------------------------------------------------------------
(***************************************************************************)
(* The retries of the code generation service, in the server's loop: they  *)
(* run while main awaits something, or after the lifespan has ended.       *)
(***************************************************************************)
LoopIsFree == main.at \in {"serving", "stopping", "polling", "retiring", "ended"}

\* Mutant: what was posted is started without another look at the service.
MayStartRetryAnyway == TRUE

MayStartRetry == codegen = "RUNNING"

\* _start_cleanup_retry
StartRetry(t) ==
    /\ LoopIsFree
    /\ retry[t] = "posted"
    /\ retry' = [retry EXCEPT ![t] = IF MayStartRetry THEN "alive" ELSE "over"]
    /\ UNCHANGED <<storeVars, main, todo, lifecycle, futureVars, storeOpen,
                   codegen, unstopped>>

\* _retry_cleanup is through with its attempts, or cancelled.
RetryEnds(t) ==
    /\ LoopIsFree
    /\ retry[t] = "alive"
    /\ retry' = [retry EXCEPT ![t] = "over"]
    /\ UNCHANGED <<storeVars, main, todo, lifecycle, futureVars, storeOpen,
                   codegen, unstopped>>

-----------------------------------------------------------------------------
(***************************************************************************)
(* Stopping: the lifespan awaits shutdown, then close_resources_when_idle. *)
(***************************************************************************)

\* Mutant: only what is running is cancelled.
ToCancelIfRunning == {t \in Tasks : rows[t].status = "RUNNING"}

ToCancel == {t \in Tasks : rows[t].status \in Active}

BeginShutdown ==
    /\ main = At("serving")
    /\ lifecycle' = "CLOSING"
    /\ todo' = ToCancel
    /\ main' = At("stopping")
    /\ UNCHANGED <<storeVars, futureVars, storeOpen, codegenVars, unstopped>>

\* The tasks cannot be listed: the executor drops what it has not begun, and
\* the lifespan goes on behind shutdown's finally.
ListingFails ==
    /\ main = At("serving")
    /\ lifecycle' = "CLOSED"
    /\ LET dropped == {t \in Tasks : future[t] = "pending"}
       IN  /\ future' = [t \in Tasks |-> IF t \in dropped THEN "cancelled" ELSE future[t]]
           /\ callbacks' = [t \in Tasks |-> IF t \in dropped THEN <<>> ELSE callbacks[t]]
           /\ registered' = registered \ dropped
           /\ unstopped' = unstopped \cup dropped
    /\ main' = At("retiring")
    /\ UNCHANGED <<storeVars, todo, storeOpen, codegenVars>>

\* cancel_task for every task listed, whatever became of it meanwhile.
StopTask(t) ==
    /\ main = At("stopping") /\ t \in todo
    /\ \/ RequestCancel(t)
       \/ ~CanRequestCancel(t) /\ UNCHANGED storeVars
    /\ IF rows'[t].status = "CANCELLED" THEN CancelFuture(t) ELSE UNCHANGED futureVars
    /\ todo' = todo \ {t}
    /\ UNCHANGED <<main, lifecycle, storeOpen, codegenVars, unstopped>>

\* The store raised: the row keeps its state, and the loop goes on.
StopFails(t) ==
    /\ main = At("stopping") /\ t \in todo
    /\ unstopped' = unstopped \cup {t}
    /\ todo' = todo \ {t}
    /\ UNCHANGED <<storeVars, main, lifecycle, futureVars, storeOpen, codegenVars>>

AllStopped ==
    /\ main = At("stopping") /\ todo = {}
    /\ todo' = registered
    /\ main' = At("cancelling")
    /\ UNCHANGED <<storeVars, lifecycle, futureVars, storeOpen, codegenVars,
                   unstopped>>

CancelRegistered(t) ==
    /\ main = At("cancelling") /\ t \in todo
    /\ CancelFuture(t)
    /\ todo' = todo \ {t}
    /\ UNCHANGED <<storeVars, main, lifecycle, storeOpen, codegenVars, unstopped>>

AllCancelled ==
    /\ main = At("cancelling") /\ todo = {}
    /\ main' = At("polling")
    /\ UNCHANGED <<storeVars, todo, lifecycle, futureVars, storeOpen,
                   codegenVars, unstopped>>

\* Mutant: shutdown waits for the workers without a deadline.
MayStopWaitingWhenDone == \A t \in registered : future[t] \in Done

\* The futures are done, or the grace period has passed.
MayStopWaiting == TRUE

StopWaiting ==
    /\ main = At("polling")
    /\ MayStopWaiting
    /\ lifecycle' = "CLOSED"
    /\ main' = At("retiring")
    /\ UNCHANGED <<storeVars, todo, futureVars, storeOpen, codegenVars, unstopped>>

\* CodeGenerationTaskService.shutdown: it takes no more retries, ...
BeginRetiring ==
    /\ main = At("retiring") /\ codegen = "RUNNING"
    /\ codegen' = "CLOSING"
    /\ UNCHANGED <<storeVars, main, todo, lifecycle, futureVars, storeOpen,
                   retry, unstopped>>

\* Mutant: those that are alive are left to themselves.
AllRetiredAtOnce == TRUE

AllRetired == \A t \in Tasks : retry[t] # "alive"

\* ... cancels those it has and waits for them (_stop_cleanup_retries).
EndRetiring ==
    /\ main = At("retiring") /\ codegen = "CLOSING"
    /\ AllRetired
    /\ codegen' = "CLOSED"
    /\ main' = At("closing")
    /\ UNCHANGED <<storeVars, todo, lifecycle, futureVars, storeOpen, retry,
                   unstopped>>

\* close_resources_when_idle: at once if nothing is registered ...
CloseResources ==
    /\ main = At("closing")
    /\ todo' = registered
    /\ IF registered = {}
       THEN storeOpen' = FALSE /\ main' = At("ended")
       ELSE main' = At("hooking") /\ UNCHANGED storeOpen
    /\ UNCHANGED <<storeVars, lifecycle, futureVars, codegenVars, unstopped>>

\* Mutant: the hook is run before the worker's bookkeeping.
HookFutureFirst(t) ==
    /\ main = At("hooking") /\ t \in todo
    /\ IF future[t] \in Done
       THEN CloseIfLast(registered) /\ UNCHANGED callbacks
       ELSE /\ callbacks' = [callbacks EXCEPT ![t] = <<"close">> \o @]
            /\ UNCHANGED storeOpen
    /\ todo' = todo \ {t}
    /\ UNCHANGED <<storeVars, main, lifecycle, future, registered, codegenVars,
                   unstopped>>

\* ... else when the futures are done; for a settled one that is now.
HookFuture(t) ==
    /\ main = At("hooking") /\ t \in todo
    /\ IF future[t] \in Done
       THEN CloseIfLast(registered) /\ UNCHANGED callbacks
       ELSE /\ callbacks' = [callbacks EXCEPT ![t] = Append(@, "close")]
            /\ UNCHANGED storeOpen
    /\ todo' = todo \ {t}
    /\ UNCHANGED <<storeVars, main, lifecycle, future, registered, codegenVars,
                   unstopped>>

AllHooked ==
    /\ main = At("hooking") /\ todo = {}
    /\ main' = At("ended")
    /\ UNCHANGED <<storeVars, todo, lifecycle, futureVars, storeOpen,
                   codegenVars, unstopped>>

Stopping ==
    \/ AllStopped \/ AllCancelled \/ StopWaiting
    \/ BeginRetiring \/ EndRetiring \/ CloseResources \/ AllHooked
    \/ \E t \in Tasks : \/ StopTask(t) \/ StopFails(t)
                        \/ CancelRegistered(t) \/ HookFuture(t)
                        \/ main.at = "retiring" /\ RetryEnds(t)

-----------------------------------------------------------------------------
ShutdownNext ==
    \/ BeginShutdown \/ ListingFails
    \/ Stopping
    \/ \E t \in Tasks : \/ SubmitTask(t)
                        \/ AttachForget(t)
                        \/ CancelTask(t)
                        \/ DropFuture(t)
                        \/ PoolThread(t)
                        \/ StartRetry(t)
                        \/ RetryEnds(t)

ShutdownSpec == ShutdownInit /\ [][ShutdownNext]_vars

\* The event loop goes on; nothing is asked of the workers.
StoppingSpec == ShutdownSpec /\ WF_vars(Stopping)

\* Every worker ends, as it does once it is cancelled or times out.
WorkersEnd == \A t \in Tasks : WF_vars(PoolThread(t))

-----------------------------------------------------------------------------
(***************************************************************************)
(* Properties.                                                             *)
(***************************************************************************)

\* The database outlives its users: it is closed only when no worker, past
\* its deadline or not, can still write to it, nor a retry that such a worker
\* has left to the server's loop, however late that was posted.
NoUseAfterClose ==
    ~storeOpen => \A t \in Tasks : /\ future[t] \notin {"pending", "running"}
                                 /\ retry[t] # "alive"

\* A future that is dropped takes no open row with it: a client does not see
\* a task wait, or run, that nobody will ever run.  Only a task whose row could
\* not be cancelled at shutdown, which goes on and drops its future all the
\* same, is left PENDING; the next startup's recovery closes such a row.
DroppedFuturesAreClosed ==
    \A t \in Tasks : future[t] = "cancelled" =>
        \/ rows[t].status = "CANCELLED"
        \/ t \in unstopped /\ rows[t].status = "PENDING"

\* The variables keep their types, and no dropped future leaves an open row.
ShutdownInv == ShutdownTypeOK /\ DroppedFuturesAreClosed

\* shutdown returns whatever the workers do.
ShutdownReturns == lifecycle = "CLOSING" ~> main.at = "ended"

\* "Close persistent resources immediately or after timed-out workers
\* finish": the docstring of close_resources_when_idle.  If workers are left
\* when shutdown is over, the last of them closes.  (A future that has finished
\* but whose thread has yet to forget it is passed over: with one of those
\* among them nobody may close.)
LeftAtWork == registered # {} /\ \A t \in registered : future[t] \notin Done

ResourcesCloseWhenIdle ==
    WorkersEnd => (main.at = "ended" /\ LeftAtWork ~> ~storeOpen)

\* The shutdown gets to its end, and the database to its.
ShutdownEnds == ShutdownReturns /\ ResourcesCloseWhenIdle
=============================================================================
