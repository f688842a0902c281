----------------------------- MODULE DebugBroker -----------------------------
(***************************************************************************)
(* The command channel of an interactive debug session:                    *)
(* debug/broker.py, DebugSessionManager and GdbMiCommandDispatcher.run of  *)
(* debug/manager.py, and the serving part of InteractiveDebugService's     *)
(* execute.                                                                *)
(*                                                                         *)
(* Three threads take part.  The server's event loop runs the requests of  *)
(* the API.  The managed loop of the task runs the worker (execute) and    *)
(* the dispatcher, which are coroutines and never run at once.  A pool     *)
(* thread blocks in queue.get() for the dispatcher.  Broker.close runs in  *)
(* either loop and holds the broker's lock, which neither the pool thread  *)
(* nor the answer or the timeout of a request takes: a response is         *)
(* completed by a test of done() and a call that fails if the response has *)
(* been cancelled in between.                                              *)
(***************************************************************************)
EXTENDS Naturals, Sequences, SequencesExt

CONSTANTS
    Clients,  \* API requests, each made once
    Kind,     \* Kind[c]: "command", "wait" (WAIT_FOR_STOP) or "close"
    Timed,    \* the requests made with timeout_seconds
    Faults,   \* "output": handling the output of GDB may fail
    None,     \* no request
    Marker    \* _BrokerClosedMarker()

ASSUME DebugAssumption ==
    /\ Kind \in [Clients -> {"command", "wait", "close"}]
    /\ Timed \subseteq Clients
    /\ Faults \subseteq {"output"}
    /\ None \notin Clients /\ Marker \notin Clients /\ None # Marker

VARIABLES
    client,       \* client[c]: where the API request c is
    response,     \* response[c]: the state of its concurrent Future
    queue,        \* the broker's queue
    brokerClosed, \* the broker's _closed
    registered,   \* the broker is in the registry of DebugSessionManager
    closing,      \* the run of Broker.close in progress, which holds the lock
    pool,         \* the pool thread in queue.get(), and the item it has popped
    dispatcher,   \* the dispatcher's place, request, verdict, and cancel()
    worker,       \* where execute is
    transport     \* GDB, as transport.wait() tells; session.closing

debugVars == <<client, response, queue, brokerClosed, registered, closing,
               pool, dispatcher, worker, transport>>

api == <<client, response>>
broker == <<queue, brokerClosed, closing>>

Verdicts == {"result", "error"}
Completed == Verdicts \cup {"closed", "cancelled"}

Unlocked == [by |-> "nobody", at |-> "none", pending |-> <<>>]
NoPool == [at |-> "off", item |-> None]
Getting == [at |-> "get", item |-> None]
NoDispatcher == [at |-> "none", request |-> None, verdict |-> "none", cancelled |-> FALSE]
Ended == {"returned", "failed", "cancelled"}

DebugTypeOK ==
    /\ client \in [Clients -> {"new", "found", "waiting", "refused", "answered", "timeout"}]
    /\ response \in [Clients -> {"pending"} \cup Completed]
    /\ queue \in Seq(Clients \cup {Marker})
    /\ brokerClosed \in BOOLEAN /\ registered \in BOOLEAN
    /\ closing.by \in {"nobody", "api", "managed"}
    /\ closing.at \in {"none", "drain", "fail", "set"}
    /\ closing.pending \in Seq(Clients)
    /\ closing.at = "none" <=> closing = Unlocked
    /\ pool.at \in {"off", "get", "item", "empty"}
    /\ pool.item \in Clients \cup {None, Marker}
    /\ pool.at = "item" <=> pool.item # None
    /\ dispatcher.at \in {"none", "receive", "dispatch", "closing", "set"} \cup Ended
    /\ dispatcher.request \in Clients \cup {None}
    /\ dispatcher.verdict \in Verdicts \cup {"none"}
    /\ dispatcher.cancelled \in BOOLEAN
    /\ worker \in {"starting", "registered", "serving", "exit", "awaiting",
                   "finally", "cleanup", "cancel", "gather", "done"}
    /\ transport.at \in {"alive", "exited", "broken"} /\ transport.closing \in BOOLEAN

DebugInit ==
    /\ client = [c \in Clients |-> "new"]
    /\ response = [c \in Clients |-> "pending"]
    /\ queue = <<>>
    /\ brokerClosed = FALSE
    /\ registered = FALSE
    /\ closing = Unlocked
    /\ pool = NoPool
    /\ dispatcher = NoDispatcher
    /\ worker = "starting"
    /\ transport = [at |-> "alive", closing |-> FALSE]

\* A loop that runs Broker.close, or the dispatcher between done() and the
\* call that follows it, runs nothing else.
ApiFree == closing.by # "api"
ManagedFree == closing.by # "managed" /\ dispatcher.at # "set"

-----------------------------------------------------------------------------
(***************************************************************************)
(* Broker.close, in the loop closing.by.                                   *)
(***************************************************************************)

\* Mutant: close works without taking the lock.
ClosingUnlocked(by) == [by |-> by, at |-> "none", pending |-> <<>>]

Closing(by) == [by |-> by, at |-> "drain", pending |-> <<>>]

\* Where execute goes on when its call of close returns or raises.
AfterClose(returned) ==
    worker' = IF closing.by = "api" THEN worker
              ELSE IF worker = "exit"
                   THEN IF returned THEN "awaiting" ELSE "finally"
                   ELSE "cancel"

DrainOne ==
    /\ closing.at = "drain"
    /\ \/ /\ queue # <<>>
          /\ queue' = Tail(queue)
          /\ closing' = [closing EXCEPT !.pending = Append(@, Head(queue))]
       \/ /\ queue = <<>>
          /\ closing' = [closing EXCEPT !.at = "fail"]
          /\ UNCHANGED queue
    /\ UNCHANGED <<api, brokerClosed, registered, pool, dispatcher, worker, transport>>

\* if not request.response.done()
TestPending ==
    /\ closing.at = "fail"
    /\ closing.pending # <<>>
    /\ closing' = IF response[Head(closing.pending)] = "pending"
                  THEN [closing EXCEPT !.at = "set"]
                  ELSE [closing EXCEPT !.pending = Tail(@)]
    /\ UNCHANGED <<api, queue, brokerClosed, registered, pool, dispatcher, worker, transport>>

\* set_exception raises InvalidStateError for a response cancelled since the
\* test, and close is left there: the lock is released, no marker is put.
FailPending ==
    /\ closing.at = "set"
    /\ LET c == Head(closing.pending)
       IN  \/ /\ response[c] = "pending"
              /\ response' = [response EXCEPT ![c] = "closed"]
              /\ closing' = [closing EXCEPT !.at = "fail", !.pending = Tail(@)]
              /\ UNCHANGED worker
           \/ /\ response[c] # "pending"
              /\ closing' = Unlocked
              /\ AfterClose(FALSE)
              /\ UNCHANGED response
    /\ UNCHANGED <<client, queue, brokerClosed, registered, pool, dispatcher, transport>>

PutMarker ==
    /\ closing.at = "fail"
    /\ closing.pending = <<>>
    /\ queue' = Append(queue, Marker)
    /\ closing' = Unlocked
    /\ AfterClose(TRUE)
    /\ UNCHANGED <<api, brokerClosed, registered, pool, dispatcher, transport>>

CloseStep == DrainOne \/ TestPending \/ FailPending \/ PutMarker

-----------------------------------------------------------------------------
(***************************************************************************)
(* The server's event loop: DebugSessionManager._request, Broker.request   *)
(* and close_session.                                                      *)
(***************************************************************************)

\* require
Find(c) ==
    /\ ApiFree
    /\ client[c] = "new"
    /\ client' = [client EXCEPT ![c] = IF registered THEN "found" ELSE "refused"]
    /\ UNCHANGED <<response, broker, registered, pool, dispatcher, worker, transport>>

\* Mutant: a closed broker takes requests.
SubmitAnyway(c) ==
    /\ client[c] = "found"
    /\ closing.at = "none"
    /\ client' = [client EXCEPT ![c] = "waiting"]
    /\ queue' = Append(queue, c)
    /\ UNCHANGED <<response, brokerClosed, registered, closing, pool, dispatcher, worker,
                   transport>>

Submit(c) ==
    /\ client[c] = "found"
    /\ closing.at = "none"
    /\ \/ /\ brokerClosed
          /\ client' = [client EXCEPT ![c] = "refused"]
          /\ UNCHANGED queue
       \/ /\ ~brokerClosed
          /\ client' = [client EXCEPT ![c] = "waiting"]
          /\ queue' = Append(queue, c)
    /\ UNCHANGED <<response, brokerClosed, registered, closing, pool, dispatcher, worker,
                   transport>>

\* A client whose CLOSE succeeded takes the session out of the registry and
\* closes the broker.
Answered(c) ==
    LET unregisters == Kind[c] = "close" /\ response[c] = "result" /\ registered
    IN  /\ ApiFree
        /\ client[c] = "waiting"
        /\ response[c] # "pending"
        /\ client' = [client EXCEPT ![c] = "answered"]
        /\ IF unregisters
           THEN /\ closing.at = "none"
                /\ registered' = FALSE
                /\ brokerClosed' = TRUE
                /\ closing' = IF brokerClosed THEN closing ELSE Closing("api")
           ELSE UNCHANGED <<registered, brokerClosed, closing>>
        /\ UNCHANGED <<response, queue, pool, dispatcher, worker, transport>>

\* wait_for gives up: cancelling the wrapper cancels the response.
GiveUp(c) ==
    /\ ApiFree
    /\ c \in Timed
    /\ client[c] = "waiting"
    /\ response[c] = "pending"
    /\ client' = [client EXCEPT ![c] = "timeout"]
    /\ response' = [response EXCEPT ![c] = "cancelled"]
    /\ UNCHANGED <<broker, registered, pool, dispatcher, worker, transport>>

-----------------------------------------------------------------------------
(***************************************************************************)
(* The pool thread: queue.get(True, 0.1).  Nothing stops it once the       *)
(* dispatcher that waits for it has been cancelled.                        *)
(***************************************************************************)

Pop ==
    /\ pool.at = "get"
    /\ \/ /\ queue # <<>>
          /\ pool' = [at |-> "item", item |-> Head(queue)]
          /\ queue' = Tail(queue)
       \/ /\ queue = <<>>
          /\ pool' = [at |-> "empty", item |-> None]
          /\ UNCHANGED queue
    /\ UNCHANGED <<api, brokerClosed, registered, closing, dispatcher, worker, transport>>

-----------------------------------------------------------------------------
(***************************************************************************)
(* The managed loop: GdbMiCommandDispatcher.run with Broker.receive.       *)
(***************************************************************************)

Receiving == [NoDispatcher EXCEPT !.at = "receive"]

EndAs(how) == dispatcher' = [dispatcher EXCEPT !.at = how] /\ pool' = NoPool

\* What receive makes of the item the pool thread hands over.
Receive ==
    /\ ManagedFree
    /\ dispatcher.at = "receive" /\ ~dispatcher.cancelled
    /\ pool.at = "item"
    /\ \/ /\ pool.item = Marker
          /\ EndAs("returned")
       \/ /\ pool.item # Marker
          /\ response[pool.item] = "cancelled"
          /\ pool' = Getting
          /\ UNCHANGED dispatcher
       \/ /\ pool.item # Marker
          /\ response[pool.item] # "cancelled"
          /\ dispatcher' = [dispatcher EXCEPT !.at = "dispatch", !.request = pool.item]
          /\ pool' = NoPool
    /\ UNCHANGED <<api, broker, registered, worker, transport>>

\* Mutant: receive trusts the marker to come.
ReceiveNothingEver ==
    /\ ManagedFree
    /\ dispatcher.at = "receive" /\ ~dispatcher.cancelled
    /\ pool.at = "empty"
    /\ closing.at = "none"
    /\ pool' = Getting
    /\ UNCHANGED <<api, broker, registered, dispatcher, worker, transport>>

\* After queue.Empty: the end of a closed broker, or the next 0.1 s.
ReceiveNothing ==
    /\ ManagedFree
    /\ dispatcher.at = "receive" /\ ~dispatcher.cancelled
    /\ pool.at = "empty"
    /\ closing.at = "none"
    /\ \/ /\ brokerClosed /\ queue = <<>>
          /\ EndAs("returned")
       \/ /\ ~(brokerClosed /\ queue = <<>>)
          /\ pool' = Getting
          /\ UNCHANGED dispatcher
    /\ UNCHANGED <<api, broker, registered, worker, transport>>

\* The cancellation of execute's finally, delivered while receive waits.
ReceiveCancelled ==
    /\ ManagedFree
    /\ dispatcher.at = "receive" /\ dispatcher.cancelled
    /\ dispatcher' = [dispatcher EXCEPT !.at = "cancelled"]
    /\ UNCHANGED <<api, broker, registered, pool, worker, transport>>

\* CLOSE ends the dispatcher if it succeeded; any other answer is followed
\* by the next receive.
AfterAnswer(verdict) ==
    IF Kind[dispatcher.request] = "close" /\ verdict = "result"
    THEN dispatcher' = [NoDispatcher EXCEPT !.at = "returned"] /\ UNCHANGED pool
    ELSE dispatcher' = Receiving /\ pool' = Getting

\* The test of done() in resolve and reject.
Dispatched(verdict) ==
    IF response[dispatcher.request] = "pending"
    THEN /\ dispatcher' = [dispatcher EXCEPT !.at = "set", !.verdict = verdict,
                                             !.cancelled = FALSE]
         /\ UNCHANGED pool
    ELSE AfterAnswer(verdict)

\* _dispatch of one of the GDB commands.
DispatchCommand ==
    /\ ManagedFree
    /\ dispatcher.at = "dispatch" /\ ~dispatcher.cancelled
    /\ Kind[dispatcher.request] = "command"
    /\ \E verdict \in Verdicts : Dispatched(verdict)
    /\ UNCHANGED <<api, broker, registered, worker, transport>>

\* _dispatch of WAIT_FOR_STOP: it ends when the inferior stops, its own time
\* limit expires or GDB is gone; nothing else is dispatched meanwhile.
DispatchWait ==
    /\ ManagedFree
    /\ dispatcher.at = "dispatch" /\ ~dispatcher.cancelled
    /\ Kind[dispatcher.request] = "wait"
    /\ \E verdict \in Verdicts : Dispatched(verdict)
    /\ UNCHANGED <<api, broker, registered, worker, transport>>

\* session.close(): only the first call terminates GDB and waits for its end.
CloseSession ==
    /\ ManagedFree
    /\ dispatcher.at = "dispatch" /\ ~dispatcher.cancelled
    /\ Kind[dispatcher.request] = "close"
    /\ \/ /\ transport.closing
          /\ Dispatched("result")
          /\ UNCHANGED transport
       \/ /\ ~transport.closing
          /\ transport' = [transport EXCEPT !.closing = TRUE]
          /\ dispatcher' = [dispatcher EXCEPT !.at = "closing"]
          /\ UNCHANGED pool
    /\ UNCHANGED <<api, broker, registered, worker>>

\* Mutant: the end of a terminated GDB counts as a failure.
CloseVerdictAsExit == "error"

\* session.close() does not take the exit code of the GDB it has terminated
\* for a failure; only a failed transport is one.
CloseVerdict == IF transport.at = "exited" THEN "result" ELSE "error"

SessionClosed ==
    /\ ManagedFree
    /\ dispatcher.at = "closing" /\ ~dispatcher.cancelled
    /\ transport.at # "alive"
    /\ Dispatched(CloseVerdict)
    /\ UNCHANGED <<api, broker, registered, worker, transport>>

\* A cancellation in _dispatch is an answer like any other error, and run
\* goes on.
DispatchCancelled ==
    /\ ManagedFree
    /\ dispatcher.at \in {"dispatch", "closing"} /\ dispatcher.cancelled
    /\ Dispatched("error")
    /\ UNCHANGED <<api, broker, registered, worker, transport>>

\* set_result or set_exception: InvalidStateError, raised out of run, for a
\* response that was cancelled since the test.
SetAnswer ==
    /\ dispatcher.at = "set"
    /\ \/ /\ response[dispatcher.request] = "pending"
          /\ response' = [response EXCEPT ![dispatcher.request] = dispatcher.verdict]
          /\ AfterAnswer(dispatcher.verdict)
       \/ /\ response[dispatcher.request] # "pending"
          /\ dispatcher' = [dispatcher EXCEPT !.at = "failed"]
          /\ UNCHANGED <<response, pool>>
    /\ UNCHANGED <<client, broker, registered, worker, transport>>

DispatcherStep ==
    \/ Receive
    \/ ReceiveNothing
    \/ ReceiveCancelled
    \/ DispatchCommand
    \/ CloseSession
    \/ SessionClosed
    \/ DispatchCancelled
    \/ SetAnswer

-----------------------------------------------------------------------------
(***************************************************************************)
(* The managed loop: execute, from the registration of the broker on.      *)
(***************************************************************************)

Register ==
    /\ worker = "starting"
    /\ worker' = "registered"
    /\ registered' = TRUE
    /\ UNCHANGED <<api, broker, pool, dispatcher, transport>>

StartDispatcher ==
    /\ worker = "registered"
    /\ worker' = "serving"
    /\ dispatcher' = Receiving
    /\ pool' = Getting
    /\ UNCHANGED <<api, broker, registered, transport>>

\* report_progress raises the cancellation of the task.
Interrupted ==
    /\ worker = "registered"
    /\ worker' = "finally"
    /\ UNCHANGED <<api, broker, registered, pool, dispatcher, transport>>

\* GDB exits by itself, is terminated by session.close() or by a cancelled
\* task's monitor, or the handling of its output fails.
GdbEnds ==
    /\ worker # "starting"
    /\ transport.at = "alive"
    /\ \/ transport' = [transport EXCEPT !.at = "exited"]
       \/ /\ "output" \in Faults
          /\ transport' = [transport EXCEPT !.at = "broken"]
    /\ UNCHANGED <<api, broker, registered, pool, dispatcher, worker>>

\* asyncio.wait returns with the dispatcher done, whatever GDB does.
DispatcherFirst ==
    /\ ManagedFree
    /\ worker \in {"serving", "awaiting"}
    /\ dispatcher.at \in Ended
    /\ worker' = "finally"
    /\ UNCHANGED <<api, broker, registered, pool, dispatcher, transport>>

\* asyncio.wait returns with GDB gone: transport.wait() raises, a client is
\* closing the session, or the broker is closed with GdbTransportClosed.
GdbFirst ==
    /\ ManagedFree
    /\ worker = "serving"
    /\ dispatcher.at \notin Ended
    /\ \/ /\ transport.at = "broken"
          /\ worker' = "finally"
          /\ UNCHANGED <<brokerClosed, closing>>
       \/ /\ transport.at = "exited" /\ transport.closing
          /\ worker' = "awaiting"
          /\ UNCHANGED <<brokerClosed, closing>>
       \/ /\ transport.at = "exited" /\ ~transport.closing
          /\ closing.at = "none"
          /\ worker' = "exit"
          /\ brokerClosed' = TRUE
          /\ closing' = Closing("managed")
    /\ UNCHANGED <<api, queue, registered, pool, dispatcher, transport>>

\* Mutant: the registry forgets the broker and leaves it open.
UnregisterOnly ==
    /\ ManagedFree
    /\ worker = "finally"
    /\ registered' = FALSE
    /\ worker' = "cancel"
    /\ UNCHANGED <<api, broker, pool, dispatcher, transport>>

\* The finally: unregister closes the broker unless a client or the exit of
\* GDB already has.
Unregister ==
    /\ ManagedFree
    /\ worker = "finally"
    /\ registered' = FALSE
    /\ \/ /\ registered /\ ~brokerClosed
          /\ worker' = "cleanup"
          /\ brokerClosed' = TRUE
          /\ closing' = Closing("managed")
       \/ /\ ~registered \/ brokerClosed
          /\ worker' = "cancel"
          /\ UNCHANGED <<brokerClosed, closing>>
    /\ UNCHANGED <<api, queue, pool, dispatcher, transport>>

\* The finally cancels the dispatcher if it has not ended; the end of
\* asyncio.run does when the close in the finally has raised.
CancelDispatcher ==
    /\ ManagedFree
    /\ worker = "cancel"
    /\ worker' = "gather"
    /\ dispatcher' = [dispatcher EXCEPT !.cancelled = @ \/ dispatcher.at \notin Ended \cup {"none"}]
    /\ UNCHANGED <<api, broker, registered, pool, transport>>

EndExecute ==
    /\ ManagedFree
    /\ worker = "gather"
    /\ dispatcher.at \in Ended \cup {"none"}
    /\ worker' = "done"
    /\ UNCHANGED <<api, broker, registered, pool, dispatcher, transport>>

WorkerStep ==
    \/ StartDispatcher
    \/ Interrupted
    \/ DispatcherFirst
    \/ GdbFirst
    \/ Unregister
    \/ CancelDispatcher
    \/ EndExecute

-----------------------------------------------------------------------------
DebugNext ==
    \/ CloseStep
    \/ \E c \in Clients : Find(c) \/ Submit(c) \/ Answered(c) \/ GiveUp(c)
    \/ Pop
    \/ DispatcherStep
    \/ DispatchWait
    \/ Register
    \/ GdbEnds
    \/ WorkerStep

DebugSpec == DebugInit /\ [][DebugNext]_debugVars

\* Every thread is scheduled and a command is answered.  That GDB ends is
\* only certain once it has been terminated, that an inferior stops once GDB
\* is gone; nobody need call.
FairDebugSpec ==
    /\ DebugSpec
    /\ WF_debugVars(CloseStep)
    /\ WF_debugVars(Pop)
    /\ WF_debugVars(DispatcherStep)
    /\ WF_debugVars(WorkerStep)
    /\ WF_debugVars(transport.closing /\ GdbEnds)
    /\ WF_debugVars(transport.at # "alive" /\ DispatchWait)
    /\ \A c \in Clients : WF_debugVars(Submit(c)) /\ WF_debugVars(Answered(c))

-----------------------------------------------------------------------------
(***************************************************************************)
(* Properties.                                                             *)
(***************************************************************************)

Waits(c) == client[c] = "waiting" /\ response[c] = "pending"

\* A request whose caller has given up: its response may be cancelled between
\* the test of done() and the call that follows, in resolve as in close.
Expired == {c \in Clients : client[c] = "timeout"}

\* The promise of Broker.close: once the broker is closed, no request is left
\* without an answer but the one that the managed task has taken out.  (A
\* time limit that expires in the middle of close may abort it.)
CloseFailsAllPending ==
    brokerClosed /\ closing.at = "none" /\ Expired = {} =>
        \A c \in Clients : Waits(c) => c \in {pool.item, dispatcher.request}

\* The variables keep their types, the lock included, and close its promise.
DebugInv == DebugTypeOK /\ CloseFailsAllPending

\* When the worker of a session has left, every request that reached the
\* broker gets an answer, those that wait for a stop without a limit too.
\* (Except what an aborted close leaves, and the request that the pool thread
\* has popped for a dispatcher that is cancelled.)
SessionEndAnswersAll ==
    \A c \in Clients :
        worker = "done"
            ~> client[c] # "waiting" \/ c = pool.item \/ Expired # {}

\* A session whose GDB is gone comes to its end, whatever it was doing: the
\* worker leaves, and leaves no dispatcher and no registered broker behind.
ExitEndsSession ==
    transport.at # "alive" ~>
        /\ worker = "done"
        /\ ~registered
        /\ dispatcher.at \in Ended \cup {"none"}

\* A client's CLOSE that is being dispatched ends the session.
CloseEndsSession == transport.closing ~> worker = "done"

\* A session ends from either side, and leaves nobody waiting.
SessionEnds == ExitEndsSession /\ CloseEndsSession /\ SessionEndAnswersAll
=============================================================================
