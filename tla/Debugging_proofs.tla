------------------------------ MODULE Debugging_proofs ------------------------------
(***************************************************************************)
(* Debugging: the command channel of a session, the session itself and the *)
(* coordination of sessions in groups, for any clients, breakpoints,       *)
(* groups, sessions, rules and hits, and any number of requests.           *)
(*                                                                         *)
(* The three parts are specified apart from each other, and each has an    *)
(* inductive invariant of its own: ChannelInv, FollowingInv and            *)
(* CoordinationInv.                                                        *)
(***************************************************************************)
EXTENDS DebugBroker, GdbSession, DebugCoordination, TLAPS, FiniteSetTheorems,
        SequenceTheorems

-----------------------------------------------------------------------------
(***************************************************************************)
(* The command channel.                                                    *)
(*                                                                         *)
(* A request that was sent is in one place at most: the queue, what close  *)
(* has drained, the pool thread or the dispatcher.  So what close finds    *)
(* without an answer stays without one until close has failed it, unless   *)
(* its caller gives up, and while nobody does, a request without an answer *)
(* is somewhere.                                                           *)
(***************************************************************************)
Sent(c) == client[c] \in {"waiting", "answered", "timeout"}

ChannelTypes ==
    /\ client \in [Clients -> {"new", "found", "waiting", "refused", "answered", "timeout"}]
    /\ response \in [Clients -> {"pending"} \cup Completed]
    /\ brokerClosed \in BOOLEAN /\ registered \in BOOLEAN
    /\ worker \in {"starting", "registered", "serving", "exit", "awaiting",
                   "finally", "cleanup", "cancel", "gather", "done"}
    /\ transport \in [at : {"alive", "exited", "broken"}, closing : BOOLEAN]

\* c is in the queue, and not elsewhere.
OnlyQueued(c) == Sent(c) /\ c # pool.item /\ c # dispatcher.request

\* A request is queued once, and the marker comes with the end of close.
QueueFits ==
    /\ queue \in Seq(Clients \cup {Marker})
    /\ \A i, j \in 1..Len(queue) : queue[i] = queue[j] /\ queue[i] # Marker => i = j
    /\ \A i \in 1..Len(queue) :
          IF queue[i] = Marker THEN brokerClosed /\ closing.at = "none"
          ELSE OnlyQueued(queue[i])

\* c was drained by close, and is nowhere else.
OnlyDrained(c) ==
    /\ Sent(c) /\ c # pool.item /\ c # dispatcher.request
    /\ \A j \in 1..Len(queue) : queue[j] # c

ClosingFits ==
    /\ closing \in [by : {"nobody", "api", "managed"},
                    at : {"none", "drain", "fail", "set"}, pending : Seq(Clients)]
    /\ closing.at = "none" <=> closing = Unlocked
    /\ closing.at # "none" => brokerClosed
    /\ closing.at \in {"fail", "set"} => queue = <<>>
    /\ \A i \in 1..Len(closing.pending) : OnlyDrained(closing.pending[i])
    /\ closing.at = "set" =>
          /\ closing.pending # <<>>
          /\ Expired = {} => response[Head(closing.pending)] = "pending"

\* The pool thread works for a dispatcher that has nothing to dispatch.
DispatcherFits ==
    /\ dispatcher \in [at : {"none", "receive", "dispatch", "closing", "set"} \cup Ended,
                       request : Clients \cup {None}, verdict : Verdicts \cup {"none"},
                       cancelled : BOOLEAN]
    /\ dispatcher.at \in {"dispatch", "closing", "set"} =>
          dispatcher.request \in Clients /\ pool = NoPool
    /\ dispatcher.request \in Clients => Sent(dispatcher.request)
    /\ dispatcher.at \in {"none", "receive"} => dispatcher.request = None
    /\ dispatcher.at = "none" => pool = NoPool
    /\ dispatcher.at = "closing" => transport.closing
    /\ dispatcher.at = "set" =>
          /\ dispatcher.verdict \in Verdicts
          /\ Kind[dispatcher.request] = "close" /\ dispatcher.verdict = "result"
               => transport.closing
    /\ worker \in {"starting", "registered"} => dispatcher.at = "none"

PoolFits ==
    /\ pool \in [at : {"off", "get", "item", "empty"}, item : Clients \cup {None, Marker}]
    /\ pool.at = "item" <=> pool.item # None
    /\ pool.item \in Clients => Sent(pool.item)

\* A broker that is closed before its dispatcher or GDB is gone was closed by a
\* client whose CLOSE succeeded.
EndFits ==
    /\ \A c \in Clients : Kind[c] = "close" /\ response[c] = "result" => transport.closing
    /\ brokerClosed /\ worker \in {"starting", "registered", "serving"} => transport.closing

Somewhere(c) ==
    \/ c = pool.item \/ c = dispatcher.request
    \/ \E i \in 1..Len(queue) : queue[i] = c
    \/ \E i \in 1..Len(closing.pending) : closing.pending[i] = c

AnswersFit ==
    Expired = {} =>
        /\ \A c \in Clients : Waits(c) => Somewhere(c)
        /\ brokerClosed /\ closing.at = "none" => \A i \in 1..Len(queue) : queue[i] = Marker

ChannelInv ==
    /\ ChannelTypes /\ QueueFits /\ ClosingFits /\ DispatcherFits /\ PoolFits /\ EndFits
    /\ AnswersFit

(***************************************************************************)
(* The lock: Broker.close.                                                 *)
(***************************************************************************)
LEMMA AfterCloseType ==
    ASSUME ChannelTypes, NEW returned \in BOOLEAN, AfterClose(returned)
    PROVE  /\ worker' \in {"starting", "registered", "serving", "exit", "awaiting",
                           "finally", "cleanup", "cancel", "gather", "done"}
           /\ worker' \in {"starting", "registered", "serving"} => worker' = worker
BY DEF AfterClose, ChannelTypes

LEMMA DrainOneFits ==
    ASSUME ChannelInv, DrainOne
    PROVE  ChannelInv'
<1> USE DEF ChannelInv
<1>0. /\ closing.at = "drain" /\ brokerClosed
      /\ UNCHANGED <<client, response, brokerClosed, registered, pool, dispatcher, worker,
                     transport>>
      /\ queue \in Seq(Clients \cup {Marker}) /\ closing.pending \in Seq(Clients)
  BY DEF DrainOne, ClosingFits, QueueFits, api
<1>1. CASE queue = <<>>
  <2>1. queue' = queue /\ closing' = [closing EXCEPT !.at = "fail"]
    BY <1>1 DEF DrainOne
  <2>2. closing'.at = "fail" /\ closing'.pending = closing.pending /\ closing'.by = closing.by
    BY <2>1 DEF ClosingFits
  <2>3. closing' \in [by : {"nobody", "api", "managed"},
                      at : {"none", "drain", "fail", "set"}, pending : Seq(Clients)]
    BY <2>1 DEF ClosingFits
  <2>4. closing' # Unlocked
    BY <2>2 DEF Unlocked
  <2>5. ClosingFits'
    BY <1>0, <1>1, <2>1, <2>2, <2>3, <2>4 DEF ClosingFits, OnlyDrained, Sent, Expired
  <2>6. QueueFits' /\ AnswersFit'
    BY <1>0, <1>1, <2>1, <2>2 DEF QueueFits, OnlyQueued, AnswersFit, Sent, Expired, Somewhere, Waits
  <2> QED
    BY <1>0, <2>5, <2>6 DEF ChannelTypes, DispatcherFits, PoolFits, EndFits, Sent
<1>2. CASE queue # <<>>
  <2> DEFINE c == Head(queue)
  <2>1. queue' = Tail(queue) /\ closing' = [closing EXCEPT !.pending = Append(@, c)]
    BY <1>2 DEF DrainOne
  <2>2. /\ Len(queue) \in Nat \ {0} /\ c = queue[1] /\ queue' \in Seq(Clients \cup {Marker})
        /\ Len(queue') = Len(queue) - 1
        /\ \A i \in 1..Len(queue') : queue'[i] = queue[i + 1]
    BY <1>0, <1>2, <2>1, HeadTailProperties
  <2>3. c # Marker /\ c \in Clients /\ Sent(c) /\ c # pool.item /\ c # dispatcher.request
        /\ \A i \in 1..Len(queue') : queue'[i] # c
    <3>1. 1 \in 1..Len(queue) /\ queue[1] # Marker /\ OnlyQueued(queue[1])
      BY <1>0, <2>2 DEF QueueFits
    <3>2. c \in Clients
      BY <1>0, <2>2, <3>1
    <3>3. ASSUME NEW i \in 1..Len(queue') PROVE queue'[i] # c
      <4>1. i + 1 \in 1..Len(queue) /\ i + 1 # 1
        BY <2>2
      <4> QED
        BY <2>2, <3>1, <4>1 DEF QueueFits
    <3> QED
      BY <2>2, <3>1, <3>2, <3>3 DEF OnlyQueued
  <2>4. /\ closing'.at = "drain" /\ closing'.by = closing.by
        /\ closing'.pending = Append(closing.pending, c)
    BY <1>0, <2>1 DEF ClosingFits
  <2>5. /\ closing'.pending \in Seq(Clients) /\ Len(closing.pending) \in Nat
        /\ Len(closing'.pending) = Len(closing.pending) + 1
        /\ closing'.pending[Len(closing'.pending)] = c
        /\ \A i \in 1..Len(closing.pending) : closing'.pending[i] = closing.pending[i]
    BY <1>0, <2>3, <2>4, AppendProperties
  <2>6. closing' \in [by : {"nobody", "api", "managed"},
                      at : {"none", "drain", "fail", "set"}, pending : Seq(Clients)]
    BY <2>1, <2>4, <2>5 DEF ClosingFits
  <2> HIDE DEF c
  <2>7. ClosingFits'
    <3>1. closing' # Unlocked
      BY <2>4 DEF Unlocked
    <3>2. ASSUME NEW i \in 1..Len(closing.pending)' PROVE OnlyDrained(closing.pending[i])'
      <4>1. \A j \in 1..Len(queue') : j + 1 \in 1..Len(queue) /\ queue'[j] = queue[j + 1]
        BY <2>2
      <4>2. CASE i \in 1..Len(closing.pending)
        <5>1. OnlyDrained(closing.pending[i]) /\ closing'.pending[i] = closing.pending[i]
          BY <2>5, <4>2 DEF ClosingFits
        <5> QED
          BY <1>0, <4>1, <5>1 DEF OnlyDrained, Sent
      <4>3. CASE i = Len(closing'.pending)
        <5>1. closing'.pending[i] = c
          BY <2>5, <4>3
        <5> QED
          BY <1>0, <2>3, <5>1 DEF OnlyDrained, Sent
      <4> QED
        BY <2>5, <4>2, <4>3
    <3> QED
      BY <1>0, <2>4, <2>6, <3>1, <3>2 DEF ClosingFits
  <2>8. QueueFits'
    <3>1. \A j \in 1..Len(queue') : j + 1 \in 1..Len(queue) /\ queue'[j] = queue[j + 1]
      BY <2>2
    <3>2. ASSUME NEW i \in 1..Len(queue'), NEW j \in 1..Len(queue'),
                 queue'[i] = queue'[j], queue'[i] # Marker
          PROVE  i = j
      <4>1. i + 1 = j + 1
        BY <3>1, <3>2 DEF QueueFits
      <4> QED
        BY <2>2, <4>1
    <3>3. ASSUME NEW i \in 1..Len(queue')
          PROVE  queue'[i] # Marker /\ OnlyQueued(queue[i])'
      <4>1. queue[i + 1] # Marker /\ OnlyQueued(queue[i + 1])
        BY <1>0, <3>1 DEF QueueFits
      <4> QED
        BY <1>0, <3>1, <4>1 DEF OnlyQueued, Sent
    <3> QED
      BY <2>2, <3>2, <3>3 DEF QueueFits
  <2>9. AnswersFit'
    <3>1. ASSUME Expired' = {}, NEW d \in Clients, Waits(d)' PROVE Somewhere(d)'
      <4>1. Somewhere(d)
        BY <1>0, <3>1 DEF AnswersFit, Expired, Waits
      <4>2. CASE d = pool.item \/ d = dispatcher.request
        BY <1>0, <4>2 DEF Somewhere
      <4>3. ASSUME NEW i \in 1..Len(closing.pending), closing.pending[i] = d
            PROVE  Somewhere(d)'
        <5>1. i \in 1..Len(closing'.pending) /\ closing'.pending[i] = d
          BY <2>5, <4>3
        <5> QED
          BY <5>1 DEF Somewhere
      <4>4. ASSUME NEW i \in 1..Len(queue), queue[i] = d PROVE Somewhere(d)'
        <5>1. CASE i = 1
          <6>1. closing'.pending[Len(closing'.pending)] = d
                /\ Len(closing'.pending) \in 1..Len(closing'.pending)
            BY <2>2, <2>5, <4>4, <5>1
          <6> QED
            BY <6>1 DEF Somewhere
        <5>2. CASE i # 1
          <6>1. i - 1 \in 1..Len(queue') /\ (i - 1) + 1 = i
            BY <2>2, <5>2
          <6>2. queue'[i - 1] = d
            BY <2>2, <4>4, <6>1
          <6> QED
            BY <6>1, <6>2 DEF Somewhere
        <5> QED
          BY <5>1, <5>2
      <4> QED
        BY <4>1, <4>2, <4>3, <4>4 DEF Somewhere
    <3> QED
      BY <2>4, <3>1 DEF AnswersFit
  <2> QED
    BY <1>0, <2>7, <2>8, <2>9 DEF ChannelTypes, DispatcherFits, PoolFits, EndFits, Sent
<1> QED
  BY <1>1, <1>2

\* The first of the drained requests is done with.
LEMMA PassOverFits ==
    ASSUME ChannelInv, closing.at \in {"fail", "set"}, closing.pending # <<>>,
           closing' = [closing EXCEPT !.at = "fail", !.pending = Tail(@)],
           response' \in [Clients -> {"pending"} \cup Completed],
           \A c \in Clients : response'[c] # "result" \/ response'[c] = response[c],
           \A c \in Clients : c = Head(closing.pending) \/ response'[c] = response[c],
           response'[Head(closing.pending)] # "pending",
           UNCHANGED <<client, queue, brokerClosed, registered, pool, dispatcher, worker,
                       transport>>
    PROVE  ChannelInv'
<1> USE DEF ChannelInv
<1> DEFINE c == Head(closing.pending)
<1>1. closing.pending \in Seq(Clients) /\ queue = <<>> /\ brokerClosed
  BY DEF ClosingFits
<1>2. /\ closing'.at = "fail" /\ closing'.by = closing.by
      /\ closing'.pending = Tail(closing.pending)
  BY DEF ClosingFits
<1>3. /\ Len(closing.pending) \in Nat \ {0} /\ c = closing.pending[1]
      /\ closing'.pending \in Seq(Clients)
      /\ Len(closing'.pending) = Len(closing.pending) - 1
      /\ \A i \in 1..Len(closing'.pending) : closing'.pending[i] = closing.pending[i + 1]
  BY <1>1, <1>2, HeadTailProperties
<1>4. closing' \in [by : {"nobody", "api", "managed"},
                    at : {"none", "drain", "fail", "set"}, pending : Seq(Clients)]
  BY <1>2, <1>3 DEF ClosingFits
<1>5. closing' # Unlocked
  BY <1>2 DEF Unlocked
<1>6. ClosingFits'
  <2>1. ASSUME NEW i \in 1..Len(closing.pending)' PROVE OnlyDrained(closing.pending[i])'
    <3>1. i + 1 \in 1..Len(closing.pending) /\ closing'.pending[i] = closing.pending[i + 1]
      BY <1>3
    <3>2. OnlyDrained(closing.pending[i + 1])
      BY <3>1 DEF ClosingFits
    <3> QED
      BY <3>1, <3>2 DEF OnlyDrained, Sent
  <2> QED
    BY <1>1, <1>2, <1>4, <1>5, <2>1 DEF ClosingFits
<1>7. AnswersFit'
  <2>1. ASSUME Expired' = {}, NEW d \in Clients, Waits(d)' PROVE Somewhere(d)'
    <3>1. d # c /\ Waits(d)
      BY <2>1 DEF Waits
    <3>2. Somewhere(d)
      BY <2>1, <3>1 DEF AnswersFit, Expired
    <3>3. ASSUME NEW i \in 1..Len(closing.pending), closing.pending[i] = d
          PROVE  \E j \in 1..Len(closing'.pending) : closing'.pending[j] = d
      <4>1. i - 1 \in 1..Len(closing'.pending)
        BY <1>3, <3>1, <3>3
      <4> QED
        BY <1>3, <3>3, <4>1
    <3> QED
      BY <3>2, <3>3 DEF Somewhere
  <2> QED
    BY <1>2, <2>1 DEF AnswersFit
<1>8. QueueFits' /\ EndFits'
  BY <1>1, <1>2 DEF QueueFits, OnlyQueued, EndFits
<1> QED
  BY <1>6, <1>7, <1>8 DEF ChannelTypes, DispatcherFits, PoolFits, Sent

LEMMA TestPendingFits ==
    ASSUME ChannelInv, TestPending
    PROVE  ChannelInv'
<1> USE DEF ChannelInv
<1>1. /\ closing.at = "fail" /\ closing.pending # <<>> /\ response' = response
      /\ UNCHANGED <<client, queue, brokerClosed, registered, pool, dispatcher, worker,
                     transport>>
  BY DEF TestPending, api
<1>2. CASE response[Head(closing.pending)] = "pending"
  <2>1. closing' = [closing EXCEPT !.at = "set"]
    BY <1>2 DEF TestPending
  <2>2. /\ closing'.at = "set" /\ closing'.by = closing.by
        /\ closing'.pending = closing.pending /\ closing' # Unlocked
        /\ closing' \in [by : {"nobody", "api", "managed"},
                         at : {"none", "drain", "fail", "set"}, pending : Seq(Clients)]
    BY <2>1 DEF ClosingFits, Unlocked
  <2>3. ClosingFits'
    BY <1>1, <1>2, <2>2 DEF ClosingFits, OnlyDrained, Sent, Expired
  <2>4. QueueFits' /\ AnswersFit'
    BY <1>1, <2>2
    DEF QueueFits, OnlyQueued, ClosingFits, AnswersFit, Sent, Expired, Waits, Somewhere
  <2> QED
    BY <1>1, <2>3, <2>4 DEF ChannelTypes, DispatcherFits, PoolFits, EndFits, Sent
<1>3. CASE response[Head(closing.pending)] # "pending"
  <2>1. closing' = [closing EXCEPT !.pending = Tail(@)]
    BY <1>3 DEF TestPending
  <2>2. closing' = [closing EXCEPT !.at = "fail", !.pending = Tail(@)]
    BY <1>1, <2>1 DEF ClosingFits
  <2> QED
    BY <1>1, <1>3, <2>2, PassOverFits DEF ChannelTypes
<1> QED
  BY <1>2, <1>3

\* A response that was cancelled since the test aborts close; what it has
\* drained is lost, but somebody has given up.
LEMMA FailPendingFits ==
    ASSUME ChannelInv, FailPending
    PROVE  ChannelInv'
<1> USE DEF ChannelInv
<1> DEFINE c == Head(closing.pending)
<1>1. /\ closing.at = "set" /\ closing.pending # <<>> /\ queue = <<>>
      /\ UNCHANGED <<client, queue, brokerClosed, registered, pool, dispatcher, transport>>
      /\ closing.pending \in Seq(Clients)
  BY DEF FailPending, ClosingFits
<1>2. CASE response[c] = "pending"
  <2>1. /\ response' = [response EXCEPT ![c] = "closed"]
        /\ closing' = [closing EXCEPT !.at = "fail", !.pending = Tail(@)]
        /\ worker' = worker
    BY <1>2 DEF FailPending
  <2>2. c \in Clients
    BY <1>1, HeadTailProperties
  <2>3. /\ response' \in [Clients -> {"pending"} \cup Completed]
        /\ response'[c] = "closed"
        /\ \A d \in Clients : d = c \/ response'[d] = response[d]
    BY <2>1, <2>2 DEF ChannelTypes, Completed
  <2> HIDE DEF c
  <2>4. \A d \in Clients : response'[d] # "result" \/ response'[d] = response[d]
    BY <2>3
  <2> QED
    BY <1>1, <2>1, <2>3, <2>4, PassOverFits DEF c
<1>3. CASE response[c] # "pending"
  <2>1. closing' = Unlocked /\ AfterClose(FALSE) /\ response' = response
    BY <1>3 DEF FailPending
  <2>2. Expired # {} /\ Expired' # {}
    BY <1>1, <1>3 DEF ClosingFits, Expired
  <2>3. closing'.at = "none" /\ closing'.pending = <<>>
    BY <2>1 DEF Unlocked
  <2>4. ClosingFits'
    <3>1. Unlocked \in [by : {"nobody", "api", "managed"},
                        at : {"none", "drain", "fail", "set"}, pending : Seq(Clients)]
      BY DEF Unlocked
    <3>2. Len(closing'.pending) = 0
      BY <2>3
    <3> QED
      BY <2>1, <2>3, <3>1, <3>2 DEF ClosingFits
  <2>5. QueueFits' /\ AnswersFit'
    BY <1>1, <2>2 DEF QueueFits, AnswersFit
  <2>6. /\ worker' \in {"starting", "registered", "serving", "exit", "awaiting",
                       "finally", "cleanup", "cancel", "gather", "done"}
        /\ worker' \in {"starting", "registered", "serving"} => worker' = worker
    BY <2>1, AfterCloseType
  <2>7. EndFits' /\ DispatcherFits' /\ PoolFits'
    BY <1>1, <2>1, <2>6 DEF EndFits, DispatcherFits, PoolFits, Sent
  <2> QED
    BY <1>1, <2>1, <2>4, <2>5, <2>6, <2>7 DEF ChannelTypes
<1> QED
  BY <1>2, <1>3

LEMMA PutMarkerFits ==
    ASSUME ChannelInv, PutMarker
    PROVE  ChannelInv'
<1> USE DEF ChannelInv
<1>1. /\ closing.at = "fail" /\ closing.pending = <<>> /\ queue = <<>> /\ brokerClosed
      /\ queue' = Append(queue, Marker) /\ closing' = Unlocked /\ AfterClose(TRUE)
      /\ UNCHANGED <<client, response, brokerClosed, registered, pool, dispatcher, transport>>
  BY DEF PutMarker, ClosingFits, api
<1>2. /\ queue' = <<Marker>> /\ queue' \in Seq(Clients \cup {Marker}) /\ Len(queue') = 1
      /\ \A i \in 1..Len(queue') : i = 1 /\ queue'[i] = Marker
  BY <1>1
<1>3. closing'.at = "none" /\ closing'.pending = <<>> /\ Len(closing'.pending) = 0
  BY <1>1 DEF Unlocked
<1>4. Unlocked \in [by : {"nobody", "api", "managed"},
                    at : {"none", "drain", "fail", "set"}, pending : Seq(Clients)]
  BY DEF Unlocked
<1>5. ClosingFits'
  BY <1>1, <1>3, <1>4 DEF ClosingFits
<1>6. QueueFits'
  BY <1>1, <1>2, <1>3 DEF QueueFits
<1>7. AnswersFit'
  BY <1>1, <1>2, <1>3 DEF AnswersFit, Expired, Waits, Somewhere
<1>8. /\ worker' \in {"starting", "registered", "serving", "exit", "awaiting",
                     "finally", "cleanup", "cancel", "gather", "done"}
      /\ worker' \in {"starting", "registered", "serving"} => worker' = worker
  BY <1>1, AfterCloseType
<1>9. EndFits' /\ DispatcherFits' /\ PoolFits'
  BY <1>1, <1>8 DEF EndFits, DispatcherFits, PoolFits, Sent
<1> QED
  BY <1>1, <1>5, <1>6, <1>7, <1>8, <1>9 DEF ChannelTypes

(***************************************************************************)
(* The server's event loop.                                                *)
(***************************************************************************)
LEMMA FindFits ==
    ASSUME ChannelInv, NEW c \in Clients, Find(c)
    PROVE  ChannelInv'
<1> USE DEF ChannelInv
<1>1. /\ client[c] = "new" /\ client' \in [Clients -> {"new", "found", "waiting", "refused",
                                                       "answered", "timeout"}]
      /\ client'[c] \in {"found", "refused"}
      /\ \A d \in Clients : d = c \/ client'[d] = client[d]
      /\ UNCHANGED <<response, queue, brokerClosed, closing, registered, pool, dispatcher,
                     worker, transport>>
  BY DEF Find, ChannelTypes, broker
<1>2. /\ \A d \in Clients : Sent(d)' <=> Sent(d)
      /\ \A d \in Clients : Waits(d)' <=> Waits(d)
      /\ Expired' = Expired
  BY <1>1 DEF Sent, Waits, Expired
<1>3. /\ \A i \in 1..Len(queue) : queue[i] \in Clients \cup {Marker}
      /\ \A i \in 1..Len(closing.pending) : closing.pending[i] \in Clients
  BY DEF QueueFits, ClosingFits
<1>4. QueueFits'
  BY <1>1, <1>2, <1>3 DEF QueueFits, OnlyQueued
<1>5. ClosingFits'
  BY <1>1, <1>2, <1>3 DEF ClosingFits, OnlyDrained
<1>6. AnswersFit'
  BY <1>1, <1>2 DEF AnswersFit, Somewhere
<1> QED
  BY <1>1, <1>2, <1>4, <1>5, <1>6 DEF ChannelTypes, DispatcherFits, PoolFits, EndFits

LEMMA SubmitFits ==
    ASSUME ChannelInv, NEW c \in Clients, Submit(c)
    PROVE  ChannelInv'
<1> USE DEF ChannelInv
<1>1. /\ client[c] = "found" /\ closing.at = "none" /\ closing.pending = <<>>
      /\ UNCHANGED <<response, brokerClosed, closing, registered, pool, dispatcher,
                     worker, transport>>
  BY DEF Submit, ClosingFits, Unlocked
<1>2. /\ client' \in [Clients -> {"new", "found", "waiting", "refused", "answered", "timeout"}]
      /\ client'[c] \in {"refused", "waiting"}
      /\ \A d \in Clients : d = c \/ client'[d] = client[d]
  BY DEF Submit, ChannelTypes
<1>3. /\ \A d \in Clients : Sent(d) => Sent(d)'
      /\ \A d \in Clients \ {c} : Waits(d)' => Waits(d)
      /\ Expired' = Expired /\ ~Sent(c)
  BY <1>1, <1>2 DEF Sent, Waits, Expired
<1>4. queue \in Seq(Clients \cup {Marker}) /\ Len(queue) \in Nat
      /\ \A i \in 1..Len(queue) : queue[i] \in Clients \cup {Marker}
  BY DEF QueueFits
<1>5. ClosingFits' /\ DispatcherFits' /\ PoolFits' /\ EndFits'
  <2>1. Len(closing.pending) = 0
    BY <1>1
  <2>2. ClosingFits'
    BY <1>1, <2>1 DEF ClosingFits
  <2> QED
    BY <1>1, <1>3, <2>2 DEF DispatcherFits, PoolFits, EndFits
<1>6. CASE brokerClosed
  <2>1. queue' = queue /\ client'[c] = "refused"
    BY <1>6 DEF Submit, ChannelTypes
  <2>2. QueueFits'
    BY <1>1, <1>3, <1>4, <2>1 DEF QueueFits, OnlyQueued
  <2>3. AnswersFit'
    BY <1>1, <1>3, <2>1 DEF AnswersFit, Somewhere, Waits
  <2> QED
    BY <1>1, <1>2, <1>5, <2>2, <2>3 DEF ChannelTypes
<1>7. CASE ~brokerClosed
  <2>1. queue' = Append(queue, c) /\ client'[c] = "waiting"
    BY <1>7 DEF Submit, ChannelTypes
  <2>2. /\ queue' \in Seq(Clients \cup {Marker}) /\ Len(queue') = Len(queue) + 1
        /\ queue'[Len(queue')] = c /\ Len(queue') \in 1..Len(queue')
        /\ \A i \in 1..Len(queue) : queue'[i] = queue[i] /\ i \in 1..Len(queue')
        /\ \A i \in 1..Len(queue') : i \in 1..Len(queue) \/ i = Len(queue')
    BY <1>4, <2>1, AppendProperties
  <2>3. /\ \A i \in 1..Len(queue) :
              queue[i] # Marker /\ queue[i] \in Clients /\ OnlyQueued(queue[i]) /\ queue[i] # c
        /\ \A d \in Clients : OnlyQueued(d) => OnlyQueued(d)'
    BY <1>1, <1>3, <1>4, <1>7 DEF QueueFits, OnlyQueued
  <2>4. c # Marker /\ OnlyQueued(c)'
    <3>1. c # pool.item /\ c # dispatcher.request
      BY <1>3 DEF PoolFits, DispatcherFits
    <3> QED
      BY <1>1, <2>1, <3>1, DebugAssumption DEF OnlyQueued, Sent
  <2>5. QueueFits'
    <3>1. ASSUME NEW i \in 1..Len(queue'), NEW j \in 1..Len(queue'), queue'[i] = queue'[j]
          PROVE  i = j
      <4>1. CASE i \in 1..Len(queue) /\ j \in 1..Len(queue)
        BY <2>2, <2>3, <3>1, <4>1 DEF QueueFits
      <4> QED
        BY <2>2, <2>3, <3>1, <4>1
    <3>2. ASSUME NEW i \in 1..Len(queue')
          PROVE  queue'[i] # Marker /\ OnlyQueued(queue[i])'
      <4>1. CASE i \in 1..Len(queue)
        <5>1. queue'[i] = queue[i] /\ queue[i] \in Clients /\ OnlyQueued(queue[i])
          BY <2>2, <2>3, <4>1
        <5> QED
          BY <1>1, <1>3, <2>3, <4>1, <5>1 DEF OnlyQueued
      <4>2. CASE i = Len(queue')
        BY <2>2, <2>4, <4>2 DEF OnlyQueued, Sent
      <4> QED
        BY <2>2, <4>1, <4>2
    <3> QED
      BY <2>2, <3>1, <3>2 DEF QueueFits
  <2>6. AnswersFit'
    <3>1. ASSUME Expired' = {}, NEW d \in Clients, Waits(d)' PROVE Somewhere(d)'
      <4>1. CASE d = c
        BY <2>2, <4>1 DEF Somewhere
      <4>2. CASE d # c
        <5>1. Somewhere(d)
          BY <1>3, <3>1, <4>2 DEF AnswersFit
        <5> QED
          BY <1>1, <2>2, <5>1 DEF Somewhere
      <4> QED
        BY <4>1, <4>2
    <3> QED
      BY <1>1, <1>7, <3>1 DEF AnswersFit
  <2> QED
    BY <1>1, <1>2, <1>5, <2>5, <2>6 DEF ChannelTypes
<1> QED
  BY <1>6, <1>7

\* Nobody but the caller is concerned: what it waited for has an answer, or it
\* has given up.
LEMMA AnsweredFits ==
    ASSUME ChannelInv, NEW c \in Clients, Answered(c)
    PROVE  ChannelInv'
<1> USE DEF ChannelInv
<1>1. /\ client[c] = "waiting" /\ response[c] # "pending"
      /\ UNCHANGED <<response, queue, pool, dispatcher, worker, transport>>
      /\ client' = [client EXCEPT ![c] = "answered"]
  BY DEF Answered
<1>2. /\ client' \in [Clients -> {"new", "found", "waiting", "refused", "answered", "timeout"}]
      /\ client'[c] = "answered"
      /\ \A d \in Clients : d = c \/ client'[d] = client[d]
  BY <1>1 DEF ChannelTypes
<1>3. /\ \A d \in Clients : Sent(d) => Sent(d)'
      /\ \A d \in Clients : Waits(d)' => Waits(d)
      /\ Expired' = Expired
  BY <1>1, <1>2 DEF Sent, Waits, Expired
<1>4. /\ queue \in Seq(Clients \cup {Marker}) /\ closing.pending \in Seq(Clients)
      /\ \A i \in 1..Len(queue) : queue[i] \in Clients \cup {Marker}
      /\ \A i \in 1..Len(closing.pending) : closing.pending[i] \in Clients
  BY DEF QueueFits, ClosingFits
<1>5. CASE UNCHANGED <<brokerClosed, closing>>
  <2>1. registered' \in BOOLEAN
    BY <1>5 DEF Answered, ChannelTypes
  <2>2. QueueFits'
    BY <1>1, <1>3, <1>4, <1>5 DEF QueueFits, OnlyQueued
  <2>3. ClosingFits'
    BY <1>1, <1>3, <1>4, <1>5 DEF ClosingFits, OnlyDrained
  <2>4. AnswersFit'
    BY <1>1, <1>3, <1>5 DEF AnswersFit, Somewhere
  <2> QED
    BY <1>1, <1>2, <1>3, <1>5, <2>1, <2>2, <2>3, <2>4
       DEF ChannelTypes, DispatcherFits, PoolFits, EndFits
<1>6. CASE ~(UNCHANGED <<brokerClosed, closing>>)
  <2>1. /\ Kind[c] = "close" /\ response[c] = "result" /\ closing.at = "none"
        /\ registered' = FALSE /\ brokerClosed' = TRUE /\ ~brokerClosed
        /\ closing' = Closing("api")
    BY <1>6 DEF Answered, ChannelTypes
  <2>2. transport.closing
    BY <2>1 DEF EndFits
  <2>3. /\ closing'.at = "drain" /\ closing'.pending = <<>> /\ closing' # Unlocked
        /\ Len(closing'.pending) = 0
        /\ closing' \in [by : {"nobody", "api", "managed"},
                         at : {"none", "drain", "fail", "set"}, pending : Seq(Clients)]
    BY <2>1 DEF Closing, Unlocked
  <2>4. ClosingFits'
    BY <2>1, <2>3 DEF ClosingFits
  <2>5. QueueFits'
    BY <1>1, <1>3, <1>4, <2>1 DEF QueueFits, OnlyQueued
  <2>6. AnswersFit'
    <3>1. Len(closing.pending) = 0
      BY <2>1 DEF ClosingFits, Unlocked
    <3> QED
      BY <1>1, <1>3, <2>3, <3>1 DEF AnswersFit, Somewhere
  <2>7. EndFits'
    BY <1>1, <2>2 DEF EndFits
  <2>8. DispatcherFits' /\ PoolFits'
    BY <1>1, <1>3 DEF DispatcherFits, PoolFits
  <2> QED
    BY <1>1, <1>2, <2>1, <2>4, <2>5, <2>6, <2>7, <2>8 DEF ChannelTypes
<1> QED
  BY <1>5, <1>6

LEMMA GiveUpFits ==
    ASSUME ChannelInv, NEW c \in Clients, GiveUp(c)
    PROVE  ChannelInv'
<1> USE DEF ChannelInv
<1>1. /\ client[c] = "waiting"
      /\ client' = [client EXCEPT ![c] = "timeout"]
      /\ response' = [response EXCEPT ![c] = "cancelled"]
      /\ UNCHANGED <<queue, brokerClosed, closing, registered, pool, dispatcher, worker,
                     transport>>
  BY DEF GiveUp, broker
<1>2. /\ client' \in [Clients -> {"new", "found", "waiting", "refused", "answered", "timeout"}]
      /\ client'[c] = "timeout"
      /\ \A d \in Clients : d = c \/ client'[d] = client[d]
      /\ response' \in [Clients -> {"pending"} \cup Completed]
      /\ \A d \in Clients : response'[d] = "result" => response[d] = "result"
  BY <1>1 DEF ChannelTypes, Completed
<1>3. (\A d \in Clients : Sent(d) => Sent(d)') /\ Expired' # {}
  BY <1>1, <1>2 DEF Sent, Expired
<1>4. /\ \A i \in 1..Len(queue) : queue[i] \in Clients \cup {Marker}
      /\ \A i \in 1..Len(closing.pending) : closing.pending[i] \in Clients
  BY DEF QueueFits, ClosingFits
<1>5. QueueFits'
  BY <1>1, <1>3, <1>4 DEF QueueFits, OnlyQueued
<1>6. ClosingFits'
  BY <1>1, <1>3, <1>4 DEF ClosingFits, OnlyDrained
<1>7. AnswersFit'
  BY <1>3 DEF AnswersFit
<1> QED
  BY <1>1, <1>2, <1>3, <1>5, <1>6, <1>7 DEF ChannelTypes, DispatcherFits, PoolFits, EndFits

(***************************************************************************)
(* The pool thread.                                                        *)
(***************************************************************************)
LEMMA PopFits ==
    ASSUME ChannelInv, Pop
    PROVE  ChannelInv'
<1> USE DEF ChannelInv
<1>1. /\ pool.at = "get" /\ pool.item = None
      /\ UNCHANGED <<client, response, brokerClosed, closing, registered, dispatcher, worker,
                     transport>>
      /\ queue \in Seq(Clients \cup {Marker})
  BY DEF Pop, api, PoolFits, QueueFits
<1>2. dispatcher.at \notin {"none", "dispatch", "closing", "set"}
  BY <1>1 DEF DispatcherFits, NoPool
<1>3. CASE queue = <<>>
  <2>1. queue' = queue /\ pool' = [at |-> "empty", item |-> None]
    BY <1>3 DEF Pop
  <2>2. QueueFits' /\ ClosingFits'
    BY <1>1, <1>3, <2>1 DEF QueueFits, ClosingFits, OnlyQueued, OnlyDrained, Sent, Expired
  <2>3. AnswersFit'
    BY <1>1, <1>3, <2>1 DEF AnswersFit, Expired, Waits, Somewhere
  <2>4. PoolFits'
    BY <2>1, DebugAssumption DEF PoolFits
  <2> QED
    BY <1>1, <1>2, <2>2, <2>3, <2>4 DEF ChannelTypes, DispatcherFits, EndFits, Sent
<1>4. CASE queue # <<>>
  <2> DEFINE c == Head(queue)
  <2>1. queue' = Tail(queue) /\ pool' = [at |-> "item", item |-> c]
    BY <1>4 DEF Pop
  <2>2. /\ Len(queue) \in Nat \ {0} /\ c = queue[1] /\ queue' \in Seq(Clients \cup {Marker})
        /\ Len(queue') = Len(queue) - 1 /\ 1 \in 1..Len(queue) /\ c \in Clients \cup {Marker}
        /\ \A i \in 1..Len(queue') : queue'[i] = queue[i + 1] /\ i + 1 \in 1..Len(queue)
    BY <1>1, <1>4, <2>1, HeadTailProperties
  <2>3. c # Marker => OnlyQueued(c) /\ \A i \in 1..Len(queue') : queue'[i] # c
    BY <2>2 DEF QueueFits
  <2> HIDE DEF c
  <2>4. pool'.item = c /\ pool'.at = "item" /\ c # None
    BY <2>1, <2>2, DebugAssumption
  <2>5. PoolFits'
    BY <1>1, <2>1, <2>2, <2>3, <2>4, DebugAssumption DEF PoolFits, OnlyQueued, Sent
  <2>6. QueueFits'
    <3>1. ASSUME NEW i \in 1..Len(queue'), NEW j \in 1..Len(queue'),
                 queue'[i] = queue'[j], queue'[i] # Marker
          PROVE  i = j
      <4>1. i + 1 = j + 1
        BY <2>2, <3>1 DEF QueueFits
      <4> QED
        BY <2>2, <4>1
    <3>2. ASSUME NEW i \in 1..Len(queue')
          PROVE  IF queue'[i] = Marker THEN brokerClosed' /\ closing'.at = "none"
                 ELSE OnlyQueued(queue[i])'
      <4>1. queue'[i] = queue[i + 1] /\ i + 1 \in 1..Len(queue)
        BY <2>2
      <4>2. CASE queue'[i] = Marker
        BY <1>1, <4>1, <4>2 DEF QueueFits
      <4>3. CASE queue'[i] # Marker
        <5>1. OnlyQueued(queue[i + 1])
          BY <4>1, <4>3 DEF QueueFits
        <5>2. queue'[i] # c
          BY <2>3, <4>3
        <5> QED
          BY <1>1, <2>4, <4>1, <4>3, <5>1, <5>2 DEF OnlyQueued, Sent
      <4> QED
        BY <4>2, <4>3
    <3> QED
      BY <2>2, <3>1, <3>2 DEF QueueFits
  <2>7. ClosingFits'
    <3>1. closing.at \notin {"fail", "set"}
      BY <1>4 DEF ClosingFits
    <3>2. ASSUME NEW i \in 1..Len(closing.pending) PROVE OnlyDrained(closing.pending[i])'
      <4>1. OnlyDrained(closing.pending[i])
        BY DEF ClosingFits
      <4> QED
        BY <1>1, <2>2, <2>4, <4>1 DEF OnlyDrained, Sent
    <3> QED
      BY <1>1, <3>1, <3>2 DEF ClosingFits
  <2>8. AnswersFit'
    <3>1. ASSUME Expired' = {}, NEW d \in Clients, Waits(d)' PROVE Somewhere(d)'
      <4>1. Somewhere(d) /\ d # pool.item
        BY <1>1, <3>1, DebugAssumption DEF AnswersFit, Expired, Waits
      <4>2. ASSUME NEW i \in 1..Len(queue), queue[i] = d PROVE Somewhere(d)'
        <5>1. CASE i = 1
          BY <2>2, <2>4, <4>2, <5>1 DEF Somewhere
        <5>2. CASE i # 1
          <6>1. i - 1 \in 1..Len(queue') /\ (i - 1) + 1 = i
            BY <2>2, <5>2
          <6>2. queue'[i - 1] = d
            BY <2>2, <4>2, <6>1
          <6> QED
            BY <6>1, <6>2 DEF Somewhere
        <5> QED
          BY <5>1, <5>2
      <4> QED
        BY <1>1, <4>1, <4>2 DEF Somewhere
    <3>2. ASSUME Expired' = {}, brokerClosed', closing'.at = "none",
                 NEW i \in 1..Len(queue')
          PROVE  queue'[i] = Marker
      BY <1>1, <2>2, <3>2 DEF AnswersFit, Expired
    <3> QED
      BY <3>1, <3>2 DEF AnswersFit
  <2> QED
    BY <1>1, <1>2, <2>5, <2>6, <2>7, <2>8 DEF ChannelTypes, DispatcherFits, EndFits, Sent
<1> QED
  BY <1>3, <1>4

(***************************************************************************)
(* The dispatcher.                                                         *)
(***************************************************************************)
\* A step of the dispatcher moves what it and the pool thread have, or lets go
\* of what has an answer.
LEMMA MovedFits ==
    ASSUME ChannelInv, DispatcherFits', PoolFits',
           UNCHANGED <<client, queue, brokerClosed, closing, registered, worker, transport>>,
           response' \in [Clients -> {"pending"} \cup Completed],
           \A c \in Clients : c = dispatcher.request \/ response'[c] = response[c],
           \A c \in Clients : response'[c] = "result" /\ Kind[c] = "close" => transport.closing,
           \A c \in Clients : c \in {pool'.item, dispatcher'.request}
                                => c \in {pool.item, dispatcher.request},
           \A c \in Clients : c \in {pool.item, dispatcher.request}
                                => \/ c \in {pool'.item, dispatcher'.request}
                                   \/ response'[c] # "pending"
    PROVE  ChannelInv'
<1> USE DEF ChannelInv
<1>0. /\ \A i \in 1..Len(queue) : queue[i] \in Clients \cup {Marker}
      /\ \A i \in 1..Len(closing.pending) : closing.pending[i] \in Clients
      /\ closing.pending \in Seq(Clients)
  BY DEF QueueFits, ClosingFits
<1>1. QueueFits'
  BY <1>0 DEF QueueFits, OnlyQueued, Sent
<1>2. ClosingFits'
  <2>1. ASSUME NEW i \in 1..Len(closing.pending) PROVE OnlyDrained(closing.pending[i])'
    <3>1. OnlyDrained(closing.pending[i]) /\ closing.pending[i] \in Clients
      BY <1>0 DEF ClosingFits
    <3> QED
      BY <3>1 DEF OnlyDrained, Sent
  <2>2. ASSUME closing.at = "set", Expired' = {}
        PROVE  response'[Head(closing.pending)] = "pending"
    <3>1. closing.pending # <<>> /\ response[Head(closing.pending)] = "pending"
      BY <2>2 DEF ClosingFits, Expired
    <3>2. Len(closing.pending) \in Nat \ {0} /\ Head(closing.pending) = closing.pending[1]
      BY <1>0, <3>1, HeadTailProperties
    <3>3. OnlyDrained(Head(closing.pending)) /\ Head(closing.pending) \in Clients
      BY <1>0, <3>2 DEF ClosingFits
    <3> QED
      BY <3>1, <3>3 DEF OnlyDrained
  <2> QED
    BY <2>1, <2>2 DEF ClosingFits
<1>3. AnswersFit'
  <2>1. ASSUME Expired' = {}, NEW d \in Clients, Waits(d)' PROVE Somewhere(d)'
    <3>1. response'[d] = "pending"
      BY <2>1 DEF Waits
    <3>2. CASE d \in {pool.item, dispatcher.request}
      BY <3>1, <3>2 DEF Somewhere
    <3>3. CASE d \notin {pool.item, dispatcher.request}
      <4>1. Somewhere(d)
        BY <2>1, <3>3 DEF AnswersFit, Waits, Expired
      <4> QED
        BY <3>3, <4>1 DEF Somewhere
    <3> QED
      BY <3>2, <3>3
  <2> QED
    BY <2>1 DEF AnswersFit, Expired
<1>4. EndFits'
  BY DEF EndFits
<1> QED
  BY <1>1, <1>2, <1>3, <1>4 DEF ChannelTypes

LEMMA ReceiveFits ==
    ASSUME ChannelInv, Receive \/ ReceiveNothing \/ ReceiveCancelled
    PROVE  ChannelInv'
<1> USE DEF ChannelInv
<1>1. /\ UNCHANGED <<client, response, queue, brokerClosed, closing, registered, worker,
                     transport>>
      /\ dispatcher.at = "receive" /\ dispatcher.request = None
      /\ worker \notin {"starting", "registered"}
      /\ response' \in [Clients -> {"pending"} \cup Completed]
      /\ \A c \in Clients : response'[c] = "result" /\ Kind[c] = "close" => transport.closing
      /\ None \notin Clients /\ Marker \notin Clients
  BY DebugAssumption
     DEF Receive, ReceiveNothing, ReceiveCancelled, api, broker, DispatcherFits, EndFits,
         ChannelTypes
<1>2. CASE dispatcher' = dispatcher /\ pool' = Getting
           /\ (pool.item \in Clients => response[pool.item] # "pending")
  <2>1. DispatcherFits' /\ PoolFits'
    BY <1>1, <1>2 DEF DispatcherFits, PoolFits, Getting, Sent
  <2> QED
    BY <1>1, <1>2, <2>1, MovedFits DEF Getting
<1>3. CASE /\ pool' = NoPool /\ pool.item \notin Clients
           /\ dispatcher' = [dispatcher EXCEPT !.at = "returned"]
  <2>1. DispatcherFits' /\ PoolFits'
    BY <1>1, <1>3 DEF DispatcherFits, PoolFits, NoPool, Ended
  <2>2. dispatcher'.request = None
    BY <1>1, <1>3 DEF DispatcherFits
  <2> QED
    BY <1>1, <1>3, <2>1, <2>2, MovedFits DEF NoPool
<1>4. CASE /\ pool' = pool
           /\ dispatcher' = [dispatcher EXCEPT !.at = "cancelled"]
  <2>1. DispatcherFits' /\ PoolFits'
    BY <1>1, <1>4 DEF DispatcherFits, PoolFits, Ended, Sent
  <2>2. dispatcher'.request = None
    BY <1>1, <1>4 DEF DispatcherFits
  <2> QED
    BY <1>1, <1>4, <2>1, <2>2, MovedFits
<1>5. CASE /\ pool' = NoPool /\ pool.item \in Clients
           /\ dispatcher' = [dispatcher EXCEPT !.at = "dispatch", !.request = pool.item]
  <2>1. dispatcher'.request = pool.item /\ pool'.item = None
    BY <1>5 DEF DispatcherFits, NoPool
  <2>2. DispatcherFits' /\ PoolFits'
    BY <1>1, <1>5, <2>1 DEF DispatcherFits, PoolFits, NoPool, Sent
  <2> QED
    BY <1>1, <1>5, <2>1, <2>2, MovedFits
<1>6. CASE Receive
  <2>1. pool.at = "item" /\ pool.item # None /\ pool.item \in Clients \cup {None, Marker}
    BY <1>6 DEF Receive, PoolFits
  <2> QED
    BY <1>1, <1>2, <1>3, <1>5, <1>6, <2>1 DEF Receive, EndAs
<1>7. CASE ReceiveNothing
  <2>1. pool.item = None
    BY <1>7 DEF ReceiveNothing, PoolFits
  <2> QED
    BY <1>1, <1>2, <1>3, <1>7, <2>1 DEF ReceiveNothing, EndAs
<1>8. CASE ReceiveCancelled
  BY <1>4, <1>8 DEF ReceiveCancelled
<1> QED
  BY <1>6, <1>7, <1>8

\* The request has an answer, and the dispatcher lets go of it.
LEMMA AfterAnswerFits ==
    ASSUME ChannelInv, NEW verdict, AfterAnswer(verdict),
           dispatcher.at \in {"dispatch", "closing", "set"},
           UNCHANGED <<client, queue, brokerClosed, closing, registered, worker, transport>>,
           response' \in [Clients -> {"pending"} \cup Completed],
           \A c \in Clients : c = dispatcher.request \/ response'[c] = response[c],
           \A c \in Clients : response'[c] = "result" /\ Kind[c] = "close" => transport.closing,
           response'[dispatcher.request] # "pending"
    PROVE  ChannelInv'
<1> USE DEF ChannelInv
<1>1. /\ dispatcher.request \in Clients /\ pool = NoPool /\ None \notin Clients
      /\ worker \notin {"starting", "registered"}
  BY DebugAssumption DEF DispatcherFits
<1>2. CASE dispatcher' = [NoDispatcher EXCEPT !.at = "returned"] /\ pool' = pool
  <2>1. DispatcherFits' /\ PoolFits'
    BY <1>1, <1>2 DEF DispatcherFits, PoolFits, NoDispatcher, NoPool, Ended
  <2>2. dispatcher'.request = None /\ pool'.item = None
    BY <1>1, <1>2 DEF NoDispatcher, NoPool
  <2> QED
    BY <1>1, <2>1, <2>2, MovedFits DEF NoPool
<1>3. CASE dispatcher' = Receiving /\ pool' = Getting
  <2>1. DispatcherFits' /\ PoolFits'
    BY <1>1, <1>3 DEF DispatcherFits, PoolFits, NoDispatcher, Receiving, Getting
  <2>2. dispatcher'.request = None /\ pool'.item = None
    BY <1>3 DEF NoDispatcher, Receiving, Getting
  <2> QED
    BY <1>1, <2>1, <2>2, MovedFits DEF NoPool
<1> QED
  BY <1>2, <1>3 DEF AfterAnswer

LEMMA DispatchedFits ==
    ASSUME ChannelInv, NEW verdict \in Verdicts, Dispatched(verdict),
           dispatcher.at \in {"dispatch", "closing"},
           Kind[dispatcher.request] = "close" /\ verdict = "result" => transport.closing,
           UNCHANGED <<api, broker, registered, worker, transport>>
    PROVE  ChannelInv'
<1> USE DEF ChannelInv
<1>1. /\ UNCHANGED <<client, response, queue, brokerClosed, closing, registered, worker,
                     transport>>
      /\ dispatcher.request \in Clients /\ pool = NoPool
      /\ response' \in [Clients -> {"pending"} \cup Completed]
      /\ \A c \in Clients : response'[c] = "result" /\ Kind[c] = "close" => transport.closing
  BY DEF api, broker, DispatcherFits, EndFits, ChannelTypes
<1>2. CASE response[dispatcher.request] = "pending"
  <2>1. /\ pool' = pool
        /\ dispatcher' = [dispatcher EXCEPT !.at = "set", !.verdict = verdict,
                                            !.cancelled = FALSE]
    BY <1>2 DEF Dispatched
  <2>2. dispatcher'.request = dispatcher.request /\ dispatcher'.verdict = verdict
        /\ dispatcher'.at = "set"
    BY <2>1 DEF DispatcherFits
  <2>3. DispatcherFits' /\ PoolFits'
    BY <1>1, <2>1, <2>2 DEF DispatcherFits, PoolFits, Sent
  <2> QED
    BY <1>1, <2>1, <2>2, <2>3, MovedFits
<1>3. CASE response[dispatcher.request] # "pending"
  BY <1>1, <1>3, AfterAnswerFits DEF Dispatched
<1> QED
  BY <1>2, <1>3

LEMMA DispatcherStepFits ==
    ASSUME ChannelInv, DispatcherStep \/ DispatchWait
    PROVE  ChannelInv'
<1> USE DEF ChannelInv
<1>1. CASE Receive \/ ReceiveNothing \/ ReceiveCancelled
  BY <1>1, ReceiveFits
<1>2. CASE DispatchCommand \/ DispatchWait
  <2>1. PICK verdict \in Verdicts : Dispatched(verdict)
    BY <1>2 DEF DispatchCommand, DispatchWait
  <2> QED
    BY <1>2, <2>1, DispatchedFits DEF DispatchCommand, DispatchWait
<1>3. CASE DispatchCancelled
  BY <1>3, DispatchedFits DEF DispatchCancelled, Verdicts
<1>4. CASE SessionClosed
  <2>1. CloseVerdict \in Verdicts /\ transport.closing
    BY <1>4 DEF CloseVerdict, Verdicts, SessionClosed, DispatcherFits
  <2> QED
    BY <1>4, <2>1, DispatchedFits DEF SessionClosed
<1>5. CASE CloseSession
  <2>1. CASE transport.closing /\ Dispatched("result") /\ UNCHANGED transport
    BY <1>5, <2>1, DispatchedFits DEF CloseSession, Verdicts
  <2>2. CASE /\ transport' = [transport EXCEPT !.closing = TRUE] /\ pool' = pool
             /\ dispatcher' = [dispatcher EXCEPT !.at = "closing"]
    <3>1. /\ UNCHANGED <<client, response, queue, brokerClosed, closing, registered, worker>>
          /\ dispatcher.at = "dispatch"
      BY <1>5 DEF CloseSession, api, broker
    <3>2. /\ transport'.closing /\ dispatcher'.at = "closing"
          /\ dispatcher'.request = dispatcher.request
          /\ transport' \in [at : {"alive", "exited", "broken"}, closing : BOOLEAN]
      BY <2>2 DEF ChannelTypes, DispatcherFits
    <3>3. DispatcherFits' /\ PoolFits' /\ EndFits'
      BY <2>2, <3>1, <3>2 DEF DispatcherFits, PoolFits, EndFits, Sent
    <3>4. QueueFits' /\ ClosingFits'
      BY <2>2, <3>1, <3>2 DEF QueueFits, ClosingFits, OnlyQueued, OnlyDrained, Sent, Expired
    <3>5. AnswersFit'
      BY <2>2, <3>1, <3>2 DEF AnswersFit, Somewhere, Waits, Expired
    <3> QED
      BY <3>1, <3>2, <3>3, <3>4, <3>5 DEF ChannelTypes
  <2> QED
    BY <1>5, <2>1, <2>2 DEF CloseSession
<1>6. CASE SetAnswer
  <2> DEFINE r == dispatcher.request
             v == dispatcher.verdict
  <2>1. /\ UNCHANGED <<client, queue, brokerClosed, closing, registered, worker, transport>>
        /\ dispatcher.at = "set" /\ r \in Clients /\ pool = NoPool /\ v \in Verdicts
        /\ Kind[r] = "close" /\ v = "result" => transport.closing
    BY <1>6 DEF SetAnswer, broker, DispatcherFits
  <2>2. CASE response[r] = "pending"
    <3>1. response' = [response EXCEPT ![r] = v] /\ AfterAnswer(v)
      BY <1>6, <2>2 DEF SetAnswer
    <3>2. /\ response' \in [Clients -> {"pending"} \cup Completed]
          /\ \A c \in Clients : c = r \/ response'[c] = response[c]
          /\ response'[r] = v /\ v # "pending"
      BY <2>1, <3>1 DEF ChannelTypes, Completed, Verdicts
    <3>3. \A c \in Clients : response'[c] = "result" /\ Kind[c] = "close" => transport.closing
      BY <2>1, <3>2 DEF EndFits
    <3> HIDE DEF v
    <3> QED
      BY <2>1, <3>1, <3>2, <3>3, AfterAnswerFits
  <2>3. CASE response[r] # "pending"
    <3>1. /\ dispatcher' = [dispatcher EXCEPT !.at = "failed"] /\ pool' = pool
          /\ response' = response
      BY <1>6, <2>3 DEF SetAnswer
    <3>2. dispatcher'.request = dispatcher.request
      BY <3>1 DEF DispatcherFits
    <3>3. DispatcherFits' /\ PoolFits'
      BY <2>1, <3>1, <3>2 DEF DispatcherFits, PoolFits, Ended, Sent
    <3>4. /\ response' \in [Clients -> {"pending"} \cup Completed]
          /\ \A c \in Clients : response'[c] = "result" /\ Kind[c] = "close"
                                  => transport.closing
      BY <3>1 DEF ChannelTypes, EndFits
    <3> QED
      BY <2>1, <3>1, <3>2, <3>3, <3>4, MovedFits
  <2> QED
    BY <2>2, <2>3
<1> QED
  BY <1>1, <1>2, <1>3, <1>4, <1>5, <1>6 DEF DispatcherStep

(***************************************************************************)
(* The worker, and GDB.                                                    *)
(***************************************************************************)
Places == {"starting", "registered", "serving", "exit", "awaiting",
           "finally", "cleanup", "cancel", "gather", "done"}

\* A step that leaves the broker and all requests where they are.
LEMMA ElsewhereFits ==
    ASSUME ChannelInv, DispatcherFits', PoolFits', EndFits',
           UNCHANGED <<client, response, queue, brokerClosed, closing>>,
           pool'.item = pool.item, dispatcher'.request = dispatcher.request,
           registered' \in BOOLEAN, worker' \in Places,
           transport' \in [at : {"alive", "exited", "broken"}, closing : BOOLEAN]
    PROVE  ChannelInv'
<1> USE DEF ChannelInv
<1>1. QueueFits' /\ ClosingFits'
  BY DEF QueueFits, ClosingFits, OnlyQueued, OnlyDrained, Sent, Expired
<1>2. AnswersFit'
  BY DEF AnswersFit, Somewhere, Waits, Expired
<1> QED
  BY <1>1, <1>2 DEF ChannelTypes, Places

\* The managed loop closes a broker that is open.
LEMMA ManagedCloseFits ==
    ASSUME ChannelInv, ~brokerClosed, brokerClosed', closing' = Closing("managed"),
           UNCHANGED <<client, response, queue, pool, dispatcher, transport>>,
           brokerClosed' \in BOOLEAN, registered' \in BOOLEAN, worker' \in {"exit", "cleanup"}
    PROVE  ChannelInv'
<1> USE DEF ChannelInv
<1>1. closing = Unlocked /\ closing.at = "none" /\ Len(closing.pending) = 0
  BY DEF ClosingFits, Unlocked
<1>2. /\ closing'.at = "drain" /\ closing'.pending = <<>> /\ closing' # Unlocked
      /\ Len(closing'.pending) = 0
      /\ closing' \in [by : {"nobody", "api", "managed"},
                       at : {"none", "drain", "fail", "set"}, pending : Seq(Clients)]
  BY DEF Closing, Unlocked
<1>3. ClosingFits'
  BY <1>2 DEF ClosingFits
<1>4. QueueFits'
  BY <1>1 DEF QueueFits, OnlyQueued, Sent
<1>5. AnswersFit'
  BY <1>1, <1>2 DEF AnswersFit, Somewhere, Waits, Expired
<1> QED
  BY <1>3, <1>4, <1>5 DEF ChannelTypes, DispatcherFits, PoolFits, EndFits, Sent

LEMMA WorkerStepFits ==
    ASSUME ChannelInv, Register \/ WorkerStep \/ GdbEnds
    PROVE  ChannelInv'
<1> USE DEF ChannelInv
<1>1. CASE Register \/ Interrupted
  <2>1. /\ UNCHANGED <<client, response, queue, brokerClosed, closing, pool, dispatcher,
                       transport>>
        /\ worker \in {"starting", "registered"} /\ worker' \in {"registered", "finally"}
        /\ registered' \in BOOLEAN
    BY <1>1 DEF Register, Interrupted, api, broker, ChannelTypes
  <2>2. DispatcherFits' /\ PoolFits' /\ EndFits'
    BY <2>1 DEF DispatcherFits, PoolFits, EndFits, Sent
  <2> QED
    BY <2>1, <2>2, ElsewhereFits DEF ChannelTypes, Places
<1>2. CASE StartDispatcher
  <2>1. /\ UNCHANGED <<client, response, queue, brokerClosed, closing, registered, transport>>
        /\ worker = "registered" /\ worker' = "serving"
        /\ dispatcher' = Receiving /\ pool' = Getting
        /\ dispatcher.request = None /\ pool = NoPool
    BY <1>2 DEF StartDispatcher, api, broker, DispatcherFits
  <2>2. dispatcher'.request = None /\ pool'.item = None /\ pool.item = None
    BY <2>1 DEF Receiving, Getting, NoPool, NoDispatcher
  <2>3. DispatcherFits' /\ PoolFits' /\ EndFits'
    BY <2>1, DebugAssumption
       DEF DispatcherFits, PoolFits, EndFits, Receiving, Getting, NoDispatcher
  <2> QED
    BY <2>1, <2>2, <2>3, ElsewhereFits DEF ChannelTypes, Places
<1>3. CASE DispatcherFirst \/ EndExecute
  <2>1. /\ UNCHANGED <<client, response, queue, brokerClosed, closing, registered, pool,
                       dispatcher, transport>>
        /\ worker' \in {"finally", "done"}
    BY <1>3 DEF DispatcherFirst, EndExecute, api, broker
  <2>2. DispatcherFits' /\ PoolFits' /\ EndFits'
    BY <2>1 DEF DispatcherFits, PoolFits, EndFits, Sent
  <2> QED
    BY <2>1, <2>2, ElsewhereFits DEF ChannelTypes, Places
<1>4. CASE GdbFirst
  <2>1. /\ UNCHANGED <<client, response, queue, registered, pool, dispatcher, transport>>
        /\ worker = "serving"
    BY <1>4 DEF GdbFirst, api
  <2>2. CASE UNCHANGED <<brokerClosed, closing>> /\ worker' \in {"finally", "awaiting"}
    <3>1. DispatcherFits' /\ PoolFits' /\ EndFits'
      BY <2>1, <2>2 DEF DispatcherFits, PoolFits, EndFits, Sent
    <3> QED
      BY <2>1, <2>2, <3>1, ElsewhereFits DEF ChannelTypes, Places
  <2>3. CASE /\ ~transport.closing /\ worker' = "exit" /\ brokerClosed' = TRUE
             /\ closing' = Closing("managed")
    <3>1. ~brokerClosed /\ registered' \in BOOLEAN
      BY <2>1, <2>3 DEF EndFits, ChannelTypes
    <3> QED
      BY <2>1, <2>3, <3>1, ManagedCloseFits
  <2> QED
    BY <1>4, <2>2, <2>3 DEF GdbFirst
<1>5. CASE Unregister
  <2>1. /\ UNCHANGED <<client, response, queue, pool, dispatcher, transport>>
        /\ worker = "finally" /\ registered' = FALSE
    BY <1>5 DEF Unregister, api
  <2>2. CASE UNCHANGED <<brokerClosed, closing>> /\ worker' = "cancel"
    <3>1. DispatcherFits' /\ PoolFits' /\ EndFits'
      BY <2>1, <2>2 DEF DispatcherFits, PoolFits, EndFits, Sent
    <3> QED
      BY <2>1, <2>2, <3>1, ElsewhereFits DEF ChannelTypes, Places
  <2>3. CASE /\ ~brokerClosed /\ worker' = "cleanup" /\ brokerClosed' = TRUE
             /\ closing' = Closing("managed")
    BY <2>1, <2>3, ManagedCloseFits
  <2> QED
    BY <1>5, <2>2, <2>3 DEF Unregister
<1>6. CASE CancelDispatcher
  <2> DEFINE told == dispatcher.cancelled \/ dispatcher.at \notin Ended \cup {"none"}
  <2>1. /\ UNCHANGED <<client, response, queue, brokerClosed, closing, registered, pool,
                       transport>>
        /\ worker' = "gather" /\ worker = "cancel"
        /\ dispatcher' = [dispatcher EXCEPT !.cancelled = told]
    BY <1>6 DEF CancelDispatcher, api, broker
  <2>2. told \in BOOLEAN
    BY DEF DispatcherFits
  <2> HIDE DEF told
  <2>3. /\ dispatcher'.at = dispatcher.at /\ dispatcher'.request = dispatcher.request
        /\ dispatcher'.verdict = dispatcher.verdict
    BY <2>1 DEF DispatcherFits
  <2>4. DispatcherFits' /\ PoolFits' /\ EndFits'
    BY <2>1, <2>2, <2>3 DEF DispatcherFits, PoolFits, EndFits, Sent
  <2> QED
    BY <2>1, <2>3, <2>4, ElsewhereFits DEF ChannelTypes, Places
<1>7. CASE GdbEnds
  <2>1. /\ UNCHANGED <<client, response, queue, brokerClosed, closing, registered, pool,
                       dispatcher, worker>>
        /\ transport'.closing = transport.closing
        /\ transport' \in [at : {"alive", "exited", "broken"}, closing : BOOLEAN]
    BY <1>7 DEF GdbEnds, api, broker, ChannelTypes
  <2>2. DispatcherFits' /\ PoolFits' /\ EndFits'
    BY <2>1 DEF DispatcherFits, PoolFits, EndFits, Sent
  <2> QED
    BY <2>1, <2>2, ElsewhereFits DEF ChannelTypes, Places
<1> QED
  BY <1>1, <1>2, <1>3, <1>4, <1>5, <1>6, <1>7 DEF WorkerStep

LEMMA ChannelInvHolds == DebugSpec => []ChannelInv
<1>1. DebugInit => ChannelInv
  <2> SUFFICES ASSUME DebugInit PROVE ChannelInv
    OBVIOUS
  <2> USE DebugAssumption DEF DebugInit
  <2>1. ChannelTypes /\ EndFits
    BY DEF ChannelTypes, EndFits, Completed
  <2>2. QueueFits
    BY DEF QueueFits
  <2>3. ClosingFits
    BY DEF ClosingFits, Unlocked
  <2>4. DispatcherFits /\ PoolFits
    BY DEF DispatcherFits, PoolFits, NoDispatcher, NoPool
  <2>5. AnswersFit
    BY DEF AnswersFit, Waits
  <2> QED
    BY <2>1, <2>2, <2>3, <2>4, <2>5 DEF ChannelInv
<1>2. ASSUME ChannelInv, UNCHANGED debugVars PROVE ChannelInv'
  <2>1. DispatcherFits' /\ PoolFits' /\ EndFits'
    BY <1>2 DEF debugVars, ChannelInv, DispatcherFits, PoolFits, EndFits, Sent
  <2> QED
    BY <1>2, <2>1, ElsewhereFits DEF debugVars, ChannelInv, ChannelTypes, Places
<1>3. ChannelInv /\ [DebugNext]_debugVars => ChannelInv'
  BY <1>2, DrainOneFits, TestPendingFits, FailPendingFits, PutMarkerFits, FindFits,
     SubmitFits, AnsweredFits, GiveUpFits, PopFits, DispatcherStepFits, WorkerStepFits
     DEF DebugNext, CloseStep
<1> QED
  BY <1>1, <1>3, PTL DEF DebugSpec

\* Whichever of a client, the exit of GDB and the end of the worker closes the
\* broker first, and wherever the requests are: once close has returned, only
\* what the managed task has taken out is without an answer, unless a caller
\* has given up.
THEOREM CloseAnswersAll == DebugSpec => []DebugInv
<1>1. ChannelInv => DebugInv
  <2> SUFFICES ASSUME ChannelInv PROVE DebugInv
    OBVIOUS
  <2> USE DEF ChannelInv
  <2>1. DebugTypeOK
    <3>1. /\ queue \in Seq(Clients \cup {Marker}) /\ closing.pending \in Seq(Clients)
          /\ closing.by \in {"nobody", "api", "managed"}
          /\ closing.at \in {"none", "drain", "fail", "set"}
          /\ (closing.at = "none" <=> closing = Unlocked)
      BY DEF QueueFits, ClosingFits
    <3>2. /\ dispatcher.at \in {"none", "receive", "dispatch", "closing", "set"} \cup Ended
          /\ dispatcher.request \in Clients \cup {None}
          /\ dispatcher.verdict \in Verdicts \cup {"none"}
          /\ dispatcher.cancelled \in BOOLEAN
      BY DEF DispatcherFits
    <3>3. /\ pool.at \in {"off", "get", "item", "empty"}
          /\ pool.item \in Clients \cup {None, Marker}
          /\ (pool.at = "item" <=> pool.item # None)
      BY DEF PoolFits
    <3> QED
      BY <3>1, <3>2, <3>3 DEF DebugTypeOK, ChannelTypes
  <2>2. ASSUME brokerClosed, closing.at = "none", Expired = {}, NEW c \in Clients, Waits(c)
        PROVE  c \in {pool.item, dispatcher.request}
    <3>1. Somewhere(c) /\ (\A i \in 1..Len(queue) : queue[i] = Marker)
      BY <2>2 DEF AnswersFit
    <3>2. Len(closing.pending) = 0
      BY <2>2 DEF ClosingFits, Unlocked
    <3> QED
      BY <3>1, <3>2, DebugAssumption DEF Somewhere
  <2> QED
    BY <2>1, <2>2 DEF DebugInv, CloseFailsAllPending
<1> QED
  BY <1>1, ChannelInvHolds, PTL

-----------------------------------------------------------------------------
(***************************************************************************)
(* The GDB session.                                                        *)
(*                                                                         *)
(* GDB takes commands in the order of their tokens and answers each once,  *)
(* so that an answer is on its way only to a command behind which nothing  *)
(* has been sent.  The last of the records on their way that tells of the  *)
(* inferior tells what it is; and while no command has been given up, the  *)
(* only command or answer on its way is the one the caller waits for.      *)
(***************************************************************************)
Order == [op : Switches \cup Controls, bp : Breakpoints \cup {"none"}, token : Nat]
MiRecord == [kind : {"prompt", "result", "running", "STOPPED", "EXITED", "garbage", "exit"},
             token : Nat, class : {"none", "done", "running", "error", "zero", "nonzero"}]

GdbStates == [at : {"alive", "zero", "nonzero"}, told : BOOLEAN,
              lost : {"none", "stderr", "stdout"},
              inferior : {"READY", "RUNNING", "STOPPED", "EXITED"}]

IsResult(record) == record.kind = "result"
TellsStop(record) == record.kind \in {"STOPPED", "EXITED"}
TellsRunning(record) ==
    record.kind = "running" \/ (record.kind = "result" /\ record.class = "running")
Tells(record) == TellsStop(record) \/ TellsRunning(record)
Told(record) == IF TellsRunning(record) THEN "RUNNING" ELSE record.kind

SessionTypes ==
    /\ gdb \in GdbStates
    /\ installed \in [Breakpoints -> Slot] /\ view \in [Breakpoints -> Slot]
    /\ input \in Seq(Order) /\ output \in Seq(MiRecord)
    /\ state \in {"STARTING", "READY", "RUNNING"} \cup Stopped
    /\ reader \in {"off", "on", "ended"}
    /\ ending \in {"no", "closing", "closed"}
    /\ call \in [at : {"new", "starting", "idle", "sent", "waiting", "closing", "gone"},
                 op : Switches \cup Controls \cup {"none"},
                 bp : Breakpoints \cup {"none"}, token : Nat,
                 answer : {"none", "done", "running", "error", "failed"}, woken : BOOLEAN]
    /\ tokens \in 0..MaxCommands /\ timeouts \in 0..MaxTimeouts

\* The caller waits for the last command it has sent, and until the session
\* ends.
CallFits ==
    /\ call.at = "sent" =>
          /\ call.token = tokens /\ tokens > 0
          /\ call.op \in Switches => call.bp \in Breakpoints
          /\ pending \subseteq {call.token}
          /\ reader # "ended" => (pending = {} <=> call.answer # "none")
    /\ call.at # "sent" => pending = {}
    /\ reader = "ended" => pending = {}
    /\ reader = "off" <=> call.at = "new"
    /\ call.at \in {"closing", "gone"} \/ ending = "no"

\* The exit of GDB is told of a GDB that is gone; a session that still has its
\* GDB when the reader ends has failed.
ExitFits ==
    /\ gdb.told => gdb.at # "alive"
    /\ \A i \in 1..Len(output) : output[i].kind = "exit" =>
          gdb.at # "alive" /\ (output[i].class = "error" => gdb.lost # "none")
    /\ reader = "ended" =>
          state \in {"EXITED", "FAILED"} /\ (gdb.at = "alive" => state = "FAILED")

\* The commands that GDB has not read are the last that were sent.
InputFits ==
    /\ \A i \in 1..Len(input) :
          /\ input[i].token \in 1..tokens
          /\ input[i].op \in Switches => input[i].bp \in Breakpoints
          /\ call.at = "sent" /\ input[i].token = call.token =>
                input[i].op = call.op /\ input[i].bp = call.bp
    /\ \A i, j \in 1..Len(input) : i < j => input[i].token < input[j].token
    /\ Len(input) <= timeouts + 1
    /\ reader # "ended" /\ (call.at = "sent" => call.answer # "none")
         => Len(input) <= timeouts
    /\ call.at = "sent" /\ call.answer \in {"done", "running", "error"} => input = <<>>

\* Results come in the order of the commands, each once.
ResultsFit ==
    /\ \A i \in 1..Len(output) : IsResult(output[i]) =>
          /\ output[i].token \in 1..tokens
          /\ output[i].class \in {"done", "running", "error"}
          /\ \A j \in 1..Len(input) : output[i].token < input[j].token
    /\ \A i, j \in 1..Len(output) :
          i < j /\ IsResult(output[i]) /\ IsResult(output[j])
            => output[i].token < output[j].token

\* No command was given up: what is on its way is the one that waits.
OnlyPending ==
    timeouts = 0 /\ reader # "ended" =>
        /\ \A i \in 1..Len(input) : input[i].token \in pending
        /\ \A i \in 1..Len(output) : IsResult(output[i]) => output[i].token \in pending

\* The answer to the caller's command is "done", or will be.
Succeeds ==
    \/ call.answer = "done"
    \/ \E i \in 1..Len(output) :
          IsResult(output[i]) /\ output[i].token = call.token /\ output[i].class = "done"

SuccessFits ==
    call.at = "sent" /\ call.op \in Switches /\ Succeeds =>
        installed[call.bp] = Switch(call.op, installed[call.bp])

\* The answer to the caller's command does not come.
Unanswered ==
    /\ gdb.lost = "stdout" /\ call.at = "sent" /\ call.answer = "none"
    /\ \A i \in 1..Len(output) : ~IsResult(output[i])

\* GDB is ahead of the view by the command that waits, if it was obeyed.
ViewFits ==
    timeouts = 0 /\ reader # "ended" /\ gdb.at = "alive" /\ ~Unanswered =>
        IF call.at = "sent" /\ call.op \in Switches /\ Succeeds
        THEN /\ installed = [view EXCEPT ![call.bp] = Switch(call.op, @)]
             /\ call.op # "insert" => view[call.bp] # "absent"
        ELSE view = installed

\* Between a stop and the inferior running again there is a result.
NoticesFit ==
    \A i, j \in 1..Len(output) :
        i < j /\ TellsStop(output[i]) /\ output[j].kind = "running" =>
            \E k \in 1..Len(output) : i < k /\ k < j /\ IsResult(output[k])

WokenFits ==
    timeouts = 0 /\ reader # "ended" /\ call.at = "waiting" /\ call.woken =>
        state \in Stopped /\ \A i \in 1..Len(output) : output[i].kind # "running"

LastWord ==
    reader # "ended" /\ call.at # "gone" /\ gdb.lost # "stdout" =>
        /\ \A i \in 1..Len(output) :
              Tells(output[i]) /\ (\A j \in 1..Len(output) : i < j => ~Tells(output[j]))
                => gdb.inferior = Told(output[i])
        /\ (\A i \in 1..Len(output) : ~Tells(output[i])) =>
              \/ state = gdb.inferior
              \/ /\ state = "STARTING" /\ gdb.inferior = "READY"
                 /\ \E i \in 1..Len(output) : output[i].kind = "prompt"

FollowingInv ==
    /\ SessionTypes /\ CallFits /\ ExitFits /\ InputFits /\ ResultsFit /\ OnlyPending
    /\ SuccessFits /\ ViewFits /\ NoticesFit /\ WokenFits /\ LastWord

(***************************************************************************)
(* Ends of sequences.                                                      *)
(***************************************************************************)
LEMMA AppendItems ==
    ASSUME NEW S, NEW s \in Seq(S), NEW e \in S
    PROVE  LET t == Append(s, e)
           IN  /\ t \in Seq(S) /\ Len(s) \in Nat /\ Len(t) = Len(s) + 1
               /\ t[Len(t)] = e /\ Len(t) \in 1..Len(t)
               /\ \A i \in 1..Len(s) : i \in 1..Len(t) /\ t[i] = s[i]
               /\ \A i \in 1..Len(t) : i \in 1..Len(s) \/ i = Len(t)
BY AppendProperties

LEMMA TailItems ==
    ASSUME NEW S, NEW s \in Seq(S), s # <<>>
    PROVE  LET t == Tail(s)
           IN  /\ t \in Seq(S) /\ Len(s) \in Nat /\ Len(t) = Len(s) - 1 /\ Len(t) \in Nat
               /\ 1 \in 1..Len(s) /\ Head(s) = s[1] /\ Head(s) \in S
               /\ \A i \in 1..Len(t) : i + 1 \in 1..Len(s) /\ t[i] = s[i + 1]
               /\ \A i \in 1..Len(s) : i = 1 \/ (i - 1 \in 1..Len(t) /\ t[i - 1] = s[i])
<1> DEFINE t == Tail(s)
<1>1. /\ t \in Seq(S) /\ Len(s) \in Nat /\ Len(s) > 0 /\ Len(t) = Len(s) - 1
      /\ \A i \in 1..Len(t) : t[i] = s[i + 1]
  BY HeadTailProperties
<1>2. \A i \in 1..Len(s) : i = 1 \/ (i - 1 \in 1..Len(t) /\ (i - 1) + 1 = i)
  BY <1>1
<1> QED
  BY <1>1, <1>2, HeadTailProperties

(***************************************************************************)
(* GDB.                                                                    *)
(***************************************************************************)
\* GDB writes a record that is no result and tells nothing of the inferior.
LEMMA AsideFits ==
    ASSUME FollowingInv, NEW r \in MiRecord, ~IsResult(r), ~Tells(r),
           output' = Append(output, r),
           r.kind = "exit" => gdb.at # "alive" /\ (r.class = "error" => gdb.lost # "none"),
           gdb' = gdb \/ (gdb.at # "alive" /\ gdb' = [gdb EXCEPT !.told = TRUE]),
           UNCHANGED <<installed, input, state, view, reader, pending, ending, call, tokens,
                       timeouts>>
    PROVE  FollowingInv'
<1> USE DEF FollowingInv
<1>1. /\ output' \in Seq(MiRecord) /\ Len(output) \in Nat /\ Len(output') = Len(output) + 1
      /\ output'[Len(output')] = r /\ Len(output') \in 1..Len(output')
      /\ \A i \in 1..Len(output) : i \in 1..Len(output') /\ output'[i] = output[i]
      /\ \A i \in 1..Len(output') : i \in 1..Len(output) \/ i = Len(output')
  BY AppendItems DEF SessionTypes
<1>2. /\ gdb'.at = gdb.at /\ gdb'.inferior = gdb.inferior /\ gdb'.lost = gdb.lost
      /\ gdb' \in GdbStates
      /\ gdb'.told => gdb.at # "alive"
  BY DEF SessionTypes, ExitFits, GdbStates
<1>3. SessionTypes' /\ CallFits' /\ InputFits'
  BY <1>1, <1>2 DEF SessionTypes, CallFits, InputFits
<1>4. ExitFits'
  BY <1>1, <1>2 DEF ExitFits
<1>5. \A i \in 1..Len(output') : IsResult(output[i])' =>
         i \in 1..Len(output) /\ IsResult(output[i]) /\ output'[i] = output[i]
  BY <1>1 DEF IsResult
<1>6. ResultsFit' /\ OnlyPending'
  BY <1>1, <1>5 DEF ResultsFit, OnlyPending, IsResult
<1>7. Succeeds' <=> Succeeds
  BY <1>1, <1>5 DEF Succeeds, IsResult
<1>8. SuccessFits' /\ ViewFits'
  <2>1. Unanswered <=> Unanswered'
    BY <1>1, <1>2, <1>5 DEF Unanswered, IsResult
  <2> QED
    BY <1>2, <1>7, <2>1 DEF SuccessFits, ViewFits
<1>9. NoticesFit'
  <2>1. ASSUME NEW i \in 1..Len(output'), NEW j \in 1..Len(output'), i < j,
               TellsStop(output[i])', output'[j].kind = "running"
        PROVE  \E k \in 1..Len(output') : i < k /\ k < j /\ IsResult(output[k])'
    <3>1. i \in 1..Len(output) /\ j \in 1..Len(output)
      BY <1>1, <2>1 DEF Tells, TellsStop, TellsRunning
    <3>2. PICK k \in 1..Len(output) : i < k /\ k < j /\ IsResult(output[k])
      BY <1>1, <2>1, <3>1 DEF NoticesFit, TellsStop
    <3> QED
      BY <1>1, <3>2 DEF IsResult
  <2> QED
    BY <2>1 DEF NoticesFit
<1>10. WokenFits'
  BY <1>1 DEF WokenFits, Tells, TellsRunning
<1>11. LastWord'
  <2>1. \A i \in 1..Len(output) : Tells(output[i])' <=> Tells(output[i])
    BY <1>1 DEF Tells, TellsStop, TellsRunning
  <2>2. ~Tells(output[Len(output)])' /\ \A i \in 1..Len(output') :
           Tells(output[i])' => i \in 1..Len(output) /\ Told(output[i])' = Told(output[i])
    BY <1>1 DEF Tells, TellsStop, TellsRunning, Told
  <2>3. ASSUME reader # "ended", call.at # "gone", gdb.lost # "stdout",
               NEW i \in 1..Len(output'), Tells(output[i])',
               \A j \in 1..Len(output') : i < j => ~Tells(output[j])'
        PROVE  gdb'.inferior = Told(output[i])'
    BY <1>1, <1>2, <2>1, <2>2, <2>3 DEF LastWord
  <2>4. ASSUME reader # "ended", call.at # "gone", gdb.lost # "stdout",
               \A i \in 1..Len(output') : ~Tells(output[i])'
        PROVE  \/ state = gdb.inferior
               \/ /\ state = "STARTING" /\ gdb.inferior = "READY"
                  /\ \E i \in 1..Len(output') : output'[i].kind = "prompt"
    BY <1>1, <2>1, <2>4 DEF LastWord
  <2> QED
    BY <1>2, <2>3, <2>4 DEF LastWord
<1> QED
  BY <1>3, <1>4, <1>6, <1>8, <1>9, <1>10, <1>11

\* GDB goes on, or ends, and nobody takes what it writes of that.
LEMMA UnheardFits ==
    ASSUME FollowingInv, gdb' \in GdbStates, gdb'.told = gdb.told,
           gdb'.lost = "stdout" \/ gdb'.inferior = gdb.inferior,
           gdb'.at = "alive" => gdb.at = "alive",
           gdb.lost # "none" => gdb'.lost = gdb.lost,
           UNCHANGED <<installed, input, output, state, view, reader, pending, ending, call,
                       tokens, timeouts>>
    PROVE  FollowingInv'
<1> USE DEF FollowingInv
<1>1. gdb.lost = "stdout" => gdb'.lost = "stdout"
  OBVIOUS
<1>2. SessionTypes' /\ CallFits' /\ ExitFits' /\ InputFits'
  BY DEF SessionTypes, CallFits, ExitFits, InputFits, GdbStates
<1>3. ResultsFit' /\ OnlyPending' /\ NoticesFit' /\ WokenFits'
  BY DEF ResultsFit, OnlyPending, NoticesFit, WokenFits, IsResult, TellsStop
<1>4. Unanswered => Unanswered'
  BY <1>1 DEF Unanswered, IsResult
<1>5. SuccessFits' /\ ViewFits' /\ LastWord'
  BY <1>1, <1>4 DEF SuccessFits, ViewFits, Succeeds, LastWord, IsResult
<1> QED
  BY <1>2, <1>3, <1>5

LEMMA InferiorStopsFits ==
    ASSUME FollowingInv, InferiorStops
    PROVE  FollowingInv'
<1> USE DEF FollowingInv
<1>0. CASE gdb.lost = "stdout"
  <2>1. /\ gdb' \in GdbStates /\ gdb'.told = gdb.told /\ gdb'.lost = gdb.lost
        /\ gdb'.at = gdb.at
    BY DEF InferiorStops, SessionTypes, GdbStates
  <2> QED
    BY <1>0, <2>1, UnheardFits DEF InferiorStops, Writes, callVars
<1> SUFFICES ASSUME gdb.lost # "stdout" PROVE FollowingInv'
  BY <1>0
<1>1. PICK how \in {"STOPPED", "EXITED"} :
         gdb' = [gdb EXCEPT !.inferior = how] /\ output' = Append(output, Notice(how))
  <2>1. \A e : Append(output, e) = output \o <<e>>
    BY DEF SessionTypes
  <2> QED
    BY <2>1 DEF InferiorStops, Writes
<1>2. UNCHANGED <<installed, input, state, view, reader, pending, ending, call, tokens,
                  timeouts>>
  BY DEF InferiorStops, callVars
<1> DEFINE r == Notice(how)
<1>3. r \in MiRecord /\ r.kind = how /\ ~IsResult(r) /\ Tells(r) /\ Told(r) = how
      /\ ~TellsRunning(r)
  BY DEF Notice, Record, MiRecord, IsResult, Tells, TellsStop, TellsRunning, Told
<1> HIDE DEF r
<1>4. /\ output' \in Seq(MiRecord) /\ Len(output) \in Nat /\ Len(output') = Len(output) + 1
      /\ output'[Len(output')] = r /\ Len(output') \in 1..Len(output')
      /\ \A i \in 1..Len(output) : i \in 1..Len(output') /\ output'[i] = output[i]
      /\ \A i \in 1..Len(output') : i \in 1..Len(output) \/ i = Len(output')
  BY <1>1, <1>3, AppendItems DEF SessionTypes, r
<1>5. /\ gdb'.at = gdb.at /\ gdb'.inferior = how /\ gdb'.told = gdb.told
      /\ gdb'.lost = gdb.lost /\ gdb' \in GdbStates
  BY <1>1 DEF SessionTypes, GdbStates
<1>6. SessionTypes' /\ CallFits' /\ InputFits'
  BY <1>2, <1>4, <1>5 DEF SessionTypes, CallFits, InputFits
<1>7. ExitFits'
  BY <1>2, <1>3, <1>4, <1>5 DEF ExitFits
<1>8. \A i \in 1..Len(output') : IsResult(output[i])' =>
         i \in 1..Len(output) /\ IsResult(output[i]) /\ output'[i] = output[i]
  BY <1>3, <1>4 DEF IsResult
<1>9. ResultsFit' /\ OnlyPending'
  BY <1>2, <1>4, <1>8 DEF ResultsFit, OnlyPending, IsResult
<1>10. Succeeds' <=> Succeeds
  BY <1>2, <1>4, <1>8 DEF Succeeds, IsResult
<1>11. SuccessFits' /\ ViewFits'
  BY <1>2, <1>5, <1>10 DEF SuccessFits, ViewFits, Unanswered
<1>12. NoticesFit'
  <2>1. ASSUME NEW i \in 1..Len(output'), NEW j \in 1..Len(output'), i < j,
               TellsStop(output[i])', output'[j].kind = "running"
        PROVE  \E k \in 1..Len(output') : i < k /\ k < j /\ IsResult(output[k])'
    <3>1. i \in 1..Len(output) /\ j \in 1..Len(output)
      BY <1>3, <1>4, <2>1
    <3>2. PICK k \in 1..Len(output) : i < k /\ k < j /\ IsResult(output[k])
      BY <1>4, <2>1, <3>1 DEF NoticesFit, TellsStop
    <3> QED
      BY <1>4, <3>2 DEF IsResult
  <2> QED
    BY <2>1 DEF NoticesFit
<1>13. WokenFits'
  BY <1>2, <1>3, <1>4 DEF WokenFits
<1>14. LastWord'
  <2>1. Tells(output[Len(output)])' /\ Told(output[Len(output)])' = how
    BY <1>3, <1>4 DEF Tells, TellsStop, TellsRunning, Told
  <2>2. ASSUME NEW i \in 1..Len(output'), \A j \in 1..Len(output') : i < j => ~Tells(output[j])'
        PROVE  i = Len(output')
    BY <1>4, <2>1, <2>2
  <2>3. \A i \in 1..Len(output') :
           Tells(output[i])' /\ (\A j \in 1..Len(output') : i < j => ~Tells(output[j])')
             => gdb'.inferior = Told(output[i])'
    BY <1>4, <1>5, <2>1, <2>2
  <2> QED
    BY <1>4, <2>1, <2>3 DEF LastWord
<1> QED
  BY <1>6, <1>7, <1>9, <1>11, <1>12, <1>13, <1>14

\* GDB exits or is killed, or the process session begins to fail.
LEMMA EndsFit ==
    ASSUME FollowingInv, GdbExits \/ GdbIsKilled \/ OutputFails
    PROVE  FollowingInv'
<1>1. /\ UNCHANGED <<installed, input, output, state, view, reader, pending, ending, call,
                     tokens, timeouts>>
      /\ gdb' \in GdbStates /\ gdb'.told = gdb.told /\ gdb'.inferior = gdb.inferior
      /\ gdb'.at = "alive" => gdb.at = "alive"
      /\ gdb.lost # "none" => gdb'.lost = gdb.lost
  BY DEF GdbExits, GdbIsKilled, OutputFails, callVars, FollowingInv, SessionTypes, GdbStates
<1> QED
  BY <1>1, UnheardFits

LEMMA AsidesFit ==
    ASSUME FollowingInv, Garbage \/ TellExit
    PROVE  FollowingInv'
<1> USE DEF Tells, TellsStop, TellsRunning, IsResult, MiRecord, Record, Notice
<1>1. CASE Garbage
  BY <1>1, AsideFits DEF Garbage, gdbVars, callVars
<1>2. CASE TellExit
  <2> DEFINE r == Record("exit", 0, WaitResult)
  <2>1. /\ WaitResult \in {"zero", "nonzero", "error"} /\ gdb.at # "alive"
        /\ WaitResult = "error" => gdb.lost # "none"
    BY <1>2 DEF TellExit, WaitResult, FollowingInv, SessionTypes, GdbStates
  <2>2. r \in MiRecord /\ ~IsResult(r) /\ ~Tells(r) /\ r.class = WaitResult
    BY <2>1
  <2> HIDE DEF r
  <2> QED
    BY <1>2, <2>1, <2>2, AsideFits DEF TellExit, callVars, r
<1> QED
  BY <1>1, <1>2

LEMMA SwitchType ==
    \A op \in Switches : \A slot, other : Switch(op, slot) \in Slot
                                          /\ Switch(op, slot) = Switch(op, other)
BY DEF Switches, Switch, Slot

\* What GDB has read, what it did and what it wrote.
LEMMA ObeyFits ==
    ASSUME FollowingInv, Obey
    PROVE  FollowingInv'
<1> USE DEF FollowingInv
<1> DEFINE command == Head(input)
           n == Len(output)
<1>1. /\ gdb.at = "alive" /\ input # <<>> /\ input' = Tail(input)
      /\ UNCHANGED <<state, view, reader, pending, ending, call, tokens, timeouts>>
  BY DEF Obey, callVars
<1>2. /\ input' \in Seq(Order) /\ Len(input) \in Nat /\ Len(input') = Len(input) - 1
      /\ Len(input') \in Nat /\ 1 \in 1..Len(input) /\ command = input[1] /\ command \in Order
      /\ \A i \in 1..Len(input') : i + 1 \in 1..Len(input) /\ input'[i] = input[i + 1]
  BY <1>1, TailItems DEF SessionTypes
<1>3. /\ command.token \in 1..tokens
      /\ command.op \in Switches => command.bp \in Breakpoints
      /\ call.at = "sent" /\ command.token = call.token =>
            command.op = call.op /\ command.bp = call.bp
      /\ \A i \in 1..Len(input') : command.token < input'[i].token
  <2>1. \A i \in 1..Len(input') : 1 < i + 1
    BY <1>2
  <2>2. \A i \in 1..Len(input') : input[1].token < input[i + 1].token
    BY <1>2, <2>1 DEF InputFits
  <2> HIDE DEF command
  <2> QED
    BY <1>2, <2>2 DEF InputFits
<1> HIDE DEF command
<1>11. InputFits'
  <2>1. \A i \in 1..Len(input') :
          /\ input'[i].token \in 1..tokens
          /\ input'[i].op \in Switches => input'[i].bp \in Breakpoints
          /\ call.at = "sent" /\ input'[i].token = call.token =>
                input'[i].op = call.op /\ input'[i].bp = call.bp
    BY <1>2 DEF InputFits
  <2>2. ASSUME NEW i \in 1..Len(input'), NEW j \in 1..Len(input'), i < j
        PROVE  input'[i].token < input'[j].token
    <3>1. i + 1 \in 1..Len(input) /\ j + 1 \in 1..Len(input) /\ i + 1 < j + 1
      BY <1>2, <2>2
    <3>2. input[i + 1].token < input[j + 1].token
      BY <3>1 DEF InputFits
    <3> QED
      BY <1>2, <3>2
  <2>3. timeouts \in Nat /\ Len(input') <= timeouts + 1
        /\ (reader # "ended" /\ (call.at = "sent" => call.answer # "none")
              => Len(input') <= timeouts)
    BY <1>2 DEF InputFits, SessionTypes
  <2> QED
    BY <1>1, <2>1, <2>2, <2>3 DEF InputFits
<1>12. \A i \in 1..Len(output) : IsResult(output[i]) => output[i].token < command.token
  BY <1>2 DEF ResultsFit
\* Nothing was answered that was sent after this command.
<1>16. call.at = "sent" => ~Succeeds
  <2> SUFFICES ASSUME call.at = "sent", Succeeds PROVE FALSE
    OBVIOUS
  <2>1. call.answer # "done" /\ call.token = tokens /\ tokens \in Nat
    BY <1>1 DEF InputFits, CallFits, SessionTypes
  <2>2. PICK i \in 1..Len(output) : IsResult(output[i]) /\ output[i].token = call.token
    BY <2>1 DEF Succeeds
  <2> QED
    BY <1>3, <1>12, <2>1, <2>2
<1>0. CASE gdb.lost = "stdout"
  <2>1. /\ output' = output /\ gdb' \in GdbStates /\ gdb'.at = gdb.at /\ gdb'.told = gdb.told
        /\ gdb'.lost = gdb.lost
    BY <1>0 DEF Obey, Writes, SessionTypes, GdbStates
  <2>2. installed' \in [Breakpoints -> Slot]
    BY <1>3, SwitchType DEF Obey, command, SessionTypes
  <2>3. SessionTypes' /\ CallFits' /\ ExitFits'
    BY <1>1, <1>2, <2>1, <2>2 DEF SessionTypes, CallFits, ExitFits
  <2>4. ResultsFit' /\ NoticesFit' /\ WokenFits' /\ LastWord'
    BY <1>0, <1>1, <1>2, <2>1 DEF ResultsFit, NoticesFit, WokenFits, LastWord, IsResult, TellsStop
  <2>5. OnlyPending'
    BY <1>1, <1>2, <2>1 DEF OnlyPending, IsResult
  <2>6. SuccessFits'
    BY <1>1, <1>16, <2>1 DEF SuccessFits, Succeeds, IsResult
  <2>7. timeouts = 0 /\ reader # "ended" => Unanswered'
    <3> SUFFICES ASSUME timeouts = 0, reader # "ended" PROVE Unanswered'
      OBVIOUS
    <3>1. command.token \in pending
      BY <1>2 DEF OnlyPending
    <3>2. /\ call.at = "sent" /\ call.answer = "none" /\ command.token = call.token
          /\ pending = {call.token} /\ call.token \in Nat
      BY <3>1 DEF CallFits, SessionTypes
    <3>3. \A i \in 1..Len(output) : ~IsResult(output[i])
      BY <1>12, <3>2 DEF OnlyPending
    <3> QED
      BY <1>0, <1>1, <2>1, <3>2, <3>3 DEF Unanswered, IsResult
  <2>8. ViewFits'
    BY <1>1, <2>7 DEF ViewFits
  <2> QED
    BY <1>11, <2>3, <2>4, <2>5, <2>6, <2>8
<1> SUFFICES ASSUME gdb.lost # "stdout" PROVE FollowingInv'
  BY <1>0
<1>4. PICK class \in {"done", "running", "error"} :
         /\ \/ output' = Append(output, Result(command.token, class)) /\ class # "running"
            \/ /\ output' = output \o <<Result(command.token, class), Notice("running")>>
               /\ class = "running"
         /\ class = "running" => /\ command.op \in {"run", "continue"}
                                 /\ gdb' = [gdb EXCEPT !.inferior = "RUNNING"]
         /\ class # "running" => gdb' = gdb
         /\ \/ class = "done" /\ command.op \in Switches /\ Accepts(command)
               /\ installed' = [installed EXCEPT ![command.bp] = Switch(command.op, @)]
            \/ class = "done" /\ command.op = "interrupt" /\ installed' = installed
            \/ class # "done" /\ installed' = installed
  <2>1. \A e : Append(output, e) = output \o <<e>>
    BY DEF SessionTypes
  <2> QED
    BY <2>1 DEF Obey, command, Writes
<1> DEFINE r == Result(command.token, class)
<1>5. /\ r \in MiRecord /\ r.kind = "result" /\ r.token = command.token /\ r.class = class
      /\ Notice("running") \in MiRecord /\ Notice("running").kind = "running"
  BY <1>2, <1>3 DEF Result, Record, MiRecord, Notice, Order
<1> HIDE DEF r
<1>6. /\ output' \in Seq(MiRecord) /\ n \in Nat /\ Len(output') \in {n + 1, n + 2}
      /\ \A i \in 1..n : i \in 1..Len(output') /\ output'[i] = output[i]
      /\ n + 1 \in 1..Len(output') /\ output'[n + 1] = r
      /\ \A i \in 1..Len(output') : \/ i \in 1..n
                                    \/ i = n + 1
                                    \/ i = n + 2 /\ output'[i].kind = "running"
      /\ (class = "running" => n + 2 \in 1..Len(output') /\ output'[n + 2].kind = "running")
      /\ (class # "running" => Len(output') = n + 1)
  <2>1. CASE class # "running"
    <3>1. output' = Append(output, r)
      BY <1>4, <2>1 DEF r
    <3> QED
      BY <1>5, <2>1, <3>1, AppendItems DEF SessionTypes
  <2>2. CASE class = "running"
    <3> DEFINE one == Append(output, r)
               two == Append(one, Notice("running"))
    <3>1. output' = two
      BY <1>4, <1>5, <2>2 DEF SessionTypes, r
    <3>2. /\ one \in Seq(MiRecord) /\ n \in Nat /\ Len(one) = n + 1 /\ one[n + 1] = r
          /\ \A i \in 1..n : one[i] = output[i]
      BY <1>5, AppendItems DEF SessionTypes
    <3> HIDE DEF one
    <3>3. /\ two \in Seq(MiRecord) /\ Len(two) = n + 2 /\ two[n + 2] = Notice("running")
          /\ \A i \in 1..n + 1 : two[i] = one[i]
      BY <1>5, <3>2, AppendItems
    <3> HIDE DEF two
    <3> QED
      BY <1>5, <2>2, <3>1, <3>2, <3>3
  <2> QED
    BY <2>1, <2>2
<1>7. /\ gdb'.at = gdb.at /\ gdb'.told = gdb.told
      /\ gdb'.inferior = IF class = "running" THEN "RUNNING" ELSE gdb.inferior
      /\ gdb'.lost = gdb.lost /\ gdb' \in GdbStates
  BY <1>4 DEF SessionTypes, GdbStates
<1>8. installed' \in [Breakpoints -> Slot]
  BY <1>3, <1>4, SwitchType DEF SessionTypes
<1>9. SessionTypes' /\ CallFits'
  BY <1>1, <1>2, <1>6, <1>7, <1>8 DEF SessionTypes, CallFits
<1>10. ExitFits'
  BY <1>1, <1>5, <1>6, <1>7 DEF ExitFits
<1>13. \A i \in 1..Len(output') : IsResult(output[i])' <=>
          (i \in 1..n /\ IsResult(output[i])) \/ i = n + 1
  BY <1>5, <1>6 DEF IsResult
<1>14. ResultsFit'
  <2>1. ASSUME NEW i \in 1..Len(output'), IsResult(output[i])'
        PROVE  /\ output'[i].token \in 1..tokens
               /\ output'[i].class \in {"done", "running", "error"}
               /\ \A j \in 1..Len(input') : output'[i].token < input'[j].token
    <3>1. CASE i \in 1..n
      BY <1>2, <1>6, <1>13, <2>1, <3>1 DEF ResultsFit
    <3>2. CASE i = n + 1
      BY <1>3, <1>5, <1>6, <3>2
    <3> QED
      BY <1>13, <2>1, <3>1, <3>2
  <2>2. ASSUME NEW i \in 1..Len(output'), NEW j \in 1..Len(output'), i < j,
               IsResult(output[i])', IsResult(output[j])'
        PROVE  output'[i].token < output'[j].token
    <3>1. CASE j \in 1..n
      <4>1. i \in 1..n /\ IsResult(output[i]) /\ IsResult(output[j])
        BY <1>6, <1>13, <2>2, <3>1
      <4> QED
        BY <1>6, <2>2, <3>1, <4>1 DEF ResultsFit
    <3>2. CASE j = n + 1
      <4>1. i \in 1..n /\ IsResult(output[i])
        BY <1>6, <1>13, <2>2, <3>2
      <4> QED
        BY <1>5, <1>6, <1>12, <3>2, <4>1
    <3> QED
      BY <1>6, <1>13, <2>2, <3>1, <3>2
  <2> QED
    BY <1>1, <2>1, <2>2 DEF ResultsFit
<1>15. OnlyPending'
  BY <1>1, <1>2, <1>5, <1>6, <1>13 DEF OnlyPending
<1>17. call.at = "sent" =>
          (Succeeds' <=> class = "done" /\ command.token = call.token)
  <2> SUFFICES ASSUME call.at = "sent"
               PROVE  Succeeds' <=> class = "done" /\ command.token = call.token
    OBVIOUS
  <2>1. call.answer # "done" /\ \A i \in 1..n :
           ~(IsResult(output[i]) /\ output[i].token = call.token /\ output[i].class = "done")
    BY <1>16 DEF Succeeds
  <2> QED
    BY <1>1, <1>5, <1>6, <1>13, <2>1 DEF Succeeds
<1>18. SuccessFits'
  <2> SUFFICES ASSUME call.at = "sent", call.op \in Switches, Succeeds'
               PROVE  installed'[call.bp] = Switch(call.op, installed'[call.bp])
    BY <1>1 DEF SuccessFits
  <2>1. class = "done" /\ command.op = call.op /\ command.bp = call.bp
        /\ call.bp \in Breakpoints
    BY <1>3, <1>17
  <2>2. installed' = [installed EXCEPT ![call.bp] = Switch(call.op, @)]
    BY <1>4, <2>1 DEF Switches
  <2>3. installed'[call.bp] = Switch(call.op, installed[call.bp])
    BY <2>1, <2>2 DEF SessionTypes
  <2> QED
    BY <2>3, SwitchType
<1>19. ViewFits'
  <2> SUFFICES ASSUME timeouts = 0, reader # "ended"
               PROVE  IF call.at = "sent" /\ call.op \in Switches /\ Succeeds'
                      THEN /\ installed' = [view EXCEPT ![call.bp] = Switch(call.op, @)]
                           /\ call.op # "insert" => view[call.bp] # "absent"
                      ELSE view = installed'
    BY <1>1 DEF ViewFits
  <2>1. command.token \in pending
    BY <1>2 DEF OnlyPending
  <2>2. call.at = "sent" /\ command.token = call.token
    BY <2>1 DEF CallFits
  <2>3. command.op = call.op /\ command.bp = call.bp /\ view = installed
    BY <1>1, <1>3, <1>16, <2>2 DEF ViewFits, Unanswered
  <2>4. CASE class = "done" /\ command.op \in Switches
    <3>1. installed' = [installed EXCEPT ![call.bp] = Switch(call.op, @)] /\ Accepts(command)
      BY <1>4, <2>3, <2>4 DEF Switches
    <3>2. call.op # "insert" => installed[call.bp] # "absent"
      BY <2>3, <2>4, <3>1 DEF Accepts, Switches
    <3> QED
      BY <1>17, <2>2, <2>3, <2>4, <3>1, <3>2
  <2>5. CASE ~(class = "done" /\ command.op \in Switches)
    BY <1>4, <1>17, <2>2, <2>3, <2>5
  <2> QED
    BY <2>4, <2>5
<1>20. NoticesFit'
  <2>1. ASSUME NEW i \in 1..Len(output'), NEW j \in 1..Len(output'), i < j,
               TellsStop(output[i])', output'[j].kind = "running"
        PROVE  \E k \in 1..Len(output') : i < k /\ k < j /\ IsResult(output[k])'
    <3>1. i \in 1..n
      BY <1>5, <1>6, <2>1 DEF TellsStop
    <3>2. CASE j \in 1..n
      <4>1. PICK k \in 1..n : i < k /\ k < j /\ IsResult(output[k])
        BY <1>6, <2>1, <3>1, <3>2 DEF NoticesFit, TellsStop
      <4> QED
        BY <1>6, <4>1 DEF IsResult
    <3>3. CASE j = n + 2
      BY <1>5, <1>6, <3>1, <3>3 DEF IsResult
    <3> QED
      BY <1>5, <1>6, <2>1, <3>2, <3>3
  <2> QED
    BY <2>1 DEF NoticesFit
<1>21. WokenFits'
  <2> SUFFICES ASSUME timeouts = 0, reader # "ended", call.at = "waiting" PROVE FALSE
    BY <1>1 DEF WokenFits
  <2>1. command.token \in pending
    BY <1>2 DEF OnlyPending
  <2> QED
    BY <2>1 DEF CallFits
<1>22. LastWord'
  <2>1. CASE class = "running"
    <3> DEFINE last == output'[n + 2]
    <3>1. last.kind = "running" /\ n + 2 \in 1..Len(output') /\ gdb'.inferior = "RUNNING"
      BY <1>6, <1>7, <2>1
    <3>2. Tells(last) /\ Told(last) = "RUNNING"
      BY <3>1 DEF Tells, TellsRunning, Told
    <3>3. \A i \in 1..Len(output') :
             (\A j \in 1..Len(output') : i < j => ~Tells(output'[j])) => i = n + 2
      BY <1>6, <3>1, <3>2
    <3>4. \A i \in 1..Len(output') :
             (\A j \in 1..Len(output') : i < j => ~Tells(output'[j]))
               => gdb'.inferior = Told(output'[i])
      BY <3>1, <3>2, <3>3
    <3> HIDE DEF last
    <3> QED
      BY <3>1, <3>2, <3>4 DEF LastWord, last
  <2>2. CASE class # "running"
    <3>1. output'[n + 1].kind = "result" /\ output'[n + 1].class # "running"
      BY <1>5, <1>6, <2>2
    <3>2. ~Tells(output'[n + 1])
      BY <3>1 DEF Tells, TellsStop, TellsRunning
    <3>3. Len(output') = n + 1 /\ gdb'.inferior = gdb.inferior
          /\ \A i \in 1..Len(output') : i \in 1..n \/ i = n + 1
      BY <1>6, <1>7, <2>2
    <3>4. ASSUME reader # "ended", call.at # "gone", gdb.lost # "stdout", NEW i \in 1..Len(output'),
                 Tells(output'[i]), \A j \in 1..Len(output') : i < j => ~Tells(output'[j])
          PROVE  gdb'.inferior = Told(output'[i])
      <4>1. i # n + 1
        BY <3>2, <3>4
      <4>2. i \in 1..n
        BY <3>3, <4>1
      <4>3. Tells(output[i]) /\ \A j \in 1..n : i < j => ~Tells(output[j])
        BY <1>6, <3>4, <4>2
      <4> QED
        BY <1>6, <3>3, <3>4, <4>2, <4>3 DEF LastWord
    <3>5. ASSUME reader # "ended", call.at # "gone", gdb.lost # "stdout",
                 \A i \in 1..Len(output') : ~Tells(output'[i])
          PROVE  \/ state = gdb.inferior
                 \/ /\ state = "STARTING" /\ gdb.inferior = "READY"
                    /\ \E i \in 1..Len(output') : output'[i].kind = "prompt"
      <4>1. \A i \in 1..n : ~Tells(output[i])
        BY <1>6, <3>5
      <4> QED
        BY <1>6, <3>5, <4>1 DEF LastWord
    <3> QED
      BY <1>1, <3>3, <3>4, <3>5 DEF LastWord
  <2> QED
    BY <2>1, <2>2
<1> QED
  BY <1>9, <1>10, <1>11, <1>14, <1>15, <1>18, <1>19, <1>20, <1>21, <1>22

(***************************************************************************)
(* The reader.                                                             *)
(***************************************************************************)
\* What the reader leaves behind it is in order.
LEMMA RestFits ==
    ASSUME FollowingInv, output # <<>>, output' = Tail(output),
           UNCHANGED <<gdb, input, tokens>>
    PROVE  /\ ResultsFit' /\ NoticesFit'
           /\ \A i \in 1..Len(output') : output'[i].kind = "exit" =>
                 gdb.at # "alive" /\ (output'[i].class = "error" => gdb.lost # "none")
<1> USE DEF FollowingInv
<1>1. /\ Len(output) \in Nat
      /\ \A i \in 1..Len(output') : i + 1 \in 1..Len(output) /\ output'[i] = output[i + 1]
      /\ \A i \in 1..Len(output) :
            i = 1 \/ (i - 1 \in 1..Len(output') /\ output'[i - 1] = output[i])
  BY TailItems DEF SessionTypes
<1>2. \A i \in 1..Len(output') : IsResult(output'[i]) =>
         /\ output'[i].token \in 1..tokens
         /\ output'[i].class \in {"done", "running", "error"}
         /\ \A j \in 1..Len(input) : output'[i].token < input[j].token
  BY <1>1 DEF ResultsFit
<1>3. ASSUME NEW i \in 1..Len(output'), NEW j \in 1..Len(output'), i < j,
             IsResult(output'[i]), IsResult(output'[j])
      PROVE  output'[i].token < output'[j].token
  <2>1. i + 1 \in 1..Len(output) /\ j + 1 \in 1..Len(output) /\ i + 1 < j + 1
    BY <1>1, <1>3
  <2> QED
    BY <1>1, <1>3, <2>1 DEF ResultsFit
<1>4. ASSUME NEW i \in 1..Len(output'), NEW j \in 1..Len(output'), i < j,
             TellsStop(output'[i]), output'[j].kind = "running"
      PROVE  \E k \in 1..Len(output') : i < k /\ k < j /\ IsResult(output'[k])
  <2>1. i + 1 \in 1..Len(output) /\ j + 1 \in 1..Len(output) /\ i + 1 < j + 1
    BY <1>1, <1>4
  <2>2. PICK k \in 1..Len(output) : i + 1 < k /\ k < j + 1 /\ IsResult(output[k])
    BY <1>1, <1>4, <2>1 DEF NoticesFit
  <2>3. k # 1 /\ i < k - 1 /\ k - 1 < j
    BY <1>1, <2>2
  <2> QED
    BY <1>1, <2>2, <2>3
<1> QED
  BY <1>1, <1>2, <1>3, <1>4 DEF ResultsFit, NoticesFit, ExitFits

\* The state follows the records that are taken.
LEMMA StateFollows ==
    ASSUME FollowingInv, output # <<>>, output' = Tail(output), gdb' = gdb,
           reader # "ended", call'.at = call.at,
           state' = IF Tells(Head(output)) THEN Told(Head(output))
                    ELSE IF Head(output).kind = "prompt" /\ state = "STARTING" THEN "READY"
                    ELSE state
    PROVE  LastWord'
<1> USE DEF FollowingInv
<1> SUFFICES ASSUME call.at # "gone", gdb.lost # "stdout"
             PROVE  LastWord'
  BY DEF LastWord
<1>1. /\ Len(output) \in Nat /\ 1 \in 1..Len(output) /\ Head(output) = output[1]
      /\ \A i \in 1..Len(output') : i + 1 \in 1..Len(output) /\ output'[i] = output[i + 1]
      /\ \A i \in 1..Len(output) :
            i = 1 \/ (i - 1 \in 1..Len(output') /\ output'[i - 1] = output[i])
  BY TailItems DEF SessionTypes
<1>2. ASSUME NEW i \in 1..Len(output'), Tells(output'[i]),
             \A j \in 1..Len(output') : i < j => ~Tells(output'[j])
      PROVE  gdb.inferior = Told(output'[i])
  <2>1. i + 1 \in 1..Len(output) /\ Tells(output[i + 1])
    BY <1>1, <1>2
  <2>2. ASSUME NEW j \in 1..Len(output), i + 1 < j
        PROVE  ~Tells(output[j])
    <3>1. j # 1 /\ i < j - 1
      BY <2>2
    <3> QED
      BY <1>1, <1>2, <3>1
  <2> QED
    BY <1>1, <2>1, <2>2 DEF LastWord
<1>3. ASSUME \A i \in 1..Len(output') : ~Tells(output'[i])
      PROVE  \/ state' = gdb.inferior
             \/ /\ state' = "STARTING" /\ gdb.inferior = "READY"
                /\ \E i \in 1..Len(output') : output'[i].kind = "prompt"
  <2>1. \A j \in 1..Len(output) : j # 1 => ~Tells(output[j])
    BY <1>1, <1>3
  <2>2. CASE Tells(Head(output))
    <3>1. \A j \in 1..Len(output) : 1 < j => ~Tells(output[j])
      BY <2>1
    <3> QED
      BY <1>1, <2>2, <3>1 DEF LastWord
  <2>3. CASE ~Tells(Head(output))
    <3>1. \A j \in 1..Len(output) : ~Tells(output[j])
      BY <1>1, <2>1, <2>3
    <3>2. CASE state = gdb.inferior
      BY <2>3, <3>2 DEF SessionTypes, GdbStates
    <3>3. CASE /\ state = "STARTING" /\ gdb.inferior = "READY"
               /\ \E i \in 1..Len(output) : output[i].kind = "prompt"
      BY <1>1, <2>3, <3>3
    <3> QED
      BY <3>1, <3>2, <3>3 DEF LastWord
  <2> QED
    BY <2>2, <2>3
<1> QED
  BY <1>2, <1>3 DEF LastWord

\* What a record that answers nobody may change.
LEMMA TakenFits ==
    ASSUME FollowingInv, output # <<>>, output' = Tail(output),
           UNCHANGED <<gdb, installed, input, view, reader, pending, ending, tokens, timeouts>>,
           reader = "on",
           state' \in {"STARTING", "READY", "RUNNING", "STOPPED", "EXITED", "FAILED"},
           call' \in [at : {"new", "starting", "idle", "sent", "waiting", "closing", "gone"},
                      op : Switches \cup Controls \cup {"none"},
                      bp : Breakpoints \cup {"none"}, token : Nat,
                      answer : {"none", "done", "running", "error", "failed"},
                      woken : BOOLEAN],
           call.at = "sent" => call' = call,
           call'.at = call.at
    PROVE  /\ SessionTypes' /\ CallFits' /\ ExitFits' /\ InputFits' /\ ResultsFit'
           /\ SuccessFits' /\ NoticesFit'
           /\ timeouts > 0 \/ ~IsResult(Head(output)) => OnlyPending' /\ ViewFits'
<1> USE DEF FollowingInv
<1>1. /\ output' \in Seq(MiRecord)
      /\ Len(output) \in Nat /\ 1 \in 1..Len(output) /\ Head(output) = output[1]
      /\ \A i \in 1..Len(output') : i + 1 \in 1..Len(output) /\ output'[i] = output[i + 1]
      /\ \A i \in 1..Len(output) :
            i = 1 \/ (i - 1 \in 1..Len(output') /\ output'[i - 1] = output[i])
  BY TailItems DEF SessionTypes
<1>2. SessionTypes'
  BY <1>1 DEF SessionTypes, Stopped
<1>3. CallFits' /\ InputFits'
  BY DEF CallFits, InputFits
<1>4. ResultsFit' /\ NoticesFit' /\ ExitFits'
  BY RestFits DEF ExitFits
<1>5. call.at = "sent" /\ Succeeds' => Succeeds
  BY <1>1 DEF Succeeds
<1>6. SuccessFits'
  BY <1>5 DEF SuccessFits
<1>7. ASSUME timeouts > 0
      PROVE  OnlyPending' /\ ViewFits'
  BY <1>7 DEF OnlyPending, ViewFits, SessionTypes
<1>8. ASSUME ~IsResult(Head(output))
      PROVE  OnlyPending' /\ ViewFits'
  <2>1. OnlyPending'
    BY <1>1 DEF OnlyPending
  <2>2. call.at = "sent" => (Succeeds' <=> Succeeds)
    BY <1>1, <1>5, <1>8 DEF Succeeds
  <2>3. Unanswered => Unanswered'
    BY <1>1 DEF Unanswered
  <2> QED
    BY <2>1, <2>2, <2>3 DEF ViewFits
<1> QED
  BY <1>2, <1>3, <1>4, <1>6, <1>7, <1>8

LEMMA PromptFits ==
    ASSUME FollowingInv, Read, Head(output).kind = "prompt"
    PROVE  FollowingInv'
<1> USE DEF FollowingInv
<1>1. /\ reader = "on" /\ output # <<>> /\ output' = Tail(output) /\ TakePrompt
      /\ UNCHANGED <<gdb, installed, input, view, reader, pending, ending, tokens, timeouts>>
  BY DEF Read, gdbVars, TakePrompt
<1>2. ~IsResult(Head(output)) /\ ~Tells(Head(output))
  BY DEF IsResult, Tells, TellsStop, TellsRunning
<1>3. /\ state' = IF state = "STARTING" THEN "READY" ELSE state
      /\ call' \in [at : {"new", "starting", "idle", "sent", "waiting", "closing", "gone"},
                    op : Switches \cup Controls \cup {"none"},
                    bp : Breakpoints \cup {"none"}, token : Nat,
                    answer : {"none", "done", "running", "error", "failed"},
                    woken : BOOLEAN]
      /\ call.at \in {"sent", "waiting"} => call' = call
      /\ call'.at = call.at
  BY <1>1 DEF TakePrompt, SessionTypes
<1>4. /\ SessionTypes' /\ CallFits' /\ ExitFits' /\ InputFits' /\ ResultsFit'
      /\ SuccessFits' /\ NoticesFit' /\ OnlyPending' /\ ViewFits'
  BY <1>1, <1>2, <1>3, TakenFits DEF SessionTypes, Stopped
<1>5. LastWord'
  BY <1>1, <1>2, <1>3, StateFollows
<1>6. WokenFits'
  <2>1. \A i \in 1..Len(output') : i + 1 \in 1..Len(output) /\ output'[i] = output[i + 1]
    BY <1>1, TailItems DEF SessionTypes
  <2> QED
    BY <1>1, <1>3, <2>1 DEF WokenFits, Stopped
<1> QED
  BY <1>4, <1>5, <1>6

LEMMA NoticeFits ==
    ASSUME FollowingInv, Read, Head(output).kind \in {"running", "STOPPED", "EXITED"}
    PROVE  FollowingInv'
<1> USE DEF FollowingInv
<1> DEFINE new == Told(Head(output))
<1>1. /\ reader = "on" /\ output # <<>> /\ output' = Tail(output) /\ Becomes(new)
      /\ UNCHANGED <<gdb, installed, input, view, reader, pending, ending, tokens, timeouts>>
  BY DEF Read, gdbVars, Told, TellsRunning
<1>2. ~IsResult(Head(output)) /\ Tells(Head(output)) /\ new \in {"RUNNING", "STOPPED", "EXITED"}
  BY DEF IsResult, Tells, TellsStop, TellsRunning, Told
<1>3. /\ state' = new
      /\ call' \in [at : {"new", "starting", "idle", "sent", "waiting", "closing", "gone"},
                    op : Switches \cup Controls \cup {"none"},
                    bp : Breakpoints \cup {"none"}, token : Nat,
                    answer : {"none", "done", "running", "error", "failed"},
                    woken : BOOLEAN]
      /\ call.at = "sent" => call' = call
      /\ call'.at = call.at
      /\ call'.woken = (call.woken \/ Wakes(new))
  BY <1>1 DEF Becomes, Wakes, SessionTypes
<1>4. /\ SessionTypes' /\ CallFits' /\ ExitFits' /\ InputFits' /\ ResultsFit'
      /\ SuccessFits' /\ NoticesFit' /\ OnlyPending' /\ ViewFits'
  BY <1>1, <1>2, <1>3, TakenFits
<1>5. LastWord'
  BY <1>1, <1>2, <1>3, StateFollows
<1>6. WokenFits'
  <2> SUFFICES ASSUME timeouts = 0, call.at = "waiting", call'.woken
               PROVE  /\ state' \in Stopped
                      /\ \A i \in 1..Len(output') : output'[i].kind # "running"
    BY <1>1, <1>3 DEF WokenFits
  <2>1. /\ Len(output) \in Nat /\ 1 \in 1..Len(output) /\ Head(output) = output[1]
        /\ \A i \in 1..Len(output') : i + 1 \in 1..Len(output) /\ output'[i] = output[i + 1]
    BY <1>1, TailItems DEF SessionTypes
  <2>2. Head(output).kind # "running"
    BY <1>1, <1>3, <2>1 DEF WokenFits, Wakes, Stopped, Told, TellsRunning
  <2>3. TellsStop(output[1]) /\ new \in Stopped
    BY <2>1, <2>2 DEF TellsStop, Stopped, Told, TellsRunning
  <2>4. \A k \in 1..Len(output) : ~IsResult(output[k])
    BY <1>1 DEF OnlyPending, CallFits
  <2>5. \A i \in 1..Len(output') : 1 < i + 1
    OBVIOUS
  <2> QED
    BY <1>3, <2>1, <2>3, <2>4, <2>5 DEF NoticesFit
<1> QED
  BY <1>4, <1>5, <1>6

LEMMA AnswerFits ==
    ASSUME FollowingInv, Read, Head(output).kind = "result"
    PROVE  FollowingInv'
<1> USE DEF FollowingInv
<1> DEFINE r == Head(output)
<1>1. /\ reader = "on" /\ output # <<>> /\ output' = Tail(output) /\ TakeResult(r)
      /\ UNCHANGED <<gdb, installed, input, view, reader, ending, tokens, timeouts>>
  BY DEF Read, gdbVars
<1>2. /\ output' \in Seq(MiRecord)
      /\ Len(output) \in Nat /\ 1 \in 1..Len(output) /\ r = output[1]
      /\ \A i \in 1..Len(output') : i + 1 \in 1..Len(output) /\ output'[i] = output[i + 1]
      /\ \A i \in 1..Len(output) :
            i = 1 \/ (i - 1 \in 1..Len(output') /\ output'[i - 1] = output[i])
  BY <1>1, TailItems DEF SessionTypes
<1>3. /\ IsResult(r) /\ r.kind = "result" /\ r.token \in 1..tokens
      /\ r.class \in {"done", "running", "error"}
      /\ \A j \in 1..Len(input) : r.token < input[j].token
  BY <1>2 DEF ResultsFit, IsResult
<1> HIDE DEF r
<1>4. state' = IF r.class = "running" THEN "RUNNING" ELSE state
  BY <1>1 DEF TakeResult
<1>5. /\ Tells(r) <=> r.class = "running"
      /\ Tells(r) => Told(r) = "RUNNING"
  BY <1>3 DEF Tells, TellsStop, TellsRunning, Told
<1>6. state' = IF Tells(r) THEN Told(r) ELSE state
  BY <1>4, <1>5
<1>7. state' \in {"STARTING", "READY", "RUNNING", "STOPPED", "EXITED", "FAILED"}
  BY <1>4 DEF SessionTypes, Stopped
<1>8. CASE Answers(r)
  <2>1. /\ call.at = "sent" /\ r.token = call.token /\ call.token = tokens /\ tokens \in Nat
        /\ call.answer = "none"
    BY <1>1, <1>8 DEF Answers, CallFits, SessionTypes
  <2>2. pending' = {} /\ call' = [call EXCEPT !.answer = r.class]
    BY <1>1, <1>8 DEF TakeResult
  <2>3. /\ call'.at = "sent" /\ call'.token = call.token /\ call'.op = call.op
        /\ call'.bp = call.bp /\ call'.answer = r.class /\ call'.woken = call.woken
        /\ call' \in [at : {"new", "starting", "idle", "sent", "waiting", "closing", "gone"},
                      op : Switches \cup Controls \cup {"none"},
                      bp : Breakpoints \cup {"none"}, token : Nat,
                      answer : {"none", "done", "running", "error", "failed"},
                      woken : BOOLEAN]
    BY <1>3, <2>1, <2>2 DEF SessionTypes
  <2>4. Len(input) = 0 /\ input = <<>>
    <3>1. input \in Seq(Order) /\ Len(input) \in Nat
      BY DEF SessionTypes
    <3>2. ASSUME Len(input) # 0 PROVE FALSE
      <4>1. 1 \in 1..Len(input)
        BY <3>1, <3>2
      <4>2. input[1].token \in 1..tokens /\ r.token < input[1].token
        BY <1>3, <4>1 DEF InputFits
      <4> QED
        BY <2>1, <4>2
    <3> QED
      BY <3>1, <3>2, EmptySeq
  <2>5. \A i \in 1..Len(output') : ~IsResult(output'[i])
    <3> SUFFICES ASSUME NEW i \in 1..Len(output'), IsResult(output[i + 1]) PROVE FALSE
      BY <1>2
    <3>1. i + 1 \in 1..Len(output) /\ 1 < i + 1
      BY <1>2
    <3>2. output[i + 1].token \in 1..tokens /\ output[1].token < output[i + 1].token
      BY <1>2, <1>3, <3>1 DEF ResultsFit
    <3> QED
      BY <1>2, <2>1, <3>2
  <2>6. SessionTypes'
    BY <1>1, <1>2, <1>7, <2>3 DEF SessionTypes, Stopped
  <2>7. CallFits'
    BY <1>1, <1>3, <2>1, <2>2, <2>3 DEF CallFits
  <2>8. ResultsFit' /\ NoticesFit' /\ ExitFits'
    BY <1>1, RestFits DEF ExitFits
  <2>9. InputFits'
    BY <1>1, <2>1, <2>3, <2>4 DEF InputFits, SessionTypes
  <2>10. OnlyPending'
    BY <1>1, <2>4, <2>5 DEF OnlyPending
  <2>11. Succeeds' <=> Succeeds
    <3>1. Succeeds' <=> r.class = "done"
      BY <2>3, <2>5 DEF Succeeds
    <3>2. \A i \in 1..Len(output) : IsResult(output[i]) => i = 1
      BY <1>2, <2>5
    <3> QED
      BY <1>2, <1>3, <2>1, <3>1, <3>2 DEF Succeeds
  <2>15. ~Unanswered
    BY <1>2, <1>3 DEF Unanswered
  <2>12. SuccessFits' /\ ViewFits'
    BY <1>1, <2>1, <2>3, <2>11, <2>15 DEF SuccessFits, ViewFits
  <2>13. WokenFits'
    BY <2>3 DEF WokenFits
  <2>14. LastWord'
    BY <1>1, <1>3, <1>6, <2>1, <2>3, StateFollows DEF r
  <2> QED
    BY <2>6, <2>7, <2>8, <2>9, <2>10, <2>12, <2>13, <2>14
<1>9. CASE ~Answers(r)
  <2>1. call' = call /\ pending' = pending
    BY <1>1, <1>9 DEF TakeResult
  <2>2. timeouts > 0
    <3>1. r.token \notin pending
      BY <1>9 DEF Answers
    <3>2. timeouts # 0
      BY <1>1, <1>2, <1>3, <3>1 DEF OnlyPending
    <3> QED
      BY <3>2, SessionAssumption DEF SessionTypes
  <2>3. /\ SessionTypes' /\ CallFits' /\ ExitFits' /\ InputFits' /\ ResultsFit'
        /\ SuccessFits' /\ NoticesFit' /\ OnlyPending' /\ ViewFits'
    BY <1>1, <1>7, <2>1, <2>2, TakenFits DEF SessionTypes
  <2>4. LastWord'
    BY <1>1, <1>3, <1>6, <2>1, StateFollows DEF r
  <2>5. WokenFits'
    BY <1>1, <2>2 DEF WokenFits
  <2> QED
    BY <2>3, <2>4, <2>5
<1> QED
  BY <1>8, <1>9

\* The reader ends at a line it cannot read or at the exit of GDB.
LEMMA LastReadFits ==
    ASSUME FollowingInv, Read, Head(output).kind \in {"garbage", "exit"}
    PROVE  FollowingInv'
<1> USE DEF FollowingInv
<1>1. /\ reader = "on" /\ output # <<>> /\ output' = Tail(output)
      /\ UNCHANGED <<gdb, installed, input, view, ending, tokens, timeouts>>
  BY DEF Read, gdbVars
<1>2. /\ output' \in Seq(MiRecord)
      /\ Len(output) \in Nat /\ 1 \in 1..Len(output) /\ Head(output) = output[1]
      /\ \A i \in 1..Len(output') : i + 1 \in 1..Len(output) /\ output'[i] = output[i + 1]
  BY <1>1, TailItems DEF SessionTypes
<1>3. PICK final \in {"EXITED", "FAILED"} :
         ReaderEnds(final) /\ (gdb.at = "alive" => final = "FAILED")
  BY <1>1, <1>2 DEF Read, FinalState, ExitFits
<1>4. /\ state' = final /\ reader' = "ended" /\ pending' = {}
      /\ call' \in [at : {"new", "starting", "idle", "sent", "waiting", "closing", "gone"},
                    op : Switches \cup Controls \cup {"none"},
                    bp : Breakpoints \cup {"none"}, token : Nat,
                    answer : {"none", "done", "running", "error", "failed"},
                    woken : BOOLEAN]
      /\ call'.at = call.at /\ call'.op = call.op /\ call'.bp = call.bp
      /\ call'.token = call.token /\ call'.answer \in {call.answer, "failed"}
  BY <1>3 DEF ReaderEnds, Wakes, SessionTypes
<1>5. SessionTypes'
  BY <1>1, <1>2, <1>4 DEF SessionTypes, Stopped
<1>6. CallFits' /\ InputFits'
  BY <1>1, <1>4 DEF CallFits, InputFits
<1>7. ResultsFit' /\ NoticesFit' /\ ExitFits'
  BY <1>1, <1>3, <1>4, RestFits DEF ExitFits
<1>8. Succeeds' => Succeeds
  BY <1>2, <1>4 DEF Succeeds
<1>9. SuccessFits' /\ OnlyPending' /\ ViewFits' /\ WokenFits' /\ LastWord'
  BY <1>1, <1>4, <1>8 DEF SuccessFits, OnlyPending, ViewFits, WokenFits, LastWord
<1> QED
  BY <1>5, <1>6, <1>7, <1>9

LEMMA ReadFits ==
    ASSUME FollowingInv, Read
    PROVE  FollowingInv'
<1>1. Head(output).kind \in {"prompt", "result", "running", "STOPPED", "EXITED", "garbage",
                             "exit"}
  BY DEF Read
<1> QED
  BY <1>1, PromptFits, AnswerFits, NoticeFits, LastReadFits

(***************************************************************************)
(* The caller.                                                             *)
(***************************************************************************)
\* The caller goes from place to place and has no command out.
LEMMA MovesFit ==
    ASSUME FollowingInv, NEW place \in {"starting", "idle", "waiting", "closing", "gone"},
           call' = CallAt(place), call.at # "sent", call.at # "gone",
           UNCHANGED <<gdb, installed, input, output, view, pending, tokens>>,
           timeouts' = timeouts \/ (timeouts' = timeouts + 1 /\ timeouts < MaxTimeouts),
           ending' \in {"no", "closing", "closed"},
           ending' = "no" \/ place \in {"closing", "gone"},
           \/ /\ reader' = IF call.at = "new" THEN "on" ELSE reader
              /\ state' = state
           \/ /\ place = "gone" /\ reader' = reader /\ call.at # "new"
              /\ state' = "FAILED"
           \/ /\ place = "gone" /\ reader' = "ended" /\ gdb.at # "alive"
              /\ state' \in {"EXITED", "FAILED"}
    PROVE  FollowingInv'
<1> USE DEF FollowingInv
<1>1. /\ call'.at = place /\ ~call'.woken /\ call'.answer = "none"
      /\ call' \in [at : {"new", "starting", "idle", "sent", "waiting", "closing", "gone"},
                    op : Switches \cup Controls \cup {"none"},
                    bp : Breakpoints \cup {"none"}, token : Nat,
                    answer : {"none", "done", "running", "error", "failed"},
                    woken : BOOLEAN]
  BY DEF CallAt, Idle
<1>2. timeouts' \in 0..MaxTimeouts /\ timeouts <= timeouts' /\ timeouts \in Nat
      /\ (timeouts' = 0 => timeouts = 0)
  BY SessionAssumption DEF SessionTypes
<1>3. SessionTypes'
  BY <1>1, <1>2 DEF SessionTypes, Stopped
<1>4. /\ reader' # "ended" => reader # "ended"
      /\ place # "gone" => state' = state
  BY DEF CallFits
<1>5. CallFits' /\ ExitFits'
  BY <1>1 DEF CallFits, ExitFits
<1>6. InputFits'
  <2>1. Len(input) \in Nat /\ timeouts' \in Nat
    BY <1>2 DEF SessionTypes
  <2>2. Len(input) <= timeouts' + 1 /\ (reader' # "ended" => Len(input) <= timeouts')
    BY <1>2, <1>4, <2>1 DEF InputFits
  <2> QED
    BY <1>1, <2>2 DEF InputFits
<1>7. ResultsFit' /\ NoticesFit' /\ SuccessFits' /\ WokenFits'
  BY <1>1 DEF ResultsFit, NoticesFit, SuccessFits, WokenFits
<1>8. OnlyPending' /\ ViewFits'
  BY <1>1, <1>2, <1>4 DEF OnlyPending, ViewFits, Unanswered
<1>9. LastWord'
  BY <1>1, <1>4 DEF LastWord
<1> QED
  BY <1>3, <1>5, <1>6, <1>7, <1>8, <1>9

LEMMA CallerMovesFit ==
    ASSUME FollowingInv,
           \/ Start \/ Started \/ StartTimesOut \/ BeginWait \/ EndWait \/ WaitTimesOut
           \/ BeginClose \/ EndClose
    PROVE  FollowingInv'
<1> USE DEF gdbVars
<1>1. /\ Idle = CallAt("idle")
      /\ gdb.told => gdb.at # "alive"
      /\ ending \in {"no", "closing", "closed"}
      /\ ending = "no" \/ call.at \in {"closing", "gone"}
  BY DEF Idle, CallAt, FollowingInv, ExitFits, SessionTypes, CallFits
<1>2. CASE Start
  BY <1>1, <1>2, MovesFit DEF Start
<1>3. CASE Started
  BY <1>1, <1>3, MovesFit DEF Started
<1>4. CASE StartTimesOut
  BY <1>1, <1>4, MovesFit DEF StartTimesOut
<1>5. CASE BeginWait
  BY <1>1, <1>5, MovesFit DEF BeginWait
<1>6. CASE EndWait
  BY <1>1, <1>6, MovesFit DEF EndWait
<1>7. CASE WaitTimesOut
  BY <1>1, <1>7, MovesFit DEF WaitTimesOut
<1>8. CASE BeginClose
  BY <1>1, <1>8, MovesFit DEF BeginClose
<1>9. CASE EndClose
  BY <1>1, <1>9, MovesFit DEF EndClose
<1> QED
  BY <1>2, <1>3, <1>4, <1>5, <1>6, <1>7, <1>8, <1>9

LEMMA SendFits ==
    ASSUME FollowingInv, NEW command \in GdbCommands, Send(command)
    PROVE  FollowingInv'
<1> USE DEF FollowingInv
<1>1. /\ call.at = "idle" /\ state # "FAILED" /\ gdb.at = "alive" /\ tokens < MaxCommands
      /\ tokens' = tokens + 1 /\ pending' = {command.token} /\ input' = Append(input, command)
      /\ call' = [Idle EXCEPT !.at = "sent", !.op = command.op, !.bp = command.bp,
                              !.token = command.token]
      /\ UNCHANGED <<gdb, installed, output, state, view, reader, ending, timeouts>>
  BY DEF Send
<1>2. /\ tokens \in Nat /\ tokens' \in Nat /\ tokens' \in 0..MaxCommands
      /\ timeouts \in Nat
  BY <1>1, SessionAssumption DEF SessionTypes
<1>3. /\ command \in Order /\ command.token = tokens'
      /\ command.op \in Switches => command.bp \in Breakpoints
      /\ command.op \in Switches \cup Controls
  BY <1>1, <1>2 DEF GdbCommands, Command, Order, Switches, Controls
<1>4. /\ call'.at = "sent" /\ call'.op = command.op /\ call'.bp = command.bp
      /\ call'.token = tokens' /\ call'.answer = "none" /\ ~call'.woken
      /\ call' \in [at : {"new", "starting", "idle", "sent", "waiting", "closing", "gone"},
                    op : Switches \cup Controls \cup {"none"},
                    bp : Breakpoints \cup {"none"}, token : Nat,
                    answer : {"none", "done", "running", "error", "failed"},
                    woken : BOOLEAN]
  BY <1>1, <1>2, <1>3 DEF Idle, Order
<1>5. reader = "on" /\ pending = {} /\ Len(input) <= timeouts
  BY <1>1 DEF ExitFits, CallFits, InputFits, SessionTypes
<1>6. /\ input' \in Seq(Order) /\ Len(input) \in Nat /\ Len(input') = Len(input) + 1
      /\ input'[Len(input')] = command /\ Len(input') \in 1..Len(input')
      /\ \A i \in 1..Len(input) : i \in 1..Len(input') /\ input'[i] = input[i]
      /\ \A i \in 1..Len(input') : i \in 1..Len(input) \/ i = Len(input')
  BY <1>1, <1>3, AppendItems DEF SessionTypes
<1>7. SessionTypes'
  BY <1>1, <1>2, <1>4, <1>6 DEF SessionTypes
<1>8. CallFits' /\ ExitFits'
  BY <1>1, <1>2, <1>3, <1>4, <1>5 DEF CallFits, ExitFits
<1>9. InputFits'
  <2>1. ASSUME NEW i \in 1..Len(input')
        PROVE  /\ input'[i].token \in 1..tokens'
               /\ input'[i].op \in Switches => input'[i].bp \in Breakpoints
               /\ input'[i].token = call'.token =>
                     input'[i].op = call'.op /\ input'[i].bp = call'.bp
    <3>1. CASE i \in 1..Len(input)
      <4>1. /\ input'[i] = input[i] /\ input[i].token \in 1..tokens
            /\ input[i].op \in Switches => input[i].bp \in Breakpoints
        BY <1>6, <3>1 DEF InputFits
      <4> QED
        BY <1>1, <1>2, <1>4, <4>1
    <3>2. CASE i = Len(input')
      BY <1>1, <1>2, <1>3, <1>4, <1>6, <3>2
    <3> QED
      BY <1>6, <3>1, <3>2
  <2>2. ASSUME NEW i \in 1..Len(input'), NEW j \in 1..Len(input'), i < j
        PROVE  input'[i].token < input'[j].token
    <3>1. i \in 1..Len(input)
      BY <1>6, <2>2
    <3>2. CASE j \in 1..Len(input)
      BY <1>6, <2>2, <3>1, <3>2 DEF InputFits
    <3>3. CASE j = Len(input')
      <4>1. input'[i] = input[i] /\ input[i].token \in 1..tokens
        BY <1>6, <3>1 DEF InputFits
      <4> QED
        BY <1>1, <1>2, <1>3, <1>6, <3>3, <4>1
    <3> QED
      BY <1>6, <3>2, <3>3
  <2>3. Len(input') <= timeouts' + 1
    BY <1>1, <1>2, <1>5, <1>6
  <2> QED
    BY <1>4, <2>1, <2>2, <2>3 DEF InputFits
<1>10. \A i \in 1..Len(output) : IsResult(output[i]) =>
          output[i].token \in 1..tokens /\ output[i].token \in 1..tokens'
          /\ output[i].token < tokens'
  BY <1>1, <1>2 DEF ResultsFit
<1>11. ResultsFit'
  <2>1. ASSUME NEW i \in 1..Len(output), IsResult(output[i]), NEW j \in 1..Len(input')
        PROVE  output[i].token < input'[j].token
    BY <1>3, <1>6, <1>10, <2>1 DEF ResultsFit
  <2> QED
    BY <1>1, <1>10, <2>1 DEF ResultsFit, IsResult
<1>12. OnlyPending'
  <2> SUFFICES ASSUME timeouts = 0
               PROVE  /\ \A i \in 1..Len(input') : input'[i].token \in pending'
                      /\ \A i \in 1..Len(output) : ~IsResult(output[i])
    BY <1>1 DEF OnlyPending, IsResult
  <2>1. \A i \in 1..Len(input) : FALSE
    BY <1>5, <1>6
  <2>2. \A i \in 1..Len(output) : ~IsResult(output[i])
    BY <1>5 DEF OnlyPending
  <2> QED
    BY <1>1, <1>6, <2>1, <2>2
<1>13. ~Succeeds'
  <2> SUFFICES ASSUME NEW i \in 1..Len(output), IsResult(output[i]),
                      output[i].token = tokens'
               PROVE  FALSE
    BY <1>1, <1>4 DEF Succeeds, IsResult
  <2> QED
    BY <1>2, <1>10
<1>14. SuccessFits' /\ ViewFits'
  BY <1>1, <1>4, <1>13 DEF SuccessFits, ViewFits, Unanswered
<1>15. NoticesFit' /\ WokenFits' /\ LastWord'
  BY <1>1, <1>4 DEF NoticesFit, WokenFits, LastWord, IsResult, TellsStop
<1> QED
  BY <1>7, <1>8, <1>9, <1>11, <1>12, <1>14, <1>15

LEMMA ReturnFits ==
    ASSUME FollowingInv, Return
    PROVE  FollowingInv'
<1> USE DEF FollowingInv
<1>1. /\ call.at = "sent" /\ call.answer # "none" /\ call' = Idle
      /\ view' = IF call.op \in Switches /\ call.answer = "done"
                 THEN [view EXCEPT ![call.bp] = Noted(call.op, @)]
                 ELSE view
      /\ UNCHANGED <<gdb, installed, input, output, state, reader, pending, ending, tokens,
                     timeouts>>
  BY DEF Return, gdbVars
<1>2. /\ call'.at = "idle" /\ call'.answer = "none" /\ ~call'.woken
      /\ call' \in [at : {"new", "starting", "idle", "sent", "waiting", "closing", "gone"},
                    op : Switches \cup Controls \cup {"none"},
                    bp : Breakpoints \cup {"none"}, token : Nat,
                    answer : {"none", "done", "running", "error", "failed"},
                    woken : BOOLEAN]
  BY <1>1 DEF Idle
<1>3. pending = {} /\ (call.op \in Switches => call.bp \in Breakpoints)
  BY <1>1 DEF CallFits
<1>4. SessionTypes'
  <2>1. \A op \in Switches : \A slot \in Slot : Noted(op, slot) \in Slot
    BY SwitchType DEF Noted
  <2>2. view' \in [Breakpoints -> Slot]
    BY <1>1, <1>3, <2>1 DEF SessionTypes
  <2> QED
    BY <1>1, <1>2, <2>2 DEF SessionTypes
<1>5. CallFits' /\ ExitFits'
  BY <1>1, <1>2, <1>3 DEF CallFits, ExitFits
<1>6. InputFits'
  BY <1>1, <1>2 DEF InputFits
<1>7. ResultsFit' /\ OnlyPending' /\ SuccessFits' /\ NoticesFit' /\ WokenFits' /\ LastWord'
  BY <1>1, <1>2 DEF ResultsFit, OnlyPending, SuccessFits, NoticesFit, WokenFits, LastWord
<1>8. ViewFits'
  <2> SUFFICES ASSUME timeouts = 0, reader # "ended", gdb.at = "alive"
               PROVE  view' = installed
    BY <1>1, <1>2 DEF ViewFits
  <2>0. ~Unanswered
    BY <1>1 DEF Unanswered
  <2>1. Succeeds => call.answer = "done"
    BY <1>3 DEF OnlyPending, Succeeds
  <2>2. CASE call.op \in Switches /\ call.answer = "done"
    <3>1. /\ installed = [view EXCEPT ![call.bp] = Switch(call.op, @)]
          /\ call.op # "insert" => view[call.bp] # "absent"
      BY <1>1, <2>0, <2>2 DEF ViewFits, Succeeds
    <3>2. Noted(call.op, view[call.bp]) = Switch(call.op, view[call.bp])
      BY <2>2, <3>1 DEF Noted
    <3> QED
      BY <1>1, <2>2, <3>1, <3>2
  <2>3. CASE ~(call.op \in Switches /\ call.answer = "done")
    BY <1>1, <2>0, <2>1, <2>3 DEF ViewFits
  <2> QED
    BY <2>2, <2>3
<1> QED
  BY <1>4, <1>5, <1>6, <1>7, <1>8

LEMMA TimeOutFits ==
    ASSUME FollowingInv, TimeOut
    PROVE  FollowingInv'
<1> USE DEF FollowingInv
<1>1. /\ call.at = "sent" /\ call.answer = "none" /\ call' = Idle /\ pending' = {}
      /\ timeouts < MaxTimeouts /\ timeouts' = timeouts + 1
      /\ UNCHANGED <<gdb, installed, input, output, state, view, reader, ending, tokens>>
  BY DEF TimeOut, gdbVars
<1>2. /\ call'.at = "idle" /\ call'.answer = "none" /\ ~call'.woken
      /\ call' \in [at : {"new", "starting", "idle", "sent", "waiting", "closing", "gone"},
                    op : Switches \cup Controls \cup {"none"},
                    bp : Breakpoints \cup {"none"}, token : Nat,
                    answer : {"none", "done", "running", "error", "failed"},
                    woken : BOOLEAN]
  BY <1>1 DEF Idle
<1>3. timeouts' \in 0..MaxTimeouts /\ timeouts' # 0 /\ timeouts \in Nat
  BY <1>1, SessionAssumption DEF SessionTypes
<1>4. SessionTypes'
  BY <1>1, <1>2, <1>3 DEF SessionTypes
<1>5. CallFits' /\ ExitFits'
  BY <1>1, <1>2 DEF CallFits, ExitFits
<1>6. InputFits'
  <2>1. Len(input) \in Nat /\ Len(input) <= timeouts'
    BY <1>1, <1>3 DEF InputFits, SessionTypes
  <2> QED
    BY <1>1, <1>2, <1>3, <2>1 DEF InputFits
<1>7. ResultsFit' /\ OnlyPending' /\ SuccessFits' /\ ViewFits' /\ NoticesFit' /\ WokenFits'
      /\ LastWord'
  BY <1>1, <1>2, <1>3
  DEF ResultsFit, OnlyPending, SuccessFits, ViewFits, NoticesFit, WokenFits, LastWord
<1> QED
  BY <1>4, <1>5, <1>6, <1>7

LEMMA FollowingStarts == SessionInit => FollowingInv
<1> SUFFICES ASSUME SessionInit PROVE FollowingInv
  OBVIOUS
<1> USE DEF SessionInit
<1>1. /\ Notice("prompt") \in MiRecord /\ ~IsResult(Notice("prompt"))
      /\ ~Tells(Notice("prompt")) /\ Notice("prompt").kind = "prompt"
  BY DEF Notice, Record, MiRecord, IsResult, Tells, TellsStop, TellsRunning
<1>2. /\ output \in Seq(MiRecord) /\ Len(output) = 1 /\ output[1] = Notice("prompt")
      /\ input \in Seq(Order) /\ Len(input) = 0
  BY <1>1
<1>3. /\ call.at = "new" /\ ~call.woken /\ call.answer = "none"
      /\ call \in [at : {"new", "starting", "idle", "sent", "waiting", "closing", "gone"},
                   op : Switches \cup Controls \cup {"none"},
                   bp : Breakpoints \cup {"none"}, token : Nat,
                   answer : {"none", "done", "running", "error", "failed"},
                   woken : BOOLEAN]
  BY DEF CallAt, Idle
<1>4. SessionTypes
  BY <1>2, <1>3, SessionAssumption DEF SessionTypes, Slot, GdbStates
<1>5. \A i \in 1..Len(output) : i = 1 /\ output[i] = Notice("prompt")
  BY <1>2
<1>6. CallFits /\ ExitFits /\ InputFits
  BY <1>1, <1>2, <1>3, <1>5, SessionAssumption DEF CallFits, ExitFits, InputFits
<1>7. ResultsFit /\ OnlyPending /\ NoticesFit
  BY <1>1, <1>2, <1>5 DEF ResultsFit, OnlyPending, NoticesFit
<1>8. SuccessFits /\ ViewFits /\ WokenFits
  BY <1>3 DEF SuccessFits, ViewFits, WokenFits
<1>9. LastWord
  BY <1>1, <1>2, <1>5 DEF LastWord
<1> QED
  BY <1>4, <1>6, <1>7, <1>8, <1>9 DEF FollowingInv

LEMMA FollowingSteps == FollowingInv /\ [SessionNext]_sessionVars => FollowingInv'
<1> SUFFICES ASSUME FollowingInv, [SessionNext]_sessionVars
             PROVE  FollowingInv'
  OBVIOUS
<1>1. CASE UNCHANGED sessionVars
  <2> USE <1>1 DEF sessionVars
  <2>1. SessionTypes' /\ CallFits' /\ ExitFits' /\ InputFits'
    BY DEF FollowingInv, SessionTypes, CallFits, ExitFits, InputFits
  <2>2. ResultsFit' /\ OnlyPending' /\ SuccessFits' /\ ViewFits'
    BY DEF FollowingInv, ResultsFit, OnlyPending, SuccessFits, ViewFits, Succeeds, IsResult, Unanswered
  <2>3. NoticesFit' /\ WokenFits' /\ LastWord'
    BY DEF FollowingInv, NoticesFit, WokenFits, LastWord, IsResult, TellsStop
  <2> QED
    BY <2>1, <2>2, <2>3 DEF FollowingInv
<1>2. CASE SessionNext
  BY <1>2, ObeyFits, InferiorStopsFits, AsidesFit, EndsFit, ReadFits, CallerMovesFit,
     ReturnFits, SendFits, TimeOutFits
  DEF SessionNext, Caller
<1> QED
  BY <1>1, <1>2

LEMMA FollowingHolds == SessionSpec => []FollowingInv
BY FollowingStarts, FollowingSteps, PTL DEF SessionSpec

\* Whoever calls the session is told the truth: a command that is reported
\* done has been done by GDB, though earlier ones may have timed out; a wait
\* that returns found the inferior stopped, as long as none has timed out (the
\* late answer of a continue makes the session RUNNING before the wait looks);
\* and at most one command is out.
\* (GdbMiSession._execute, _handle_record, wait_for_stop.)
THEOREM AnswersAreReal == SessionSpec => []SessionInv
<1>1. FollowingInv => SessionInv
  <2> SUFFICES ASSUME FollowingInv PROVE SessionInv
    OBVIOUS
  <2> USE DEF FollowingInv
  <2>1. pending \subseteq 1..MaxCommands /\ Cardinality(pending) <= 1
        /\ (pending # {} => call.at = "sent" /\ pending = {call.token})
    <3>1. CASE pending = {}
      BY <3>1, FS_EmptySet
    <3>2. CASE pending # {}
      <4>1. call.at = "sent" /\ pending = {call.token} /\ call.token = tokens /\ tokens > 0
        BY <3>2 DEF CallFits
      <4>2. tokens \in 1..MaxCommands
        BY <4>1, SessionAssumption DEF SessionTypes
      <4> QED
        BY <4>1, <4>2, FS_Singleton
    <3> QED
      BY <3>1, <3>2
  <2>2. Len(input) <= 1 + MaxTimeouts
    <3>1. Len(input) \in Nat /\ timeouts \in Nat /\ timeouts <= MaxTimeouts
      BY SessionAssumption DEF SessionTypes
    <3> QED
      BY <3>1, SessionAssumption DEF InputFits
  <2>3. SessionTypeOK
    BY <2>1, <2>2 DEF SessionTypeOK, SessionTypes, GdbStates
  <2>4. SuccessIsReal
    BY DEF SuccessIsReal, SuccessFits, Succeeds
  <2>5. WaitReturnsStopped
    BY DEF WaitReturnsStopped, WokenFits, ExitFits, Stopped
  <2> QED
    BY <2>3, <2>4, <2>5 DEF SessionInv
<1> QED
  BY <1>1, FollowingHolds, PTL

\* A session whose reader has caught up shows the state of the inferior, and
\* between two commands the breakpoints that GDB has.  (_handle_record,
\* _set_state, insert_breakpoint, delete_breakpoint, enable_breakpoint.)
THEOREM ViewsAgree == SessionSpec => []ViewAgrees
<1>1. FollowingInv => ViewAgrees
  <2> SUFFICES ASSUME FollowingInv PROVE ViewAgrees
    OBVIOUS
  <2> USE DEF FollowingInv
  <2>1. StateAgrees
    BY DEF StateAgrees, LastWord
  <2>2. BreakpointsAgree
    BY DEF BreakpointsAgree, ViewFits, Unanswered, ExitFits, Stopped
  <2> QED
    BY <2>1, <2>2 DEF ViewAgrees
<1> QED
  BY <1>1, FollowingHolds, PTL

\* Once close has begun, the exit code of GDB does not make the session a failed
\* one: only a line that cannot be read does, or the failure of the process
\* session at its output.  (GdbMiSession.close, _reader_loop;
\* PlatformGdbTransport._monitor_completion.)
THEOREM ClosingIsNoFailure == SessionSpec => CloseIsNotFailure
<1> DEFINE Failing == ending # "no" /\ state # "FAILED" /\ state' = "FAILED"
<1>1. ASSUME FollowingInv, [SessionNext]_sessionVars
      PROVE  [Failing => Unreadable(Head(output))]_sessionVars
  <2> SUFFICES ASSUME SessionNext, Failing
               PROVE  Unreadable(Head(output))
    BY <1>1
  <2>1. CASE Read
    <3>1. /\ output # <<>> /\ 1 \in 1..Len(output) /\ Head(output) = output[1]
      BY <1>1, <2>1, TailItems DEF Read, FollowingInv, SessionTypes
    <3>2. Head(output).kind = "exit" /\ Head(output).class = "error" => gdb.lost # "none"
      BY <1>1, <3>1 DEF FollowingInv, ExitFits
    <3> QED
      BY <2>1, <3>2
      DEF Read, TakePrompt, TakeResult, Becomes, ReaderEnds, FinalState, Unreadable
  <2>2. CASE StartTimesOut
    BY <2>2, <1>1 DEF StartTimesOut, FollowingInv, CallFits
  <2>3. CASE EndClose
    BY <2>3 DEF EndClose
  <2>4. ~Obey /\ ~InferiorStops /\ ~Garbage /\ ~GdbExits /\ ~TellExit
        /\ ~GdbIsKilled /\ ~OutputFails
    BY DEF Obey, InferiorStops, Garbage, GdbExits, GdbIsKilled, OutputFails, TellExit
  <2>5. ~Start /\ ~Started /\ ~Return /\ ~EndWait /\ ~TimeOut /\ ~BeginWait /\ ~WaitTimesOut
        /\ ~BeginClose /\ (\A command \in GdbCommands : ~Send(command))
    BY DEF Start, Started, Return, EndWait, TimeOut, BeginWait, WaitTimesOut, BeginClose, Send
  <2> QED
    BY <2>1, <2>2, <2>3, <2>4, <2>5 DEF SessionNext, Caller
<1> QED
  BY <1>1, FollowingHolds, PTL DEF SessionSpec, CloseIsNotFailure

-----------------------------------------------------------------------------
(***************************************************************************)
(* Coordination.                                                           *)
(*                                                                         *)
(* The invariant describes the operations that ask for the lock of a       *)
(* group, one by one: only the first has begun, what it awaits are members *)
(* of its group, and every event in the line is there once, PROCESSING.    *)
(* All that an operation does under the lock comes down to five changes of *)
(* its line, each of which has a lemma.                                    *)
(***************************************************************************)
Stage == {"asking", "sending", "waiting"}
Works == UNION {[S -> Stage] : S \in SUBSET Sessions}
Operations ==
    [what  : Commands \cup {"close_group", "remove_member", "create_rule",
                            "delete_rule", "event"},
     arg   : Groups \cup Sessions \cup Rules \cup Claims,
     begun : BOOLEAN,
     work  : Works]

\* An operation in the line of g.
OpFits(g, op) ==
    /\ op.what = "event"
         => op.arg \in Claims /\ op.arg[2].group = g /\ event[op.arg] = "PROCESSING"
    /\ ~op.begun => op.work = Nobody
    /\ op.begun => DOMAIN op.work # {}
    /\ \A s \in DOMAIN op.work : op.work[s] = "waiting" => op.what = "event"

\* The operation that has the lock of g, when it awaits its members.
HolderFits(g) ==
    Busy(g) /\ Holder(g).begun =>
        /\ group[g] = "open"
        /\ DOMAIN Holder(g).work \subseteq member[g]
        /\ Holder(g).what = "event" => Holder(g).arg[2].source \in member[g]

\* No event is handled twice.
EventsOnce(g) ==
    \A i, j \in 1..Len(line[g]) :
        line[g][i].what = "event" /\ line[g][j].what = "event"
          /\ line[g][i].arg = line[g][j].arg => i = j

LineFits(g) ==
    /\ \A i \in 1..Len(line[g]) : OpFits(g, line[g][i]) /\ (line[g][i].begun => i = 1)
    /\ EventsOnce(g)
    /\ HolderFits(g)
    /\ Busy(g) => group[g] # "none" /\ ~closed

HasHandler(c) ==
    \E i \in 1..Len(line[c[2].group]) :
        line[c[2].group][i].what = "event" /\ line[c[2].group][i].arg = c

\* The types of all variables but line.
RestTypeOK ==
    /\ group \in [Groups -> {"none", "open", "closed"}]
    /\ member \in [Groups -> SUBSET Sessions]
    /\ rule \in [Rules -> {"none", "active", "deleted"}]
    /\ event \in [Claims -> Outcomes \cup {"none"}]
    /\ unsettled \subseteq Claims
    /\ session \in [Sessions -> {"READY", "RUNNING", "STOPPED", "EXITED", "gone"}]
    /\ inbox \in Seq(Hits \X Sessions)
    /\ calls \in 0..MaxCalls
    /\ closed \in BOOLEAN

LinesFit ==
    /\ line \in [Groups -> Seq(Operations)]
    /\ \A g \in Groups : LineFits(g)
    /\ \A c \in Claims \ unsettled : event[c] = "PROCESSING" /\ ~closed => HasHandler(c)

\* So many rules that a hit finds finitely many.
ActiveFinite == IsFiniteSet({r \in Rules : rule[r] = "active"})

CoordinationInv == RestTypeOK /\ SoleMembership /\ ActiveFinite /\ LinesFit

-----------------------------------------------------------------------------
(***************************************************************************)
(* The five changes of a line.                                             *)
(***************************************************************************)
USE DEF outcomes

\* What the invariant says of the line of f depends on the line, the events in
\* it, and f's group.
LEMMA OtherLine ==
    ASSUME NEW f \in Groups, LineFits(f), line'[f] = line[f], group'[f] = group[f],
           member'[f] = member[f], closed' = closed,
           \A i \in 1..Len(line[f]) : line[f][i].what = "event"
                                        => event'[line[f][i].arg] = event[line[f][i].arg]
    PROVE  LineFits(f)'
<1>1. (Busy(f) <=> Busy(f)') /\ Holder(f)' = Holder(f)
  BY DEF Busy, Holder
<1>2. HolderFits(f)' /\ EventsOnce(f)'
  BY <1>1 DEF LineFits, HolderFits, EventsOnce
<1>3. \A i \in 1..Len(line'[f]) : OpFits(f, line[f][i])' /\ (line'[f][i].begun => i = 1)
  BY DEF LineFits, OpFits
<1> QED
  BY <1>1, <1>2, <1>3 DEF LineFits

\* An operation leaves, and the next one has the lock.
LEMMA Left ==
    ASSUME line \in [Groups -> Seq(Operations)], NEW g \in Groups, Busy(g), Leave(g)
    PROVE  /\ line' \in [Groups -> Seq(Operations)]
           /\ \A f \in Groups \ {g} : line'[f] = line[f]
           /\ Len(line'[g]) = Len(line[g]) - 1
           /\ \A i \in 1..Len(line'[g]) : i + 1 \in 1..Len(line[g])
                                            /\ line'[g][i] = line[g][i + 1]
<1>1. line[g] \in Seq(Operations) /\ line[g] # <<>>
  BY DEF Busy
<1>2. /\ Tail(line[g]) \in Seq(Operations)
      /\ Len(Tail(line[g])) = Len(line[g]) - 1
      /\ \A i \in 1..Len(Tail(line[g])) : i + 1 \in 1..Len(line[g])
                                            /\ Tail(line[g])[i] = line[g][i + 1]
  BY <1>1
<1>3. line' = [line EXCEPT ![g] = Tail(line[g])]
  BY DEF Leave
<1> QED
  BY <1>2, <1>3

\* The operation with the lock goes on.
LEMMA Changed ==
    ASSUME line \in [Groups -> Seq(Operations)], NEW g \in Groups, Busy(g),
           NEW op \in Operations, line' = [line EXCEPT ![g] = [@ EXCEPT ![1] = op]]
    PROVE  /\ line' \in [Groups -> Seq(Operations)]
           /\ \A f \in Groups \ {g} : line'[f] = line[f]
           /\ Len(line'[g]) = Len(line[g]) /\ Busy(g)'
           /\ line'[g][1] = op
           /\ \A i \in 2..Len(line[g]) : line'[g][i] = line[g][i]
<1>1. line[g] \in Seq(Operations) /\ line[g] # <<>> /\ Len(line[g]) # 0
  BY DEF Busy
<1> DEFINE new == [line[g] EXCEPT ![1] = op]
<1>2. /\ new \in Seq(Operations) /\ Len(new) = Len(line[g]) /\ new[1] = op
      /\ \A i \in 2..Len(line[g]) : new[i] = line[g][i]
  BY <1>1
<1>3. line'[g] = new /\ \A f \in Groups \ {g} : line'[f] = line[f]
  OBVIOUS
<1>4. line' \in [Groups -> Seq(Operations)]
  BY <1>2
<1>5. Busy(g)'
  BY <1>1, <1>2, <1>3 DEF Busy
<1> QED
  BY <1>2, <1>3, <1>4, <1>5

\* When the operation with the lock leaves, its event, if it is one, has got its
\* outcome or lost it, and its own group alone may have changed.
LEMMA LeaveFits ==
    ASSUME CoordinationInv, NEW g \in Groups, Busy(g), Leave(g), closed' = closed,
           group'[g] # "none",
           \A f \in Groups \ {g} : group'[f] = group[f] /\ member'[f] = member[f],
           \A c \in Claims : event'[c] = event[c] \/ (Holder(g).what = "event"
                                                        /\ c = Holder(g).arg),
           unsettled \subseteq unsettled',
           Holder(g).what = "event" => \/ event'[Holder(g).arg] # "PROCESSING"
                                       \/ Holder(g).arg \in unsettled'
    PROVE  LinesFit'
<1>1. /\ line \in [Groups -> Seq(Operations)] /\ LineFits(g)
      /\ line[g] \in Seq(Operations) /\ Len(line[g]) \in Nat \ {0}
  BY DEF CoordinationInv, LinesFit, Busy
<1>2. /\ line' \in [Groups -> Seq(Operations)]
      /\ \A f \in Groups \ {g} : line'[f] = line[f]
      /\ Len(line'[g]) = Len(line[g]) - 1
      /\ \A i \in 1..Len(line'[g]) : i + 1 \in 1..Len(line[g])
                                       /\ line'[g][i] = line[g][i + 1]
  BY <1>1, Left
<1>3. ASSUME NEW f \in Groups \ {g} PROVE LineFits(f)'
  <2>1. LineFits(f)
    BY DEF CoordinationInv, LinesFit
  <2>2. ASSUME NEW i \in 1..Len(line[f]), line[f][i].what = "event"
        PROVE  event'[line[f][i].arg] = event[line[f][i].arg]
    <3>1. line[f][i].arg \in Claims /\ line[f][i].arg[2].group = f
      BY <2>1, <2>2 DEF LineFits, OpFits
    <3>2. Holder(g).what = "event" => Holder(g).arg[2].group = g
      BY <1>1 DEF LineFits, OpFits, Holder
    <3> QED
      BY <3>1, <3>2
  <2> QED
    BY <1>2, <2>1, <2>2, OtherLine
<1>4. LineFits(g)'
  <2>1. ASSUME NEW i \in 1..Len(line'[g])
        PROVE  OpFits(g, line[g][i])' /\ ~line'[g][i].begun
    <3>1. OpFits(g, line[g][i + 1]) /\ i + 1 # 1 /\ 1 \in 1..Len(line[g])
      BY <1>1, <1>2 DEF LineFits
    <3>2. ASSUME line[g][i + 1].what = "event"
          PROVE  event'[line[g][i + 1].arg] = event[line[g][i + 1].arg]
      <4>1. line[g][i + 1].arg \in Claims
        BY <3>1, <3>2 DEF OpFits
      <4>2. ~(Holder(g).what = "event" /\ line[g][i + 1].arg = Holder(g).arg)
        BY <1>1, <1>2, <3>1, <3>2 DEF LineFits, EventsOnce, Holder
      <4> QED
        BY <4>1, <4>2
    <3> QED
      BY <1>1, <1>2, <3>1, <3>2 DEF LineFits, OpFits
  <2>2. HolderFits(g)'
    <3> SUFFICES ASSUME Busy(g)' PROVE ~(Holder(g).begun)'
      BY DEF HolderFits
    <3>1. 1 \in 1..Len(line'[g])
      BY <1>2 DEF Busy
    <3> QED
      BY <2>1, <3>1 DEF Holder
  <2>3. EventsOnce(g)'
    BY <1>1, <1>2 DEF LineFits, EventsOnce
  <2>4. group'[g] # "none" /\ ~closed'
    BY <1>1 DEF LineFits
  <2> QED
    BY <2>1, <2>2, <2>3, <2>4 DEF LineFits
<1>5. ASSUME NEW c \in Claims \ unsettled', event'[c] = "PROCESSING", ~closed'
      PROVE  HasHandler(c)'
  <2>1. event[c] = "PROCESSING" /\ HasHandler(c) /\ c[2].group \in Groups
    BY <1>5, CoordinationAssumption DEF CoordinationInv, LinesFit, Claims
  <2>2. CASE c[2].group # g
    BY <1>2, <2>1, <2>2 DEF HasHandler
  <2>3. CASE c[2].group = g
    <3>1. PICK i \in 1..Len(line[g]) : line[g][i].what = "event" /\ line[g][i].arg = c
      BY <2>1, <2>3 DEF HasHandler
    <3>2. i # 1
      BY <1>5, <3>1 DEF Holder
    <3>3. i - 1 \in 1..Len(line'[g]) /\ line'[g][i - 1] = line[g][i]
      BY <1>1, <1>2, <3>2
    <3> QED
      BY <2>3, <3>1, <3>3 DEF HasHandler
  <2> QED
    BY <2>2, <2>3
<1> QED
  BY <1>2, <1>3, <1>4, <1>5 DEF LinesFit

\* The operation with the lock awaits members of its open group.
LEMMA AwaitsFit ==
    ASSUME CoordinationInv, NEW g \in Groups, Busy(g), NEW op \in Operations,
           line' = [line EXCEPT ![g] = [@ EXCEPT ![1] = op]],
           op.what = Holder(g).what, op.arg = Holder(g).arg, op.begun,
           DOMAIN op.work # {}, DOMAIN op.work \subseteq member[g], group[g] = "open",
           op.what = "event" => op.arg[2].source \in member[g],
           \A s \in DOMAIN op.work : op.work[s] = "waiting" => op.what = "event",
           UNCHANGED <<group, member, outcomes, closed>>
    PROVE  LinesFit'
<1>1. /\ line \in [Groups -> Seq(Operations)] /\ LineFits(g)
      /\ line[g] \in Seq(Operations) /\ Len(line[g]) \in Nat \ {0}
  BY DEF CoordinationInv, LinesFit, Busy
<1>2. /\ line' \in [Groups -> Seq(Operations)]
      /\ \A f \in Groups \ {g} : line'[f] = line[f]
      /\ Len(line'[g]) = Len(line[g]) /\ Busy(g)'
      /\ line'[g][1] = op
      /\ \A i \in 2..Len(line[g]) : line'[g][i] = line[g][i]
  BY <1>1, Changed
<1>3. ASSUME NEW i \in 1..Len(line[g])
      PROVE  line'[g][i].what = line[g][i].what /\ line'[g][i].arg = line[g][i].arg
  <2>1. CASE i = 1
    BY <1>2, <2>1 DEF Holder
  <2>2. CASE i # 1
    BY <1>1, <1>2, <2>2
  <2> QED
    BY <2>1, <2>2
<1>4. \A f \in Groups \ {g} : LineFits(f)'
  BY <1>2, OtherLine DEF CoordinationInv, LinesFit
<1>5. LineFits(g)'
  <2>1. ASSUME NEW i \in 1..Len(line'[g])
        PROVE  OpFits(g, line[g][i])' /\ (line'[g][i].begun => i = 1)
    <3>1. OpFits(g, line[g][i]) /\ i \in 1..Len(line[g])
      BY <1>1, <1>2 DEF LineFits
    <3>2. CASE i = 1
      BY <1>2, <1>3, <3>1, <3>2 DEF OpFits
    <3>3. CASE i # 1
      BY <1>1, <1>2, <3>1, <3>3 DEF OpFits, LineFits
    <3> QED
      BY <3>2, <3>3
  <2>2. HolderFits(g)'
    BY <1>2 DEF HolderFits, Holder
  <2>3. EventsOnce(g)'
    BY <1>1, <1>2, <1>3 DEF LineFits, EventsOnce
  <2>4. group'[g] # "none" /\ ~closed'
    BY <1>1 DEF LineFits
  <2> QED
    BY <2>1, <2>2, <2>3, <2>4 DEF LineFits
<1>6. ASSUME NEW c \in Claims \ unsettled', event'[c] = "PROCESSING", ~closed'
      PROVE  HasHandler(c)'
  <2>1. HasHandler(c) /\ c[2].group \in Groups
    BY <1>6, CoordinationAssumption DEF CoordinationInv, LinesFit, Claims
  <2> QED
    BY <1>2, <1>3, <2>1 DEF HasHandler
<1> QED
  BY <1>2, <1>4, <1>5, <1>6 DEF LinesFit

\* Operations that come to the line of their group.  The events among them are
\* claimed with the step, and each comes once.
Come(new) == line' = [g \in Groups |-> line[g] \o new[g]]

NewFit(g, ops) ==
    /\ \A i \in 1..Len(ops) :
         /\ ~ops[i].begun /\ ops[i].work = Nobody
         /\ ops[i].what = "event"
              => /\ ops[i].arg \in Claims /\ ops[i].arg[2].group = g
                 /\ event[ops[i].arg] = "none" /\ event'[ops[i].arg] = "PROCESSING"
    /\ \A i, j \in 1..Len(ops) :
         ops[i].what = "event" /\ ops[j].what = "event" /\ ops[i].arg = ops[j].arg => i = j
    /\ ops # <<>> => group[g] # "none" /\ ~closed

OnlyNewEvents(new) ==
    \A c \in Claims :
        /\ event[c] # "none" => event'[c] = event[c]
        /\ event[c] # "PROCESSING" /\ event'[c] = "PROCESSING" =>
             \E i \in 1..Len(new[c[2].group]) :
                 new[c[2].group][i].what = "event" /\ new[c[2].group][i].arg = c

LEMMA ArrivalsFit ==
    ASSUME CoordinationInv, NEW new \in [Groups -> Seq(Operations)], Come(new),
           UNCHANGED <<group, member, unsettled, closed>>, OnlyNewEvents(new),
           \A g \in Groups : NewFit(g, new[g])
    PROVE  LinesFit'
<1>1. line \in [Groups -> Seq(Operations)]
  BY DEF CoordinationInv, LinesFit
<1>2. ASSUME NEW g \in Groups
      PROVE  /\ line[g] \in Seq(Operations) /\ new[g] \in Seq(Operations)
             /\ line'[g] = line[g] \o new[g]
  BY <1>1 DEF Come
<1>3. ASSUME NEW g \in Groups PROVE LineFits(g)'
  <2> DEFINE old == line[g]
             joined == line'[g]
             n == Len(line[g])
  <2>1. LineFits(g) /\ NewFit(g, new[g])
    BY DEF CoordinationInv, LinesFit
  <2>2. /\ n \in Nat /\ Len(new[g]) \in Nat /\ joined \in Seq(Operations)
        /\ Len(joined) = n + Len(new[g])
        /\ \A i \in 1..n : i \in 1..Len(joined) /\ joined[i] = old[i]
        /\ \A i \in 1..Len(joined) : i \in 1..n \/ i > n
        /\ \A i \in 1..Len(joined) :
               i > n => i - n \in 1..Len(new[g]) /\ joined[i] = new[g][i - n]
    <3>0. old \in Seq(Operations) /\ new[g] \in Seq(Operations) /\ joined = old \o new[g]
      BY <1>2
    <3>1. n \in Nat /\ Len(new[g]) \in Nat /\ joined \in Seq(Operations)
      BY <3>0
    <3>2. Len(joined) = n + Len(new[g])
      BY <3>0
    <3>3. \A i \in 1..n : i \in 1..Len(joined) /\ joined[i] = old[i]
      BY <3>0, <3>1, <3>2
    <3>4. ASSUME NEW i \in 1..Len(joined), i > n
          PROVE  i - n \in 1..Len(new[g]) /\ joined[i] = new[g][i - n]
      <4>1. i - n \in 1..Len(new[g])
        BY <3>1, <3>2, <3>4
      <4> QED
        BY <3>0, <3>1, <3>2, <4>1
    <3> QED
      BY <3>1, <3>2, <3>3, <3>4
  <2>3. ASSUME NEW i \in 1..n
        PROVE  OpFits(g, line[g][i])' /\ (joined[i].begun => i = 1)
    <3>1. OpFits(g, old[i]) /\ joined[i] = old[i] /\ (old[i].begun => i = 1)
      BY <2>1, <2>2 DEF LineFits
    <3>2. old[i].what = "event" => event'[old[i].arg] = "PROCESSING"
      BY <3>1 DEF OpFits, OnlyNewEvents
    <3> QED
      BY <3>1, <3>2 DEF OpFits
  <2>4. ASSUME NEW i \in 1..Len(joined), i > n
        PROVE  OpFits(g, line[g][i])' /\ ~joined[i].begun
    <3>1. PICK k \in 1..Len(new[g]) : joined[i] = new[g][k]
      BY <2>2, <2>4
    <3> QED
      BY <2>1, <3>1 DEF OpFits, NewFit, Nobody
  <2>5. \A i \in 1..Len(joined) : OpFits(g, line[g][i])' /\ (joined[i].begun => i = 1)
    BY <2>2, <2>3, <2>4
  <2>6. EventsOnce(g)'
    <3>1. ASSUME NEW i \in 1..n, NEW j \in 1..Len(joined), j > n,
                 joined[i].what = "event", joined[j].what = "event"
          PROVE  joined[i].arg # joined[j].arg
      <4>1. event[joined[i].arg] = "PROCESSING"
        BY <2>1, <2>2, <3>1 DEF LineFits, OpFits
      <4>2. PICK k \in 1..Len(new[g]) : joined[j] = new[g][k]
        BY <2>2, <3>1
      <4>3. event[joined[j].arg] = "none"
        BY <2>1, <3>1, <4>2 DEF NewFit
      <4> QED
        BY <4>1, <4>3
    <3>2. ASSUME NEW i \in 1..n, NEW j \in 1..n, joined[i].what = "event",
                 joined[j].what = "event", joined[i].arg = joined[j].arg
          PROVE  i = j
      BY <2>1, <2>2, <3>2 DEF LineFits, EventsOnce
    <3>3. ASSUME NEW i \in 1..Len(joined), NEW j \in 1..Len(joined), i > n, j > n,
                 joined[i].what = "event", joined[j].what = "event",
                 joined[i].arg = joined[j].arg
          PROVE  i = j
      <4>1. /\ i - n \in 1..Len(new[g]) /\ joined[i] = new[g][i - n]
            /\ j - n \in 1..Len(new[g]) /\ joined[j] = new[g][j - n]
        BY <2>2, <3>3
      <4>2. PICK k \in 1..Len(new[g]), l \in 1..Len(new[g]) :
                /\ k = i - n /\ joined[i] = new[g][k]
                /\ l = j - n /\ joined[j] = new[g][l]
        BY <4>1
      <4>3. k = l
        <5>1. /\ new[g][k].what = "event" /\ new[g][l].what = "event"
              /\ new[g][k].arg = new[g][l].arg
          BY <3>3, <4>2
        <5> HIDE DEF n, joined
        <5> QED
          BY <2>1, <5>1 DEF NewFit
      <4> QED
        BY <2>2, <4>2, <4>3
    <3> QED
      BY <2>2, <3>1, <3>2, <3>3 DEF EventsOnce
  <2>7. HolderFits(g)'
    <3>1. CASE n = 0
      <4>1. Busy(g)' => ~(Holder(g).begun)'
        BY <2>2, <2>4, <3>1 DEF Busy, Holder
      <4> QED
        BY <4>1 DEF HolderFits
    <3>2. CASE n # 0
      <4>1. Busy(g) /\ Holder(g)' = Holder(g)
        BY <1>2, <2>2, <3>2 DEF Busy, Holder
      <4> QED
        BY <2>1, <4>1 DEF HolderFits, LineFits
    <3> QED
      BY <3>1, <3>2
  <2>8. Busy(g)' => group'[g] # "none" /\ ~closed'
    <3>1. Busy(g)' => Busy(g) \/ new[g] # <<>>
      BY <1>2 DEF Busy
    <3> QED
      BY <2>1, <3>1 DEF LineFits, NewFit
  <2> QED
    BY <2>5, <2>6, <2>7, <2>8 DEF LineFits
<1>4. ASSUME NEW c \in Claims \ unsettled', event'[c] = "PROCESSING", ~closed'
      PROVE  HasHandler(c)'
  <2>1. PICK g \in Groups : g = c[2].group
    BY CoordinationAssumption DEF Claims
  <2>2. /\ \A i \in 1..Len(line[g]) : i \in 1..Len(line'[g]) /\ line'[g][i] = line[g][i]
        /\ \A i \in 1..Len(new[g]) : i + Len(line[g]) \in 1..Len(line'[g])
                                       /\ line'[g][i + Len(line[g])] = new[g][i]
    BY <1>2
  <2>3. CASE event[c] = "PROCESSING"
    <3>0. c \notin unsettled
      BY <1>4
    <3>1. PICK i \in 1..Len(line[g]) : line[g][i].what = "event" /\ line[g][i].arg = c
      BY <1>4, <2>1, <2>3, <3>0 DEF CoordinationInv, LinesFit, HasHandler
    <3> QED
      BY <2>1, <2>2, <3>1 DEF HasHandler
  <2>4. CASE event[c] # "PROCESSING"
    <3>1. PICK i \in 1..Len(new[g]) : new[g][i].what = "event" /\ new[g][i].arg = c
      BY <1>4, <2>1, <2>4 DEF OnlyNewEvents
    <3>2. PICK k \in 1..Len(line'[g]) : line'[g][k] = new[g][i]
      BY <2>2
    <3> QED
      BY <2>1, <3>1, <3>2 DEF HasHandler
  <2> QED
    BY <2>3, <2>4
<1>5. line' \in [Groups -> Seq(Operations)]
  BY <1>2 DEF Come
<1> QED
  BY <1>3, <1>4, <1>5 DEF LinesFit

\* Nothing happens to the lines, the events and the groups.
LEMMA LinesSame ==
    ASSUME CoordinationInv, UNCHANGED <<line, group, member, outcomes, closed>>
    PROVE  LinesFit'
<1>1. \A g \in Groups : LineFits(g)'
  BY OtherLine DEF CoordinationInv, LinesFit
<1> QED
  BY <1>1 DEF CoordinationInv, LinesFit, HasHandler

\* What the three ways to go on make of the operation that has the lock.
LEMMA HolderOf ==
    ASSUME CoordinationInv, NEW g \in Groups, Busy(g)
    PROVE  /\ line \in [Groups -> Seq(Operations)] /\ line[g] \in Seq(Operations)
           /\ Len(line[g]) \in Nat \ {0}
           /\ Holder(g) \in Operations /\ Holder(g) = line[g][1]
           /\ OpFits(g, Holder(g)) /\ HolderFits(g)
           /\ group[g] # "none" /\ ~closed
<1>1. line \in [Groups -> Seq(Operations)] /\ LineFits(g)
  BY DEF CoordinationInv, LinesFit
<1>2. line[g] \in Seq(Operations) /\ Len(line[g]) \in Nat \ {0}
  BY <1>1 DEF Busy
<1> QED
  BY <1>1, <1>2 DEF LineFits, Holder

LEMMA AwaitsOp ==
    ASSUME CoordinationInv, NEW g \in Groups, Busy(g), NEW work \in Works, Awaits(g, work)
    PROVE  \E op \in Operations :
               /\ op.what = Holder(g).what /\ op.arg = Holder(g).arg /\ op.begun
               /\ op.work = work
               /\ line' = [line EXCEPT ![g] = [@ EXCEPT ![1] = op]]
<1> DEFINE op == [Holder(g) EXCEPT !.begun = TRUE, !.work = work]
<1>1. /\ op \in Operations /\ op.what = Holder(g).what /\ op.arg = Holder(g).arg
      /\ op.begun /\ op.work = work
  BY HolderOf DEF Operations
<1>2. line' = [line EXCEPT ![g] = [@ EXCEPT ![1] = op]]
  BY HolderOf DEF Awaits
<1> QED
  BY <1>1, <1>2

LEMMA WorkOp ==
    ASSUME CoordinationInv, NEW g \in Groups, Busy(g), NEW work \in Works,
           line' = [line EXCEPT ![g][1].work = work]
    PROVE  \E op \in Operations :
               /\ op.what = Holder(g).what /\ op.arg = Holder(g).arg
               /\ op.begun = Holder(g).begun /\ op.work = work
               /\ line' = [line EXCEPT ![g] = [@ EXCEPT ![1] = op]]
<1> DEFINE op == [Holder(g) EXCEPT !.work = work]
<1>1. /\ op \in Operations /\ op.what = Holder(g).what /\ op.arg = Holder(g).arg
      /\ op.begun = Holder(g).begun /\ op.work = work
  BY HolderOf DEF Operations
<1>2. line' = [line EXCEPT ![g] = [@ EXCEPT ![1] = op]]
  BY HolderOf
<1> QED
  BY <1>1, <1>2

\* An operation that awaits a member has begun.
LEMMA AtBegun ==
    ASSUME CoordinationInv, NEW g \in Groups, NEW s, NEW stage, At(g, s, stage)
    PROVE  /\ Busy(g) /\ Holder(g).begun /\ s \in Sessions
           /\ Holder(g).work \in Works /\ s \in DOMAIN Holder(g).work
           /\ DOMAIN Holder(g).work \in SUBSET Sessions
           /\ group[g] = "open" /\ DOMAIN Holder(g).work \subseteq member[g]
           /\ Holder(g).what = "event" => Holder(g).arg[2].source \in member[g]
<1>1. Busy(g) /\ s \in DOMAIN Holder(g).work
  BY DEF At
<1>2. Holder(g).begun
  BY <1>1, HolderOf DEF OpFits, Nobody, Operations
<1>3. Holder(g).work \in Works
  BY <1>1, HolderOf DEF Operations
<1>4. DOMAIN Holder(g).work \in SUBSET Sessions
  BY <1>3 DEF Works
<1> QED
  BY <1>1, <1>2, <1>3, <1>4, HolderOf DEF HolderFits

\* Its work for one member goes on to the next stage.
LEMMA ReachesFits ==
    ASSUME CoordinationInv, NEW g \in Groups, NEW s, NEW stage, At(g, s, stage),
           NEW next \in Stage, Reaches(g, s, next), next = "waiting" => Holder(g).what = "event",
           UNCHANGED <<group, member, outcomes, closed>>
    PROVE  LinesFit'
<1> DEFINE work == [Holder(g).work EXCEPT ![s] = next]
<1>1. work \in Works /\ DOMAIN work = DOMAIN Holder(g).work
  BY AtBegun DEF Works
<1>2. line' = [line EXCEPT ![g][1].work = work]
  BY DEF Reaches, Holder
<1>3. PICK op \in Operations :
         /\ op.what = Holder(g).what /\ op.arg = Holder(g).arg
         /\ op.begun = Holder(g).begun /\ op.work = work
         /\ line' = [line EXCEPT ![g] = [@ EXCEPT ![1] = op]]
  BY <1>1, <1>2, AtBegun, WorkOp
<1>4. DOMAIN op.work # {} /\ DOMAIN op.work \subseteq member[g]
  BY <1>1, <1>3, AtBegun
<1>5. \A x \in DOMAIN op.work : op.work[x] = "waiting" => op.what = "event"
  BY <1>1, <1>3, AtBegun, HolderOf DEF OpFits
<1> HIDE DEF work
<1> QED
  BY <1>3, <1>4, <1>5, AtBegun, AwaitsFit

\* ... or is done, and that of others is not.
LEMMA OthersGoOn ==
    ASSUME CoordinationInv, NEW g \in Groups, NEW s, NEW stage, At(g, s, stage),
           ~LastOne(g, s), Done(g, s), UNCHANGED <<group, member, outcomes, closed>>
    PROVE  LinesFit'
<1> DEFINE rest == DOMAIN Holder(g).work \ {s}
           work == Restrict(Holder(g).work, rest)
<1>1. rest # {} /\ rest \in SUBSET Sessions /\ rest \subseteq member[g]
  BY AtBegun DEF LastOne
<1>2. DOMAIN work = rest /\ work \in [rest -> Stage]
  BY AtBegun DEF Restrict, Works
<1>3. work \in Works
  BY <1>1, <1>2 DEF Works
<1>4. line' = [line EXCEPT ![g][1].work = work]
  BY DEF Done, Holder
<1>5. PICK op \in Operations :
         /\ op.what = Holder(g).what /\ op.arg = Holder(g).arg
         /\ op.begun = Holder(g).begun /\ op.work = work
         /\ line' = [line EXCEPT ![g] = [@ EXCEPT ![1] = op]]
  BY <1>3, <1>4, AtBegun, WorkOp
<1>6. DOMAIN op.work # {} /\ DOMAIN op.work \subseteq member[g]
  BY <1>1, <1>2, <1>5
<1>7. \A x \in DOMAIN op.work : op.work[x] = "waiting" => op.what = "event"
  BY <1>2, <1>5, AtBegun, HolderOf DEF OpFits, Restrict
<1> HIDE DEF work, rest
<1> QED
  BY <1>5, <1>6, <1>7, AtBegun, AwaitsFit

\* The operation begins to await members of its group.
LEMMA AskAllFits ==
    ASSUME CoordinationInv, NEW g \in Groups, Busy(g), NEW sessions, sessions # {},
           sessions \subseteq member[g], group[g] = "open",
           Holder(g).what = "event" => Holder(g).arg[2].source \in member[g],
           AskAll(g, sessions), UNCHANGED <<group, member, outcomes, closed>>
    PROVE  LinesFit'
<1> DEFINE work == [s \in sessions |-> "asking"]
<1>1. sessions \in SUBSET Sessions
  BY DEF CoordinationInv, RestTypeOK
<1>2. work \in Works /\ DOMAIN work = sessions
  BY <1>1 DEF Works, Stage
<1>3. PICK op \in Operations :
         /\ op.what = Holder(g).what /\ op.arg = Holder(g).arg /\ op.begun
         /\ op.work = work
         /\ line' = [line EXCEPT ![g] = [@ EXCEPT ![1] = op]]
  BY <1>2, AwaitsOp DEF AskAll
<1>4. \A s \in DOMAIN op.work : op.work[s] # "waiting"
  BY <1>3
<1> HIDE DEF work
<1> QED
  BY <1>2, <1>3, <1>4, AwaitsFit

\* The operation ends with its last result, or goes on without this one.
LEMMA DoneFits ==
    ASSUME CoordinationInv, NEW g \in Groups, NEW s, NEW stage, At(g, s, stage),
           Done(g, s), Holder(g).what # "event", UNCHANGED <<group, member, outcomes, closed>>
    PROVE  LinesFit'
<1>1. CASE LastOne(g, s)
  <2>1. Busy(g) /\ group[g] # "none" /\ Leave(g)
    BY <1>1, AtBegun, HolderOf DEF Done
  <2> QED
    BY <2>1, LeaveFits
<1>2. CASE ~LastOne(g, s)
  BY <1>2, OthersGoOn
<1> QED
  BY <1>1, <1>2

\* An event gets its outcome, or loses it, and its handler leaves.
LEMMA FinalizeFits ==
    ASSUME CoordinationInv, NEW g \in Groups, Busy(g), Holder(g).what = "event",
           NEW outcome \in Outcomes \ {"PROCESSING"}, Finalize(g, outcome),
           UNCHANGED <<group, member, closed>>
    PROVE  /\ LinesFit'
           /\ event' \in [Claims -> Outcomes \cup {"none"}] /\ unsettled' \subseteq Claims
<1>1. Holder(g).arg \in Claims /\ group[g] # "none"
  BY HolderOf DEF OpFits
<1>2. event \in [Claims -> Outcomes \cup {"none"}] /\ unsettled \subseteq Claims
  BY DEF CoordinationInv, RestTypeOK
<1>3. /\ Leave(g) /\ unsettled \subseteq unsettled' /\ unsettled' \subseteq Claims
      /\ event'[Holder(g).arg] # "PROCESSING" \/ Holder(g).arg \in unsettled'
      /\ \A c \in Claims : event'[c] = event[c] \/ c = Holder(g).arg
      /\ event' \in [Claims -> Outcomes \cup {"none"}]
  BY <1>1, <1>2 DEF Finalize
<1> QED
  BY <1>1, <1>3, LeaveFits

-----------------------------------------------------------------------------
(***************************************************************************)
(* The steps.                                                              *)
(***************************************************************************)
USE DEF Stage

LEMMA EffectsType ==
    ASSUME NEW what, NEW s
    PROVE  Effects(what, s) \subseteq {"RUNNING", "STOPPED", "gone"}
BY DEF Effects

LEMMA BeginKeeps ==
    ASSUME CoordinationInv, NEW g \in Groups, Begin(g)
    PROVE  CoordinationInv'
<1> USE DEF Begins, rows
<1>1. CASE BeginEvent(g)
  <2> DEFINE r == Holder(g).arg[2]
  <2>1. Busy(g) /\ Holder(g).what = "event"
        /\ UNCHANGED <<group, member, rule, session, inbox, calls, closed>>
    BY <1>1 DEF BeginEvent
  <2>2. CASE StillApplies(g, r) /\ AskAll(g, {r.target}) /\ UNCHANGED outcomes
    <3>1. LinesFit'
      BY <2>1, <2>2, AskAllFits DEF StillApplies
    <3> QED
      BY <2>1, <2>2, <3>1 DEF CoordinationInv, RestTypeOK, SoleMembership, ActiveFinite
  <2>3. CASE Skip(g)
    <3>1. /\ LinesFit'
          /\ event' \in [Claims -> Outcomes \cup {"none"}] /\ unsettled' \subseteq Claims
      BY <2>1, <2>3, FinalizeFits DEF Skip, Outcomes
    <3> QED
      BY <2>1, <3>1 DEF CoordinationInv, RestTypeOK, SoleMembership, ActiveFinite
  <2> QED
    BY <1>1, <2>2, <2>3 DEF BeginEvent
<1>2. CASE BeginCommand(g)
  <2>1. /\ Busy(g) /\ Holder(g).what # "event" /\ group[g] # "none"
        /\ UNCHANGED <<group, member, rule, outcomes, session, inbox, calls, closed>>
    BY <1>2, HolderOf DEF BeginCommand, Commands
  <2>2. CASE group[g] = "open" /\ member[g] # {} /\ AskAll(g, member[g])
    BY <2>1, <2>2, AskAllFits
       DEF CoordinationInv, RestTypeOK, SoleMembership, ActiveFinite
  <2>3. CASE Leave(g)
    BY <2>1, <2>3, LeaveFits
       DEF CoordinationInv, RestTypeOK, SoleMembership, ActiveFinite
  <2> QED
    BY <1>2, <2>2, <2>3 DEF BeginCommand
<1>3. CASE BeginCreateRule(g)
  <2> DEFINE r == Holder(g).arg
  <2>1. /\ Busy(g) /\ Holder(g).what # "event" /\ group[g] # "none"
        /\ UNCHANGED <<group, member, rule, outcomes, session, inbox, calls, closed>>
    BY <1>3, HolderOf DEF BeginCreateRule
  <2>2. CASE StillApplies(g, r) /\ AskAll(g, {r.source, r.target})
    BY <2>1, <2>2, AskAllFits
       DEF StillApplies, CoordinationInv, RestTypeOK, SoleMembership, ActiveFinite
  <2>3. CASE Leave(g)
    BY <2>1, <2>3, LeaveFits
       DEF CoordinationInv, RestTypeOK, SoleMembership, ActiveFinite
  <2> QED
    BY <1>3, <2>2, <2>3 DEF BeginCreateRule
<1>4. CASE DeleteRule(g)
  <2>1. /\ Busy(g) /\ Holder(g).what # "event" /\ group[g] # "none" /\ Leave(g)
        /\ UNCHANGED <<group, member, outcomes, session, inbox, calls, closed>>
        /\ rule' = [rule EXCEPT ![Holder(g).arg] = IF @ = "active" THEN "deleted" ELSE @]
    BY <1>4, HolderOf DEF DeleteRule
  <2>2. rule' \in [Rules -> {"none", "active", "deleted"}]
    BY <2>1 DEF CoordinationInv, RestTypeOK
  <2>3. ActiveFinite'
    <3>1. {r \in Rules : rule'[r] = "active"} \subseteq {r \in Rules : rule[r] = "active"}
      BY <2>1 DEF CoordinationInv, RestTypeOK
    <3> QED
      BY <3>1, FS_Subset DEF CoordinationInv, ActiveFinite
  <2> QED
    BY <2>1, <2>2, <2>3, LeaveFits DEF CoordinationInv, RestTypeOK, SoleMembership
<1>5. CASE RemoveMember(g)
  <2>1. /\ Busy(g) /\ Holder(g).what # "event" /\ group[g] # "none" /\ Leave(g)
        /\ UNCHANGED <<group, rule, outcomes, session, inbox, calls, closed>>
        /\ member' = [member EXCEPT ![g] =
                         IF group[g] = "open" THEN @ \ {Holder(g).arg} ELSE @]
    BY <1>5, HolderOf DEF RemoveMember
  <2>2. /\ member' \in [Groups -> SUBSET Sessions]
        /\ \A f \in Groups : member'[f] \subseteq member[f]
        /\ \A f \in Groups \ {g} : member'[f] = member[f]
    BY <2>1 DEF CoordinationInv, RestTypeOK
  <2>3. SoleMembership'
    BY <2>1, <2>2 DEF CoordinationInv, SoleMembership
  <2> QED
    BY <2>1, <2>2, <2>3, LeaveFits DEF CoordinationInv, RestTypeOK, ActiveFinite
<1>6. CASE CloseGroup(g)
  <2>1. /\ Busy(g) /\ Holder(g).what # "event" /\ Leave(g)
        /\ group' = [group EXCEPT ![g] = "closed"]
        /\ member' = [member EXCEPT ![g] = {}]
        /\ UNCHANGED <<rule, outcomes, session, inbox, calls, closed>>
    BY <1>6 DEF CloseGroup, ClosedMembers
  <2>2. /\ member' \in [Groups -> SUBSET Sessions]
        /\ group' \in [Groups -> {"none", "open", "closed"}]
        /\ member'[g] = {} /\ group'[g] = "closed"
        /\ \A f \in Groups \ {g} : member'[f] = member[f] /\ group'[f] = group[f]
    BY <2>1 DEF CoordinationInv, RestTypeOK
  <2>3. SoleMembership'
    BY <2>2 DEF CoordinationInv, SoleMembership
  <2> QED
    BY <2>1, <2>2, <2>3, LeaveFits DEF CoordinationInv, RestTypeOK, ActiveFinite
<1> QED
  BY <1>1, <1>2, <1>3, <1>4, <1>5, <1>6 DEF Begin

LEMMA ProceedKeeps ==
    ASSUME CoordinationInv, NEW g \in Groups, NEW s \in Sessions, Proceed(g, s)
    PROVE  CoordinationInv'
<1> USE DEF rows
<1>1. CASE AskForEvent(g, s)
  <2>1. /\ At(g, s, "asking") /\ Busy(g) /\ Holder(g).what = "event"
        /\ UNCHANGED <<group, member, rule, session, inbox, calls, closed>>
    BY <1>1 DEF AskForEvent, At
  <2>2. CASE Reaches(g, s, "sending") /\ UNCHANGED outcomes
    BY <2>1, <2>2, ReachesFits
       DEF CoordinationInv, RestTypeOK, SoleMembership, ActiveFinite
  <2>3. CASE Finalize(g, "SKIPPED") \/ Fail(g)
    BY <2>1, <2>3, FinalizeFits
       DEF Fail, Outcomes, CoordinationInv, RestTypeOK, SoleMembership, ActiveFinite
  <2> QED
    BY <1>1, <2>2, <2>3 DEF AskForEvent
<1>2. CASE AskForCommand(g, s)
  <2>1. /\ At(g, s, "asking") /\ Holder(g).what # "event"
        /\ UNCHANGED <<group, member, rule, outcomes, session, inbox, calls, closed>>
    BY <1>2 DEF AskForCommand, Commands
  <2>2. CASE Reaches(g, s, "sending")
    BY <2>1, <2>2, ReachesFits
       DEF CoordinationInv, RestTypeOK, SoleMembership, ActiveFinite
  <2>3. CASE Done(g, s)
    BY <2>1, <2>3, DoneFits
       DEF CoordinationInv, RestTypeOK, SoleMembership, ActiveFinite
  <2> QED
    BY <1>2, <2>2, <2>3 DEF AskForCommand
<1>3. CASE AskForRule(g, s)
  <2>1. /\ At(g, s, "asking") /\ Holder(g).what # "event" /\ Busy(g)
        /\ UNCHANGED <<group, member, outcomes, session, inbox, calls, closed>>
        /\ rule' = rule \/ rule' = [rule EXCEPT ![Holder(g).arg] = "active"]
    BY <1>3 DEF AskForRule, At
  <2>2. rule' \in [Rules -> {"none", "active", "deleted"}]
    BY <2>1 DEF CoordinationInv, RestTypeOK
  <2>3. ActiveFinite'
    <3> DEFINE active == {r \in Rules : rule[r] = "active"}
    <3>1. IsFiniteSet(active \cup {Holder(g).arg})
      BY FS_AddElement DEF CoordinationInv, ActiveFinite
    <3>2. {r \in Rules : rule'[r] = "active"} \subseteq active \cup {Holder(g).arg}
      BY <2>1 DEF CoordinationInv, RestTypeOK
    <3> QED
      BY <3>1, <3>2, FS_Subset DEF ActiveFinite
  <2>4. LinesFit'
    <3>1. CASE Done(g, s)
      BY <2>1, <3>1, DoneFits
    <3>2. CASE Leave(g)
      BY <2>1, <3>2, LeaveFits, HolderOf
    <3> QED
      BY <1>3, <3>1, <3>2 DEF AskForRule
  <2> QED
    BY <2>1, <2>2, <2>3, <2>4 DEF CoordinationInv, RestTypeOK, SoleMembership
<1>4. CASE SendForCommand(g, s)
  <2>1. /\ At(g, s, "sending") /\ Holder(g).what # "event" /\ Done(g, s)
        /\ UNCHANGED <<group, member, rule, outcomes, inbox, calls, closed>>
    BY <1>4 DEF SendForCommand, Commands
  <2>2. session' \in [Sessions -> {"READY", "RUNNING", "STOPPED", "EXITED", "gone"}]
    BY <1>4, EffectsType DEF SendForCommand, Fails, CoordinationInv, RestTypeOK
  <2> QED
    BY <2>1, <2>2, DoneFits DEF CoordinationInv, RestTypeOK, SoleMembership, ActiveFinite
<1>5. CASE SendForEvent(g, s)
  <2>1. /\ At(g, s, "sending") /\ Busy(g) /\ Holder(g).what = "event"
        /\ UNCHANGED <<group, member, rule, inbox, calls, closed>>
    BY <1>5 DEF SendForEvent, At
  <2>2. session' \in [Sessions -> {"READY", "RUNNING", "STOPPED", "EXITED", "gone"}]
    BY <1>5, EffectsType DEF SendForEvent, Fails, CoordinationInv, RestTypeOK
  <2>3. CASE Reaches(g, s, "waiting") /\ UNCHANGED outcomes
    BY <2>1, <2>2, <2>3, ReachesFits
       DEF CoordinationInv, RestTypeOK, SoleMembership, ActiveFinite
  <2>4. CASE Finalize(g, "INTERRUPT_CONFIRMED") \/ Fail(g)
    BY <2>1, <2>2, <2>4, FinalizeFits
       DEF Fail, Outcomes, CoordinationInv, RestTypeOK, SoleMembership, ActiveFinite
  <2> QED
    BY <1>5, <2>3, <2>4 DEF SendForEvent
<1>6. CASE WaitForStop(g, s)
  <2>1. /\ Busy(g) /\ UNCHANGED <<group, member, rule, session, inbox, calls, closed>>
        /\ Finalize(g, "INTERRUPT_CONFIRMED") \/ Finalize(g, "INTERRUPT_SENT")
    BY <1>6 DEF WaitForStop, At
  <2>2. Holder(g).what = "event"
    BY <1>6, AtBegun, HolderOf DEF WaitForStop, At, OpFits
  <2> QED
    BY <2>1, <2>2, FinalizeFits
       DEF Outcomes, CoordinationInv, RestTypeOK, SoleMembership, ActiveFinite
<1> QED
  BY <1>1, <1>2, <1>3, <1>4, <1>5, <1>6 DEF Proceed

\* The sessions move, and with a breakpoint hit publish an event.
LEMMA MoveKeeps ==
    ASSUME CoordinationInv, NEW s \in Sessions, Move(s)
    PROVE  CoordinationInv'
<1>1. UNCHANGED <<group, member, rule, outcomes, line, calls, closed>>
  BY DEF Move, Moves, Resumes, Stops, Exits, Ends, StopsAtBreakpoint, rows
<1>2. session' \in [Sessions -> {"READY", "RUNNING", "STOPPED", "EXITED", "gone"}]
  BY DEF Move, Moves, Resumes, Stops, Exits, Ends, StopsAtBreakpoint,
         CoordinationInv, RestTypeOK
<1>3. inbox' \in Seq(Hits \X Sessions)
  <2>1. inbox \in Seq(Hits \X Sessions)
    BY DEF CoordinationInv, RestTypeOK
  <2>2. ASSUME NEW h \in Hits, StopsAtBreakpoint(s, h) PROVE inbox' \in Seq(Hits \X Sessions)
    BY <2>1, <2>2 DEF StopsAtBreakpoint
  <2> QED
    BY <2>1, <2>2 DEF Move, Resumes, Stops, Exits, Ends
<1> QED
  BY <1>1, <1>2, <1>3, LinesSame
     DEF CoordinationInv, RestTypeOK, SoleMembership, ActiveFinite

\* A group is created before anything can ask for its lock.
LEMMA CreateGroupKeeps ==
    ASSUME CoordinationInv, NEW g \in Groups, NEW members \in SUBSET Sessions,
           CreateGroup(g, members)
    PROVE  CoordinationInv'
<1>1. /\ group[g] = "none" /\ Unclaimed(members)
      /\ group' = [group EXCEPT ![g] = "open"]
      /\ member' = [member EXCEPT ![g] = members]
      /\ UNCHANGED <<rule, outcomes, session, inbox, line, calls, closed>>
  BY DEF CreateGroup
<1>2. /\ group' \in [Groups -> {"none", "open", "closed"}]
      /\ member' \in [Groups -> SUBSET Sessions]
      /\ group'[g] = "open" /\ member'[g] = members
      /\ \A f \in Groups \ {g} : group'[f] = group[f] /\ member'[f] = member[f]
  BY <1>1 DEF CoordinationInv, RestTypeOK
<1>3. SoleMembership'
  BY <1>1, <1>2 DEF CoordinationInv, SoleMembership, Unclaimed
<1>4. LineFits(g)'
  <2>1. line[g] = <<>>
    BY <1>1 DEF CoordinationInv, LinesFit, LineFits, Busy
  <2> QED
    BY <1>1, <2>1 DEF LineFits, EventsOnce, HolderFits, Busy
<1>5. \A f \in Groups \ {g} : LineFits(f)'
  BY <1>1, <1>2, OtherLine DEF CoordinationInv, LinesFit
<1>6. LinesFit'
  BY <1>1, <1>4, <1>5 DEF CoordinationInv, LinesFit, HasHandler
<1> QED
  BY <1>1, <1>2, <1>3, <1>6 DEF CoordinationInv, RestTypeOK, ActiveFinite

\* A request waits for the lock of its group.
LEMMA RequestKeeps ==
    ASSUME CoordinationInv, NEW g \in Groups, NEW op \in Requests(g), Request(g, op)
    PROVE  CoordinationInv'
<1> DEFINE new == [f \in Groups |-> IF f = g THEN <<op>> ELSE <<>>]
<1>1. /\ op \in Operations /\ ~op.begun /\ op.work = Nobody /\ op.what # "event"
  <2>1. Nobody \in Works
    BY DEF Nobody, Works
  <2>2. PICK c \in Commands \cup {"close_group", "remove_member", "create_rule",
                                  "delete_rule"},
             a \in Groups \cup Sessions \cup Rules : op = Op(c, a)
    BY DEF Requests
  <2>3. c # "event" /\ op = [what |-> c, arg |-> a, begun |-> FALSE, work |-> Nobody]
    BY <2>2 DEF Op, Commands
  <2>4. op \in Operations
    BY <2>1, <2>3 DEF Operations
  <2> QED
    BY <2>3, <2>4
<1>2. /\ ~closed /\ group[g] # "none" /\ calls < MaxCalls /\ calls' = calls + 1
      /\ line' = [line EXCEPT ![g] = Append(@, op)]
      /\ UNCHANGED <<group, member, rule, outcomes, session, inbox, closed>>
  BY DEF Request, rows
<1>3. new \in [Groups -> Seq(Operations)]
  BY <1>1
<1>4. Come(new)
  <2>1. line \in [Groups -> Seq(Operations)]
    BY DEF CoordinationInv, LinesFit
  <2>2. \A f \in Groups : line'[f] = line[f] \o new[f]
    BY <1>1, <1>2, <2>1
  <2> QED
    BY <1>2, <2>1, <2>2 DEF Come
<1>5. \A f \in Groups : NewFit(f, new[f])
  BY <1>1, <1>2 DEF NewFit
<1>6. OnlyNewEvents(new)
  BY <1>2 DEF OnlyNewEvents
<1>7. calls' \in 0..MaxCalls
  BY <1>2, CoordinationAssumption DEF CoordinationInv, RestTypeOK
<1> HIDE DEF new
<1> QED
  BY <1>2, <1>3, <1>4, <1>5, <1>6, <1>7, ArrivalsFit
     DEF CoordinationInv, RestTypeOK, SoleMembership, ActiveFinite

\* A hit is claimed by every active rule it matches, once, and each claim waits
\* for the lock of its group.
LEMMA DeliverKeeps ==
    ASSUME CoordinationInv, Deliver
    PROVE  CoordinationInv'
<1> DEFINE h == Head(inbox)[1]
           s == Head(inbox)[2]
           claimed == {r \in Matching(s) : event[h, r] = "none"}
<1>1. /\ ~closed /\ inbox # <<>> /\ inbox' = Tail(inbox)
      /\ event' = [c \in Claims |->
                      IF c[1] = h /\ c[2] \in claimed THEN "PROCESSING" ELSE event[c]]
      /\ UNCHANGED <<group, member, rule, unsettled, session, calls, closed>>
  BY DEF Deliver
<1>2. PICK order \in Arrivals(claimed) :
         line' = [g \in Groups |->
             line[g] \o [i \in DOMAIN order[g] |-> Op("event", <<h, order[g][i]>>)]]
  BY DEF Deliver
<1>3. inbox \in Seq(Hits \X Sessions) /\ h \in Hits /\ inbox' \in Seq(Hits \X Sessions)
  <2>1. inbox \in Seq(Hits \X Sessions) /\ inbox # <<>> /\ inbox' = Tail(inbox)
    BY <1>1 DEF CoordinationInv, RestTypeOK
  <2>2. ASSUME NEW T, NEW q \in Seq(T), q # <<>> PROVE Head(q) \in T /\ Tail(q) \in Seq(T)
    BY <2>2, HeadTailProperties
  <2>3. Head(inbox) \in Hits \X Sessions /\ Tail(inbox) \in Seq(Hits \X Sessions)
    BY <2>1, <2>2
  <2> QED
    BY <2>1, <2>3
<1>4. /\ claimed \subseteq Rules /\ IsFiniteSet(claimed)
      /\ \A r \in claimed : group[r.group] = "open" /\ event[h, r] = "none"
  <2>1. claimed \subseteq {r \in Rules : rule[r] = "active"}
    BY DEF Matching
  <2> QED
    BY <2>1, FS_Subset DEF CoordinationInv, ActiveFinite, Matching
<1> HIDE DEF h, s, claimed
<1>5. ASSUME NEW g \in Groups
      PROVE  \E n \in Nat :
               /\ order[g] \in [1..n -> claimed]
               /\ \A i \in 1..n : order[g][i].group = g
               /\ \A i, j \in 1..n : order[g][i] = order[g][j] => i = j
               /\ \A r \in claimed : r.group = g => \E i \in 1..n : order[g][i] = r
  <2> DEFINE mine == OfGroup(claimed, g)
  <2>1. mine \subseteq claimed /\ \A r \in mine : r.group = g
    BY DEF OfGroup
  <2>2. Cardinality(mine) \in Nat
    BY <1>4, <2>1, FS_Subset, FS_CardinalityType
  <2>3. order[g] \in Bijection(1..Cardinality(mine), mine)
    BY <1>2 DEF Arrivals, Orders
  <2>4. /\ order[g] \in [1..Cardinality(mine) -> mine]
        /\ \A i, j \in 1..Cardinality(mine) : order[g][i] = order[g][j] => i = j
        /\ \A r \in mine : \E i \in 1..Cardinality(mine) : order[g][i] = r
    BY <2>3 DEF Bijection, Injection, Surjection, IsInjective
  <2>5. \A r \in claimed : r.group = g => r \in mine
    BY DEF OfGroup
  <2> HIDE DEF mine
  <2> QED
    BY <2>1, <2>2, <2>4, <2>5
<1> DEFINE new == [g \in Groups |->
                      [i \in DOMAIN order[g] |-> Op("event", <<h, order[g][i]>>)]]
<1>6. ASSUME NEW g \in Groups
      PROVE  new[g] \in Seq(Operations) /\ NewFit(g, new[g])
  <2>1. PICK n \in Nat :
               /\ order[g] \in [1..n -> claimed]
               /\ \A i \in 1..n : order[g][i].group = g
               /\ \A i, j \in 1..n : order[g][i] = order[g][j] => i = j
    BY <1>5
  <2> DEFINE mine == new[g]
  <2>2. mine = [i \in 1..n |-> Op("event", <<h, order[g][i]>>)]
    BY <2>1
  <2> HIDE DEF mine
  <2>3. ASSUME NEW i \in 1..n
        PROVE  /\ order[g][i] \in claimed /\ order[g][i].group = g
               /\ <<h, order[g][i]>> \in Claims
               /\ mine[i] = [what |-> "event", arg |-> <<h, order[g][i]>>,
                             begun |-> FALSE, work |-> Nobody]
    BY <1>3, <1>4, <2>1, <2>2 DEF Claims, Op
  <2>4. \A i \in 1..n : mine[i] \in Operations
    <3>1. Nobody \in Works
      BY DEF Nobody, Works
    <3>2. ASSUME NEW c \in Claims
          PROVE  [what |-> "event", arg |-> c, begun |-> FALSE, work |-> Nobody]
                    \in Operations
      BY <3>1 DEF Operations
    <3> QED
      BY <2>3, <3>2
  <2>5. mine \in Seq(Operations) /\ Len(mine) = n
    <3>1. mine \in [1..n -> Operations]
      BY <2>2, <2>4
    <3> QED
      BY <2>1, <3>1
  <2>6. ASSUME NEW i \in 1..n
        PROVE  /\ ~mine[i].begun /\ mine[i].work = Nobody
               /\ mine[i].arg = <<h, order[g][i]>>
               /\ mine[i].arg \in Claims /\ mine[i].arg[2].group = g
               /\ event[mine[i].arg] = "none" /\ event'[mine[i].arg] = "PROCESSING"
               /\ group[g] = "open"
    <3>0. mine[i] = [what |-> "event", arg |-> <<h, order[g][i]>>,
                     begun |-> FALSE, work |-> Nobody]
      BY <2>3
    <3>1. ~mine[i].begun /\ mine[i].work = Nobody /\ mine[i].arg = <<h, order[g][i]>>
      BY <3>0
    <3>2. event[h, order[g][i]] = "none" /\ group[g] = "open"
      BY <1>4, <2>3
    <3>3. event'[<<h, order[g][i]>>] = "PROCESSING"
      BY <1>1, <2>3
    <3>4. <<h, order[g][i]>> \in Claims /\ <<h, order[g][i]>>[2].group = g
      BY <2>3
    <3> QED
      BY <3>1, <3>2, <3>3, <3>4
  <2>7. \A i, j \in 1..n : mine[i].arg = mine[j].arg => i = j
    <3> SUFFICES ASSUME NEW i \in 1..n, NEW j \in 1..n, mine[i].arg = mine[j].arg
                 PROVE  i = j
      OBVIOUS
    <3>1. <<h, order[g][i]>> = <<h, order[g][j]>>
      BY <2>6
    <3> QED
      BY <2>1, <3>1
  <2>8. mine # <<>> => group[g] # "none" /\ ~closed
    <3>1. mine # <<>> => 1 \in 1..n
      BY <2>1, <2>5
    <3> QED
      BY <1>1, <2>6, <3>1
  <2>9. NewFit(g, mine)
    BY <2>5, <2>6, <2>7, <2>8 DEF NewFit
  <2> QED
    BY <2>5, <2>9 DEF mine
<1>7. OnlyNewEvents(new)
  <2> SUFFICES ASSUME NEW c \in Claims
               PROVE  /\ event[c] # "none" => event'[c] = event[c]
                      /\ event[c] # "PROCESSING" /\ event'[c] = "PROCESSING" =>
                           \E i \in 1..Len(new[c[2].group]) :
                               /\ new[c[2].group][i].what = "event"
                               /\ new[c[2].group][i].arg = c
    BY DEF OnlyNewEvents
  <2>1. event[c] # "none" => event'[c] = event[c]
    <3>1. c = <<c[1], c[2]>>
      BY DEF Claims
    <3> QED
      BY <1>1, <1>4, <3>1
  <2>2. ASSUME event[c] # "PROCESSING", event'[c] = "PROCESSING"
        PROVE  \E i \in 1..Len(new[c[2].group]) :
                  new[c[2].group][i].what = "event" /\ new[c[2].group][i].arg = c
    <3>1. c[1] = h /\ c[2] \in claimed /\ c = <<h, c[2]>>
      BY <1>1, <2>2 DEF Claims
    <3>2. PICK g \in Groups : g = c[2].group
      BY CoordinationAssumption DEF Claims
    <3>3. PICK n \in Nat : /\ order[g] \in [1..n -> claimed]
                           /\ \E i \in 1..n : order[g][i] = c[2]
      <4> HIDE DEF new
      <4>1. c[2] \in claimed /\ c[2].group = g
        BY <3>1, <3>2
      <4> QED
        BY <1>5, <4>1
    <3>4. PICK i \in 1..n : order[g][i] = c[2]
      BY <3>3
    <3>5. new[g][i] = Op("event", c) /\ Len(new[g]) = n
      <4>1. new[g] = [k \in 1..n |-> Op("event", <<h, order[g][k]>>)]
        BY <3>3
      <4>2. new[g] \in Seq(Operations)
        BY <1>6
      <4>3. Len(new[g]) = n
        BY <4>1, <4>2
      <4> QED
        BY <3>1, <3>4, <4>1, <4>3
    <3> QED
      BY <3>2, <3>5 DEF Op
  <2> QED
    BY <2>1, <2>2
<1>8. new \in [Groups -> Seq(Operations)]
  BY <1>6
<1>9. Come(new)
  BY <1>2 DEF Come
<1>10. event' \in [Claims -> Outcomes \cup {"none"}]
  BY <1>1 DEF CoordinationInv, RestTypeOK, Outcomes
<1> HIDE DEF new
<1> QED
  BY <1>1, <1>3, <1>6, <1>7, <1>8, <1>9, <1>10, ArrivalsFit
     DEF CoordinationInv, RestTypeOK, SoleMembership, ActiveFinite

\* close() cancels the handlers; nothing is in a line any more.
LEMMA CloseKeeps ==
    ASSUME CoordinationInv, Close
    PROVE  CoordinationInv'
<1>1. /\ closed' = TRUE /\ line' = [g \in Groups |-> <<>>]
      /\ UNCHANGED <<group, member, rule, outcomes, session, inbox, calls>>
  BY DEF Close, rows
<1>2. LinesFit'
  BY <1>1 DEF LinesFit, LineFits, EventsOnce, HolderFits, Busy
<1> QED
  BY <1>1, <1>2 DEF CoordinationInv, RestTypeOK, SoleMembership, ActiveFinite

LEMMA InitCoordination == CoordInit => CoordinationInv
<1> SUFFICES ASSUME CoordInit PROVE CoordinationInv
  OBVIOUS
<1>1. RestTypeOK
  <2>1. inbox \in Seq(Hits \X Sessions) /\ calls \in 0..MaxCalls
    BY CoordinationAssumption DEF CoordInit
  <2> QED
    BY <2>1 DEF CoordInit, RestTypeOK
<1>2. ActiveFinite
  <2>1. {r \in Rules : rule[r] = "active"} = {}
    BY DEF CoordInit
  <2> QED
    BY <2>1, FS_EmptySet DEF ActiveFinite
<1>3. LinesFit
  BY DEF CoordInit, LinesFit, LineFits, EventsOnce, HolderFits, Busy
<1>4. SoleMembership
  BY DEF CoordInit, SoleMembership
<1> QED
  BY <1>1, <1>2, <1>3, <1>4 DEF CoordinationInv

LEMMA CoordinationKept ==
    ASSUME CoordinationInv, [CoordNext]_vars
    PROVE  CoordinationInv'
<1>1. CASE UNCHANGED vars
  BY <1>1, LinesSame
     DEF vars, rows, CoordinationInv, RestTypeOK, SoleMembership, ActiveFinite
<1> QED
  BY <1>1, MoveKeeps, CreateGroupKeeps, RequestKeeps, DeliverKeeps, BeginKeeps, ProceedKeeps,
     CloseKeeps
     DEF CoordNext, Work

LEMMA CoordinationHolds == CoordSpec => []CoordinationInv
BY InitCoordination, CoordinationKept, PTL DEF CoordSpec

-----------------------------------------------------------------------------
(***************************************************************************)
(* What follows.                                                           *)
(***************************************************************************)
\* The variables keep their types; no session is in two groups, nor in a closed
\* one, although groups are created without a lock and closed with operations
\* in line; and an event that is PROCESSING has its handler, until close() or a
\* final write that fails.
THEOREM CoordinationIsSafe == CoordSpec => []CoordInv
<1>1. CoordinationInv => CoordInv
  <2> SUFFICES ASSUME CoordinationInv PROVE CoordTypeOK /\ ProcessingHasHandler
    BY DEF CoordInv, CoordinationInv
  <2>1. CoordTypeOK
    <3>1. ASSUME NEW g \in Groups, NEW i \in 1..Len(line[g])
          PROVE  /\ line[g][i].begun => i = 1 /\ line[g][i].work # Nobody
                 /\ \A s \in DOMAIN line[g][i].work :
                       /\ s \in Sessions
                       /\ line[g][i].work[s] \in {"asking", "sending", "waiting"}
      <4>1. OpFits(g, line[g][i]) /\ (line[g][i].begun => i = 1)
        BY DEF CoordinationInv, LinesFit, LineFits
      <4>2. line[g][i] \in Operations
        BY DEF CoordinationInv, LinesFit
      <4>3. line[g][i].work \in Works
        BY <4>2 DEF Operations
      <4> QED
        BY <4>1, <4>3 DEF OpFits, Works, Nobody
    <3> QED
      BY <3>1 DEF CoordinationInv, RestTypeOK, CoordTypeOK
  <2>2. ProcessingHasHandler
    BY DEF CoordinationInv, LinesFit, HasHandler, ProcessingHasHandler
  <2> QED
    BY <2>1, <2>2
<1> QED
  BY <1>1, CoordinationHolds, PTL

\* Whatever an operation awaits of a session, that session is a member of its
\* open group, and no other group has a command for it under way.
THEOREM GroupsCommandTheirOwn == CoordSpec => []CommandsItsOwn
<1>1. CoordinationInv => CommandsItsOwn
  <2> SUFFICES ASSUME CoordinationInv PROVE ActsOnMembers /\ OneCommander
    BY DEF CommandsItsOwn
  <2>1. ActsOnMembers
    BY DEF CoordinationInv, LinesFit, LineFits, HolderFits, ActsOnMembers
  <2>2. ASSUME NEW g \in Groups, Busy(g) PROVE DOMAIN Holder(g).work \subseteq member[g]
    <3>1. CASE Holder(g).begun
      BY <2>2, <3>1, HolderOf DEF HolderFits
    <3>2. CASE ~Holder(g).begun
      BY <2>2, <3>2, HolderOf DEF OpFits, Nobody
    <3> QED
      BY <3>1, <3>2
  <2>3. OneCommander
    <3> SUFFICES ASSUME NEW f \in Groups, NEW g \in Groups, f # g, Busy(f), Busy(g)
                 PROVE  DOMAIN Holder(f).work \cap DOMAIN Holder(g).work = {}
      BY DEF OneCommander
    <3>1. member[f] \cap member[g] = {}
      BY DEF CoordinationInv, SoleMembership
    <3> QED
      BY <2>2, <3>1
  <2> QED
    BY <2>1, <2>3
<1> QED
  BY <1>1, CoordinationHolds, PTL

\* The outcome of an event is recorded once: only the handler that has the lock
\* writes one, of an event that is still PROCESSING.
THEOREM OutcomesStay == CoordSpec => OutcomesAreFinal
<1>1. ASSUME CoordinationInv, [CoordNext]_vars, NEW c \in Claims,
             event[c] \notin {"none", "PROCESSING"}
      PROVE  event'[c] = event[c]
  <2>1. ASSUME NEW g \in Groups, Busy(g), NEW outcome, Holder(g).what = "event",
               Finalize(g, outcome)
        PROVE  event'[c] = event[c]
    <3>1. event[Holder(g).arg] = "PROCESSING"
      BY <1>1, <2>1, HolderOf DEF OpFits
    <3>2. event \in [Claims -> Outcomes \cup {"none"}]
      BY <1>1 DEF CoordinationInv, RestTypeOK
    <3> QED
      BY <1>1, <2>1, <3>1, <3>2 DEF Finalize
  <2>2. ASSUME NEW g \in Groups, Begin(g) PROVE event'[c] = event[c]
    <3>1. CASE BeginEvent(g)
      BY <2>1, <3>1 DEF BeginEvent, Begins, Skip
    <3>2. CASE ~BeginEvent(g)
      BY <2>2, <3>2 DEF Begin, BeginCommand, BeginCreateRule, DeleteRule, RemoveMember,
                        CloseGroup, rows
    <3> QED
      BY <3>1, <3>2
  <2>3. ASSUME NEW g \in Groups, NEW s \in Sessions, Proceed(g, s)
        PROVE  event'[c] = event[c]
    <3>1. CASE AskForEvent(g, s) \/ SendForEvent(g, s)
      BY <2>1, <3>1 DEF AskForEvent, SendForEvent, At, Fail
    <3>2. CASE WaitForStop(g, s)
      <4>1. Busy(g) /\ Holder(g).what = "event"
        BY <1>1, <3>2, AtBegun, HolderOf DEF WaitForStop, At, OpFits
      <4> QED
        BY <2>1, <3>2, <4>1 DEF WaitForStop
    <3>3. CASE AskForCommand(g, s) \/ AskForRule(g, s) \/ SendForCommand(g, s)
      BY <3>3 DEF AskForCommand, AskForRule, SendForCommand, rows
    <3> QED
      BY <2>3, <3>1, <3>2, <3>3 DEF Proceed
  <2>4. CASE Deliver
    <3>1. c = <<c[1], c[2]>>
      BY DEF Claims
    <3> QED
      BY <1>1, <2>4, <3>1 DEF Deliver
  <2>5. ASSUME NEW s \in Sessions, Move(s) PROVE event'[c] = event[c]
    BY <2>5 DEF Move, Moves, Resumes, Stops, Exits, Ends, StopsAtBreakpoint, rows
  <2>6. ASSUME NEW g \in Groups,
               \/ \E members \in SUBSET Sessions : CreateGroup(g, members)
               \/ \E op \in Requests(g) : Request(g, op)
        PROVE  event'[c] = event[c]
    BY <2>6 DEF CreateGroup, Request, rows
  <2>7. CASE Close \/ UNCHANGED vars
    BY <2>7 DEF Close, vars, rows
  <2> QED
    BY <1>1, <2>2, <2>3, <2>4, <2>5, <2>6, <2>7 DEF CoordNext, Work
<1>2. CoordinationInv /\ [CoordNext]_vars =>
          [\A c \in Claims : event[c] \notin {"none", "PROCESSING"}
                               => event'[c] = event[c]]_vars
  BY <1>1
<1> QED
  BY <1>2, CoordinationHolds, PTL DEF CoordSpec, OutcomesAreFinal
=============================================================================
