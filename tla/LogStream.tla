------------------------------ MODULE LogStream ------------------------------
(***************************************************************************)
(* The log of a task and its live followers: app/platform/services/        *)
(* log_service.py and the websocket handler of app/main.py.                *)
(*                                                                         *)
(* Worker threads append; each append is one transaction and, under the    *)
(* same lock, stages the event for every follower.  A follower's queue     *)
(* belongs to the server's event loop, so the staged events get there by a *)
(* callback that is scheduled at most once at a time.  A follower that is  *)
(* too slow is not served with holes: it is told that it overflowed, and   *)
(* its websocket is closed.                                                *)
(*                                                                         *)
(* The log of one task is modelled, tasks being independent of each other. *)
(***************************************************************************)
EXTENDS Naturals, Sequences, SequencesExt

CONSTANTS
    Followers,  \* websocket connections, each used once
    MaxLines,   \* max_lines: kept, staged and queued at most
    Overflow,   \* LogStreamOverflow()
    MaxEvents   \* bound: events ever appended

ASSUME LogAssumption ==
    /\ MaxLines \in Nat \ {0}
    /\ MaxEvents \in Nat
    /\ Overflow \notin Nat

VARIABLES
    last,        \* the sequence number of the newest event, 0 if none
    loopOpen,    \* the server's event loop still takes callbacks
    socket,      \* socket[f]: where the websocket handler of f is
    subscriber,  \* subscriber[f]: the _LogSubscriber of f
    subscribers, \* those in _subscribers
    received     \* received[f]: the numbers the client of f was sent

logVars == <<last, loopOpen, socket, subscriber, subscribers, received>>

\* backlog is the part of the history snapshot that has yet to be sent.
NewSubscriber == [queue |-> <<>>, staging |-> <<>>, scheduled |-> FALSE,
                  overflowed |-> FALSE, active |-> TRUE,
                  backlog |-> <<>>, cutover |-> 0]

Items == 1..MaxEvents \cup {Overflow}

LogTypeOK ==
    /\ last \in 0..MaxEvents
    /\ loopOpen \in BOOLEAN
    /\ socket \in [Followers -> {"new", "history", "live", "overflow", "gone"}]
    /\ subscribers \in SUBSET Followers
    /\ \A f \in Followers :
          LET s == subscriber[f]
          IN  /\ s.queue \in BoundedSeq(Items, MaxLines)
              /\ s.staging \in BoundedSeq(Items, MaxLines)
              /\ s.backlog \in BoundedSeq(1..MaxEvents, MaxLines)
              /\ s.scheduled \in BOOLEAN /\ s.overflowed \in BOOLEAN
              /\ s.active \in BOOLEAN /\ s.cutover \in 0..MaxEvents
    /\ \A f \in Followers : received[f] \in BoundedSeq(1..MaxEvents, MaxEvents)

LogInit ==
    /\ last = 0
    /\ loopOpen = TRUE
    /\ socket = [f \in Followers |-> "new"]
    /\ subscriber = [f \in Followers |-> NewSubscriber]
    /\ subscribers = {}
    /\ received = [f \in Followers |-> <<>>]

Span(from, to) == [i \in 1..(to + 1 - from) |-> from + i - 1]

\* The rows the pruning DELETE leaves.
History == IF last <= MaxLines THEN Span(1, last)
           ELSE Span(last + 1 - MaxLines, last)

-----------------------------------------------------------------------------
(***************************************************************************)
(* Any thread: append and _stage_event.                                    *)
(***************************************************************************)

\* Mutant: a full staging area drops the newest event and says nothing.
StagedQuietly(s, event) ==
    [s EXCEPT !.staging = IF Len(@) >= MaxLines THEN @ ELSE Append(@, event),
              !.scheduled = TRUE]

\* Mutant: the staging area takes one event too many.
StagedOneMore(s, event) ==
    IF s.overflowed THEN s
    ELSE IF Len(s.staging) > MaxLines
    THEN [s EXCEPT !.staging = <<Overflow>>, !.overflowed = TRUE, !.scheduled = TRUE]
    ELSE [s EXCEPT !.staging = Append(@, event), !.scheduled = TRUE]

\* What _stage_event makes of an active subscriber.
Staged(s, event) ==
    IF s.overflowed THEN s
    ELSE IF Len(s.staging) >= MaxLines
    THEN [s EXCEPT !.staging = <<Overflow>>, !.overflowed = TRUE, !.scheduled = TRUE]
    ELSE [s EXCEPT !.staging = Append(@, event), !.scheduled = TRUE]

\* A subscriber whose loop is gone is dropped when a drain would be scheduled.
IsStale(s) == ~loopOpen /\ ~s.overflowed /\ ~s.scheduled

AppendEvent ==
    LET stale == {f \in subscribers : IsStale(subscriber[f])}
    IN  /\ last < MaxEvents
        /\ last' = last + 1
        /\ subscriber' =
              [f \in Followers |->
                  IF f \notin subscribers THEN subscriber[f]
                  ELSE [Staged(subscriber[f], last + 1) EXCEPT
                           !.active = @ /\ f \notin stale]]
        /\ subscribers' = subscribers \ stale
        /\ UNCHANGED <<loopOpen, socket, received>>

-----------------------------------------------------------------------------
(***************************************************************************)
(* The server's event loop.                                                *)
(***************************************************************************)

\* Mutant: an overflow found while draining is dropped with the events.
DrainedUntold(s) ==
    LET all == s.queue \o s.staging
    IN  IF Overflow \in Range(s.staging) \/ Len(all) > MaxLines
        THEN [s EXCEPT !.queue = <<>>, !.staging = <<>>, !.overflowed = TRUE]
        ELSE [s EXCEPT !.queue = all, !.staging = <<>>]

\* The queue takes what was staged, or is emptied for the overflow marker.
DrainedActive(s) ==
    LET all == s.queue \o s.staging
    IN  IF Overflow \in Range(s.staging) \/ Len(all) > MaxLines
        THEN [s EXCEPT !.queue = <<Overflow>>, !.staging = <<>>, !.overflowed = TRUE]
        ELSE [s EXCEPT !.queue = all, !.staging = <<>>]

Drained(s) == IF s.active THEN DrainedActive(s) ELSE [s EXCEPT !.staging = <<>>]

\* _drain_subscriber
Drain(f) ==
    /\ loopOpen
    /\ subscriber[f].scheduled
    /\ subscriber' = [subscriber EXCEPT ![f] = [Drained(@) EXCEPT !.scheduled = FALSE]]
    /\ UNCHANGED <<last, loopOpen, socket, subscribers, received>>

\* Mutant: the snapshot and the registration are two steps, and an event
\* falls between them.
SubscribeTooLate(f) ==
    /\ loopOpen
    /\ socket[f] = "new"
    /\ socket' = [socket EXCEPT ![f] = "history"]
    /\ subscriber' = [subscriber EXCEPT
                        ![f] = [NewSubscriber EXCEPT !.backlog = History,
                                                     !.cutover = last]]
    /\ subscribers' = subscribers \cup {f}
    /\ last' \in {last, last + 1} /\ last' <= MaxEvents
    /\ UNCHANGED <<loopOpen, received>>

\* subscribe_with_history: the snapshot, the registration and the cutover
\* number are taken under one lock.
Subscribe(f) ==
    /\ loopOpen
    /\ socket[f] = "new"
    /\ socket' = [socket EXCEPT ![f] = "history"]
    /\ subscriber' = [subscriber EXCEPT
                        ![f] = [NewSubscriber EXCEPT !.backlog = History,
                                                     !.cutover = last]]
    /\ subscribers' = subscribers \cup {f}
    /\ UNCHANGED <<last, loopOpen, received>>

SendHistory(f) ==
    /\ loopOpen
    /\ socket[f] = "history"
    /\ \/ /\ subscriber[f].backlog # <<>>
          /\ received' = [received EXCEPT ![f] = Append(@, Head(subscriber[f].backlog))]
          /\ subscriber' = [subscriber EXCEPT ![f].backlog = Tail(@)]
          /\ UNCHANGED socket
       \/ /\ subscriber[f].backlog = <<>>
          /\ socket' = [socket EXCEPT ![f] = "live"]
          /\ UNCHANGED <<subscriber, received>>
    /\ UNCHANGED <<last, loopOpen, subscribers>>

\* unsubscribe, in the finally of the handler.
Unsubscribed(f) ==
    /\ subscribers' = subscribers \ {f}
    /\ subscriber' = [subscriber EXCEPT ![f].active = @ /\ f \notin subscribers,
                                        ![f].staging = IF f \in subscribers THEN <<>> ELSE @]

\* The handler takes one item: an event that is newer than the snapshot is
\* sent, the overflow marker closes the websocket with code 1013.
SendLive(f) ==
    LET item == Head(subscriber[f].queue)
    IN  /\ loopOpen
        /\ socket[f] = "live"
        /\ subscriber[f].queue # <<>>
        /\ \/ /\ item = Overflow
              /\ socket' = [socket EXCEPT ![f] = "overflow"]
              /\ Unsubscribed(f)
              /\ UNCHANGED received
           \/ /\ item # Overflow
              /\ received' = IF item > subscriber[f].cutover
                             THEN [received EXCEPT ![f] = Append(@, item)]
                             ELSE received
              /\ subscriber' = [subscriber EXCEPT ![f].queue = Tail(@)]
              /\ UNCHANGED <<socket, subscribers>>
        /\ UNCHANGED <<last, loopOpen>>

\* The client is gone.  The handler never reads from its websocket, so only
\* a send tells it, and none comes while the queue is empty.
Disconnect(f) ==
    /\ loopOpen
    /\ \/ socket[f] = "history" /\ subscriber[f].backlog # <<>>
       \/ /\ socket[f] = "live" /\ subscriber[f].queue # <<>>
          /\ Head(subscriber[f].queue) # Overflow
    /\ socket' = [socket EXCEPT ![f] = "gone"]
    /\ Unsubscribed(f)
    /\ UNCHANGED <<last, loopOpen, received>>

CloseLoop ==
    /\ loopOpen
    /\ loopOpen' = FALSE
    /\ UNCHANGED <<last, socket, subscriber, subscribers, received>>

-----------------------------------------------------------------------------
Serving(f) == Drain(f) \/ SendHistory(f) \/ SendLive(f)

LogNext ==
    \/ AppendEvent
    \/ CloseLoop
    \/ \E f \in Followers : Subscribe(f) \/ Serving(f) \/ Disconnect(f)

LogSpec == LogInit /\ [][LogNext]_logVars

\* The event loop runs its callbacks and its handlers.
FairLogSpec == LogSpec /\ \A f \in Followers : WF_logVars(Serving(f))

-----------------------------------------------------------------------------
(***************************************************************************)
(* Properties.                                                             *)
(***************************************************************************)

Contiguous(s) == \A i \in 1..(Len(s) - 1) : s[i + 1] = s[i] + 1

\* A client never sees a hole, a repetition or a disorder in the log, from
\* the first line of the snapshot to the last one before its connection ends.
ClientSeesNoGap == \A f \in Followers : Contiguous(received[f])

\* What a live client has seen and what is on its way to it make up the
\* whole log since its first line, unless it has been marked as overflowed:
\* nothing gets lost between the snapshot, the staging area and the queue.
NothingLostQuietly ==
    \A f \in subscribers :
        LET s == subscriber[f]
            all == received[f] \o s.backlog \o s.queue \o s.staging
        IN  s.overflowed
            \/ /\ Contiguous(all)
               /\ last > 0 => all # <<>> /\ Last(all) = last

\* The variables keep their types, and no line is missing from what was sent
\* or from what is on its way.
LogInv == LogTypeOK /\ ClientSeesNoGap /\ NothingLostQuietly

\* A client that overflowed is told, as long as the loop runs.
OverflowIsTold ==
    \A f \in Followers :
        subscriber[f].overflowed ~>
            socket[f] \in {"overflow", "gone"} \/ ~loopOpen
=============================================================================
