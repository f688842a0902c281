-------------------------- MODULE DebugCoordination --------------------------
(***************************************************************************)
(* Coordination of debug sessions: DebugCoordinationService, its store and *)
(* the event bus that brings breakpoint hits to it.                        *)
(*                                                                         *)
(* Sessions are grouped.  A client commands a group as a whole, and rules  *)
(* of a group interrupt one member when another hits a breakpoint.  What   *)
(* an operation does to a group it does under the group's lock, an         *)
(* asyncio.Lock that is given in the order of asking; it holds the lock    *)
(* while it awaits the states of members and the end of their commands,    *)
(* and all that time the sessions move on by themselves.                   *)
(*                                                                         *)
(* line[g] holds the operations that ask for the lock of g, the first of   *)
(* which has it.  Left out: names, projects, the responses that describe a *)
(* group, and breakpoint numbers: a hit is one at the rule's breakpoint.   *)
(***************************************************************************)
EXTENDS Naturals, Sequences, FiniteSets, SequencesExt

CONSTANTS
    Groups, Sessions,
    Rules,        \* rules clients may create: [id, group, source, target]
    Hits,         \* breakpoint hits, each of which happens once
    MaxCalls      \* bound: requests that wait for a group's lock

ASSUME CoordinationAssumption ==
    /\ \A r \in Rules : /\ r.group \in Groups /\ {r.source, r.target} \subseteq Sessions
                        /\ r.source # r.target
    /\ MaxCalls \in Nat

VARIABLES
    group,    \* the group's row: "none", "open" or "closed"
    member,   \* member[g]: the sessions with associated = 1
    rule,     \* the rule's row: "none", "active" or "deleted"
    event,    \* event[h, r]: the outcome in the row, or "none"
    unsettled,    \* the claims whose final write failed
    session,  \* what debug_service.state would say; "gone" is not active
    inbox,    \* hits published and not yet delivered in the API's loop
    line,     \* line[g]: operations that hold or await the lock of g
    calls,    \* requests made so far
    closed    \* close() was called

outcomes == <<event, unsettled>>
rows == <<group, member, rule, outcomes>>
vars == <<rows, session, inbox, line, calls, closed>>

Commands == {"run", "continue", "interrupt", "close_sessions"}
Outcomes == {"PROCESSING", "INTERRUPT_CONFIRMED", "INTERRUPT_SENT", "SKIPPED", "FAILED"}
Claims == Hits \X Rules

Nobody == [s \in {} |-> "asking"]

\* work[s]: what the operation awaits of session s, once it has begun.
Op(what, arg) == [what |-> what, arg |-> arg, begun |-> FALSE, work |-> Nobody]

Requests(g) ==
    {Op(c, g) : c \in Commands \cup {"close_group"}}
    \cup {Op("remove_member", s) : s \in Sessions}
    \cup {Op(c, r) : c \in {"create_rule", "delete_rule"},
                     r \in {q \in Rules : q.group = g}}

CoordTypeOK ==
    /\ group \in [Groups -> {"none", "open", "closed"}]
    /\ member \in [Groups -> SUBSET Sessions]
    /\ rule \in [Rules -> {"none", "active", "deleted"}]
    /\ event \in [Claims -> Outcomes \cup {"none"}]
    /\ unsettled \subseteq Claims
    /\ session \in [Sessions -> {"READY", "RUNNING", "STOPPED", "EXITED", "gone"}]
    /\ inbox \in Seq(Hits \X Sessions)
    /\ \A g \in Groups : \A i \in 1..Len(line[g]) :
          /\ line[g][i].begun => i = 1 /\ line[g][i].work # Nobody
          /\ \A s \in DOMAIN line[g][i].work :
                s \in Sessions /\ line[g][i].work[s] \in {"asking", "sending", "waiting"}
    /\ calls \in 0..MaxCalls
    /\ closed \in BOOLEAN

CoordInit ==
    /\ group = [g \in Groups |-> "none"]
    /\ member = [g \in Groups |-> {}]
    /\ rule = [r \in Rules |-> "none"]
    /\ event = [c \in Claims |-> "none"]
    /\ unsettled = {}
    /\ session = [s \in Sessions |-> "READY"]
    /\ inbox = <<>>
    /\ line = [g \in Groups |-> <<>>]
    /\ calls = 0
    /\ closed = FALSE

-----------------------------------------------------------------------------
(***************************************************************************)
(* The sessions, moved by their inferiors and by the clients of the        *)
(* single-session routes.                                                  *)
(***************************************************************************)

Moves(s, places, to) ==
    /\ session[s] \in places
    /\ session' = [session EXCEPT ![s] = to]
    /\ UNCHANGED <<rows, line, calls, closed>>

Resumes(s) == Moves(s, {"READY", "STOPPED"}, "RUNNING") /\ UNCHANGED inbox

Stops(s) == Moves(s, {"RUNNING"}, "STOPPED") /\ UNCHANGED inbox

Exits(s) == Moves(s, {"RUNNING"}, "EXITED") /\ UNCHANGED inbox

Ends(s) == Moves(s, {"READY", "RUNNING", "STOPPED", "EXITED"}, "gone") /\ UNCHANGED inbox

Happened(h) ==
    \/ \E i \in 1..Len(inbox) : inbox[i][1] = h
    \/ \E r \in Rules : event[h, r] # "none"

\* DebugSessionEventBus.publish, called by the reader of the session.  A hit
\* that no rule matches leaves no trace, and may as well be another hit.
StopsAtBreakpoint(s, h) ==
    /\ ~Happened(h)
    /\ Moves(s, {"RUNNING"}, "STOPPED")
    /\ inbox' = Append(inbox, <<h, s>>)

-----------------------------------------------------------------------------
(***************************************************************************)
(* Requests and hits.                                                      *)
(***************************************************************************)

\* Mutant: no unique index over associated sessions.
UnclaimedAlways(members) == TRUE

Unclaimed(members) == \A g \in Groups : member[g] \cap members = {}

\* create: its checks and its transaction, with no await between them.
CreateGroup(g, members) ==
    /\ ~closed
    /\ group[g] = "none"
    /\ Cardinality(members) >= 2
    /\ \A s \in members : session[s] # "gone"
    /\ Unclaimed(members)
    /\ group' = [group EXCEPT ![g] = "open"]
    /\ member' = [member EXCEPT ![g] = members]
    /\ UNCHANGED <<rule, outcomes, session, inbox, line, calls, closed>>

\* A request asks for the lock of its group.
Request(g, op) ==
    /\ ~closed
    /\ group[g] # "none"
    /\ calls < MaxCalls
    /\ op.what = "create_rule" => rule[op.arg] = "none"
    /\ calls' = calls + 1
    /\ line' = [line EXCEPT ![g] = Append(@, op)]
    /\ UNCHANGED <<rows, session, inbox, closed>>

\* matching_rules
Matching(s) ==
    {r \in Rules : /\ rule[r] = "active" /\ group[r.group] = "open"
                   /\ r.source = s /\ s \in member[r.group]}

\* Rules of one hit reach the lock of their group in any order.
OfGroup(claimed, g) == {r \in claimed : r.group = g}

Orders(claimed, g) ==
    Bijection(1..Cardinality(OfGroup(claimed, g)), OfGroup(claimed, g))

Arrivals(claimed) ==
    {order \in [Groups -> UNION {Orders(claimed, g) : g \in Groups}] :
        \A g \in Groups : order[g] \in Orders(claimed, g)}

\* _schedule_event to the claims: every rule that matches the hit claims it
\* and asks for the lock of its group.
Deliver ==
    /\ ~closed
    /\ inbox # <<>>
    /\ inbox' = Tail(inbox)
    /\ LET h == Head(inbox)[1]
           matching == Matching(Head(inbox)[2])
           claimed == {r \in matching : event[h, r] = "none"}
       IN  /\ event' = [c \in Claims |->
                           IF c[1] = h /\ c[2] \in claimed THEN "PROCESSING" ELSE event[c]]
           /\ \E order \in Arrivals(claimed) :
                 line' = [g \in Groups |->
                     line[g] \o [i \in DOMAIN order[g] |-> Op("event", <<h, order[g][i]>>)]]
    /\ UNCHANGED <<group, member, rule, unsettled, session, calls, closed>>

-----------------------------------------------------------------------------
(***************************************************************************)
(* Under the lock.                                                         *)
(***************************************************************************)

Busy(g) == line[g] # <<>>
Holder(g) == line[g][1]

\* The operation ends, and with it its hold of the lock.
Leave(g) == line' = [line EXCEPT ![g] = Tail(@)]

\* finalize_event, outside the try of the handler: when the store raises, the
\* handler leaves the lock with its exception, which is logged.
Finalize(g, outcome) ==
    /\ \/ /\ event' = [event EXCEPT ![Holder(g).arg] = outcome]
          /\ UNCHANGED unsettled
       \/ /\ unsettled' = unsettled \cup {Holder(g).arg}
          /\ UNCHANGED event
    /\ Leave(g)

Awaits(g, work) == line' = [line EXCEPT ![g][1].begun = TRUE, ![g][1].work = work]

AskAll(g, sessions) == Awaits(g, [s \in sessions |-> "asking"])

Begins(g, what) == Busy(g) /\ ~Holder(g).begun /\ Holder(g).what = what

\* _execute_rule_event reads group, source and target again; the rule, no.
StillApplies(g, r) == group[g] = "open" /\ {r.source, r.target} \subseteq member[g]

\* Mutant: a rule that does not apply any more is dropped.
SkipQuietly(g) == Leave(g) /\ UNCHANGED outcomes

Skip(g) == Finalize(g, "SKIPPED")

BeginEvent(g) ==
    /\ Begins(g, "event")
    /\ LET r == Holder(g).arg[2]
       IN  \/ /\ StillApplies(g, r)
              /\ AskAll(g, {r.target})
              /\ UNCHANGED outcomes
           \/ /\ ~StillApplies(g, r)
              /\ Skip(g)
    /\ UNCHANGED <<group, member, rule, session, inbox, calls, closed>>

\* _command
BeginCommand(g) ==
    /\ \E c \in Commands : Begins(g, c)
    /\ \/ /\ group[g] = "open"
          /\ Cardinality(member[g]) >= 2 \/ Holder(g).what = "close_sessions"
          /\ member[g] # {}
          /\ AskAll(g, member[g])
       \/ /\ \/ group[g] = "closed"
             \/ Cardinality(member[g]) < 2 /\ Holder(g).what # "close_sessions"
             \/ member[g] = {}
          /\ Leave(g)
    /\ UNCHANGED <<rows, session, inbox, calls, closed>>

BeginCreateRule(g) ==
    /\ Begins(g, "create_rule")
    /\ LET r == Holder(g).arg
       IN  \/ StillApplies(g, r) /\ AskAll(g, {r.source, r.target})
           \/ ~StillApplies(g, r) /\ Leave(g)
    /\ UNCHANGED <<rows, session, inbox, calls, closed>>

DeleteRule(g) ==
    /\ Begins(g, "delete_rule")
    /\ rule' = [rule EXCEPT ![Holder(g).arg] = IF @ = "active" THEN "deleted" ELSE @]
    /\ Leave(g)
    /\ UNCHANGED <<group, member, outcomes, session, inbox, calls, closed>>

\* Mutant: a member leaves at once, whoever has the lock.
RemoveMemberAtOnce(g) ==
    \E i \in 1..Len(line[g]) :
       /\ line[g][i].what = "remove_member"
       /\ member' = [member EXCEPT ![g] = IF group[g] = "open" THEN @ \ {line[g][i].arg} ELSE @]
       /\ line' = [line EXCEPT ![g] = RemoveAt(@, i)]
       /\ UNCHANGED <<group, rule, outcomes, session, inbox, calls, closed>>

RemoveMember(g) ==
    /\ Begins(g, "remove_member")
    /\ member' = [member EXCEPT ![g] = IF group[g] = "open" THEN @ \ {Holder(g).arg} ELSE @]
    /\ Leave(g)
    /\ UNCHANGED <<group, rule, outcomes, session, inbox, calls, closed>>

\* Mutant: only the group's row is closed.
ClosedKeepsMembers(g) == member[g]

ClosedMembers(g) == {}

\* Mutant: with the group, all its events are closed.
CloseGroupSkipping(g) ==
    /\ Begins(g, "close_group")
    /\ group' = [group EXCEPT ![g] = "closed"]
    /\ member' = [member EXCEPT ![g] = ClosedMembers(g)]
    /\ event' = [c \in Claims |-> IF c[2].group = g /\ event[c] # "none"
                                 THEN "SKIPPED" ELSE event[c]]
    /\ Leave(g)
    /\ UNCHANGED <<rule, unsettled, session, inbox, calls, closed>>

CloseGroup(g) ==
    /\ Begins(g, "close_group")
    /\ group' = [group EXCEPT ![g] = "closed"]
    /\ member' = [member EXCEPT ![g] = ClosedMembers(g)]
    /\ Leave(g)
    /\ UNCHANGED <<rule, outcomes, session, inbox, calls, closed>>

-----------------------------------------------------------------------------
(***************************************************************************)
(* Awaiting the members.  gather waits for them concurrently.              *)
(***************************************************************************)

At(g, s, stage) ==
    /\ Busy(g) /\ s \in DOMAIN Holder(g).work
    /\ Holder(g).work[s] = stage

Reaches(g, s, stage) == line' = [line EXCEPT ![g][1].work[s] = stage]

LastOne(g, s) == DOMAIN Holder(g).work = {s}

\* Mutant: the lock is not left with the last result.
DoneHolding(g, s) == line' = [line EXCEPT ![g][1].work = Restrict(@, DOMAIN @ \ {s})]

\* The result of a member is there, and when it is the last one's, so is that
\* of the operation.
Done(g, s) ==
    IF LastOne(g, s) THEN Leave(g)
    ELSE line' = [line EXCEPT ![g][1].work = Restrict(@, DOMAIN @ \ {s})]

\* Mutant: a failing handler leaves its claim as it is.
FailQuietly(g) == Leave(g) /\ UNCHANGED outcomes

Fail(g) == Finalize(g, "FAILED")

\* debug_service.state, which fails when its time limit expires.
AskForEvent(g, s) ==
    /\ At(g, s, "asking") /\ Holder(g).what = "event"
    /\ \/ session[s] = "RUNNING" /\ Reaches(g, s, "sending") /\ UNCHANGED outcomes
       \/ session[s] # "RUNNING" /\ Finalize(g, "SKIPPED")
       \/ session[s] # "gone" /\ Fail(g)
    /\ UNCHANGED <<group, member, rule, session, inbox, calls, closed>>

\* _skip_reason
Eligible(command, s) ==
    CASE command = "run" -> session[s] = "READY"
      [] command = "continue" -> session[s] = "STOPPED"
      [] command = "interrupt" -> session[s] = "RUNNING"
      [] command = "close_sessions" -> session[s] # "gone"

AskForCommand(g, s) ==
    /\ At(g, s, "asking") /\ Holder(g).what \in Commands
    /\ \/ Eligible(Holder(g).what, s) /\ Reaches(g, s, "sending")
       \/ ~Eligible(Holder(g).what, s) /\ Done(g, s)
       \/ session[s] # "gone" /\ Done(g, s)
    /\ UNCHANGED <<rows, session, inbox, calls, closed>>

Equivalent(q, r) == q.group = r.group /\ q.source = r.source /\ q.target = r.target

\* The states of source and target, then the insertion; refused for a session
\* that is not active, a breakpoint it does not have or an equivalent rule.
AskForRule(g, s) ==
    /\ At(g, s, "asking") /\ Holder(g).what = "create_rule"
    /\ \/ /\ session[s] # "gone"
          /\ Done(g, s)
          /\ rule' = IF LastOne(g, s) /\ rule[Holder(g).arg] = "none"
                        /\ \A q \in Rules : Equivalent(q, Holder(g).arg) => rule[q] # "active"
                     THEN [rule EXCEPT ![Holder(g).arg] = "active"] ELSE rule
       \/ Leave(g) /\ UNCHANGED rule
    /\ UNCHANGED <<group, member, outcomes, session, inbox, calls, closed>>

\* What the session does of a command.  An interrupt stops the inferior now
\* or a little later, as a stop of its own.
Effects(what, s) ==
    CASE what = "run" /\ session[s] \in {"READY", "EXITED"} -> {"RUNNING"}
      [] what = "continue" /\ session[s] = "STOPPED" -> {"RUNNING"}
      [] what \in {"interrupt", "event"} /\ session[s] = "RUNNING" -> {"RUNNING", "STOPPED"}
      [] what = "close_sessions" /\ session[s] # "gone" -> {"gone"}
      [] OTHER -> {}

\* The command fails: refused, not active any more, or timed out, which is
\* no sign that the session does not carry it out.
Fails(what, s) ==
    \/ UNCHANGED session
    \/ \E to \in Effects(what, s) : session' = [session EXCEPT ![s] = to]

SendForCommand(g, s) ==
    /\ At(g, s, "sending") /\ Holder(g).what \in Commands
    /\ \/ \E to \in Effects(Holder(g).what, s) : session' = [session EXCEPT ![s] = to]
       \/ Fails(Holder(g).what, s)
    /\ Done(g, s)
    /\ UNCHANGED <<rows, inbox, calls, closed>>

SendForEvent(g, s) ==
    /\ At(g, s, "sending") /\ Holder(g).what = "event"
    /\ \/ \E to \in Effects("event", s) :
             /\ session' = [session EXCEPT ![s] = to]
             /\ IF to = "STOPPED" THEN Finalize(g, "INTERRUPT_CONFIRMED")
                ELSE Reaches(g, s, "waiting") /\ UNCHANGED outcomes
       \/ Fails("event", s) /\ Fail(g)
    /\ UNCHANGED <<group, member, rule, inbox, calls, closed>>

\* Mutant: the handler waits without a time limit.
MayGiveUpNever(s) == session[s] \in {"EXITED", "gone"}

\* wait_for_stop ends without a stop: the inferior has exited, the session is
\* gone, or _INTERRUPT_CONFIRMATION_TIMEOUT_SECONDS have passed.
MayGiveUp(s) == TRUE

WaitForStop(g, s) ==
    /\ At(g, s, "waiting")
    /\ \/ session[s] = "STOPPED" /\ Finalize(g, "INTERRUPT_CONFIRMED")
       \/ MayGiveUp(s) /\ Finalize(g, "INTERRUPT_SENT")
    /\ UNCHANGED <<group, member, rule, session, inbox, calls, closed>>

\* close(), when the API serves no request any more: the handlers are
\* cancelled where they are.
Close ==
    /\ ~closed
    /\ \A g \in Groups : \A i \in 1..Len(line[g]) : line[g][i].what = "event"
    /\ closed' = TRUE
    /\ line' = [g \in Groups |-> <<>>]
    /\ UNCHANGED <<rows, session, inbox, calls>>

-----------------------------------------------------------------------------
Begin(g) ==
    BeginEvent(g) \/ BeginCommand(g) \/ BeginCreateRule(g) \/ DeleteRule(g)
    \/ RemoveMember(g) \/ CloseGroup(g)

Proceed(g, s) ==
    AskForEvent(g, s) \/ AskForCommand(g, s) \/ AskForRule(g, s)
    \/ SendForCommand(g, s) \/ SendForEvent(g, s) \/ WaitForStop(g, s)

Move(s) ==
    Resumes(s) \/ Stops(s) \/ Exits(s) \/ Ends(s)
    \/ \E h \in Hits : StopsAtBreakpoint(s, h)

Work == \E g \in Groups : Begin(g) \/ \E s \in Sessions : Proceed(g, s)

CoordNext ==
    \/ \E s \in Sessions : Move(s)
    \/ \E g \in Groups, members \in SUBSET Sessions : CreateGroup(g, members)
    \/ \E g \in Groups : \E op \in Requests(g) : Request(g, op)
    \/ Deliver
    \/ Work
    \/ Close

CoordSpec == CoordInit /\ [][CoordNext]_vars

\* The loop of the API delivers hits and goes on with some operation that can
\* go on; every debug command has a time limit.  Nothing is assumed of the
\* sessions or of what clients ask for.
FairCoordSpec == CoordSpec /\ WF_vars(Deliver) /\ WF_vars(Work)

-----------------------------------------------------------------------------
(***************************************************************************)
(* Properties.                                                             *)
(***************************************************************************)

\* A session is associated with one group at most, and with none that is
\* closed: neither creation, which takes no lock, nor the closing of a group
\* with operations behind it breaks this.
SoleMembership ==
    /\ \A g \in Groups : group[g] # "open" => member[g] = {}
    /\ \A f, g \in Groups : f # g => member[f] \cap member[g] = {}

\* Whatever an operation awaits of a session, it awaits of a member of its
\* open group, and an event's source is one too: no member that was removed
\* and no closed group is commanded, however old the hit is.
ActsOnMembers ==
    \A g \in Groups :
       Busy(g) /\ Holder(g).begun =>
          /\ group[g] = "open"
          /\ DOMAIN Holder(g).work \subseteq member[g]
          /\ Holder(g).what = "event" => Holder(g).arg[2].source \in member[g]

\* Two groups never have a command for the same session under way.
OneCommander ==
    \A f, g \in Groups :
       f # g /\ Busy(f) /\ Busy(g) => DOMAIN Holder(f).work \cap DOMAIN Holder(g).work = {}

\* A claimed event is PROCESSING only while its handler is there to end it,
\* until close cancels the handlers.  Of the code as it is, an event whose
\* final write failed is excepted: nothing writes it again.
ProcessingHasHandler ==
    \A c \in Claims \ unsettled :
       event[c] = "PROCESSING" /\ ~closed =>
          \E i \in 1..Len(line[c[2].group]) :
             line[c[2].group][i].what = "event" /\ line[c[2].group][i].arg = c

\* The variables keep their types, no session is in two groups, and no event
\* is PROCESSING with nobody to process it, but for a failed final write.
CoordInv == CoordTypeOK /\ SoleMembership /\ ProcessingHasHandler

\* A group commands its own members and nobody else does.
CommandsItsOwn == ActsOnMembers /\ OneCommander

\* The outcome of an event is recorded once: an equal hit, a removal or a
\* second rule does not rewrite it.
OutcomesAreFinal ==
    [][\A c \in Claims : event[c] \notin {"none", "PROCESSING"} => event'[c] = event[c]]_vars

\* Every claimed event gets its outcome, unless the service is closed or the
\* event's final write fails.
EventsGetOutcome ==
    \A c \in Claims :
       event[c] = "PROCESSING" ~> event[c] # "PROCESSING" \/ closed \/ c \in unsettled

\* The lock of a group comes free again, whatever its members do and however
\* long an interrupted one takes to stop.
LockComesFree == \A g \in Groups : Busy(g) ~> ~Busy(g)

\* No operation goes on for ever: events get their outcome, locks come free.
OperationsEnd == EventsGetOutcome /\ LockComesFree
=============================================================================
