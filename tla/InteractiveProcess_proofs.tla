----------------------- MODULE InteractiveProcess_proofs -----------------------
(***************************************************************************)
(* Proofs about InteractiveProcess, for any number of sessions, with any   *)
(* descendants: every process of a managed task is watched until it has    *)
(* exited, and a task that is closed is quiet and tells every failure.     *)
(***************************************************************************)
EXTENDS InteractiveProcess, TLAPS

\* Whoever is asked to end a process, or has seen the end of its output, has killed
\* its group first; a session nobody has opened has nothing.
SessionFits(p) ==
    /\ p \notin Opened =>
           proc[p] = Unborn /\ stopper[p] = "none" /\ monitor[p] = "none"
    /\ p \in Opened => monitor[p] # "none"
    /\ stopper[p] # "none" => Exited(p)
    /\ completion[p] \in {"cleaning"} \cup Ended =>
           Exited(p) /\ proc[p].child \in {"none", "away"} /\ proc[p].reader # "reading"
    /\ proc[p].leader = "alive" => monitor[p] = "polling" \/ p \in ToSet(closing)

\* Sessions are still to be ended only while the task is being closed, and those that
\* are not any more have ended the way they were asked to.
TaskFits ==
    /\ opened \in Seq(Procs) /\ closing \in Seq(Procs)
    /\ executor.at = "opening" => executor.on \notin Opened
    /\ closing # <<>> => executor = Gone
    /\ executor \in {Gone, Closed} =>
           \A p \in Opened : p \in ToSet(closing) \/ stopper[p] \in Ended
    /\ executor = Closed => Joined /\ (AnyFailed => verdict \in {"failed", "cancelled"})

SessionInv == InteractiveTypeOK /\ TaskFits /\ \A p \in Procs : SessionFits(p)

-----------------------------------------------------------------------------
(***************************************************************************)
(* Sequences of sessions.                                                  *)
(***************************************************************************)
LEMMA AppendedSet ==
    ASSUME NEW S, NEW s \in Seq(S), NEW e \in S
    PROVE  /\ Append(s, e) \in Seq(S)
           /\ ToSet(Append(s, e)) = ToSet(s) \cup {e}
<1>1. /\ Append(s, e) \in Seq(S) /\ Len(Append(s, e)) = Len(s) + 1 /\ Len(s) \in Nat
      /\ DOMAIN Append(s, e) = 1..(Len(s) + 1) /\ DOMAIN s = 1..Len(s)
      /\ \A i \in 1..Len(s) : Append(s, e)[i] = s[i]
      /\ Append(s, e)[Len(s) + 1] = e
    OBVIOUS
<1>2. \A x : x \in ToSet(Append(s, e)) <=> x \in ToSet(s) \cup {e}
    BY <1>1 DEF ToSet
<1> QED BY <1>1, <1>2

LEMMA ReversedSet ==
    ASSUME NEW S, NEW s \in Seq(S)
    PROVE  /\ Reverse(s) \in Seq(S) /\ Len(Reverse(s)) = Len(s)
           /\ ToSet(Reverse(s)) = ToSet(s)
           /\ Reverse(Reverse(s)) = s
<1>1. /\ Len(s) \in Nat /\ DOMAIN s = 1..Len(s) /\ s = [i \in 1..Len(s) |-> s[i]]
      /\ \A i \in 1..Len(s) : s[i] \in S
    OBVIOUS
<1>2. \A i \in 1..Len(s) : (Len(s) - i) + 1 \in 1..Len(s)
    BY <1>1
<1>3. Reverse(s) \in Seq(S) /\ Len(Reverse(s)) = Len(s)
    BY <1>1, <1>2 DEF Reverse
<1>4. \A i \in 1..Len(s) : Reverse(s)[i] = s[(Len(s) - i) + 1]
    BY DEF Reverse
<1>5. \A i \in 1..Len(s) : Reverse(s)[(Len(s) - i) + 1] = s[i]
    BY <1>1, <1>2, <1>4
<1>6. DOMAIN Reverse(s) = 1..Len(s)
    BY DEF Reverse
<1>7. \A x : x \in ToSet(Reverse(s)) <=> x \in ToSet(s)
    BY <1>1, <1>2, <1>4, <1>5, <1>6 DEF ToSet
<1>8. Reverse(Reverse(s)) = [i \in 1..Len(s) |-> Reverse(s)[(Len(s) - i) + 1]]
    BY <1>3 DEF Reverse
<1>9. Reverse(Reverse(s)) = s
    BY <1>1, <1>5, <1>8
<1> QED BY <1>3, <1>7, <1>9

LEMMA TailedSet ==
    ASSUME NEW S, NEW s \in Seq(S), s # << >>
    PROVE  /\ Head(s) \in S /\ Tail(s) \in Seq(S) /\ Len(Tail(s)) = Len(s) - 1
           /\ \A i \in 1..Len(Tail(s)) : Tail(s)[i] = s[i + 1]
           /\ Head(s) \in ToSet(s)
           /\ \A x \in ToSet(s) : x = Head(s) \/ x \in ToSet(Tail(s))
           /\ ToSet(Tail(s)) \subseteq ToSet(s)
<1>1. /\ Len(s) \in Nat \ {0} /\ DOMAIN s = 1..Len(s) /\ Head(s) = s[1]
      /\ Tail(s) \in Seq(S) /\ Len(Tail(s)) = Len(s) - 1 /\ DOMAIN Tail(s) = 1..(Len(s) - 1)
      /\ \A i \in 1..(Len(s) - 1) : Tail(s)[i] = s[i + 1]
      /\ \A i \in 1..Len(s) : s[i] \in S
    OBVIOUS
<1>2. \A i \in 2..Len(s) : Tail(s)[i - 1] = s[i] /\ i - 1 \in 1..(Len(s) - 1)
    BY <1>1
<1>3. ASSUME NEW x \in ToSet(s), x # Head(s) PROVE x \in ToSet(Tail(s))
    <2>1. PICK i \in 1..Len(s) : x = s[i]
        BY <1>1 DEF ToSet
    <2>2. i \in 2..Len(s)
        BY <1>1, <1>3, <2>1
    <2> QED BY <1>1, <1>2, <2>1, <2>2 DEF ToSet
<1>4. ASSUME NEW x \in ToSet(Tail(s)) PROVE x \in ToSet(s)
    <2>1. PICK i \in 1..(Len(s) - 1) : x = Tail(s)[i]
        BY <1>1 DEF ToSet
    <2> QED BY <1>1, <2>1 DEF ToSet
<1>5. Head(s) \in ToSet(s)
    BY <1>1 DEF ToSet
<1> QED BY <1>1, <1>3, <1>4, <1>5

\* What IsPrefix says of a sequence that is ended from its end.
LEMMA ReversedPrefix ==
    ASSUME NEW S, NEW s \in Seq(S), NEW t \in Seq(S)
    PROVE  IsPrefix(Reverse(s), t)
               <=> /\ Len(s) <= Len(t)
                   /\ \A i \in 1..Len(s) : t[i] = s[(Len(s) - i) + 1]
<1>1. /\ Reverse(s) \in Seq(S) /\ Len(Reverse(s)) = Len(s) /\ Len(s) \in Nat /\ Len(t) \in Nat
      /\ \A i \in 1..Len(s) : Reverse(s)[i] = s[(Len(s) - i) + 1]
    BY ReversedSet DEF Reverse
<1>2. ASSUME Len(s) <= Len(t)
      PROVE  SubSeq(Reverse(s), 1, Len(s)) = SubSeq(t, 1, Len(s))
                 <=> \A i \in 1..Len(s) : t[i] = Reverse(s)[i]
    <2>1. /\ SubSeq(Reverse(s), 1, Len(s)) = [i \in 1..Len(s) |-> Reverse(s)[i]]
          /\ SubSeq(t, 1, Len(s)) = [i \in 1..Len(s) |-> t[i]]
        BY <1>1, <1>2
    <2> QED BY <2>1
<1> QED BY <1>1, <1>2 DEF IsPrefix
LEMMA EmptyPrefix ==
    ASSUME NEW S, NEW t \in Seq(S)
    PROVE  IsPrefix(Reverse(<< >>), t)
<1> DEFINE s == [i \in 1..0 |-> << >>]
<1>1. s = << >> /\ s \in Seq(S) /\ Len(s) = 0 /\ Len(t) \in Nat
  OBVIOUS
<1> HIDE DEF s
<1>2. Len(s) <= Len(t) /\ \A i \in 1..Len(s) : t[i] = s[(Len(s) - i) + 1]
  BY <1>1
<1>3. IsPrefix(Reverse(s), t)
  BY <1>1, <1>2, ReversedPrefix
<1> QED BY <1>1, <1>3

-----------------------------------------------------------------------------
(***************************************************************************)
(* A session.                                                              *)
(***************************************************************************)
LEMMA OpenedProcs ==
    ASSUME opened \in Seq(Procs)
    PROVE  Opened \subseteq Procs
  BY DEF Opened, ToSet

\* A group that is killed leaves nothing but what has left it.
LEMMA KilledProc ==
    ASSUME ProcTypeOK, NEW p \in Procs, proc' = [proc EXCEPT ![p] = Killed(@)]
    PROVE  /\ ProcTypeOK'
           /\ Exited(p)' /\ proc'[p].child \in {"none", "away"}
           /\ proc'[p].reader = proc[p].reader
           /\ \A q \in Procs \ {p} : proc'[q] = proc[q]
<1>1. /\ proc[p] \in [leader : {"none", "alive", "exited"}, child : {"none"} \cup Descendants,
                      pipe : {"open", "full", "closed"},
                      reader : {"none", "reading", "failed", "ended"}]
      /\ Descendants \subseteq {"quiet", "holding", "away"}
  BY SubprocessAssumption DEF ProcTypeOK
<1>2. /\ Killed(proc[p]) \in [leader : {"none", "alive", "exited"},
                              child : {"none"} \cup Descendants,
                              pipe : {"open", "full", "closed"},
                              reader : {"none", "reading", "failed", "ended"}]
      /\ Killed(proc[p]).leader = "exited" /\ Killed(proc[p]).reader = proc[p].reader
      /\ Killed(proc[p]).child \in {"none", "away"}
  BY <1>1 DEF Killed
<1> QED BY <1>2 DEF ProcTypeOK, Exited

\* What ends in a session stays so, and while the task is closed nothing moves:
\* then the task itself fits as before.
LEMMA TaskFitsKept ==
    ASSUME SessionInv, UNCHANGED taskVars,
           \A p \in Procs : stopper[p] \in Ended => stopper'[p] = stopper[p],
           executor = Closed => Joined' /\ (AnyFailed' => AnyFailed)
    PROVE  TaskFits'
  BY OpenedProcs DEF SessionInv, TaskFits, taskVars, Opened

\* A closed task has ended all its sessions.
LEMMA ClosedSessions ==
    ASSUME SessionInv, executor = Closed, NEW p \in Procs
    PROVE  /\ monitor[p] \in {"none", "ended"}
           /\ stopper[p] \in {"none"} \cup Ended
           /\ p \in Opened => stopper[p] \in Ended /\ completion[p] = stopper[p]
<1>1. closing = << >> /\ ToSet(closing) = {}
  <2>1. closing = << >>
    BY DEF SessionInv, TaskFits, Closed, Gone, Doing
  <2> QED BY <2>1 DEF ToSet
<1>2. p \in Opened => stopper[p] \in Ended
  BY <1>1 DEF SessionInv, TaskFits
<1>3. p \notin Opened => stopper[p] = "none"
  BY DEF SessionInv, SessionFits
<1> QED BY <1>2, <1>3 DEF SessionInv, TaskFits, Joined, InteractiveTypeOK

LEMMA CompletionFits ==
    ASSUME SessionInv, NEW p \in Procs, CompletionWakes(p) \/ CompletionEnds(p)
    PROVE  SessionInv'
<1> USE DEF Ended, Exited
<1>1. UNCHANGED <<stopper, monitor, taskVars>>
  BY DEF CompletionWakes, CompletionEnds
<1>2. TaskFits'
  BY <1>1, TaskFitsKept DEF SessionInv, TaskFits, Joined, AnyFailed, Opened, taskVars
<1>3. CASE CompletionWakes(p)
  <2>1. InteractiveTypeOK'
    <3>1. /\ proc' = [proc EXCEPT ![p] = Killed(@)] /\ completion[p] = "watching"
          /\ completion' = [completion EXCEPT ![p] = "cleaning"]
      BY <1>3 DEF CompletionWakes, GroupSwept
    <3>2. /\ ProcTypeOK' /\ proc'[p].leader = "exited"
          /\ \A q \in Procs \ {p} : proc'[q] = proc[q]
      BY <3>1, KilledProc DEF SessionInv, InteractiveTypeOK
    <3> QED BY <1>1, <3>1, <3>2 DEF SessionInv, InteractiveTypeOK, taskVars, Opened
  <2>2. ASSUME NEW q \in Procs PROVE SessionFits(q)'
    BY <1>1, <1>3, <2>2 DEF SessionInv, InteractiveTypeOK, ProcTypeOK, SessionFits,
                            CompletionWakes, taskVars, Opened, GroupSwept, Killed, Unborn
  <2> QED BY <1>2, <2>1, <2>2 DEF SessionInv
<1>4. CASE CompletionEnds(p)
  <2>1. InteractiveTypeOK'
    BY <1>1, <1>4 DEF SessionInv, InteractiveTypeOK, ProcTypeOK, CompletionEnds, taskVars, Opened
  <2>2. ASSUME NEW q \in Procs PROVE SessionFits(q)'
    BY <1>1, <1>4, <2>2 DEF SessionInv, InteractiveTypeOK, ProcTypeOK, SessionFits,
                            CompletionEnds, taskVars, Opened, Unborn
  <2> QED BY <1>2, <2>1, <2>2 DEF SessionInv
<1> QED BY <1>3, <1>4

LEMMA StopperFits ==
    ASSUME SessionInv, NEW p \in Procs, StopperEnds(p)
    PROVE  SessionInv'
<1> USE DEF Ended, Exited
<1>1. /\ UNCHANGED <<proc, completion, monitor, taskVars>>
      /\ stopper[p] = "stopping" /\ completion[p] \in Ended
      /\ stopper' = [stopper EXCEPT ![p] = completion[p]]
  BY DEF StopperEnds
<1>2. executor # Closed
  BY <1>1, ClosedSessions
<1>3. TaskFits'
  BY <1>1, <1>2, TaskFitsKept DEF SessionInv, InteractiveTypeOK
<1>4. InteractiveTypeOK'
  BY <1>1 DEF SessionInv, InteractiveTypeOK, ProcTypeOK, taskVars, Opened
<1>5. ASSUME NEW q \in Procs PROVE SessionFits(q)'
  BY <1>1, <1>5 DEF SessionInv, InteractiveTypeOK, SessionFits, taskVars, Opened
<1> QED BY <1>3, <1>4, <1>5 DEF SessionInv

LEMMA MonitorFits ==
    ASSUME SessionInv, NEW p \in Procs, MonitorLeaves(p) \/ MonitorTerminates(p)
    PROVE  SessionInv'
<1> USE DEF Ended, Exited
<1>1. UNCHANGED <<completion, taskVars>>
  BY DEF MonitorLeaves, MonitorTerminates
<1>2. /\ monitor[p] \in {"polling", "terminating"}
      /\ \/ monitor' = [monitor EXCEPT ![p] = "ended"]
         \/ monitor' = [monitor EXCEPT ![p] = "terminating"]
      /\ \A q \in Procs : stopper[q] \in Ended => stopper'[q] = stopper[q]
  BY DEF MonitorLeaves, MonitorTerminates, Terminates, SessionInv, InteractiveTypeOK
<1>3. executor # Closed
  BY <1>2, ClosedSessions
<1>4. TaskFits'
  BY <1>1, <1>2, <1>3, TaskFitsKept
<1>5. CASE MonitorLeaves(p)
  <2>1. InteractiveTypeOK'
    BY <1>1, <1>5 DEF SessionInv, InteractiveTypeOK, ProcTypeOK, MonitorLeaves, taskVars, Opened
  <2>2. ASSUME NEW q \in Procs PROVE SessionFits(q)'
    BY <1>1, <1>5, <2>2 DEF SessionInv, InteractiveTypeOK, ProcTypeOK, SessionFits,
                            MonitorLeaves, taskVars, Opened
  <2> QED BY <1>4, <2>1, <2>2 DEF SessionInv
<1>6. CASE MonitorTerminates(p)
  <2>1. InteractiveTypeOK'
    <3>1. /\ ProcTypeOK' /\ \A q \in Procs \ {p} : proc'[q] = proc[q]
          /\ proc'[p] = proc[p] \/ proc'[p].leader = "exited"
      BY <1>6, KilledProc DEF SessionInv, InteractiveTypeOK, MonitorTerminates, Terminates,
                              ProcTypeOK
    <3>2. /\ proc[p].leader # "none"
          /\ stopper' = [stopper EXCEPT ![p] = IF @ = "none" THEN "stopping" ELSE @]
          /\ monitor' = [monitor EXCEPT ![p] = "terminating"]
      BY <1>2, <1>6 DEF SessionInv, InteractiveTypeOK, SessionFits, MonitorTerminates, Terminates
    <3> QED BY <1>1, <3>1, <3>2 DEF SessionInv, InteractiveTypeOK, taskVars, Opened
  <2>2. ASSUME NEW q \in Procs PROVE SessionFits(q)'
    BY <1>1, <1>6, <2>2 DEF SessionInv, InteractiveTypeOK, ProcTypeOK, SessionFits,
                            MonitorTerminates, Terminates, taskVars, Opened, Killed
  <2> QED BY <1>4, <2>1, <2>2 DEF SessionInv
<1> QED BY <1>5, <1>6

\* What the process, its descendant, its pipe and its reader do.
LEMMA ProcessFits ==
    ASSUME SessionInv, NEW p \in Procs, ProcessStep(p), UNCHANGED <<sessionVars, taskVars>>
    PROVE  SessionInv'
<1> USE DEF Ended, Exited, sessionVars
<1>1. TaskFits'
  BY TaskFitsKept DEF SessionInv, TaskFits, Joined, AnyFailed, Opened, taskVars
<1>2. SUFFICES InteractiveTypeOK' /\ \A q \in Procs : SessionFits(q)'
  BY <1>1 DEF SessionInv
<1>3. p \in Opened
  BY DEF SessionInv, SessionFits, ProcessStep, LeaderExits, LeaderForks, ChildExits,
         PipeCloses, PipeFills, ReaderEnds, ReaderFails, Unborn
<1>4. CASE LeaderExits(p)
  <2>1. InteractiveTypeOK'
    <3>1. proc[p].leader = "alive" /\ proc' = [proc EXCEPT ![p].leader = "exited"]
      BY <1>4 DEF LeaderExits
    <3>2. ProcTypeOK'
      BY <3>1 DEF SessionInv, InteractiveTypeOK, ProcTypeOK
    <3>3. \A q \in Procs : proc[q].leader = "none" <=> proc'[q].leader = "none"
      BY <3>1 DEF SessionInv, InteractiveTypeOK, ProcTypeOK
    <3> QED BY <3>2, <3>3 DEF SessionInv, InteractiveTypeOK, taskVars, Opened
  <2>2. \A q \in Procs : SessionFits(q)'
    BY <1>3, <1>4 DEF SessionInv, InteractiveTypeOK, ProcTypeOK, SessionFits, LeaderExits,
                      taskVars, Opened
  <2> QED BY <2>1, <2>2
<1>5. CASE LeaderForks(p)
  <2>1. PICK kind \in Descendants : proc' = [proc EXCEPT ![p].child = kind]
    BY <1>5 DEF LeaderForks
  <2> QED BY <1>3, <1>5, <2>1 DEF SessionInv, InteractiveTypeOK, ProcTypeOK, SessionFits,
                                  LeaderForks, taskVars, Opened
<1>6. CASE ChildExits(p)
  BY <1>3, <1>6 DEF SessionInv, InteractiveTypeOK, ProcTypeOK, SessionFits, ChildExits,
                    taskVars, Opened
<1>7. CASE PipeCloses(p)
  BY <1>3, <1>7 DEF SessionInv, InteractiveTypeOK, ProcTypeOK, SessionFits, PipeCloses,
                    taskVars, Opened
<1>8. CASE ReaderEnds(p)
  BY <1>3, <1>8 DEF SessionInv, InteractiveTypeOK, ProcTypeOK, SessionFits, ReaderEnds,
                    taskVars, Opened
<1>9. CASE ReaderFails(p)
  BY <1>3, <1>9 DEF SessionInv, InteractiveTypeOK, ProcTypeOK, SessionFits, ReaderFails,
                    taskVars, Opened
<1>10. CASE PipeFills(p)
  BY <1>3, <1>10 DEF SessionInv, InteractiveTypeOK, ProcTypeOK, SessionFits, PipeFills,
                     taskVars, Opened
<1> QED BY <1>4, <1>5, <1>6, <1>7, <1>8, <1>9, <1>10 DEF ProcessStep

-----------------------------------------------------------------------------
(***************************************************************************)
(* The executor and the end of the task.                                   *)
(***************************************************************************)
\* The executor leaves: its sessions are to be ended, the last one first.
LEMMA LeavingFits ==
    ASSUME SessionInv, executor \notin {Gone, Closed},
           NEW result \in {"returned", "cancelled", "timed_out", "failed"}, Leaves(result),
           UNCHANGED <<proc, completion, stopper, opened>>,
           limit' \in {"none", "runs", "due", "told"}, cancel' \in BOOLEAN
    PROVE  SessionInv'
<1>1. /\ closing' \in Seq(Procs) /\ ToSet(closing') = Opened
      /\ IsPrefix(Reverse(closing'), opened)
  <2>1. opened \in Seq(Procs)
    BY DEF SessionInv, TaskFits
  <2>2. closing' = Reverse(opened)
    BY DEF Leaves
  <2>3. /\ Reverse(opened) \in Seq(Procs) /\ ToSet(Reverse(opened)) = ToSet(opened)
        /\ Reverse(Reverse(opened)) = opened
    BY <2>1, ReversedSet
  <2>4. IsPrefix(opened, opened)
    BY <2>1 DEF IsPrefix
  <2> QED BY <2>2, <2>3, <2>4 DEF Opened
<1>2. InteractiveTypeOK'
  BY <1>1 DEF SessionInv, InteractiveTypeOK, ProcTypeOK, Leaves, Opened
<1>3. TaskFits'
  BY <1>1 DEF SessionInv, TaskFits, Leaves, Opened, Gone, Closed, Doing
<1>4. ASSUME NEW q \in Procs PROVE SessionFits(q)'
  BY <1>1, <1>4 DEF SessionInv, InteractiveTypeOK, SessionFits, Leaves, Opened, Exited
<1> QED BY <1>2, <1>3, <1>4 DEF SessionInv

\* The executor goes from one thing it does to another.
LEMMA DoingFits ==
    ASSUME SessionInv, executor \notin {Gone, Closed},
           executor' \in {Idle} \cup [at : {"opening", "refusing", "waiting", "terminating"},
                                      on : Procs],
           executor'.at = "opening" => executor'.on \notin Opened,
           UNCHANGED <<proc, sessionVars, opened, verdict, closing, cancel>>,
           limit' \in {"none", "runs", "due", "told"}
    PROVE  SessionInv'
<1> USE DEF sessionVars
<1>1. /\ closing = << >> /\ executor' \notin {Gone, Closed}
  BY DEF SessionInv, TaskFits, Gone, Closed, Idle, Doing
<1>2. InteractiveTypeOK'
  BY <1>1 DEF SessionInv, InteractiveTypeOK, ProcTypeOK, Opened
<1>3. TaskFits'
  BY <1>1 DEF SessionInv, TaskFits, Opened
<1>4. \A q \in Procs : SessionFits(q)'
  BY DEF SessionInv, SessionFits, Opened, Exited
<1> QED BY <1>2, <1>3, <1>4 DEF SessionInv

\* One process is asked to end, by whoever.
LEMMA TerminatesKeeps ==
    ASSUME SessionInv, NEW p \in Opened, Terminates(p), UNCHANGED <<completion, monitor>>,
           UNCHANGED <<opened, closing>>
    PROVE  /\ p \in Procs /\ ProcTypeOK' /\ \A q \in Procs : SessionFits(q)'
           /\ stopper' \in [Procs -> {"none", "stopping"} \cup Ended]
           /\ \A q \in Procs : /\ proc'[q].leader = "none" <=> proc[q].leader = "none"
                               /\ stopper[q] \in Ended <=> stopper'[q] \in Ended
                               /\ stopper[q] # "none" => stopper'[q] = stopper[q]
<1> USE DEF Ended
<1>1. p \in Procs /\ proc[p].leader # "none"
  BY OpenedProcs DEF SessionInv, TaskFits, InteractiveTypeOK
<1>2. /\ ProcTypeOK' /\ \A q \in Procs \ {p} : proc'[q] = proc[q]
      /\ proc' = proc \/ (Exited(p)' /\ proc'[p].child \in {"none", "away"}
                             /\ proc'[p].reader = proc[p].reader)
      /\ Exited(p)' \/ stopper[p] # "none"
  BY <1>1, KilledProc DEF SessionInv, InteractiveTypeOK, Terminates, ProcTypeOK, Exited
<1>3. stopper' = [stopper EXCEPT ![p] = IF @ = "none" THEN "stopping" ELSE @]
  BY DEF Terminates
<1>4. ASSUME NEW q \in Procs PROVE SessionFits(q)'
  BY <1>1, <1>2, <1>3, <1>4 DEF SessionInv, InteractiveTypeOK, SessionFits, Opened, Exited
<1> QED BY <1>1, <1>2, <1>3, <1>4 DEF SessionInv, InteractiveTypeOK, Exited

LEMMA OpeningFits ==
    ASSUME SessionInv, NEW p \in Procs, OpenReturns(p)
    PROVE  SessionInv'
<1> USE DEF Ended, Exited
<1>1. /\ executor = Doing("opening", p) /\ opened' = Append(opened, p)
      /\ completion' = [completion EXCEPT ![p] = "watching"]
      /\ monitor' = [monitor EXCEPT ![p] = "polling"]
      /\ proc' = [proc EXCEPT ![p] = IF cancel THEN Killed(Spawned) ELSE Spawned]
      /\ stopper' = [stopper EXCEPT ![p] = IF cancel THEN "stopping" ELSE @]
      /\ executor' = IF cancel THEN Doing("refusing", p) ELSE Idle
      /\ UNCHANGED <<verdict, closing, cancel, limit>>
  BY DEF OpenReturns
<1>2. p \notin Opened /\ closing = << >> /\ opened \in Seq(Procs)
  BY <1>1 DEF SessionInv, TaskFits, Doing, Gone
<1>3. opened' \in Seq(Procs) /\ Opened' = Opened \cup {p}
  BY <1>1, <1>2, AppendedSet DEF Opened
<1>4. /\ proc[p] = Unborn /\ stopper[p] = "none" /\ completion[p] = "none"
      /\ completion \in [Procs -> {"none", "watching", "cleaning"} \cup Ended]
      /\ stopper \in [Procs -> {"none", "stopping"} \cup Ended]
      /\ monitor \in [Procs -> {"none", "polling", "terminating", "ended"}]
  BY <1>2 DEF SessionInv, SessionFits, InteractiveTypeOK
<1>5. /\ ProcTypeOK' /\ \A q \in Procs \ {p} : proc'[q] = proc[q]
      /\ proc'[p].leader = IF cancel THEN "exited" ELSE "alive"
  BY <1>1 DEF SessionInv, InteractiveTypeOK, ProcTypeOK, Killed, Spawned, Unborn
<1>6. IsInjective(opened') /\ IsPrefix(Reverse(closing'), opened')
  <2>1. IsInjective(opened')
    <3>1. /\ Len(opened) \in Nat /\ DOMAIN opened = 1..Len(opened)
          /\ DOMAIN Append(opened, p) = 1..(Len(opened) + 1)
          /\ \A i \in 1..Len(opened) : Append(opened, p)[i] = opened[i] /\ opened[i] \in Opened
          /\ Append(opened, p)[Len(opened) + 1] = p
      BY <1>2 DEF Opened, ToSet
    <3> QED BY <1>1, <1>2, <3>1 DEF SessionInv, InteractiveTypeOK, IsInjective
  <2>2. IsPrefix(Reverse(closing'), opened')
    BY <1>1, <1>2, <1>3, EmptyPrefix
  <2> QED BY <2>1, <2>2
<1>7. executor' \in {Idle} \cup [at : {"refusing"}, on : Procs] /\ executor' \notin {Gone, Closed}
  BY <1>1 DEF Doing, Idle, Gone, Closed
<1>8. InteractiveTypeOK'
  BY <1>1, <1>3, <1>4, <1>5, <1>6, <1>7 DEF SessionInv, InteractiveTypeOK
<1>9. TaskFits'
  BY <1>1, <1>2, <1>3, <1>7 DEF SessionInv, TaskFits, Idle, Doing
<1>10. ASSUME NEW q \in Procs PROVE SessionFits(q)'
  BY <1>1, <1>2, <1>3, <1>4, <1>5, <1>10 DEF SessionInv, SessionFits, InteractiveTypeOK
<1> QED BY <1>8, <1>9, <1>10 DEF SessionInv

LEMMA ExecutorFits ==
    ASSUME SessionInv, NEW p \in Procs,
           Open(p) \/ OpenFails(p) \/ Wait(p) \/ Terminate(p) \/ WaitEnds(p) \/ TerminateEnds(p)
    PROVE  SessionInv'
<1>1. executor \notin {Gone, Closed} /\ cancel \in BOOLEAN
      /\ limit \in {"none", "runs", "due", "told"}
  BY DEF Open, OpenFails, Wait, Terminate, WaitEnds, TerminateEnds, Gone, Closed, Idle, Doing,
         SessionInv, InteractiveTypeOK
<1>2. CASE Open(p)
  <2>1. CASE Leaves("cancelled")
    <3>1. UNCHANGED <<proc, completion, stopper, opened, cancel, limit>>
      BY <1>2, <2>1 DEF Open, Leaves, Doing, Gone
    <3> QED BY <1>1, <2>1, <3>1, LeavingFits
  <2>2. CASE /\ executor' = Doing("opening", p)
             /\ UNCHANGED <<proc, sessionVars, opened, verdict, closing, cancel, limit>>
    BY <1>1, <1>2, <2>2, DoingFits DEF Open, Doing
  <2> QED BY <1>2, <2>1, <2>2 DEF Open
<1>3. CASE OpenFails(p)
  BY <1>1, <1>3, DoingFits DEF OpenFails, Idle, Doing
<1>4. CASE Wait(p)
  BY <1>1, <1>4, DoingFits DEF Wait, Doing
<1>5. CASE Terminate(p)
  <2>1. /\ p \in Opened /\ Terminates(p) /\ executor' = Doing("terminating", p)
        /\ UNCHANGED <<completion, monitor, opened, verdict, closing, cancel, limit>>
    BY <1>5 DEF Terminate
  <2>2. /\ ProcTypeOK' /\ \A q \in Procs : SessionFits(q)'
        /\ stopper' \in [Procs -> {"none", "stopping"} \cup Ended]
        /\ \A q \in Procs : /\ proc'[q].leader = "none" <=> proc[q].leader = "none"
                            /\ stopper[q] \in Ended <=> stopper'[q] \in Ended
                            /\ stopper[q] # "none" => stopper'[q] = stopper[q]
    BY <2>1, TerminatesKeeps
  <2>3. executor' \in [at : {"terminating"}, on : Procs] /\ executor' \notin {Gone, Closed}
    BY <2>1 DEF Doing, Gone, Closed
  <2>4. InteractiveTypeOK'
    BY <2>1, <2>2, <2>3 DEF SessionInv, InteractiveTypeOK, Opened, Ended
  <2>5. TaskFits'
    BY <1>1, <2>1, <2>3 DEF SessionInv, TaskFits, Opened, Doing
  <2> QED BY <2>2, <2>4, <2>5 DEF SessionInv
<1>6. CASE WaitEnds(p)
  <2>1. CASE Leaves("failed")
    BY <1>1, <1>6, <2>1, LeavingFits DEF WaitEnds
  <2>2. CASE executor' = Idle /\ UNCHANGED <<monitor, verdict, closing>>
    BY <1>1, <1>6, <2>2, DoingFits DEF WaitEnds, Idle, Doing, sessionVars
  <2> QED BY <1>6, <2>1, <2>2 DEF WaitEnds
<1>7. CASE TerminateEnds(p)
  <2>1. /\ UNCHANGED <<proc, completion, stopper, opened, cancel>>
        /\ limit' \in {"none", "runs", "due", "told"}
        /\ \/ \E result \in {"cancelled", "timed_out", "failed"} : Leaves(result)
           \/ Handles
    BY <1>1, <1>7 DEF TerminateEnds
  <2>2. ASSUME NEW result \in {"cancelled", "timed_out", "failed"}, Leaves(result)
        PROVE  SessionInv'
    BY <1>1, <2>1, <2>2, LeavingFits
  <2>3. CASE Handles
    BY <1>1, <2>1, <2>3, DoingFits DEF Handles, Idle, Doing, sessionVars
  <2> QED BY <2>1, <2>2, <2>3
<1> QED BY <1>2, <1>3, <1>4, <1>5, <1>6, <1>7

LEMMA ReturnFits ==
    ASSUME SessionInv, Return \/ Interrupt
    PROVE  SessionInv'
<1>1. cancel \in BOOLEAN /\ limit \in {"none", "runs", "due", "told"}
  BY DEF SessionInv, InteractiveTypeOK
<1>2. CASE Return
  BY <1>1, <1>2, LeavingFits DEF Return, Idle, Gone, Closed, Doing
<1>3. CASE Interrupt
  <2>1. CASE Leaves("timed_out")
    BY <1>1, <1>3, <2>1, LeavingFits DEF Interrupt, Idle, Gone, Closed, Doing
  <2>2. CASE UNCHANGED <<executor, verdict, closing, monitor>>
    <3>1. UNCHANGED <<proc, completion, stopper, opened, cancel>> /\ limit' = "told"
      BY <1>3 DEF Interrupt
    <3>2. InteractiveTypeOK'
      BY <2>2, <3>1 DEF SessionInv, InteractiveTypeOK, ProcTypeOK, Opened
    <3>3. TaskFits' /\ \A q \in Procs : SessionFits(q)'
      BY <2>2, <3>1 DEF SessionInv, TaskFits, SessionFits, Opened, Exited, Joined, AnyFailed
    <3> QED BY <3>2, <3>3 DEF SessionInv
  <2> QED BY <1>3, <2>1, <2>2 DEF Interrupt
<1> QED BY <1>2, <1>3

LEMMA ClosingFits ==
    ASSUME SessionInv, Closes
    PROVE  SessionInv'
<1>1. CASE StopLast
  <2> DEFINE p == Head(closing)
  <2>1. /\ closing # << >> /\ Terminates(p) /\ UNCHANGED <<completion, monitor, taskVars>>
    BY <1>1 DEF StopLast
  <2>2. p \in Opened
    <3>1. /\ closing \in Seq(Procs) /\ opened \in Seq(Procs) /\ Len(closing) \in Nat \ {0}
      BY <2>1 DEF SessionInv, TaskFits
    <3>2. Len(closing) <= Len(opened) /\ opened[Len(closing)] = closing[1]
      BY <3>1, ReversedPrefix DEF SessionInv, InteractiveTypeOK
    <3> QED BY <3>1, <3>2 DEF Opened, ToSet
  <2>3. /\ p \in Procs /\ ProcTypeOK' /\ \A q \in Procs : SessionFits(q)'
        /\ stopper' \in [Procs -> {"none", "stopping"} \cup Ended]
        /\ \A q \in Procs : /\ proc'[q].leader = "none" <=> proc[q].leader = "none"
                            /\ stopper[q] \in Ended <=> stopper'[q] \in Ended
                            /\ stopper[q] # "none" => stopper'[q] = stopper[q]
    BY <2>1, <2>2, TerminatesKeeps DEF taskVars
  <2>4. InteractiveTypeOK'
    BY <2>1, <2>3 DEF SessionInv, InteractiveTypeOK, Opened, Ended, taskVars
  <2>5. executor = Gone
    BY <2>1 DEF SessionInv, TaskFits
  <2>6. TaskFits'
    BY <2>1, <2>3, <2>5, TaskFitsKept DEF Ended, Gone, Closed, Doing
  <2> QED BY <2>3, <2>4, <2>6 DEF SessionInv
<1>2. CASE LastStopped
  <2>1. /\ closing # << >> /\ stopper[Head(closing)] \in Ended /\ closing' = Tail(closing)
        /\ UNCHANGED <<proc, sessionVars, opened, executor, verdict, cancel, limit>>
    BY <1>2 DEF LastStopped
  <2>2. /\ closing \in Seq(Procs) /\ opened \in Seq(Procs)
        /\ executor = Gone /\ Len(closing) \in Nat \ {0} /\ Len(opened) \in Nat
    BY <2>1 DEF SessionInv, TaskFits
  <2>3. /\ Head(closing) \in Procs /\ Tail(closing) \in Seq(Procs)
        /\ Len(Tail(closing)) = Len(closing) - 1
        /\ \A i \in 1..Len(Tail(closing)) : Tail(closing)[i] = closing[i + 1]
        /\ \A x \in ToSet(closing) : x = Head(closing) \/ x \in ToSet(Tail(closing))
    BY <2>1, <2>2, TailedSet
  <2>4. IsPrefix(Reverse(closing'), opened')
    <3>1. Len(closing) <= Len(opened)
          /\ \A i \in 1..Len(closing) : opened[i] = closing[(Len(closing) - i) + 1]
      BY <2>2, ReversedPrefix DEF SessionInv, InteractiveTypeOK
    <3>2. ASSUME NEW i \in 1..Len(Tail(closing))
          PROVE  opened[i] = Tail(closing)[(Len(Tail(closing)) - i) + 1]
      <4>1. /\ i \in 1..Len(closing) /\ (Len(Tail(closing)) - i) + 1 \in 1..Len(Tail(closing))
            /\ ((Len(Tail(closing)) - i) + 1) + 1 = (Len(closing) - i) + 1
        BY <2>2, <2>3
      <4> QED BY <2>3, <3>1, <4>1
    <3>3. Len(Tail(closing)) <= Len(opened)
      BY <2>2, <2>3, <3>1
    <3>4. IsPrefix(Reverse(Tail(closing)), opened)
      BY <2>2, <2>3, <3>2, <3>3, ReversedPrefix
    <3> QED BY <2>1, <3>4
  <2>5. InteractiveTypeOK'
    BY <2>1, <2>4 DEF SessionInv, InteractiveTypeOK, ProcTypeOK, Opened, sessionVars
  <2>6. TaskFits'
    BY <2>1, <2>2, <2>3 DEF SessionInv, TaskFits, Opened, sessionVars, Gone, Closed, Doing
  <2>7. ASSUME NEW q \in Procs PROVE SessionFits(q)'
    <3>1. Exited(Head(closing))
      BY <2>1, <2>3 DEF SessionInv, SessionFits, Ended
    <3> QED BY <2>1, <2>3, <2>7, <3>1 DEF SessionInv, SessionFits, Opened, sessionVars, Exited
  <2> QED BY <2>5, <2>6, <2>7 DEF SessionInv
<1>3. CASE CloseTask
  <2>1. /\ executor = Gone /\ closing = << >> /\ Joined /\ executor' = Closed
        /\ verdict' = IF AnyFailed /\ verdict # "cancelled" THEN "failed" ELSE verdict
        /\ UNCHANGED <<proc, sessionVars, opened, closing, cancel, limit>>
    BY <1>3 DEF CloseTask
  <2>2. InteractiveTypeOK'
    BY <2>1 DEF SessionInv, InteractiveTypeOK, ProcTypeOK, Opened, sessionVars
  <2>3. TaskFits'
    BY <2>1 DEF SessionInv, TaskFits, Opened, sessionVars, Gone, Closed, Doing, Joined, AnyFailed
  <2>4. \A q \in Procs : SessionFits(q)'
    BY <2>1 DEF SessionInv, SessionFits, Opened, sessionVars, Exited
  <2> QED BY <2>2, <2>3, <2>4 DEF SessionInv
<1> QED BY <1>1, <1>2, <1>3 DEF Closes

LEMMA RequestFits ==
    ASSUME SessionInv, RequestCancel \/ TimePasses
    PROVE  SessionInv'
<1>1. /\ UNCHANGED <<proc, sessionVars, opened, executor, verdict, closing>>
      /\ cancel' \in BOOLEAN /\ limit' \in {"none", "runs", "due", "told"}
  BY DEF RequestCancel, TimePasses, SessionInv, InteractiveTypeOK
<1>2. InteractiveTypeOK'
  BY <1>1 DEF SessionInv, InteractiveTypeOK, ProcTypeOK, Opened, sessionVars
<1>3. TaskFits' /\ \A q \in Procs : SessionFits(q)'
  BY <1>1 DEF SessionInv, TaskFits, SessionFits, Opened, Exited, Joined, AnyFailed, sessionVars
<1> QED BY <1>2, <1>3 DEF SessionInv

-----------------------------------------------------------------------------
LEMMA SessionInvInit == InteractiveInit => SessionInv
<1> SUFFICES ASSUME InteractiveInit PROVE SessionInv
  OBVIOUS
<1>1. /\ opened = << >> /\ closing = << >> /\ << >> \in Seq(Procs) /\ Opened = {}
  BY DEF InteractiveInit, Opened, ToSet
<1>2. IsInjective(opened) /\ IsPrefix(Reverse(closing), opened)
  <2>1. IsPrefix(Reverse(closing), opened)
    BY <1>1, EmptyPrefix
  <2> QED BY <1>1, <2>1 DEF IsInjective
<1>3. InteractiveTypeOK
  BY <1>1, <1>2, TimeLimitAssumption
  DEF InteractiveInit, InteractiveTypeOK, ProcTypeOK, Unborn, Idle, Doing, Ended
<1>4. TaskFits /\ \A p \in Procs : SessionFits(p)
  BY <1>1 DEF InteractiveInit, TaskFits, SessionFits, Unborn, Idle, Gone, Closed, Doing, Ended
<1> QED BY <1>3, <1>4 DEF SessionInv

LEMMA SessionInvKept == SessionInv /\ [InteractiveNext]_vars => SessionInv'
<1> SUFFICES ASSUME SessionInv, [InteractiveNext]_vars PROVE SessionInv'
  OBVIOUS
<1>1. ASSUME NEW p \in Procs, LoopStep(p) \/ MonitorCannotRead(p)
      PROVE  SessionInv'
  BY <1>1, CompletionFits, StopperFits, MonitorFits, OpeningFits, ExecutorFits
  DEF LoopStep, MonitorSeesCancel, MonitorCannotRead
<1>2. ASSUME NEW p \in Procs, Open(p) \/ OpenFails(p) \/ Wait(p) \/ Terminate(p)
      PROVE  SessionInv'
  BY <1>2, ExecutorFits
<1>3. CASE Return \/ Interrupt
  BY <1>3, ReturnFits
<1>4. CASE Closes
  BY <1>4, ClosingFits
<1>5. CASE Surroundings
  BY <1>5, RequestFits, ProcessFits DEF Surroundings
<1>6. CASE UNCHANGED vars
  <2>1. UNCHANGED <<proc, sessionVars, taskVars>>
    BY <1>6 DEF vars, sessionVars, taskVars
  <2>2. InteractiveTypeOK'
    BY <2>1 DEF SessionInv, InteractiveTypeOK, ProcTypeOK, Opened, sessionVars, taskVars
  <2>3. TaskFits' /\ \A q \in Procs : SessionFits(q)'
    BY <2>1 DEF SessionInv, TaskFits, SessionFits, Opened, Exited, Joined, AnyFailed,
                sessionVars, taskVars
  <2> QED BY <2>2, <2>3 DEF SessionInv
<1> QED BY <1>1, <1>2, <1>3, <1>4, <1>5, <1>6 DEF InteractiveNext

LEMMA SessionInvHolds == InteractiveSpec => []SessionInv
<1> QED BY SessionInvInit, SessionInvKept, PTL DEF InteractiveSpec

\* A closed task is quiet and has told every failure of its sessions' output: the
\* completion task, the termination and the monitor of each have ended, and its group
\* is dead.  (_finish_managed_interactive_sessions, _raise_output_failure)
THEOREM ClosedTasksAreQuiet == InteractiveSpec => []InteractiveInv
<1>1. ASSUME SessionInv PROVE ClosedIsQuiet /\ FailureIsTold
  <2> SUFFICES ASSUME executor = Closed PROVE ClosedIsQuiet /\ FailureIsTold
    BY DEF ClosedIsQuiet, FailureIsTold
  <2>1. ASSUME NEW p \in Procs
        PROVE  /\ ~GroupAlive(p) /\ proc[p].reader # "reading"
               /\ completion[p] \in {"none"} \cup Ended
               /\ stopper[p] # "stopping" /\ monitor[p] \in {"none", "ended"}
    <3>1. CASE p \in Opened
      BY <1>1, <3>1, ClosedSessions
      DEF SessionInv, SessionFits, GroupAlive, Exited, Ended
    <3>2. CASE p \notin Opened
      BY <1>1, <3>2
      DEF SessionInv, SessionFits, InteractiveTypeOK, GroupAlive, Unborn
    <3> QED BY <3>1, <3>2
  <2>2. ASSUME NEW p \in Procs, completion[p] = "failed"
        PROVE  verdict \in {"failed", "cancelled"}
    <3>1. p \in Opened
      BY <1>1, <2>2 DEF SessionInv, InteractiveTypeOK
    <3>2. AnyFailed
      BY <1>1, <2>2, <3>1, ClosedSessions DEF AnyFailed
    <3> QED BY <1>1, <3>2 DEF SessionInv, TaskFits
  <2> QED BY <2>1, <2>2 DEF ClosedIsQuiet, FailureIsTold
<1>2. SessionInv => InteractiveInv
  BY <1>1 DEF SessionInv, InteractiveInv
<1> QED BY <1>2, SessionInvHolds, PTL

\* At no moment does a process of a task run that nobody watches or is about to end.
\* (open_interactive_process of _run_managed_task)
THEOREM ProcessesAreWatched == InteractiveSpec => []EveryProcessIsWatched
<1>1. SessionInv => EveryProcessIsWatched
  BY DEF SessionInv, SessionFits, EveryProcessIsWatched
<1> QED BY <1>1, SessionInvHolds, PTL
===============================================================================
