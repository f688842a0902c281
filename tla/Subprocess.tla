------------------------------ MODULE Subprocess ------------------------------
(***************************************************************************)
(* A subprocess as ProcessRunner (process_runner.py) sees it: the leader   *)
(* that it spawned in a session of its own, one descendant of the leader,  *)
(* the output pipe that both may hold, and the reader task that takes the  *)
(* lines out of the pipe.  BatchProcess and InteractiveProcess use it.     *)
(*                                                                         *)
(* The operating system and asyncio are external.  The project asks for    *)
(* Python 3.11, where Process.wait() returns once the process has exited   *)
(* AND its pipes are closed, while returncode is set by the exit alone.    *)
(* stdout and stderr are treated alike: one pipe stands for both.          *)
(***************************************************************************)
CONSTANTS
    Procs,        \* subprocesses
    Descendants,  \* what a leader may start: "quiet" has closed the pipe,
                  \* "holding" keeps it, "away" keeps it in another group
    ReadersFail,  \* may a reader task fail?
    Wild          \* bound: the subprocesses with descendants and failing readers

ASSUME SubprocessAssumption ==
    /\ Descendants \subseteq {"quiet", "holding", "away"}
    /\ ReadersFail \in BOOLEAN
    /\ Wild \subseteq Procs

VARIABLE
    proc  \* proc[p]: the subprocess, its descendant, its pipe and its reader

Unborn == [leader |-> "none", child |-> "none", pipe |-> "open", reader |-> "none"]
Spawned == [Unborn EXCEPT !.leader = "alive", !.reader = "reading"]

ProcTypeOK ==
    proc \in [Procs -> [leader : {"none", "alive", "exited"},
                        child  : {"none"} \cup Descendants,
                        pipe   : {"open", "full", "closed"},
                        reader : {"none", "reading", "failed", "ended"}]]

\* Process.returncode is known.
Exited(p) == proc[p].leader = "exited"
\* Process.wait() would return (Python 3.11).
WaitReturns(p) == Exited(p) /\ proc[p].pipe = "closed"
PipeHeld(p) == proc[p].leader = "alive" \/ proc[p].child \in {"holding", "away"}
GroupAlive(p) == proc[p].leader = "alive" \/ proc[p].child \in {"quiet", "holding"}

\* os.killpg(pid, SIGKILL): the whole group dies, one that has left it does not.
Killed(r) == [r EXCEPT !.leader = "exited",
                       !.child = IF @ = "away" THEN @ ELSE "none"]

\* Mutant: the descendants of an exited leader are left alone.
GroupLeft(r) == r

\* _cleanup_process_group: the leader has exited, its group is killed all the same.
GroupSwept(r) == Killed(r)

\* Mutant: readers are not cancelled.
Undrained(r) == r

\* _drain_readers: after a second, readers that have not ended are cancelled.
Drained(r) == [r EXCEPT !.reader = IF @ = "reading" THEN "ended" ELSE @]

(***************************************************************************)
(* What the processes and the transport do by themselves.                  *)
(***************************************************************************)
LeaderExits(p) ==
    /\ proc[p].leader = "alive"
    /\ proc' = [proc EXCEPT ![p].leader = "exited"]

LeaderForks(p) ==
    /\ p \in Wild /\ proc[p].leader = "alive" /\ proc[p].child = "none"
    /\ \E kind \in Descendants : proc' = [proc EXCEPT ![p].child = kind]

\* It may also outlive its leader for ever.
ChildExits(p) ==
    /\ proc[p].child # "none"
    /\ proc' = [proc EXCEPT ![p].child = "none"]

\* The last holder is gone, and the transport, if it still reads, sees the end.
PipeCloses(p) ==
    /\ proc[p].leader = "exited" /\ ~PipeHeld(p) /\ proc[p].pipe = "open"
    /\ proc' = [proc EXCEPT ![p].pipe = "closed"]

\* _stream_output, _stream_interactive_output: the end of the output.
ReaderEnds(p) ==
    /\ proc[p].reader = "reading" /\ proc[p].pipe = "closed"
    /\ proc' = [proc EXCEPT ![p].reader = "ended"]

\* A line longer than the limit of the stream, or a callback that raises.
ReaderFails(p) ==
    /\ ReadersFail /\ p \in Wild
    /\ proc[p].reader = "reading"
    /\ proc' = [proc EXCEPT ![p].reader = "failed"]

\* With nobody reading, the stream's buffer fills up to twice its limit, with what is
\* written on or what is left in the pipe: the transport stops reading the pipe, and
\* does not see its end any more.
PipeFills(p) ==
    /\ proc[p].reader = "failed" /\ proc[p].pipe = "open"
    /\ proc' = [proc EXCEPT ![p].pipe = "full"]

ProcessStep(p) ==
    \/ LeaderExits(p) \/ LeaderForks(p) \/ ChildExits(p)
    \/ PipeCloses(p) \/ PipeFills(p) \/ ReaderEnds(p) \/ ReaderFails(p)

\* What the operating system and the event loop bring about for certain.
ProcessFairness == \A p \in Procs : WF_proc(PipeCloses(p)) /\ WF_proc(ReaderEnds(p))
===============================================================================
