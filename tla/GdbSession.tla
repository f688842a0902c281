------------------------------ MODULE GdbSession ------------------------------
(***************************************************************************)
(* A GDB/MI session: GdbMiSession of debug/session.py over the transport   *)
(* of debug/platform_transport.py.                                         *)
(*                                                                         *)
(* GDB reads commands from its input one at a time and writes records: a   *)
(* result for each command, under its token, and notices of the inferior   *)
(* whenever it runs or stops.  In the session, a reader coroutine takes    *)
(* the records in their order and keeps the state of the inferior, while   *)
(* one caller (execute until the session is registered, the dispatcher     *)
(* from then on) sends commands and waits for their results or for a stop. *)
(*                                                                         *)
(* Left out: the locations, frames and streams that records carry, the     *)
(* prompts after the first, and temporary breakpoints, which GDB deletes   *)
(* without the session taking notice.                                      *)
(***************************************************************************)
EXTENDS Naturals, Sequences, FiniteSets

CONSTANTS
    Breakpoints, \* breakpoints a client may insert
    GdbFaults,   \* "parse": a line that parse_mi_line refuses; "exit": GDB exits;
                 \* "output": the process session fails at its output
    MaxCommands, \* bound: commands sent
    MaxTimeouts  \* bound: expirations of command_timeout_seconds

ASSUME SessionAssumption ==
    /\ GdbFaults \subseteq {"parse", "exit", "output"}
    /\ MaxCommands \in Nat /\ MaxTimeouts \in Nat

VARIABLES
    gdb,       \* GDB: at, the inferior, which output is lost to the process
               \* session, and whether the transport has told of its end
    installed, \* installed[b]: the breakpoint in GDB
    input,     \* commands written to GDB and not yet read by it
    output,    \* records on their way to the reader
    state,     \* DebugSessionStateModel.state
    view,      \* DebugSessionStateModel.breakpoints
    reader,    \* the reader task: "off", "on" or "ended"
    pending,   \* the tokens in _pending
    ending,    \* _closing and _closed: "no", "closing" or "closed"
    call,      \* the caller's place, command and answer
    tokens,    \* commands sent so far
    timeouts   \* commands that timed out so far

gdbVars == <<gdb, installed, input>>
callVars == <<call, tokens, timeouts>>
sessionVars == <<gdb, installed, input, output, state, view, reader, pending,
                 ending, call, tokens, timeouts>>

Stopped == {"STOPPED", "EXITED", "FAILED"}
Switches == {"insert", "delete", "enable", "disable"}
Controls == {"run", "continue", "interrupt"}
Slot == {"absent", "on", "off"}

Command(op, b) == [op |-> op, bp |-> b, token |-> tokens + 1]
GdbCommands == {Command(op, b) : op \in Switches, b \in Breakpoints}
            \cup {Command(op, "none") : op \in Controls}

\* answer: the future of _execute; woken: the waiter of _stop_event.
Idle == [at |-> "idle", op |-> "none", bp |-> "none", token |-> 0,
         answer |-> "none", woken |-> FALSE]
CallAt(place) == [Idle EXCEPT !.at = place]

Record(kind, token, class) == [kind |-> kind, token |-> token, class |-> class]
Notice(kind) == Record(kind, 0, "none")
Result(token, class) == Record("result", token, class)

SessionTypeOK ==
    /\ gdb \in [at : {"alive", "zero", "nonzero"}, told : BOOLEAN,
                lost : {"none", "stderr", "stdout"},
                inferior : {"READY", "RUNNING", "STOPPED", "EXITED"}]
    /\ installed \in [Breakpoints -> Slot] /\ view \in [Breakpoints -> Slot]
    /\ Len(input) <= 1 + MaxTimeouts
    /\ state \in {"STARTING", "READY", "RUNNING"} \cup Stopped
    /\ reader \in {"off", "on", "ended"}
    /\ pending \subseteq 1..MaxCommands /\ Cardinality(pending) <= 1
    /\ pending # {} => call.at = "sent" /\ pending = {call.token}
    /\ ending \in {"no", "closing", "closed"}
    /\ call.at \in {"new", "starting", "idle", "sent", "waiting", "closing", "gone"}
    /\ call.answer \in {"none", "done", "running", "error", "failed"}
    /\ tokens \in 0..MaxCommands /\ timeouts \in 0..MaxTimeouts

SessionInit ==
    /\ gdb = [at |-> "alive", told |-> FALSE, lost |-> "none", inferior |-> "READY"]
    /\ installed = [b \in Breakpoints |-> "absent"]
    /\ input = <<>>
    /\ output = <<Notice("prompt")>>
    /\ state = "STARTING"
    /\ view = [b \in Breakpoints |-> "absent"]
    /\ reader = "off"
    /\ pending = {}
    /\ ending = "no"
    /\ call = CallAt("new")
    /\ tokens = 0
    /\ timeouts = 0

-----------------------------------------------------------------------------
(***************************************************************************)
(* GDB.                                                                    *)
(***************************************************************************)

Switch(op, slot) ==
    CASE op = "insert" -> "on"
      [] op = "delete" -> "absent"
      [] op = "enable" -> "on"
      [] op = "disable" -> "off"

Accepts(command) ==
    CASE command.op = "insert" -> TRUE
      [] command.op \in Switches \ {"insert"} -> installed[command.bp] # "absent"
      [] command.op = "run" -> gdb.inferior \in {"READY", "EXITED"}
      [] command.op = "continue" -> gdb.inferior = "STOPPED"
      [] command.op = "interrupt" -> gdb.inferior = "RUNNING"

\* Nobody takes what GDB writes once the reader of its output has failed.
Writes(records) == output' = IF gdb.lost = "stdout" THEN output ELSE output \o records

\* GDB reads a command and does it, or refuses.  What -exec-interrupt leads
\* to comes later, as a stop.
Obey ==
    LET command == Head(input)
    IN  /\ gdb.at = "alive"
        /\ input # <<>>
        /\ input' = Tail(input)
        /\ \/ /\ ~Accepts(command)
              /\ Writes(<<Result(command.token, "error")>>)
              /\ UNCHANGED <<gdb, installed>>
           \/ /\ Accepts(command) /\ command.op \in Switches
              /\ installed' = [installed EXCEPT ![command.bp] = Switch(command.op, @)]
              /\ Writes(<<Result(command.token, "done")>>)
              /\ UNCHANGED gdb
           \/ /\ Accepts(command) /\ command.op \in {"run", "continue"}
              /\ gdb' = [gdb EXCEPT !.inferior = "RUNNING"]
              /\ Writes(<<Result(command.token, "running"), Notice("running")>>)
              /\ UNCHANGED installed
           \/ /\ Accepts(command) /\ command.op = "interrupt"
              /\ Writes(<<Result(command.token, "done")>>)
              /\ UNCHANGED <<gdb, installed>>
    /\ UNCHANGED <<state, view, reader, pending, ending, callVars>>

\* A breakpoint, a signal or an interrupt stops the inferior, or it exits.
InferiorStops ==
    /\ gdb.at = "alive" /\ gdb.inferior = "RUNNING"
    /\ \E how \in {"STOPPED", "EXITED"} :
          /\ gdb' = [gdb EXCEPT !.inferior = how]
          /\ Writes(<<Notice(how)>>)
    /\ UNCHANGED <<installed, input, state, view, reader, pending, ending, callVars>>

\* A line that is no MI record.
Garbage ==
    /\ "parse" \in GdbFaults
    /\ gdb.at = "alive" /\ gdb.lost # "stdout"
    /\ Notice("garbage") \notin {output[i] : i \in 1..Len(output)}
    /\ output' = Append(output, Notice("garbage"))
    /\ UNCHANGED <<gdbVars, state, view, reader, pending, ending, callVars>>

\* The handling of a line raises, or a line is too long, and the reader of that
\* output ends; or the clean-up behind the exit does not succeed.
OutputFails ==
    /\ "output" \in GdbFaults
    /\ gdb.lost = "none" /\ ~gdb.told
    /\ \E what \in {"stderr", "stdout"} : gdb' = [gdb EXCEPT !.lost = what]
    /\ UNCHANGED <<installed, input, output, state, view, reader, pending, ending, callVars>>

\* returncode is set, from here on: GDB exits by itself, ...
GdbExits ==
    /\ "exit" \in GdbFaults
    /\ gdb.at = "alive"
    /\ \E code \in {"zero", "nonzero"} : gdb' = [gdb EXCEPT !.at = code]
    /\ UNCHANGED <<installed, input, output, state, view, reader, pending, ending, callVars>>

\* ... or is killed, by close or by the process session that has failed.
GdbIsKilled ==
    /\ gdb.at = "alive"
    /\ ending = "closing" \/ gdb.lost # "none"
    /\ gdb' = [gdb EXCEPT !.at = "nonzero"]
    /\ UNCHANGED <<installed, input, output, state, view, reader, pending, ending, callVars>>

\* What session.wait() returns or, if the session has failed, raises.
WaitResult == IF gdb.lost = "none" THEN gdb.at ELSE "error"

\* _monitor_completion: the marker that follows GDB's last record.
TellExit ==
    /\ gdb.at # "alive" /\ ~gdb.told
    /\ gdb' = [gdb EXCEPT !.told = TRUE]
    /\ output' = Append(output, Record("exit", 0, WaitResult))
    /\ UNCHANGED <<installed, input, state, view, reader, pending, ending, callVars>>

-----------------------------------------------------------------------------
(***************************************************************************)
(* The reader: _reader_loop, _handle_record, _set_state, _fail_waiters.    *)
(***************************************************************************)

\* Mutant: any change of the state sets the event.
WakesAlways(new) == call.at = "waiting"

\* _set_state sets the event that wait_for_stop waits for.
Wakes(new) == call.at = "waiting" /\ new \in Stopped

Becomes(new) ==
    /\ state' = new
    /\ call' = [call EXCEPT !.woken = @ \/ Wakes(new)]

\* Mutant: the answer goes to whatever command is waiting.
AnswersAny(record) == pending # {}

Answers(record) == record.token \in pending

\* Mutant: the future is completed and its token stays in _pending.
TakeResultOnly(record) ==
    /\ state' = IF record.class = "running" THEN "RUNNING" ELSE state
    /\ call' = IF Answers(record) THEN [call EXCEPT !.answer = record.class] ELSE call
    /\ UNCHANGED pending

\* A result completes the future of its command, if that still waits.
TakeResult(record) ==
    /\ state' = IF record.class = "running" THEN "RUNNING" ELSE state
    /\ IF Answers(record)
       THEN pending' = {} /\ call' = [call EXCEPT !.answer = record.class]
       ELSE UNCHANGED <<pending, call>>

TakePrompt ==
    /\ state' = IF state = "STARTING" THEN "READY" ELSE state
    /\ call' = IF call.at = "starting" /\ call.answer = "none"
               THEN [call EXCEPT !.answer = "done"] ELSE call
    /\ UNCHANGED pending

\* Mutant: a reader that ends forgets the commands in flight.
NoWaiterFails == FALSE

\* The futures that _fail_waiters fails.
WaiterFails ==
    \/ call.at = "sent" /\ pending # {}
    \/ call.at = "starting" /\ call.answer = "none"

\* Mutant: the state is assigned, the event is not set.
ReaderEndsQuietly(final) ==
    /\ state' = final
    /\ reader' = "ended"
    /\ pending' = {}
    /\ call' = IF WaiterFails THEN [call EXCEPT !.answer = "failed"] ELSE call

ReaderEnds(final) ==
    /\ state' = final
    /\ reader' = "ended"
    /\ pending' = {}
    /\ call' = [call EXCEPT !.answer = IF WaiterFails THEN "failed" ELSE @,
                            !.woken = @ \/ Wakes(final)]

\* Mutant: the exit code decides, whoever ended GDB.
FinalStateByCode(code) == IF code = "zero" THEN "EXITED" ELSE "FAILED"

FinalState(code) == IF ending # "no" \/ code = "zero" THEN "EXITED" ELSE "FAILED"

Read ==
    LET record == Head(output)
    IN  /\ reader = "on"
        /\ output # <<>>
        /\ output' = Tail(output)
        /\ \/ /\ record.kind = "prompt"
              /\ TakePrompt
              /\ UNCHANGED reader
           \/ /\ record.kind = "result"
              /\ TakeResult(record)
              /\ UNCHANGED reader
           \/ /\ record.kind = "running"
              /\ Becomes("RUNNING")
              /\ UNCHANGED <<pending, reader>>
           \/ /\ record.kind \in {"STOPPED", "EXITED"}
              /\ Becomes(record.kind)
              /\ UNCHANGED <<pending, reader>>
           \/ /\ record.kind = "garbage"
              /\ ReaderEnds("FAILED")
           \/ /\ record.kind = "exit" /\ record.class = "error"
              /\ ReaderEnds("FAILED")
           \/ /\ record.kind = "exit" /\ record.class # "error"
              /\ ReaderEnds(FinalState(record.class))
        /\ UNCHANGED <<gdbVars, view, ending, tokens, timeouts>>

-----------------------------------------------------------------------------
(***************************************************************************)
(* The caller.                                                             *)
(***************************************************************************)

Start ==
    /\ call.at = "new"
    /\ call' = CallAt("starting")
    /\ reader' = "on"
    /\ UNCHANGED <<gdbVars, output, state, view, pending, ending, tokens, timeouts>>

\* start() returns, or raises and with it execute.
Started ==
    /\ call.at = "starting"
    /\ call.answer # "none"
    /\ call' = CallAt(IF call.answer = "done" THEN "idle" ELSE "gone")
    /\ UNCHANGED <<gdbVars, output, state, view, reader, pending, ending, tokens, timeouts>>

StartTimesOut ==
    /\ call.at = "starting"
    /\ call.answer = "none"
    /\ timeouts < MaxTimeouts
    /\ timeouts' = timeouts + 1
    /\ state' = "FAILED"
    /\ call' = CallAt("gone")
    /\ UNCHANGED <<gdbVars, output, view, reader, pending, ending, tokens>>

\* _execute: the token is registered before the command is written.
Send(command) ==
    /\ call.at = "idle"
    /\ state # "FAILED" /\ gdb.at = "alive"
    /\ tokens < MaxCommands
    /\ tokens' = tokens + 1
    /\ pending' = {command.token}
    /\ input' = Append(input, command)
    /\ call' = [Idle EXCEPT !.at = "sent", !.op = command.op, !.bp = command.bp,
                            !.token = command.token]
    /\ UNCHANGED <<gdb, installed, output, state, view, reader, ending, timeouts>>

\* Mutant: disable_breakpoint leaves the breakpoint enabled in the view.
NotedEnabled(op, slot) == IF op = "disable" THEN slot ELSE Switch(op, slot)

\* The result of insert_breakpoint, delete_breakpoint, enable_breakpoint and
\* disable_breakpoint in the session's view.
Noted(op, slot) ==
    IF op \in {"enable", "disable"} /\ slot = "absent" THEN slot ELSE Switch(op, slot)

\* Mutant: the control commands set the state when they return.
ReturnRunning ==
    /\ call.at = "sent"
    /\ call.answer # "none"
    /\ view' = IF call.op \in Switches /\ call.answer = "done"
               THEN [view EXCEPT ![call.bp] = Noted(call.op, @)]
               ELSE view
    /\ state' = IF call.answer = "running" THEN "RUNNING" ELSE state
    /\ call' = Idle
    /\ UNCHANGED <<gdbVars, output, reader, pending, ending, tokens, timeouts>>

Return ==
    /\ call.at = "sent"
    /\ call.answer # "none"
    /\ view' = IF call.op \in Switches /\ call.answer = "done"
               THEN [view EXCEPT ![call.bp] = Noted(call.op, @)]
               ELSE view
    /\ call' = Idle
    /\ UNCHANGED <<gdbVars, output, state, reader, pending, ending, tokens, timeouts>>

\* The command is given up; GDB may still carry it out.
TimeOut ==
    /\ call.at = "sent"
    /\ call.answer = "none"
    /\ timeouts < MaxTimeouts
    /\ timeouts' = timeouts + 1
    /\ pending' = {}
    /\ call' = Idle
    /\ UNCHANGED <<gdbVars, output, state, view, reader, ending, tokens>>

\* wait_for_stop
BeginWait ==
    /\ call.at = "idle"
    /\ state \notin Stopped
    /\ call' = CallAt("waiting")
    /\ UNCHANGED <<gdbVars, output, state, view, reader, pending, ending, tokens, timeouts>>

EndWait ==
    /\ call.at = "waiting"
    /\ call.woken
    /\ call' = Idle
    /\ UNCHANGED <<gdbVars, output, state, view, reader, pending, ending, tokens, timeouts>>

\* The time limit of the wait itself.
WaitTimesOut ==
    /\ call.at = "waiting"
    /\ ~call.woken
    /\ call' = Idle
    /\ UNCHANGED <<gdbVars, output, state, view, reader, pending, ending, tokens, timeouts>>

BeginClose ==
    /\ call.at = "idle"
    /\ ending = "no"
    /\ ending' = "closing"
    /\ call' = CallAt("closing")
    /\ UNCHANGED <<gdbVars, output, state, view, reader, pending, tokens, timeouts>>

\* transport.close() has returned: GDB is gone and the marker is queued; or it
\* has raised what the process session failed with, without a look at the
\* marker.  The reader is cancelled, whether or not it has come to that.
EndClose ==
    /\ call.at = "closing"
    /\ gdb.told \/ (gdb.at # "alive" /\ gdb.lost # "none")
    /\ ending' = "closed"
    /\ reader' = "ended"
    /\ state' = IF state = "FAILED" THEN "FAILED" ELSE "EXITED"
    /\ call' = CallAt("gone")
    /\ UNCHANGED <<gdbVars, output, view, pending, tokens, timeouts>>

-----------------------------------------------------------------------------
Caller == Start \/ Started \/ Return \/ EndWait \/ EndClose

SessionNext ==
    \/ Obey
    \/ InferiorStops
    \/ Garbage
    \/ OutputFails
    \/ GdbExits
    \/ GdbIsKilled
    \/ TellExit
    \/ Read
    \/ Caller
    \/ StartTimesOut
    \/ \E command \in GdbCommands : Send(command)
    \/ TimeOut
    \/ BeginWait
    \/ WaitTimesOut
    \/ BeginClose

SessionSpec == SessionInit /\ [][SessionNext]_sessionVars

\* GDB reads its input and dies of a signal, and the loop of the task runs both
\* coroutines.  Nothing is assumed of time limits, of the inferior, of what
\* clients ask for, or of the wait of the process session: it takes as long as
\* some descendant of GDB holds the pipes, and need not end.
FairSessionSpec ==
    /\ SessionSpec
    /\ WF_sessionVars(Obey)
    /\ WF_sessionVars(GdbIsKilled)
    /\ WF_sessionVars(Read)
    /\ WF_sessionVars(Caller)

-----------------------------------------------------------------------------
(***************************************************************************)
(* Properties.                                                             *)
(***************************************************************************)

\* When the reader has caught up, the session's state is the inferior's:
\* results, notices and time limits leave no stale RUNNING or STOPPED, as long
\* as nothing that GDB writes is lost.
StateAgrees ==
    /\ reader = "on" /\ output = <<>> /\ gdb.at = "alive" /\ gdb.lost # "stdout"
    /\ call.at \notin {"new", "starting", "gone"}
    => state = gdb.inferior

\* Between two commands, the session knows the breakpoints of its GDB and
\* whether they are enabled, as long as no command has timed out.
BreakpointsAgree ==
    call.at \in {"idle", "waiting"} /\ gdb.at = "alive" /\ state # "FAILED" /\ timeouts = 0
    => view = installed

\* What the session shows of its GDB is what GDB would show.
ViewAgrees == StateAgrees /\ BreakpointsAgree

\* A success is reported of what GDB has done, not of the command before it
\* that timed out.
SuccessIsReal ==
    call.at = "sent" /\ call.answer = "done" /\ call.op \in Switches
    => installed[call.bp] = Switch(call.op, installed[call.bp])

\* What wait_for_stop promises: it returns with the inferior stopped or
\* exited, or the session failed.  (The code reads the state after the waiter
\* has been resumed: the late answer of a continue that timed out makes it
\* RUNNING in between.)
WaitReturnsStopped ==
    call.at = "waiting" /\ call.woken /\ timeouts = 0 => state \in Stopped

\* The variables keep their types, and what a call returns is true.
SessionInv == SessionTypeOK /\ SuccessIsReal /\ WaitReturnsStopped

\* What close promises: the exit code of the GDB it terminates is no failure of
\* the session.  Only a line that cannot be read still is one, and the failure
\* of the process session at its output or its clean-up.
Unreadable(record) == record.kind = "garbage" \/ (record.kind = "exit" /\ gdb.lost # "none")

CloseIsNotFailure ==
    [][ending # "no" /\ state # "FAILED" /\ state' = "FAILED"
         => Unreadable(Head(output))]_sessionVars

\* A wait does not outlive the stop it waits for, nor GDB.
StopIsSeen ==
    call.at = "waiting" /\ (gdb.inferior \in {"STOPPED", "EXITED"} \/ gdb.at # "alive")
        ~> call.at # "waiting"

\* A command does not need its time limit to come to an end, even when GDB
\* dies over it or its answer is behind an unreadable line.
CommandsEnd == call.at = "sent" ~> call.at # "sent"

\* GDB is gone, and the wait for it never returns.
NeverTold == <>[](gdb.at # "alive" /\ ~gdb.told)

\* No caller waits for what has happened or can no longer happen, unless the
\* session is never told that its GDB is gone: then a time limit has to help.
CallsEnd == (StopIsSeen /\ CommandsEnd) \/ NeverTold
=============================================================================
