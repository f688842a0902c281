# A verification project for the resource co-debug platform backend

TLA+ models of the parts of the backend where several threads, event loops,
processes and remote services meet over shared state, TLC configurations that
check them on small instances, and TLAPS proofs that the safety properties the
runs check hold for every size.  Paths are relative to the root of the repository;
`platform/` and `modules/` stand for `src/app/platform/` and `src/app/modules/`.

Contents: [the system](#1-the-system), [the modules](#2-the-modules-and-the-code),
[the runs](#3-the-runs), [fairness](#4-fairness), [the proofs](#5-the-proofs),
[where the code falls short](#6-where-the-code-falls-short),
[what is not modelled](#7-what-is-not-modelled), [the plan](#8-the-plan).

To check a module: `tlc -config MCTaskStore.cfg MCTaskStore`.  To check the
proofs: `tlapm M.tla` for each of the eight modules `*_proofs`.

## 1. The system

The backend is one FastAPI process.  A client uploads a project and creates
tasks for it; a task is a row in a SQLite database, a worker thread of a pool of
eight with an event loop of its own, and usually a private copy of the project.
Contract modules (`code_generation`, `co_debug`, `vulnerability`) build on that.

### 1.1 Components

| Component | State it keeps | Operations | Interacts with |
|---|---|---|---|
| **Task store** `platform/services/task_store.py` | tables of task rows, workspace holds, clean-up queue, clean-up journal, artifact capabilities | insert, `try_start`, `request_cancel`, progress, command, metadata, hold and release, `finalize_with_transition`, `recover_interrupted_tasks`: each one transaction | everybody, by call, from any thread |
| **Task service, process tasks** `platform/services/task_service.py`, `process_runner.py` | futures of the pool, `_ProcessTaskControl` per task, workspaces on disk | create, cancel, the worker from `try_start` to clean-up, startup | store, logs, workspaces, subprocess |
| **Task service, shutdown** | life-cycle state, registered futures and their callbacks | `shutdown`, `close_resources_when_idle` | the pool's threads, the store it closes |
| **Process runner** `platform/services/process_runner.py` | process, group, pipes, reader tasks; for interactive sessions also completion, termination and monitor tasks | `run`; `open_interactive_process`, `wait`, `terminate` | the operating system, the log |
| **Log service** `platform/services/log_service.py`, websocket of `main.py` | log table, per follower a staging area, a queue, an overflow mark | append, subscribe with history, drain, unsubscribe | worker threads append; the server's loop reads |
| **Code generation tasks** `modules/code_generation/task_service.py` | run ids in memory, registered self scans, metadata of the row, holds | execute, cancel handler, retry, startup | the NaturalCC service, store, workspaces |
| **Vulnerability scans** `modules/vulnerability/task_service.py`, `platform/services/workspace_service.py` | active scans, a lock per project, the incremental workspace | execute, cancel, swap of the incremental tree | the Pipeline service |
| **Debug command channel** `modules/co_debug/debug/broker.py`, `debug/manager.py`, `services/interactive_debug_service.py` | queue, closed flag, registry of brokers, dispatcher | request, receive, resolve, close, register, unregister | API loop, managed loop, a pool thread |
| **GDB/MI session** `modules/co_debug/debug/session.py`, `debug/platform_transport.py` | state, breakpoints, pending tokens, waiter | start, commands, `wait_for_stop`, reader loop, close | GDB over an interactive process |
| **Debug coordination** `modules/co_debug/services/debug_coordination_service.py`, `debug_coordination_store.py`, `debug/events.py` | groups, members, rules, events (SQLite); a lock per group | create, command, remove, close, rules, handling of breakpoint hits | sessions, through the debug service |
| **Schedule experiments** `modules/co_debug/scheduler/scheduler.py`, `services/schedule_execution_service.py`, `services/schedule_comparison_service.py` | of one execution: the plan, a queue and a worker per CPU core, results | plan, run the queues, gather, compare two strategies | process runner; the flag of the managed task |
| **Repair builds** `modules/co_debug/services/repair_build_service.py`, `dependency/*.py` | a makefile in the workspace of a process task | analyze, detect, append rules, build | `make`, `gcc -MM`; the worker that awaits the thread |
| Workspaces `platform/services/workspace_service.py` | directories | copy, resolve, delete, incremental swap | the tasks above |
| Metrics, GDB/MI syntax, HTTP interface, HTTP clients | none between calls | pure functions, text processing, request translation | |

### 1.2 What is hard about them

* **Two ways to cancel.** A request to cancel goes through the row's flag and,
  for a worker that is awaiting something, through a cancellation scheduled in
  its loop.  Both can come before, between or after any two steps of the worker,
  and one that falls into the launch of a process must not be delivered then.
* **Verdicts compete.** The worker's own outcome, a cancel request, a time limit,
  a crash and the recovery at startup all want to close the same row.
* **Files against processes.** A workspace must not be deleted under a process, a
  group left behind by one, a remote run, or a client who was offered it; and it
  must not be forgotten either, across failing deletions, lost answers and crashes.
* **Responses between threads.** A debug request crosses three threads; its
  future may be cancelled by a time limit between the test of `done()` and the
  call that completes it, and the thread that pops the queue is not cancelled
  with the coroutine that awaits it.
* **Views of a remote state.** GDB's answers and notices arrive in GDB's order, not
  in the order of the calls, and late for calls that were given up.
* **Locks across awaits.** Coordination and incremental scans hold a lock while
  they await what others do.
* **Shutdown.** A future of `concurrent.futures` is finished before its callbacks
  have run.  The code generation service lets its retries end between the two halves
  of the task service's own shutdown, and a worker left at work may ask for one
  more at any time.
* **Workers of one round.** The first core worker that fails cancels the others, in
  whatever their job is doing, and nobody may return before they are gone.
* **A thread nobody can stop.** A repair runs in `asyncio.to_thread`; its worker may
  be cancelled, run out of time or fail beside it.

### 1.3 What makes each component correct

| Component | Correct means |
|---|---|
| Task store | a recorded cancel request wins; a verdict is final; fields agree with the status; files are offered only by tasks that succeeded; it implements the life cycle a client sees |
| Process tasks | no process outlives its task; a cancel request reaches the worker, never its spawn; every task closes; files are there exactly as offered |
| Shutdown | the database is closed after its last user, and does get closed; no dropped future leaves an open row |
| Process runner | when it returns, the group is dead and the output is over; it returns |
| Interactive processes | every process is watched; a closed task leaves nothing running; a failure is not passed over; a cancel request ends them |
| Logs | a follower sees a log without gaps, or is told |
| Code generation | no directory is deleted under a live run; `cleanup_pending` is true until there is nothing left to do |
| Experiments | the plan is what its strategy promises; cores run in order; when it ends nothing of it runs |
| Repair builds | `make` only runs on a makefile that is repaired; a repair is complete, adds what was missing and nothing else, and comes to an end |
| Scans | a scan reads its own tree; a failed swap loses nothing; every scan ends |
| Debug channel | every request is answered; a session ends from either side |
| GDB session | the view agrees with GDB; a success is real; no call waits for what cannot happen |
| Coordination | a session is in one group; a group commands its own members only; every claimed event gets one outcome |

## 2. The modules and the code

`map` in `PROJECT.json` gives the lines behind every definition.  Every property
is stated in a comment at the end of its module; definitions called *mutant* are
the ways in which the code could be wrong that the properties are tried against.

```
TaskLifecycle  <--(refined by)--  TaskStore  <--EXTENDS--  ProcessTasks  <--  RepairBuild
                                       ^  ^--------------  ServiceShutdown        |
                                       '-----------------  CodeGeneration         v
                                                                          DependencyRepair
Subprocess  <--EXTENDS--  BatchProcess  <--EXTENDS--  ScheduleExecution  -->  Scheduler
                 ^------  InteractiveProcess
LogStream   DebugBroker   GdbSession   DebugCoordination   VulnerabilityScan
```

The modules `..._proofs` hold the theorems, most of them about the module they are
named after; `RepairBuild_proofs` also those about process tasks and
`DependencyRepair`, `PlatformServices_proofs` those about `ServiceShutdown` and
`LogStream`, `Debugging_proofs` those about the three modules of debugging.  The
modules `MC...` are the instances for TLC.

**TaskLifecycle** is the abstract specification: what the API's client is
promised of a task, without database, threads or processes.

**TaskStore** has one action per SQL statement that changes rows.  `rows[t]` is
the row, `holds`, `queue`, `completion` and `artifacts` are the other tables.  A
row keeps status, cancel flag, progress, error class, whether start, end and
result are set, and the metadata keys.  Every method runs one transaction under
the connection's lock, so an action is atomic; `StoreSpec` lets any caller call
anything at any time, which makes it the interface that `ProcessTasks` is shown
to keep (`UsesTheStore`).

**ProcessTasks** composes the store with the server's loop (`desk`), workers
(`pc`), controls, subprocesses, workspaces and crashes.  One step of a worker is
what it does between two points where another thread can come in: a database
call, the control's lock, an `await`.  `injected` is a cancellation scheduled in
the worker's loop, delivered at its next `await`.  `Crash` loses threads,
controls, futures and processes (the unit kills its control group) and keeps the
database and the directories; `Restart`, `RecoverWorkspace` and `Serve` are
`startup`.  The tasks in `Repairs` are repair builds: `preparer[t]` is their thread,
which reads the makefile, analyzes it and writes it back in steps of its own, and
goes on when its worker has given up.

**DependencyRepair** is what that thread computes, as functions on makefiles:
`Actual` is the analyzer (recipes, and what the compiler says of each source),
`Declared` and `Missing` the detector, `Repaired` the rules that are appended.  Rules
are kept as they are written: a pattern has its `%`, in its target, its prerequisites
and its recipe, and the analyzer reads its recipe with the `%` in it, as the code does;
`Fill` puts a stem in its place.  `MakeNeeds` and `Reads` are the reference it is
checked against: what `make` rebuilds a target for, and what that target's command
reads.  **RepairBuild** puts the two
together: a makefile that a finished thread wrote, under a running `make`.

**ServiceShutdown** composes the store with the pool's futures: a future settles,
then its thread runs the callbacks in order; `main` is the lifespan of the
server.  Workers in `Generating` post retries to the server's loop
(`call_soon_threadsafe`); the code generation service cancels those it knows and waits
until they are gone (`BeginRetiring`, `AllRetired`), before what they use is closed.

**Subprocess** is the command, a descendant, their pipe and the reader task, with
what Python 3.11 does: `Process.wait()` returns when the process has exited *and*
its pipes are closed.  **BatchProcess** is `ProcessRunner.run`, which
`ProcessTasks` takes in two steps; **InteractiveProcess** the sessions of a
managed task: three tasks per process, the executor, and the end of the task.

**Scheduler** is `plan_tasks`, one placed job a step.  **ScheduleExecution** runs its
plan over `BatchProcess`: a worker per core, the `gather` around them, and one round
or two.  An interrupted job gets its interruption wherever its run is, the launch
included.

**CodeGeneration** has up to three actors per task, `worker`, `handler` and
`retry`, going through the same steps of convergence (`Converge`) in parallel,
and the remote run, whose creation may succeed although its answer is lost.
`hindered` records, for the liveness property only, that something outside the code
stood in the way of convergence since the last start.

**LogStream**, **DebugBroker**, **GdbSession**, **DebugCoordination** and
**VulnerabilityScan** stand for themselves; each says in its head which threads
take part and what a step is.  In `DebugBroker` the test of `done()` and the
completion of a response are two steps.  In `DebugCoordination`, `line[g]` is the
queue of an `asyncio.Lock` with its holder at the head.  In `VulnerabilityScan` a
tree is known by the task it was copied from, and the swap is copy, move away,
move in, drop.

The composed modules leave out what another one has: `ServiceShutdown` does not
repeat the worker, `InteractiveProcess` not the rows, `DebugBroker` takes a
command as an answer that comes, and `GdbSession` shows that it comes
(`CommandsEnd`), unless nobody tells the session that its GDB is gone.

## 3. The runs

Every run checks the invariants and properties named below; those of its
properties that are conjunctions are listed with their parts.  For each there is
at least one mutant in `PROJECT.json` that the run refutes.

| Run | Instance | States | What it shows |
|---|---|---|---|
| `task_store` | 2 tasks, symmetric, no metadata keys, progress 0..1 | 17,955 | `TypeOK`; `StoreSafe` (`CancelWins`, `RowCoherent`, `ArtifactsOnlyOfSucceeded`); `RowsOnlyAdvance` (`TerminalIsFinal`, `ProgressNeverFalls`); `ImplementsLifecycle`: the refinement of `TaskLifecycle` |
| `process_tasks` | 2 tasks, one of them a repair build, 1 thread, 1 crash, failing copies, final writes and deletions | 138,678 | `BuildsOnRepaired`, over 2,544 makefiles; `ProcessInv` (types, `SpawnNeverInterrupted`, `NobodyForgotten`); `NoProcessOutlivesTask`; `FilesAsOffered` (`OfferedFilesExist`, `NothingLeftBehind`); `CancelReachesWorker`; `EveryTaskCloses`; `UsesTheStore` |
| `service_shutdown` | 2 tasks, one of which leaves a retry; listing and cancelling may fail | 633,344 | `ShutdownInv` (types, `DroppedFuturesAreClosed`); `NoUseAfterClose`, by workers and by retries; `ShutdownEnds` (`ShutdownReturns`, `ResourcesCloseWhenIdle`) |
| `code_generation` | 1 task, 3 actors, 2 attempts per retry, 2 crashes, failing deletions | 43,315 | `CodeGenInv` (types, `OfferedFilesExist`, `ScanKeepsItsFiles`); `RunKeepsItsFiles`; `LeftoversAccounted` (`PendingUntilConverged`, `LeftoversKnown`); `TasksConverge` (`EveryTaskCloses`, `ClosedTasksConverge`) |
| `log_stream` | 2 followers, buffers of 2, 5 events | 129,431 | `LogInv` (types, `ClientSeesNoGap`, `NothingLostQuietly`); `OverflowIsTold` |
| `debug_broker` | one command, one wait, one close; time limits on command and close; failing output | 74,410 | `DebugInv` (types, `CloseFailsAllPending`); `SessionEnds` (`SessionEndAnswersAll`, `ExitEndsSession`, `CloseEndsSession`) |
| `gdb_session` | 1 breakpoint, 4 commands, 1 time-out, unreadable lines, GDB exiting, a failing process session | 1,792,952 | `SessionInv` (types, `SuccessIsReal`, `WaitReturnsStopped`); `ViewAgrees` (`StateAgrees`, `BreakpointsAgree`); `CloseIsNotFailure`; `CallsEnd` (`StopIsSeen`, `CommandsEnd`) |
| `debug_coordination` | 2 groups, 2 sessions, 1 rule, 1 hit, 2 requests, failing final writes | 76,672 | `CoordInv` (types, `SoleMembership`, `ProcessingHasHandler`); `CommandsItsOwn` (`ActsOnMembers`, `OneCommander`); `OutcomesAreFinal`; `OperationsEnd` (`EventsGetOutcome`, `LockComesFree`) |
| `vulnerability_scan` | 3 scans, 2 of them incremental, every step failing, a crash | 50,784 | `ScanInv` (types, `OldTreeSurvives`, `SwapsAreSwept`); `ScanSeesItsTree`; `ScansEnd` (`CancelEndsScan`, `EveryScanEnds`) |
| `schedule_execution` | 3 jobs on 2 cores, 2 workloads, a comparison of both strategies, every kind of descendant, failing readers | 577,754 | `ExecutionInv` (`GroupDiesFirst`, `NoLateOutput` of each run, types, `CoresRunInOrder`, `ResultsComplete`); `PlanHolds`; `NothingOutlivesIt`; `ExecutionEnds` |
| `interactive_process` | 2 sessions, every kind of descendant, failing readers, full pipes, a total time limit | 502,168 | `InteractiveInv` (types, `ClosedIsQuiet`, `FailureIsTold`); `EveryProcessIsWatched`; `SessionsEnd` (`CancelEndsProcesses`, `LeftTaskCloses`) |
| `batch_never_ends` | 1 command, without descendants that leave the group | | a violation of `RunEnds`, see section 6 |

`CHECK_DEADLOCK FALSE` is set where the modelled system may really stop: a
closed task, a finished shutdown, requests and crashes that are used up.  The
store never stops, and deadlock is checked there.

### Why the bounds are enough

* *Tasks.* Rows, controls, futures, runs and logs are keyed by the task and no
  code reads another task's.  Tasks meet in the recovery (all rows in one
  statement), the pool (one waits while another runs) and the shutdown (the last
  one closes): two tasks show each.  `CodeGeneration` has no such meeting, hence
  one task.  In `ProcessTasks` two workers only meet in the store, whose steps
  `task_store` takes in every order; the run has one thread, so that the other
  task is queued, which is where `DropFuture` finds it.  (The same properties were
  also checked with two threads.)
* *Metadata keys* are stored and merged key by key, and no statement of the store
  looks at one; the proofs are for any set of keys, `code_generation` uses its three.
* *Progress* is compared, never computed with: two or three values.
* *Crashes.* One for process tasks, whose startup leaves nothing to come back to;
  two for code generation, so that a second one can hit the recovery of the first.
* *Retries.* Two attempts: one that is followed by another and one that is the last.
* *Logs.* Buffers of two lines overflow at three; five events let the staging
  area and the queue be full while older lines are pruned.
* *Debug requests.* Three: one that is being dispatched or popped, one queued
  behind it, one that closes; one of each kind.
* *GDB commands.* Four: run, stop, resume, and one more whose answer can be taken
  for that of a command given up before it; a command that times out twice is one
  that times out once, seen from the second.
* *Coordination.* Two groups for a session to be claimed by, two sessions to be
  source and target of a rule, two requests besides the handling of a hit.
* *Scans.* Two incremental ones share the tree; one that is not must not care.
* *Sessions of a task.* Two, as they are ended one after the other.
* *Retries at shutdown.* One task posts them; those of two are awaited together, and
  the second task is the worker that ends before, between or after.
* *Jobs.* Three on two cores: one core has a queue while the other works.  The
  workloads make the two strategies differ, and the first job be overtaken on its core.
  The second round plans with any of the workloads, as measured.  Only the job
  in `Wild` has descendants, floods its output or fails to start: two such jobs
  meet in nothing but the end of the round, which the first of them brings about.
* *Makefiles.* Two sources with their objects, a program and a header, rules for one
  object and the program, one or two patterns in any order, each kind of recipe;
  among the patterns, ones that name a library, a fixed output or a source in their
  recipe, and ones without a recipe.  A defect of the analysis needs two rules that
  concern one target, or one source.  That the premises are met: 997 pairs of a makefile
  and a target satisfy them and read something, 676 of them through a pattern, and 125
  have something missing; in 564 makefiles a line is appended for a pattern.

## 4. Fairness

Nothing is assumed of clients, of programs that run, of inferiors, of remote
services or of crashes: any of them may never act.  Assumed is, as weak fairness,
that the code gets on when it can:

| Specification | Fair | Because |
|---|---|---|
| `FairProcessSpec` | the server's loop, its startup, `PickUp`, each worker, the thread of each repair | threads and loops are scheduled; a worker that waits for its process has its deadline, which always comes.  **Not** fair is what comes after the kill: `process.wait()` waits for the pipes, section 6, so `EveryTaskCloses` exempts a run that never returns |
| `StoppingSpec` | the lifespan's own sequence, the retries it waits for among it | it runs in the server's loop; of the workers nothing is assumed, but `ResourcesCloseWhenIdle` is conditional on `WorkersEnd` |
| `FairCodeGenSpec` | startup; per task the worker, the cancel handler, the retry | threads and loops are scheduled, and every call to NaturalCC has a time limit; that it confirms anything is not assumed, `ClosedTasksConverge` exempts tasks that are `hindered` |
| `FairLogSpec` | the websocket handler of each follower | it awaits its queue in the server's loop |
| `FairDebugSpec` | both loops, the pool thread in `queue.get`, GDB's end once it was terminated, the end of a wait once GDB is gone | `transport.close` escalates to a kill; the session fails its waiters when its reader ends.  That nobody else holds the pipes of the GDB it kills is assumed here; `GdbSession` does without |
| `FairSessionSpec` | GDB reading its input, the reader, the caller, GDB's end once closing or once its process session failed | as above; time limits are never needed.  **Not** fair is the end marker (`TellExit`), which waits for the pipes: `CallsEnd` exempts a GDB that is gone without the session being told |
| `FairCoordSpec` | delivery of hits, and each operation that holds a lock | calls to a session have a time limit or fail with the session |
| `FairScanSpec` | workers, `cancel_task` | `EveryScanEnds` is conditional on `LimitsExpire`: every scan is created with a time limit |
| `FairBatchSpec` | the steps of `run`, the clock | a poll every 0.1 s against a deadline |
| `FairExecSpec` | the same per job, each core worker, the task around them | one event loop; of the commands nothing, but `ExecutionEnds` exempts a pipe that is full, or that a descendant in another group holds for ever |
| `KindInteractiveSpec` | the tasks of the loop, the end of a task, **and descendants that hold a pipe** | the last is not in the code's hands, see section 6; `FairInteractiveSpec` is without it.  A pipe that filled up behind a failed reader does not close even so: `SessionsEnd` exempts it |

## 5. The proofs

Every invariant and every action property that a run checks is a theorem of the
specification, for any value of its constants under the assumptions that the module
states about them (`...Assumption`).  What stays with TLC are the liveness
properties, the last one in most rows of section 3: the proof system has no rule that
gets from fairness to progress.  It has no induction over recursive definitions either,
so the makefiles' functions are defined without recursion.

All proofs have the same plan.  The property is not inductive; the invariant that is
says of each place in the code what holds there, as a conjunction of parts named
`...Fits`, mostly of one task, session, job or request by itself.  It was model-checked
as an invariant of the run before it was proved.  A lemma per action (or per change
that several actions have in common) shows that the action keeps it, one step per part
that the action disturbs; the theorems then read their property off it.

### The task store (`TaskStore_proofs`)

For any set of tasks and metadata keys and any scale of progress:

| Theorem | States |
|---|---|
| `StoreTypeCorrect` | `StoreSpec => []TypeOK` |
| `StoreIsSafe` | `StoreSpec => []StoreSafe` |
| `StoreOnlyAdvances` | `StoreSpec => RowsOnlyAdvance` |
| `StoreImplementsLifecycle` | `StoreSpec => ImplementsLifecycle` |

Every method rewrites at most one row, from that row alone, and the recovery rewrites
each active row from itself.  So the proof is about one row: `RowGood` is the
inductive strengthening, `RowStep(old, new)` what a rewriting may do.  A lemma per
method (`StartedRow`, `CancelledRow`, `FinalizedRow`, ...) proves that it takes a good
row through a `RowStep`; `StepOfEveryRow` lifts that to `StoreNext`.

`CancelWins` alone is not inductive: a running row with the flag and a result already
written would satisfy it and be closed as cancelled with that result.  `RowGood` adds
that running rows are started and have no result, that waiting rows are not flagged,
and that rows which are absent have no progress.  `ArtifactsOnlyOfSucceeded` needs that
a verdict is final.

The refinement maps status and flag to a life (`LifeOf`): running with the flag is
"stopping".  `StoreStepIsLifeStep` goes through the methods: a start is `Begin`, a
cancel request `Stop`, a finalize `End`, the recovery `Settle`, everything else a
stutter; initial states map to initial states.

### Process tasks and repair builds (`RepairBuild_proofs`)

For any tasks, threads, crashes and faults, any finite list of explicit and pattern rules
over any files, with any recipes, and anything the compiler may say:

| Theorem | States |
|---|---|
| `ServiceUsesTheStore` | `ProcessSpec => UsesTheStore` |
| `ServiceIsSafe` | `ProcessSpec => []ProcessInv` |
| `ProcessesEndWithTheirTask` | `ProcessSpec => []NoProcessOutlivesTask` |
| `FilesAreAsOffered` | `ProcessSpec => []FilesAsOffered` |
| `CancellationsReachWorkers` | `ProcessSpec => []CancelReachesWorker` |
| `OnlyAdds` | `RepairOnlyAdds`: rules are kept, and what is added is a dependency the analysis found and the makefile did not have |
| `IsComplete` | `RepairIsComplete`: after a repair, `make` has for every plain target that is the only user of its sources all that its build reads |
| `SecondIsLast` | `SecondRepairIsLast`: a repaired makefile, repaired again, does not change any more, if the analysis finds no pattern word that its rules do not have |
| `RepairsHold` | `RepairHolds`, the three together |
| `BuildsRepaired` | `ProcessSpec => []BuildsOnRepaired` |

*The service.*  `StepUsesTheStore` shows that each step of the service is a step of the
store or leaves it alone; by it the theorems about the store are theorems about the
service.  `ServiceInv` then says of each task, by itself, how its row (`RowFits`),
control (`ControlFits`), process (`ProcessFits`), files (`FilesFit`), the
server's loop (`DeskFits`, `RequestFits`) and a crash (`CrashFits`) fit the place of
its worker.  None of the four invariants is inductive without the others: that a
cancel request reaches a worker needs that the loop does not lose the task it is
poking, that no process outlives its task needs that a worker with one is responsible
for the row, and files are as offered because only a worker that has come to its
workspace can have won.  A step of one task leaves what is said of the others; the
crash and the startup touch all of them alike.

*Repairs.*  The analysis depends on the rules alone, and a repair leaves them
(`ActualOfRules`), so before and after can be compared on one set of actual
dependencies.  For completeness, `InputsAreFound` shows that the inputs of a plain
target's command are among the dependencies found from recipes or from patterns,
and `PutDownToItsUser` that the headers of a source with only one user are put down
to that user and not to the compiler's own name for the object; the first rule or
pattern in the order of the file is there because rules are numbered, and uniqueness
makes it the one in question (`SourceOfRule`).  `IsPlain` and `OnlyUser` are needed:
section 6 lists what the repair misses without them.  That the command of a pattern names
only what its target needs anyway is one of the conditions of `IsPlain`: the analyzer puts
what else it names down to the pattern itself, where it is of no use.  The second repair
is the last, not the first, because a target that only a pattern declared becomes explicit by the
first, and the pattern's prerequisites missing with it.

*Builds.*  That `make` never runs beside or before the thread follows from
`ProcessFits`: a worker of a repair build past its preparation left its thread at
`written`.  What the makefile is then is `RepairsHold`.

### Shutdown and logs (`PlatformServices_proofs`)

| Theorem | States |
|---|---|
| `DroppedFuturesHaveEnded` | `ShutdownSpec => []ShutdownInv` |
| `DatabaseOutlivesItsUsers` | `ShutdownSpec => []NoUseAfterClose` |
| `LogsAreSeenWhole` | `LogSpec => []LogInv` |

*Shutdown*, for any tasks and whatever the workers do.  A future that may still use
the database is registered; whoever closes the database finds nothing registered, and
nothing is registered later because the server has stopped serving by then
(`FutureFits`, `CloseFits`); the code generation service is closed without a retry
alive before that (`RetriesFit`).  A future is dropped only before a thread took it:
`DropFits` says that a row without a thread is waiting or cancelled, and after the round
of `shutdown` cancelled, or one of those that could not be stopped (`unstopped`).  It
needs of the store that waiting rows are not flagged.

*Logs*, for any followers, length of the log and size of the buffers.  What a client
was sent, its history, its queue and its staging area are pieces of one numbering that
follow end to end (`Borders`), up to the last line unless the follower is marked as
overflowed.  The history ends where the queue begins, so that the cut-over by sequence
number leaves out no line.

### Code generation (`CodeGeneration_proofs`)

For any tasks, attempts, crashes and faults:

| Theorem | States |
|---|---|
| `GenerationUsesTheStore` | `CodeGenSpec => StoreSpec` |
| `RunsKeepTheirFiles` | `CodeGenSpec => []RunKeepsItsFiles` |
| `GenerationIsSafe` | `CodeGenSpec => []CodeGenInv` |
| `LeftoversAreKnown` | `CodeGenSpec => []LeftoversAccounted` |

That a live run keeps its directory rests on a chain: a live run has a hold, a hold has
a directory (`RunFits`).  What makes that inductive is who may be where at the same
time: while the worker has no run yet, or scans, nobody is past asking for the end of
one, and a retry goes on only after the worker has left (`WorkerFits`,
`ConvergeFits`); a row that has not been started has none of it (`FreshFits`).  What is
left of a closed task is always on some list, that of the startup after a crash
included (`ClosedFits`, `StartupFits`).  `CancelWins` of the store is used: a worker that
saw no cancel request may succeed only while there is none.

### Debugging (`Debugging_proofs`)

For any clients, breakpoints, groups, sessions, rules and hits, any number of requests
and time limits:

| Theorem | States |
|---|---|
| `CloseAnswersAll` | `DebugSpec => []DebugInv` |
| `AnswersAreReal` | `SessionSpec => []SessionInv` |
| `ViewsAgree` | `SessionSpec => []ViewAgrees` |
| `ClosingIsNoFailure` | `SessionSpec => CloseIsNotFailure` |
| `CoordinationIsSafe` | `CoordSpec => []CoordInv` |
| `GroupsCommandTheirOwn` | `CoordSpec => []CommandsItsOwn` |
| `OutcomesStay` | `CoordSpec => OutcomesAreFinal` |

*The channel* (`ChannelInv`).  That `close` leaves nobody waiting is not inductive:
it says nothing of the requests on their way while `close` runs.  A request that was
sent is in one place at most, the queue, what `close` has drained, the pool thread or
the dispatcher (`QueueFits`, `ClosingFits`); while nobody gives up, one without an
answer is in one of them (`AnswersFit`); and the marker enters the queue with the end
of `close`, after which nothing else does.

*The session* (`FollowingInv`).  GDB takes commands in the order of their tokens and
answers each once, so that behind an answer there are only answers to later commands
(`InputFits`, `ResultsFit`).  The last of the records under way that tells of the
inferior tells what it is (`LastWord`), which makes `StateAgrees` inductive.  While
nothing was given up, what is under way belongs to the command that waits
(`OnlyPending`), and GDB is ahead of the view by that command at most (`ViewFits`); so the
breakpoint half of `ViewsAgree` and the waiting half of `AnswersAreReal` are about sessions
in which no command has timed out, while successes and states hold through any time-outs.
That a wait returns with the inferior stopped needs `NoticesFit`: between a stop and
the inferior running again there is the answer to some command, and nobody has sent
one while the caller waits.

*Coordination* (`CoordinationInv`).  Only the first operation in the line of a group
has begun, what it awaits are members of its group (`OpFits`, `HolderFits`), and an
event is in the line once, `PROCESSING` (`EventsOnce`); only one whose final write
failed (`unsettled`) is `PROCESSING` without being there.  What an operation does under
the lock comes down to five changes of its line, each with a lemma.  A hit finds
finitely many rules (`ActiveFinite`), which is what lets its handlers be put in line.

### Scans (`VulnerabilityScan_proofs`)

For any tasks, any of them incremental, and any faults: `ScansSeeTheirTree`
(`ScanSpec => []ScanSeesItsTree`) and `SwapsAreSafe` (`ScanSpec => []ScanInv`).  `SwapFits` and
`StableFits` say which directories exist at each place of the swap; who holds the lock
is the only one in a swap, so the stable tree is described there too.  `OldTreeKept` is
`OldTreeSurvives` for the moment between the two renames.

### Interactive processes (`InteractiveProcess_proofs`)

For any number of sessions with any descendants: `ClosedTasksAreQuiet`
(`InteractiveSpec => []InteractiveInv`) and `ProcessesAreWatched` (`InteractiveSpec =>
[]EveryProcessIsWatched`).  A session that is being ended has lost its leader first, a
leader that is alive has its monitor or is still to be ended by the task, and sessions
are still to be ended only while the task is being closed (`SessionFits`, `TaskFits`).

### Experiments (`ScheduleExecution_proofs`)

For any jobs, cores and lengths:

| Theorem | States |
|---|---|
| `PlansHold` | `ExecSpec => []PlanHolds` |
| `ExecutionIsSafe` | `ExecSpec => []ExecutionInv` |
| `ExecutionLeavesNothing` | `ExecSpec => []NothingOutlivesIt` |

That jobs of a core follow one another without a gap and that the balanced strategy
keeps the cores level are inductive as they stand, one placed job after another.
Round robin needs `DealtInTurn`: the first `n` jobs are dealt out and the first
`n % Len(CoreIds)` cores have one more than the others (`NextTurn` is the lemma on
remainders).  The queue of a core is what its plan has left (`QueueFits`): before its
head everything has run, behind it nothing has begun; so the interruption of a round
only ever meets the head of a busy core, and when the round is over nothing runs.

## 6. Where the code falls short

*A run* (`batch_never_ends`).  `ProcessRunner.run` may never return: a line longer
than the reader's limit ends the reader task without notice
(`process_runner.py:549`), the output that follows fills the stream and asyncio
stops reading the pipe; at the deadline the group is killed, but the
`process.wait()` after it (`process_runner.py:422`) also waits for the pipe.
Neither the time limit nor a cancel request ends that task, and it keeps its thread of the
pool, which has eight: hence `<>[](pc[t] = "reaping")` in `EveryTaskCloses`.
`ExecutionEnds` says how far the promise is kept: in every execution but those with a
full pipe, or with a pipe that a descendant in another group holds for ever.

The other divergences met while modelling are exempted by name in the property
they would break, so that the property says what does hold:

* `InteractiveProcess`: terminating a session whose leader has exited only awaits
  its output (`process_runner.py:84`); a descendant in the group that keeps stdout
  open delays the end of the task, for which neither cancel nor time limit helps.
  Hence `KindInteractiveSpec`.
* `InteractiveProcess`: when the handler of the output raises or a line is too long, the
  reader of a session is gone (`process_runner.py:571`) and its group is killed; a
  descendant in another group that writes on, or what is left in the pipe, fills the
  stream, asyncio stops reading the pipe, and `process.wait()` (`process_runner.py:115`,
  `422`) does not return even when the descendant lets go.  The task ends its
  sessions one after the other, so that it and the sessions behind this one stay too.
  Hence `PipeStuck`.
* `ServiceShutdown`: a future that is finished but not yet forgotten when
  `close_resources_when_idle` hooks it finds itself among the background futures,
  and nobody closes the database (`task_service.py:426`).  Hence `LeftAtWork`.
* `ServiceShutdown`: a cancel request that raises is logged and the loop goes on
  (`task_service.py:399`); the future of its task is cancelled all the same
  (`task_service.py:410`), and when the tasks cannot be listed at all the executor drops
  what is pending (`task_service.py:421`).  Such a task is `PENDING` with nobody to run it
  until the recovery of the next startup.  Hence `unstopped`.
* `DebugBroker`: a time limit that expires between `done()` and `set_exception`
  aborts `close` with requests behind it unanswered (`broker.py:293`); between
  `done()` and `set_result` it makes the dispatcher, and the task of a session that
  was closed in order, fail (`broker.py:231`).  A request popped by the pool thread
  for a dispatcher that is cancelled is answered by nobody (`broker.py:195`), and
  a `WAIT_FOR_STOP` has no time limit by default.  Hence `Expired` and `pool.item`.
* `GdbSession`: the late answer of a `continue` that timed out makes
  `wait_for_stop` return `RUNNING` (`session.py:692`), against its docstring.
  Hence `timeouts = 0` there; in `BreakpointsAgree` it stands for the breakpoint commands
  that time out and are done later, whose answers nobody notes.
* `GdbSession`: the process session fails when its output cannot be handled or its
  clean-up does not succeed; what `wait()` raises reaches the reader through the marker of
  `_monitor_completion` (`platform_transport.py:243`, `200`) and makes the session
  `FAILED` although it is being closed.  The marker comes when `wait()` returns: while a
  descendant of GDB holds the pipes, the session is not told that GDB is gone, and a command
  waits for its time limit, a `wait_for_stop` for ever.  Hence `Unreadable`, `NeverTold`.
* `VulnerabilityScan`: incremental scans of different tasks share one root
  (`workspace_service.py:147`) where `docs/naturalcc-integration.md:69` promises a
  new one per task, and the service may go on reading a tree after its stream was
  closed, when the next scan already replaces it.  `ScanSeesItsTree` is about scans
  somebody waits for.  A crash between the two renames leaves no stable tree, and
  a copy that fails leaves its part in the staging directory (`wrecked`).
* `ProcessTasks`: a final write that fails leaves a `RUNNING` row until the next
  start (`pc = "failed"`); a workspace of a process task whose deletion failed is
  not retried, nor is one whose visit at startup failed (`missed` in
  `CodeGeneration`).  A repair is done in a thread that cannot be stopped: when its
  worker gave up, it may still write into a workspace that is being deleted, and
  create it again (`repair_build_service.py:92`, `dependency_repair.py:96`).
* `CodeGeneration`: a retry that is asked for while its task is still open may spend
  all its attempts before the task closes (`task_service.py:817`); the task then stays
  pending until the next startup.  Hence `hindered`.
* `ScheduleExecution`: the worker of a core is interrupted by asyncio, without the
  boundary around a launch that process tasks have; a process interrupted in its
  spawn loses its leader, and a descendant it already had may live on.  Hence
  `spawn_interrupted` in `NothingOutlivesIt`.
* `DependencyRepair`: a source that is compiled for two targets has its headers put
  down to the first one only; a pattern `%.d: %.c` before `%.o: %.c` takes them to the
  `.d` file; the resolver takes the first pattern that matches, `make` the most
  specific.  The recipe of a pattern is read like any other, with the `%` in it
  (`dependency_analyzer.py:142`): for `libutil.a` in the recipe of `%`, or the headers of a
  source that a recipe of a pattern names, a line `%: libutil.a` is appended
  (`dependency_repair.py:183`), which `make` ignores because it has no recipe; the targets that
  the pattern makes do not get the prerequisite.  With a fixed output in the recipe of a
  pattern, the line appended for it may have `%.c` literally as its prerequisite, which
  nothing can build.  Hence `OnlyUser` and `IsPlain`, and `NoNewPatterns` for the second
  repair.  An appended prerequisite is part of `$^`,
  so a recipe with `$^` passes headers to its compiler.  A repaired makefile that is
  analyzed again has the prerequisites of patterns missing (`SecondRepairIsLast`).
* `GdbSession`: GDB deletes a temporary breakpoint when it is hit, the session goes on
  listing it; temporary breakpoints are left out.
* `DebugCoordination`: an event that is `PROCESSING` when the server stops stays so, and so
  does one whose `finalize_event` raises: it is outside the `try` of its handler
  (`debug_coordination_service.py:451`), whose exception is only logged.  Hence `unsettled`.
  The handlers of the same hit that run beside it are then no longer awaited by anybody.

## 7. What is not modelled

* GDB/MI parsing and quoting, the text of makefiles, shell words and compiler output:
  sequential functions on strings.  The models begin with what they return, a refused
  line included.
* Metrics and summaries of builds and experiments: arithmetic on results that nothing
  reads back.
* HTTP routes, upload limits, authentication of services, configuration: they keep
  no state between requests.
* Within modelled components: the optimistic revision of `save` (only tests save
  an existing row), listing queries, schema migration; the protocol and the results
  of NaturalCC and Pipeline; frames, streams and temporary breakpoints of GDB;
  validation of names and rates; the Windows job object; CPU affinity.
* Within `DependencyRepair`: static pattern rules, `$*` and functions of `make` in recipes,
  names with several `%`, sources that include sources, more than one command of a
  recipe that the analyzer knows.
* A total time limit that falls into `create_subprocess_exec` itself kills the
  leader alone; the models let a process start when the spawn returns.
* `CodeGeneration` takes the final write of its worker as one that succeeds; what its
  failure leaves behind is in `ProcessTasks`, for the same lines of the task service.
* `DebugCoordination` stops at `close()`: handlers cancelled then leave their
  events `PROCESSING`, which nothing reads afterwards.  Rules deleted after a hit
  still fire, as in the code.

## 8. The plan

Done, in this order: the store and its life cycle; process tasks; shutdown; code
generation; logs; debug channel; GDB session; coordination; scans; processes;
scheduler and execution of experiments; dependency repair and repair builds; liveness
of code generation; the code generation service's part of the shutdown; the proofs of
every invariant and action property among them.

Next, the model, and its proofs with it:

1. the end of the lifespan across the remaining services (the debug coordination
   service and its store are closed under workers that were left at work);
2. locations and temporary breakpoints of a GDB session;
3. the optimistic revision of `save`, once something else than a test uses it.

Next, the proofs:

1. what the parts promise each other: `DebugBroker` takes a command as an answer that
   comes, `DebugCoordination` a session as one that obeys; the abstract session that
   `GdbSession` implements would state both;
2. `Subprocess` in general: that a `BatchProcess` and an `InteractiveProcess` whose
   output is over have lost their group, once for both.
