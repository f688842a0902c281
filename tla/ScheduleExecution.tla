--------------------------- MODULE ScheduleExecution ---------------------------
(***************************************************************************)
(* A schedule experiment or comparison of co_debug: one or two rounds, in  *)
(* each of which the jobs are planned (Scheduler) and then run by one      *)
(* worker per CPU core, job after job (BatchProcess).  The first worker    *)
(* that fails ends the round for all of them.                              *)
(*                                                                         *)
(* The workers are asyncio tasks of one event loop: a step is what one of  *)
(* them does between two awaits.  The lock around the results is never     *)
(* held across an await, so it is left out.  The managed task around       *)
(* execute is only ever cancelled by its flag: it has no total time limit. *)
(* A comparison has one workload here; several run one after the other.    *)
(***************************************************************************)
EXTENDS BatchProcess, Scheduler, FiniteSets

CONSTANT
    Experiments  \* the strategies of an experiment, in their order

VARIABLES
    rounds,   \* the strategies that have not been tried yet
    phase,    \* where the managed task is
    line,     \* line[c]: the jobs of a core, the one under way first
    worker,   \* worker[c]: run_core_queue
    results,  \* task_results: the jobs that have one
    verdict   \* whether execute has returned, or raised

execVars == <<rounds, phase, line, worker, results, verdict>>
allVars == <<vars, planVars, execVars>>

ASSUME ExecutionAssumption ==
    /\ Procs = Jobs
    /\ Experiments \subseteq
           {<<"FIFO_BASELINE", "RESOURCE_AWARE">>} \cup {<<s>> : s \in Strategies}

Cancelled == \E j \in Jobs : cancel[j]

ExecTypeOK ==
    /\ rounds \in Experiments \cup {<<>>} \cup {<<s>> : s \in Strategies}
    /\ phase \in {"ready", "planning", "running", "stopping", "over"}
    /\ \A c \in Cores : \A i \in DOMAIN line[c] : line[c][i] \in Jobs
    /\ worker \in [Cores -> {"new", "busy", "done", "failed"}]
    /\ results \in SUBSET Jobs
    /\ verdict \in {"none", "returned", "raised"}
    /\ verdict = "raised" => phase = "over"

ExecInit ==
    /\ rounds \in Experiments
    /\ phase = "ready"
    /\ line = [c \in Cores |-> <<>>]
    /\ worker = [c \in Cores |-> "done"]
    /\ results = {}
    /\ verdict = "none"
    /\ strategy = Head(rounds) /\ estimate \in Workloads /\ PlanBegins
    /\ proc = [j \in Procs |-> Unborn]
    /\ at = [j \in Procs |-> "idle"]
    /\ outcome = [j \in Procs |-> "none"]
    /\ cancel = [j \in Procs |-> FALSE] /\ late = [j \in Procs |-> FALSE]

(***************************************************************************)
(* Around the workers.                                                     *)
(***************************************************************************)
\* The first round plans with the lengths of the request, the second with those
\* measured in the first.
BeginRound ==
    /\ phase = "ready" /\ ~Cancelled
    /\ phase' = "planning"
    /\ strategy' = Head(rounds) /\ rounds' = Tail(rounds)
    /\ estimate' \in IF verdict = "none" THEN {estimate} ELSE Workloads
    /\ todo' = Jobs /\ place' = [j \in Jobs |-> Nowhere]
    /\ load' = Zero /\ length' = Zero
    /\ results' = {}
    /\ proc' = [j \in Procs |-> Unborn]
    /\ at' = [j \in Procs |-> "idle"]
    /\ outcome' = [j \in Procs |-> "none"]
    /\ late' = [j \in Procs |-> FALSE]
    /\ UNCHANGED <<cancel, line, worker, verdict>>

Plan ==
    /\ phase = "planning"
    /\ PlanStep
    /\ UNCHANGED <<vars, execVars>>

\* The request is refused, the workspace cannot be made, or the flag has been seen.
NoRound ==
    /\ phase \in {"ready", "planning"}
    /\ phase' = "over" /\ verdict' = "raised"
    /\ UNCHANGED <<vars, planVars, rounds, line, worker, results>>

\* Mutant: in the order of the request, whatever the plan says.
QueueOfRequest(c) ==
    LET mine == {j \in Jobs : place[j].core = c}
    IN  [i \in 1..length[c] |->
            CHOOSE j \in mine : i = Cardinality({k \in mine : k <= j})]

\* _build_core_queues
QueueOf(c) ==
    [i \in 1..length[c] |->
        CHOOSE j \in Jobs : place[j].core = c /\ place[j].position = i - 1]

StartWorkers ==
    /\ phase = "planning" /\ todo = {} /\ ~Cancelled
    /\ phase' = "running"
    /\ line' = [c \in Cores |-> QueueOf(c)]
    /\ worker' = [c \in Cores |-> IF length[c] = 0 THEN "done" ELSE "new"]
    /\ UNCHANGED <<vars, planVars, rounds, results, verdict>>

\* await asyncio.gather(*workers): all of them are done.
GatherReturns ==
    /\ phase = "running"
    /\ \A c \in Cores : worker[c] = "done"
    /\ phase' = IF rounds = <<>> THEN "over" ELSE "ready"
    /\ verdict' = "returned"
    /\ UNCHANGED <<vars, planVars, rounds, line, worker, results>>

Underway == {Head(line[c]) : c \in {d \in Cores : worker[d] = "busy"}}

\* Mutant: execute raises at once.
GatherRaisesAtOnce ==
    /\ phase = "running"
    /\ \E c \in Cores : worker[c] = "failed"
    /\ phase' = "over" /\ verdict' = "raised"
    /\ UNCHANGED <<vars, planVars, rounds, line, worker, results>>

\* One of them has failed: the others are cancelled, the ones that have not begun
\* at once, and awaited.
GatherRaises ==
    /\ phase = "running"
    /\ \E c \in Cores : worker[c] = "failed"
    /\ phase' = "stopping"
    /\ worker' = [c \in Cores |-> IF worker[c] = "new" THEN "failed" ELSE worker[c]]
    /\ \E strays \in [Underway \cap InLaunch -> {"none"} \cup Descendants] :
           /\ \A j \in DOMAIN strays : strays[j] \in Strays(j)
           /\ InterruptAll(Underway, strays)
    /\ UNCHANGED <<cancel, late, planVars, rounds, line, results, verdict>>

StopEnds ==
    /\ phase = "stopping"
    /\ \A c \in Cores : worker[c] \in {"done", "failed"}
    /\ phase' = "over" /\ verdict' = "raised"
    /\ UNCHANGED <<vars, planVars, rounds, line, worker, results>>

(***************************************************************************)
(* A worker: run_core_queue.                                               *)
(***************************************************************************)
\* The head of the loop, and its end.  A callback may raise, after the last job too,
\* as they all do once the flag is set.
Begins(c, queue) ==
    /\ line' = [line EXCEPT ![c] = queue]
    /\ \/ /\ queue = <<>> /\ ~Cancelled
          /\ worker' = [worker EXCEPT ![c] = "done"]
          /\ UNCHANGED at
       \/ /\ queue # <<>> /\ ~Cancelled
          /\ worker' = [worker EXCEPT ![c] = "busy"]
          /\ at' = [at EXCEPT ![Head(queue)] = "spawning"]
       \/ /\ worker' = [worker EXCEPT ![c] = "failed"]
          /\ UNCHANGED at

WorkerStarts(c) ==
    /\ phase = "running" /\ worker[c] = "new"
    /\ Begins(c, line[c])
    /\ UNCHANGED <<proc, outcome, cancel, late, planVars, rounds, phase, results, verdict>>

JobEnded(c) == worker[c] = "busy" /\ at[Head(line[c])] = "ended"

\* The run has returned: its result is recorded, and the next job begins.
WorkerGoesOn(c) ==
    /\ JobEnded(c) /\ outcome[Head(line[c])] = "exit"
    /\ results' = results \cup {Head(line[c])}
    /\ Begins(c, Tail(line[c]))
    /\ UNCHANGED <<proc, outcome, cancel, late, planVars, rounds, phase, verdict>>

\* Mutant: a job that fails is passed over.
WorkerPassesOver(c) ==
    /\ JobEnded(c) /\ outcome[Head(line[c])] # "exit"
    /\ Begins(c, Tail(line[c]))
    /\ UNCHANGED <<proc, outcome, cancel, late, planVars, rounds, phase, results, verdict>>

\* The run has raised, and the worker with it.
WorkerFails(c) ==
    /\ JobEnded(c) /\ outcome[Head(line[c])] # "exit"
    /\ worker' = [worker EXCEPT ![c] = "failed"]
    /\ UNCHANGED <<vars, planVars, rounds, phase, line, results, verdict>>

WorkerStep(c) == WorkerStarts(c) \/ WorkerGoesOn(c) \/ WorkerFails(c)

-----------------------------------------------------------------------------
RunStep(j) == RunsOn(j) /\ UNCHANGED <<planVars, execVars>>

\* cancel_task sets the flag of the task, which every run reads.
CancelTask ==
    /\ phase # "over" /\ ~Cancelled
    /\ cancel' = [j \in Procs |-> TRUE]
    /\ UNCHANGED <<proc, at, outcome, late, planVars, execVars>>

Clock(j) == TimePasses(j) /\ UNCHANGED <<planVars, execVars>>

World(j) ==
    /\ \/ SpawnFails(j) \/ CallbackFails(j)
       \/ ProcessStep(j) /\ UNCHANGED <<at, outcome, cancel, late>>
    /\ UNCHANGED <<planVars, execVars>>

Manages == BeginRound \/ Plan \/ StartWorkers \/ GatherReturns \/ GatherRaises \/ StopEnds

ExecNext ==
    \/ Manages \/ NoRound \/ CancelTask
    \/ \E c \in Cores : WorkerStep(c)
    \/ \E j \in Jobs : RunStep(j) \/ Clock(j) \/ World(j)

ExecSpec == ExecInit /\ [][ExecNext]_allVars

\* The event loop runs what can run, time passes, and a task that may not go on
\* because of its flag gives up.
FairExecSpec ==
    /\ ExecSpec
    /\ WF_allVars(Manages \/ NoRound)
    /\ \A c \in Cores : WF_allVars(WorkerStep(c))
    /\ \A j \in Jobs : WF_allVars(RunStep(j)) /\ WF_allVars(Clock(j))
    /\ ProcessFairness

(***************************************************************************)
(* Properties.                                                             *)
(***************************************************************************)
Active(j) == at[j] \notin {"idle", "ended"}

\* j stands before k in the queue of their core.
Before(j, k) ==
    place[j].core = place[k].core /\ place[j].position < place[k].position

\* A core runs one job at a time, in the order of the plan: before a job is
\* started, those before it in the queue have run and left their results, and the
\* file descriptors, readers and groups of two of them never overlap.
\* (run_core_queue, _build_core_queues)
CoresRunInOrder ==
    phase \in {"running", "stopping"} =>
        \A j, k \in Jobs :
            Before(j, k) /\ at[k] # "idle"
                => at[j] = "ended" /\ outcome[j] = "exit" /\ j \in results

\* A round that returns has a result of every job of its plan, each from a command
\* that ran to its own end.  (execute)
ResultsComplete ==
    phase \in {"ready", "over"} /\ verdict = "returned" =>
        results = Jobs /\ \A j \in Jobs : outcome[j] = "exit"

\* The runs of the jobs hold what BatchProcess promises of each, and the workers
\* keep the order of the plan and the completeness of the results.
ExecutionInv == BatchInv /\ ExecTypeOK /\ CoresRunInOrder /\ ResultsComplete

\* When execute returns or raises, no worker, no run and no process group of any
\* job is left: the workspace of the task is deleted next.  The exception is the
\* process killed while it was being spawned.  (execute, its except branch)
NothingOutlivesIt ==
    phase \in {"ready", "over"} =>
        /\ \A c \in Cores : worker[c] \in {"done", "failed"}
        /\ \A j \in Jobs :
               /\ ~Active(j)
               /\ outcome[j] # "spawn_interrupted" => ~GroupAlive(j)

\* An experiment ends, whatever its commands do, unless the pipe of one of them
\* never closes, because it is full or because a descendant that has left the group
\* holds it for ever: with a verdict, or with the exception of the first worker that
\* failed, although the others may be in the middle of their jobs.  (execute)
ExecutionEnds ==
    \/ <>(phase = "over" \/ \E j \in Jobs : proc[j].pipe = "full")
    \/ \E j \in Jobs : <>[](proc[j].child = "away")
===============================================================================
