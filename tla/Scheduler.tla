------------------------------- MODULE Scheduler -------------------------------
(***************************************************************************)
(* plan_tasks (scheduler/scheduler.py): the jobs of a workload are placed, *)
(* one after the other, in the queues of CPU cores.  FIFO_BASELINE deals   *)
(* them out in the order of the request; RESOURCE_AWARE takes the longest  *)
(* first and gives it to the core with the least load.                     *)
(*                                                                         *)
(* A job is known by its place in the request, 1 to JobCount, which is     *)
(* what its unique name stands for.  One step places one job: a turn of    *)
(* the loop of _assign_fifo or _assign_least_loaded.                       *)
(***************************************************************************)
EXTENDS Integers, Sequences

CONSTANTS
    JobCount,  \* jobs of a workload
    CoreIds,   \* the CPU cores, in the order of the request
    Workloads  \* the lengths the jobs may be taken to have

Jobs  == 1..JobCount
Cores == {CoreIds[i] : i \in DOMAIN CoreIds}

\* _normalize_core_ids and the bounds of the request.
ASSUME SchedulerAssumption ==
    /\ JobCount \in Nat \ {0}
    /\ CoreIds \in Seq(Nat) /\ CoreIds # << >>
    /\ \A i, j \in DOMAIN CoreIds : CoreIds[i] = CoreIds[j] => i = j
    /\ Workloads \subseteq [Jobs -> Nat \ {0}]

VARIABLES
    strategy,  \* the strategy of the plan
    estimate,  \* estimate[j]: estimated_ms
    todo,      \* jobs that have no place yet
    place,     \* place[j]: the TaskAssignment of j, once it has one
    load,      \* load[c]: core_loads
    length     \* length[c]: queue_positions

planVars == <<strategy, estimate, todo, place, load, length>>

Strategies == {"FIFO_BASELINE", "RESOURCE_AWARE"}
Assignment == [core : Cores, position : Nat, start : Nat]
Nowhere == [core |-> CoreIds[1], position |-> 0, start |-> 0]

PlanTypeOK ==
    /\ strategy \in Strategies
    /\ estimate \in [Jobs -> Nat \ {0}]
    /\ todo \in SUBSET Jobs
    /\ place \in [Jobs -> Assignment]
    /\ load \in [Cores -> Nat]
    /\ length \in [Cores -> Nat]

Zero == [c \in Cores |-> 0]

PlanBegins ==
    /\ todo = Jobs /\ place = [j \in Jobs |-> Nowhere]
    /\ load = Zero /\ length = Zero

PlanInit ==
    /\ strategy \in Strategies
    /\ estimate \in Workloads
    /\ PlanBegins

\* _fifo_plan: the order of the request.
FirstInRequest(j) == \A k \in todo : j <= k

\* Mutant: the shortest job first.
ShortestFirst(j) ==
    \A k \in todo : estimate[j] < estimate[k] \/ (estimate[j] = estimate[k] /\ j <= k)

\* _resource_aware_plan: sorted by length, longest first, and stable.
LongestFirst(j) ==
    \A k \in todo : estimate[j] > estimate[k] \/ (estimate[j] = estimate[k] /\ j <= k)

ComesNext(j) ==
    /\ j \in todo
    /\ CASE strategy = "FIFO_BASELINE" -> FirstInRequest(j)
         [] strategy = "RESOURCE_AWARE" -> LongestFirst(j)

\* _assign_fifo: round robin.
RoundRobin(j) == CoreIds[((j - 1) % Len(CoreIds)) + 1]

\* Mutant: the core with the shortest queue, whatever is in it.
ShortestQueue(c) ==
    \A d \in Cores : length[c] < length[d] \/ (length[c] = length[d] /\ c <= d)

\* _assign_least_loaded: of equal loads, the core with the smallest number.
LeastLoaded(c) ==
    \A d \in Cores : load[c] < load[d] \/ (load[c] = load[d] /\ c <= d)

Suits(j, c) ==
    CASE strategy = "FIFO_BASELINE" -> c = RoundRobin(j)
      [] strategy = "RESOURCE_AWARE" -> LeastLoaded(c)

\* Mutant: the position of the queue is not counted up.
PlaceJobUncounted(j, c) ==
    /\ place' = [place EXCEPT ![j] = [core |-> c, position |-> length[c],
                                      start |-> load[c]]]
    /\ load' = [load EXCEPT ![c] = @ + estimate[j]]
    /\ todo' = todo \ {j}
    /\ UNCHANGED <<strategy, estimate, length>>

\* _create_assignment, and the two counts that follow it.
PlaceJob(j, c) ==
    /\ place' = [place EXCEPT ![j] = [core |-> c, position |-> length[c],
                                      start |-> load[c]]]
    /\ load' = [load EXCEPT ![c] = @ + estimate[j]]
    /\ length' = [length EXCEPT ![c] = @ + 1]
    /\ todo' = todo \ {j}
    /\ UNCHANGED <<strategy, estimate>>

PlanStep == \E j \in Jobs, c \in Cores : ComesNext(j) /\ Suits(j, c) /\ PlaceJob(j, c)

PlanSpec == PlanInit /\ [][PlanStep]_planVars

-----------------------------------------------------------------------------
(***************************************************************************)
(* Properties.                                                             *)
(***************************************************************************)
Placed == Jobs \ todo

\* When a job is expected to be done: estimated_finish_ms.
DueBy(j) == place[j].start + estimate[j]

\* The jobs of a core stand in one queue without gaps or doubles ...
QueuesAreDense ==
    /\ \A j \in Placed : place[j].position < length[place[j].core]
    /\ \A j, k \in Placed :
           place[j].core = place[k].core /\ place[j].position = place[k].position
               => j = k
    /\ \A c \in Cores : \A p \in 0..length[c] - 1 :
           \E j \in Placed : place[j].core = c /\ place[j].position = p

\* k is the next job on the core of j.
Follows(k, j) ==
    place[k].core = place[j].core /\ place[k].position = place[j].position + 1

\* ... and are expected back to back, from time 0 to the load of their core.
BackToBack ==
    /\ \A j \in Placed :
           /\ place[j].position = 0 => place[j].start = 0
           /\ place[j].position = length[place[j].core] - 1
                  => DueBy(j) = load[place[j].core]
           /\ \A k \in Placed : Follows(k, j) => place[k].start = DueBy(j)
    /\ \A c \in Cores : length[c] = 0 => load[c] = 0

\* RESOURCE_AWARE: no job is kept waiting by one core while another is expected
\* to be idle, the longest jobs first.
NobodyWaitsForNothing ==
    strategy = "RESOURCE_AWARE" =>
        /\ \A j \in Placed, c \in Cores : place[j].start <= load[c]
        /\ \A j \in Placed, k \in todo : estimate[j] >= estimate[k]

\* RESOURCE_AWARE: two cores differ by no more than the length of one job that the
\* busier one has in its queue.
LoadsAreLevel ==
    strategy = "RESOURCE_AWARE" =>
        \A c, d \in Cores :
            load[c] > load[d] =>
                \E j \in Placed :
                    place[j].core = c /\ load[c] <= load[d] + estimate[j]

\* FIFO_BASELINE: no core has two jobs more than another.
DealtOutEvenly ==
    strategy = "FIFO_BASELINE" =>
        \A c, d \in Cores : length[c] <= length[d] + 1

\* A plan, at every turn of its loop: its queues, its expected times, and what its
\* strategy promises.  (plan_tasks, _assign_fifo, _assign_least_loaded)
PlanHolds ==
    /\ PlanTypeOK
    /\ QueuesAreDense
    /\ BackToBack
    /\ NobodyWaitsForNothing
    /\ LoadsAreLevel
    /\ DealtOutEvenly
===============================================================================
