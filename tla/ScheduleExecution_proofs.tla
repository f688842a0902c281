----------------------- MODULE ScheduleExecution_proofs -----------------------
(***************************************************************************)
(* Proofs about ScheduleExecution, and with it about Scheduler and about   *)
(* the runs of BatchProcess inside it: for any jobs, cores and lengths,    *)
(* the plan is what its strategy promises at every turn of its loop, the   *)
(* cores run it in its order, and nothing outlives the execution.          *)
(***************************************************************************)
EXTENDS ScheduleExecution, TLAPS

-----------------------------------------------------------------------------
(***************************************************************************)
(* The plan.                                                               *)
(***************************************************************************)
\* Round robin: the first jobs have been dealt out, to the first cores once more
\* than to the others.
DealtInTurn ==
    strategy = "FIFO_BASELINE" =>
        \E n \in 0..JobCount, q \in Nat :
            /\ todo = (n + 1)..JobCount
            /\ \A i \in 1..Len(CoreIds) :
                   length[CoreIds[i]] = IF i <= n % Len(CoreIds) THEN q + 1 ELSE q

PlanInv == PlanHolds /\ DealtInTurn

-----------------------------------------------------------------------------
(***************************************************************************)
(* A run, and the queue of a core.                                         *)
(***************************************************************************)
BatchKinds ==
    /\ ProcTypeOK
    /\ at \in [Procs -> {"idle", "spawning", "waiting", "killing", "cleaning",
                         "sweeping", "draining", "ended"}]
    /\ outcome \in [Procs -> {"none"} \cup Outcomes]
    /\ cancel \in [Procs -> BOOLEAN] /\ late \in [Procs -> BOOLEAN]

\* Nothing of a run exists before it is spawned; once it is being cleaned up its
\* command has been killed, from the sweep on its readers are all that is left.
JobFits(j) ==
    /\ at[j] \in {"idle", "spawning"} => proc[j] = Unborn
    /\ at[j] \in {"idle", "spawning", "waiting"} => outcome[j] = "none"
    /\ at[j] \in {"killing", "cleaning", "sweeping", "draining"} =>
           outcome[j] \notin {"none"} \cup NeverRan
    /\ at[j] = "ended" => outcome[j] # "none"
    /\ at[j] \in {"killing", "sweeping", "draining"}
           \/ (at[j] = "ended" /\ outcome[j] \notin NeverRan) =>
           Exited(j) /\ proc[j].child \in {"none", "away"}
    /\ at[j] = "ended" =>
           /\ proc[j].reader # "reading"
           /\ outcome[j] = "spawn_failed" => proc[j] = Unborn
           /\ outcome[j] = "spawn_interrupted" => Exited(j)

\* How many jobs of a core have been gone through.
Turn(c) == length[c] - Len(line[c])

\* The queue of a core is what its plan has left: before it everything has run, behind
\* its head nothing has begun.
QueueFits(c) ==
    /\ line[c] \in Seq(Jobs) /\ Len(line[c]) <= length[c]
    /\ \A i \in 1..Len(line[c]) :
           place[line[c][i]].core = c /\ place[line[c][i]].position = (Turn(c) + i) - 1
    /\ worker[c] = "done" => line[c] = << >>
    /\ line[c] = << >> => worker[c] \in {"done", "failed"}
    /\ \A j \in Jobs :
           place[j].core = c =>
               /\ place[j].position < Turn(c) =>
                      at[j] = "ended" /\ outcome[j] = "exit" /\ j \in results
               /\ place[j].position > Turn(c) => at[j] = "idle"
               /\ place[j].position = Turn(c) =>
                      /\ worker[c] = "new" => at[j] = "idle"
                      /\ worker[c] = "busy" => at[j] # "idle"
                      /\ worker[c] = "failed" => at[j] \in {"idle", "ended"}

\* The rounds of the managed task.
RoundFits ==
    /\ line \in [Cores -> Seq(Jobs)]
    /\ phase = "ready" => rounds # << >>
    /\ phase \in {"ready", "planning", "over"} =>
           /\ \A c \in Cores : worker[c] \in {"done", "failed"}
           /\ \A j \in Jobs : at[j] \in {"idle", "ended"}
    /\ phase = "planning" => \A j \in Jobs : at[j] = "idle"
    /\ phase \in {"running", "stopping"} => todo = {} /\ \A c \in Cores : QueueFits(c)

ExecInv ==
    /\ BatchKinds /\ ExecTypeOK /\ PlanInv
    /\ \A j \in Jobs : JobFits(j)
    /\ RoundFits /\ ResultsComplete

-----------------------------------------------------------------------------
LEMMA Fac ==
    ASSUME NEW m \in Nat \ {0}, NEW d \in Int, NEW r \in Int, m * d = r, r <= m, r > 0 - m
    PROVE  r = 0 \/ r = m
<1>1. d >= 2 => m * d >= m * 2
  BY Z3
<1>2. d <= -1 => m * d <= m * (-1)
  BY Z3
<1>3. d \in {0, 1}
  BY <1>1, <1>2
<1> QED BY <1>3
LEMMA Dv == \A n \in Nat, m \in Nat \ {0} : n \div m \in Int /\ n = m * (n \div m) + (n % m)
  BY Z3
LEMMA NextTurn ==
    ASSUME NEW n \in Nat, NEW m \in Nat \ {0}
    PROVE  /\ n % m \in 0..(m - 1)
           /\ (n + 1) % m = IF (n % m) + 1 = m THEN 0 ELSE (n % m) + 1
<1>1. n % m \in 0..(m - 1) /\ (n + 1) % m \in 0..(m - 1)
  BY Z3
<1> DEFINE p == n \div m  q == (n+1) \div m  a == n % m  b == (n+1) % m
<1>2. /\ n = m * p + a /\ n + 1 = m * q + b /\ p \in Int /\ q \in Int
      /\ a \in 0..(m-1) /\ b \in 0..(m-1)
  BY Dv, <1>1
<1> HIDE DEF p, q, a, b
<1>3. m * (q - p) = m * q - m * p
  BY <1>2, Z3
<1>4. m * (q - p) = (a + 1) - b
  BY <1>2, <1>3
<1>5. (a + 1) - b = 0 \/ (a + 1) - b = m
  BY <1>2, <1>4, Fac
<1>6. b = IF a + 1 = m THEN 0 ELSE a + 1
  BY <1>2, <1>5
<1> QED BY <1>1, <1>6 DEF a, b
-----------------------------------------------------------------------------
(***************************************************************************)
(* The loop of plan_tasks.                                                 *)
(***************************************************************************)
LEMMA PlanFresh ==
    strategy \in Strategies /\ estimate \in [Jobs -> Nat \ {0}] /\ PlanBegins => PlanInv
<1> SUFFICES ASSUME strategy \in Strategies, estimate \in [Jobs -> Nat \ {0}], PlanBegins
             PROVE  PlanInv
  OBVIOUS
<1> USE SchedulerAssumption
<1>1. Placed = {} /\ Len(CoreIds) \in Nat \ {0}
  BY DEF PlanBegins, Placed
<1>2. CoreIds[1] \in Cores
  BY <1>1 DEF Cores
<1>3. PlanTypeOK
  BY <1>2 DEF PlanBegins, PlanTypeOK, Assignment, Nowhere, Zero
<1>4. \A c \in Cores : length[c] = 0 /\ load[c] = 0
  BY DEF PlanBegins, Zero
<1>5. QueuesAreDense /\ BackToBack
  BY <1>1, <1>4 DEF QueuesAreDense, BackToBack
<1>6. NobodyWaitsForNothing /\ LoadsAreLevel /\ DealtOutEvenly
  BY <1>1, <1>4 DEF NobodyWaitsForNothing, LoadsAreLevel, DealtOutEvenly
<1>7. DealtInTurn
  <2>1. \A i \in 1..Len(CoreIds) : CoreIds[i] \in Cores
    BY DEF Cores
  <2>2. \A i \in 1..Len(CoreIds) :
            length[CoreIds[i]] = IF i <= 0 % Len(CoreIds) THEN 0 + 1 ELSE 0
    <3>1. 0 % Len(CoreIds) = 0
      BY <1>1, Z3
    <3> QED BY <1>1, <1>4, <2>1, <3>1
  <2>3. todo = (0 + 1)..JobCount /\ 0 \in 0..JobCount
    BY DEF PlanBegins, Jobs
  <2> QED BY <2>2, <2>3 DEF DealtInTurn
<1> QED BY <1>3, <1>5, <1>6, <1>7 DEF PlanInv, PlanHolds

LEMMA PlanFreshNext ==
    (strategy \in Strategies /\ estimate \in [Jobs -> Nat \ {0}] /\ PlanBegins => PlanInv)'
<1> QED BY PlanFresh, PTL

\* What a turn of the loop changes.
LEMMA PlacedOne ==
    ASSUME PlanTypeOK, NEW j \in Jobs, NEW c \in Cores, j \in todo, PlaceJob(j, c)
    PROVE  /\ PlanTypeOK'
           /\ Placed' = Placed \cup {j} /\ j \notin Placed /\ Placed \subseteq Jobs
           /\ place'[j].core = c /\ place'[j].position = length[c] /\ place'[j].start = load[c]
           /\ \A k \in Placed : place'[k] = place[k] /\ k # j /\ k \in Jobs
           /\ \A k \in Jobs : place[k].core \in Cores /\ place[k].position \in Nat
                                  /\ place[k].start \in Nat /\ estimate[k] \in Nat \ {0}
           /\ \A d \in Cores :
                  /\ length[d] \in Nat /\ load[d] \in Nat
                  /\ length'[d] = IF d = c THEN length[d] + 1 ELSE length[d]
                  /\ load'[d] = IF d = c THEN load[d] + estimate[j] ELSE load[d]
           /\ UNCHANGED <<strategy, estimate>> /\ todo' = todo \ {j} /\ todo \subseteq Jobs
<1>1. estimate[j] \in Nat \ {0} /\ length[c] \in Nat /\ load[c] \in Nat
  BY DEF PlanTypeOK
<1>2. PlanTypeOK'
  BY <1>1 DEF PlanTypeOK, PlaceJob, Assignment
<1>3. Placed' = Placed \cup {j} /\ j \notin Placed /\ Placed \subseteq Jobs
  BY DEF PlaceJob, Placed
<1>4. place'[j] = [core |-> c, position |-> length[c], start |-> load[c]]
  BY DEF PlanTypeOK, PlaceJob
<1>5. \A k \in Placed : place'[k] = place[k] /\ k # j /\ k \in Jobs
  BY <1>3 DEF PlanTypeOK, PlaceJob
<1>6. \A k \in Jobs : place[k].core \in Cores /\ place[k].position \in Nat
                          /\ place[k].start \in Nat /\ estimate[k] \in Nat \ {0}
  BY DEF PlanTypeOK, Assignment
<1>7. \A d \in Cores : /\ length[d] \in Nat /\ load[d] \in Nat
                       /\ length'[d] = IF d = c THEN length[d] + 1 ELSE length[d]
                       /\ load'[d] = IF d = c THEN load[d] + estimate[j] ELSE load[d]
  BY DEF PlanTypeOK, PlaceJob
<1> QED BY <1>2, <1>3, <1>4, <1>5, <1>6, <1>7 DEF PlaceJob, PlanTypeOK

LEMMA DenseKept ==
    ASSUME PlanTypeOK, QueuesAreDense, BackToBack,
           NEW j \in Jobs, NEW c \in Cores, j \in todo, PlaceJob(j, c)
    PROVE  QueuesAreDense' /\ BackToBack'
<1>1. /\ Placed' = Placed \cup {j} /\ j \notin Placed /\ Placed \subseteq Jobs
      /\ place'[j].core = c /\ place'[j].position = length[c] /\ place'[j].start = load[c]
      /\ \A k \in Placed : place'[k] = place[k] /\ k # j /\ k \in Jobs
      /\ \A k \in Jobs : place[k].core \in Cores /\ place[k].position \in Nat
                             /\ place[k].start \in Nat /\ estimate[k] \in Nat \ {0}
      /\ \A d \in Cores :
             /\ length[d] \in Nat /\ load[d] \in Nat
             /\ length'[d] = IF d = c THEN length[d] + 1 ELSE length[d]
             /\ load'[d] = IF d = c THEN load[d] + estimate[j] ELSE load[d]
      /\ estimate' = estimate
  BY PlacedOne
<1>2. \A k \in Placed' : place'[k].position < length'[place'[k].core]
  BY <1>1 DEF QueuesAreDense
<1>3. ASSUME NEW k \in Placed', NEW l \in Placed', place'[k].core = place'[l].core,
             place'[k].position = place'[l].position
      PROVE  k = l
  <2>1. \A m \in Placed : place[m].position < length[place[m].core]
    BY DEF QueuesAreDense
  <2>2. CASE k \in Placed /\ l \in Placed
    BY <1>1, <1>3, <2>2 DEF QueuesAreDense
  <2> QED BY <1>1, <1>3, <2>1, <2>2
<1>4. ASSUME NEW d \in Cores, NEW p \in 0..(length'[d] - 1)
      PROVE  \E k \in Placed' : place'[k].core = d /\ place'[k].position = p
  <2>1. CASE d = c /\ p = length[c]
    BY <1>1, <2>1
  <2>2. CASE p \in 0..(length[d] - 1)
    <3>1. PICK k \in Placed : place[k].core = d /\ place[k].position = p
      BY <2>2 DEF QueuesAreDense
    <3> QED BY <1>1, <3>1
  <2> QED BY <1>1, <1>4, <2>1, <2>2
<1>5. QueuesAreDense'
  BY <1>2, <1>3, <1>4 DEF QueuesAreDense
<1>6. ASSUME NEW k \in Placed'
      PROVE  /\ place'[k].position = 0 => place'[k].start = 0
             /\ place'[k].position = length'[place'[k].core] - 1
                    => DueBy(k)' = load'[place'[k].core]
  <2>1. CASE k = j
    BY <1>1, <2>1 DEF DueBy, BackToBack
  <2>2. CASE k \in Placed
    <3>1. /\ place'[k] = place[k] /\ place[k].position < length[place[k].core]
          /\ place[k].core \in Cores
      BY <1>1, <2>2 DEF QueuesAreDense
    <3> QED BY <1>1, <2>2, <3>1 DEF DueBy, BackToBack
  <2> QED BY <1>1, <1>6, <2>1, <2>2
<1>7. ASSUME NEW k \in Placed', NEW l \in Placed', Follows(l, k)'
      PROVE  place'[l].start = DueBy(k)'
  <2>1. \A m \in Placed : place[m].position < length[place[m].core]
    BY DEF QueuesAreDense
  <2>2. CASE k \in Placed /\ l \in Placed
    BY <1>1, <1>7, <2>2 DEF BackToBack, Follows, DueBy
  <2>3. CASE k \in Placed /\ l = j
    <3>1. place[k].core = c /\ place[k].position = length[c] - 1 /\ k \in Jobs
      BY <1>1, <1>7, <2>3 DEF Follows
    <3>2. DueBy(k) = load[c]
      BY <2>3, <3>1 DEF BackToBack
    <3> QED BY <1>1, <2>3, <3>1, <3>2 DEF DueBy
  <2>4. CASE k = j
    BY <1>1, <1>7, <2>1, <2>4 DEF Follows
  <2> QED BY <1>1, <1>7, <2>2, <2>3, <2>4
<1>8. \A d \in Cores : length'[d] = 0 => load'[d] = 0
  BY <1>1 DEF BackToBack
<1>9. BackToBack'
  BY <1>6, <1>7, <1>8 DEF BackToBack
<1> QED BY <1>5, <1>9

LEMMA LevelKept ==
    ASSUME PlanTypeOK, NobodyWaitsForNothing, LoadsAreLevel,
           NEW j \in Jobs, NEW c \in Cores, ComesNext(j), Suits(j, c), PlaceJob(j, c)
    PROVE  NobodyWaitsForNothing' /\ LoadsAreLevel'
<1>1. /\ Placed' = Placed \cup {j} /\ j \notin Placed /\ Placed \subseteq Jobs
      /\ place'[j].core = c /\ place'[j].start = load[c]
      /\ \A k \in Placed : place'[k] = place[k] /\ k # j /\ k \in Jobs
      /\ \A k \in Jobs : place[k].core \in Cores
                             /\ place[k].start \in Nat /\ estimate[k] \in Nat \ {0}
      /\ \A d \in Cores :
             /\ load[d] \in Nat
             /\ load'[d] = IF d = c THEN load[d] + estimate[j] ELSE load[d]
      /\ UNCHANGED <<strategy, estimate>> /\ todo' = todo \ {j} /\ todo \subseteq Jobs
      /\ j \in todo
  BY PlacedOne DEF ComesNext
<1> SUFFICES ASSUME strategy = "RESOURCE_AWARE"
             PROVE  NobodyWaitsForNothing' /\ LoadsAreLevel'
  BY <1>1 DEF NobodyWaitsForNothing, LoadsAreLevel
<1>2. (\A k \in todo : estimate[j] >= estimate[k]) /\ \A d \in Cores : load[c] <= load[d]
  BY <1>1 DEF ComesNext, Suits, LongestFirst, LeastLoaded
<1>3. NobodyWaitsForNothing'
  <2>1. ASSUME NEW k \in Placed', NEW d \in Cores PROVE place'[k].start <= load'[d]
    <3>1. CASE k = j
      BY <1>1, <1>2, <3>1
    <3>2. CASE k \in Placed
      <4>1. place[k].start <= load[d]
        BY <3>2 DEF NobodyWaitsForNothing
      <4> QED BY <1>1, <3>2, <4>1
    <3> QED BY <1>1, <2>1, <3>1, <3>2
  <2>2. ASSUME NEW k \in Placed', NEW l \in todo' PROVE estimate'[k] >= estimate'[l]
    <3>1. CASE k = j
      BY <1>1, <1>2, <3>1
    <3>2. CASE k \in Placed
      BY <1>1, <3>2 DEF NobodyWaitsForNothing
    <3> QED BY <1>1, <2>2, <3>1, <3>2
  <2> QED BY <2>1, <2>2 DEF NobodyWaitsForNothing
<1>4. ASSUME NEW a \in Cores, NEW b \in Cores, load'[a] > load'[b]
      PROVE  \E k \in Placed' : place'[k].core = a /\ load'[a] <= load'[b] + estimate'[k]
  <2>1. CASE a = c
    BY <1>1, <1>2, <1>4, <2>1
  <2>2. CASE a # c
    <3>1. load'[a] = load[a] /\ load[a] > load[b] /\ load[b] <= load'[b]
      BY <1>1, <1>4, <2>2
    <3>2. PICK k \in Placed : place[k].core = a /\ load[a] <= load[b] + estimate[k]
      BY <3>1 DEF LoadsAreLevel
    <3> QED BY <1>1, <3>1, <3>2
  <2> QED BY <2>1, <2>2
<1> QED BY <1>3, <1>4 DEF LoadsAreLevel

LEMMA DealtKept ==
    ASSUME PlanTypeOK, DealtInTurn,
           NEW j \in Jobs, NEW c \in Cores, ComesNext(j), Suits(j, c), PlaceJob(j, c)
    PROVE  DealtInTurn'
<1> USE SchedulerAssumption
<1>1. /\ \A d \in Cores : length[d] \in Nat
                          /\ length'[d] = IF d = c THEN length[d] + 1 ELSE length[d]
      /\ strategy' = strategy /\ todo' = todo \ {j} /\ j \in todo
  BY PlacedOne DEF ComesNext
<1> SUFFICES ASSUME strategy = "FIFO_BASELINE" PROVE DealtInTurn'
  BY <1>1 DEF DealtInTurn
<1> DEFINE m == Len(CoreIds)
<1>2. PICK n \in 0..JobCount, q \in Nat :
          /\ todo = (n + 1)..JobCount
          /\ \A i \in 1..m : length[CoreIds[i]] = IF i <= n % m THEN q + 1 ELSE q
  BY DEF DealtInTurn
<1>3. j = n + 1 /\ n + 1 \in 0..JobCount /\ todo' = ((n + 1) + 1)..JobCount
  <2>1. /\ n \in Nat /\ JobCount \in Nat /\ j \in Nat /\ n + 1 <= j /\ j <= JobCount
        /\ \A k \in todo : j <= k
    BY <1>1, <1>2 DEF ComesNext, FirstInRequest, Jobs
  <2>2. n + 1 \in todo
    BY <1>2, <2>1
  <2>3. j = n + 1
    BY <2>1, <2>2
  <2>4. todo' = ((n + 1) + 1)..JobCount
    BY <1>1, <1>2, <2>1, <2>3
  <2> QED BY <2>1, <2>3, <2>4
<1>4. m \in Nat \ {0} /\ n \in Nat /\ DOMAIN CoreIds = 1..m
  OBVIOUS
<1>5. c = CoreIds[(n % m) + 1]
  <2>1. (j - 1) % m = n % m
    BY <1>3, <1>4
  <2> QED BY <2>1 DEF Suits, RoundRobin
<1> DEFINE r == n % m
           s == (n + 1) % m
<1>6. r \in 0..(m - 1) /\ s = IF r + 1 = m THEN 0 ELSE r + 1
  BY <1>4, NextTurn
<1>7. /\ c = CoreIds[r + 1]
      /\ \A i \in 1..m : length[CoreIds[i]] = IF i <= r THEN q + 1 ELSE q
  BY <1>2, <1>5
<1> HIDE DEF m, r, s
<1>8. \A i \in 1..m : CoreIds[i] \in Cores /\ (CoreIds[i] = c <=> i = r + 1)
  <2>1. r + 1 \in 1..m
    BY <1>4, <1>6
  <2> QED BY <1>4, <1>7, <2>1 DEF Cores
<1>9. \A i \in 1..m : length'[CoreIds[i]] = IF i <= r + 1 THEN q + 1 ELSE q
  BY <1>1, <1>4, <1>6, <1>7, <1>8
<1>10. \E p \in Nat : \A i \in 1..m : length'[CoreIds[i]] = IF i <= s THEN p + 1 ELSE p
  <2>1. CASE r + 1 = m
    <3>1. \A i \in 1..m : length'[CoreIds[i]] = IF i <= s THEN (q + 1) + 1 ELSE q + 1
      BY <1>4, <1>6, <1>9, <2>1
    <3>2. q + 1 \in Nat
      BY <1>2
    <3> QED BY <3>1, <3>2
  <2>2. CASE r + 1 # m
    BY <1>2, <1>6, <1>9, <2>2
  <2> QED BY <2>1, <2>2
<1> QED BY <1>1, <1>3, <1>10 DEF DealtInTurn, m, s

\* Cores are known by one place in the order of the request.
LEMMA DealtEvenly == PlanTypeOK /\ DealtInTurn => DealtOutEvenly
<1> SUFFICES ASSUME PlanTypeOK, DealtInTurn, strategy = "FIFO_BASELINE",
                    NEW a \in Cores, NEW b \in Cores
             PROVE  length[a] <= length[b] + 1
  BY DEF DealtOutEvenly
<1>1. PICK n \in 0..JobCount, q \in Nat :
          \A i \in 1..Len(CoreIds) :
              length[CoreIds[i]] = IF i <= n % Len(CoreIds) THEN q + 1 ELSE q
  BY DEF DealtInTurn
<1>2. PICK i \in 1..Len(CoreIds), k \in 1..Len(CoreIds) : a = CoreIds[i] /\ b = CoreIds[k]
  BY SchedulerAssumption DEF Cores
<1>3. length[a] \in {q, q + 1} /\ length[b] \in {q, q + 1}
  BY <1>1, <1>2
<1> QED BY <1>3

LEMMA DealtEvenlyNext == (PlanTypeOK /\ DealtInTurn => DealtOutEvenly)'
<1> QED BY DealtEvenly, PTL

LEMMA PlanInvKept == ASSUME PlanInv, PlanStep PROVE PlanInv'
<1>1. PICK j \in Jobs, c \in Cores : ComesNext(j) /\ Suits(j, c) /\ PlaceJob(j, c)
  BY DEF PlanStep
<1>2. j \in todo
  BY <1>1 DEF ComesNext
<1>3. PlanTypeOK' /\ QueuesAreDense' /\ BackToBack'
  BY <1>1, <1>2, PlacedOne, DenseKept DEF PlanInv, PlanHolds
<1>4. NobodyWaitsForNothing' /\ LoadsAreLevel' /\ DealtInTurn'
  BY <1>1, LevelKept, DealtKept DEF PlanInv, PlanHolds
<1>5. DealtOutEvenly'
  <2>1. (PlanTypeOK /\ DealtInTurn => DealtOutEvenly)'
    BY DealtEvenlyNext
  <2> QED BY <1>3, <1>4, <2>1
<1> QED BY <1>3, <1>4, <1>5 DEF PlanInv, PlanHolds

LEMMA PlanInvStutters == ASSUME PlanInv, UNCHANGED planVars PROVE PlanInv'
<1> USE DEF planVars, PlanInv, PlanHolds
<1>1. PlanTypeOK'
  BY DEF PlanTypeOK
<1>2. QueuesAreDense'
  BY DEF QueuesAreDense, Placed
<1>3. BackToBack'
  BY DEF BackToBack, Placed, DueBy, Follows
<1>4. NobodyWaitsForNothing' /\ LoadsAreLevel'
  BY DEF NobodyWaitsForNothing, LoadsAreLevel, Placed
<1>5. DealtOutEvenly'
  BY DEF DealtOutEvenly
<1>6. DealtInTurn'
  BY DEF DealtInTurn
<1> QED BY <1>1, <1>2, <1>3, <1>4, <1>5, <1>6
-----------------------------------------------------------------------------
(***************************************************************************)
(* A run.                                                                  *)
(***************************************************************************)
LEMMA JobsAreProcs == Procs = Jobs
<1> QED BY ExecutionAssumption

\* A group that is killed leaves nothing but what has left it.
LEMMA KilledProc ==
    ASSUME ProcTypeOK, NEW j \in Procs, proc' = [proc EXCEPT ![j] = Killed(@)]
    PROVE  /\ ProcTypeOK'
           /\ Exited(j)' /\ proc'[j].child \in {"none", "away"}
           /\ proc'[j].reader = proc[j].reader
           /\ \A k \in Procs \ {j} : proc'[k] = proc[k]
<1>1. /\ proc[j] \in [leader : {"none", "alive", "exited"}, child : {"none"} \cup Descendants,
                      pipe : {"open", "full", "closed"},
                      reader : {"none", "reading", "failed", "ended"}]
      /\ Descendants \subseteq {"quiet", "holding", "away"}
  BY SubprocessAssumption DEF ProcTypeOK
<1>2. /\ Killed(proc[j]) \in [leader : {"none", "alive", "exited"},
                              child : {"none"} \cup Descendants,
                              pipe : {"open", "full", "closed"},
                              reader : {"none", "reading", "failed", "ended"}]
      /\ Killed(proc[j]).leader = "exited" /\ Killed(proc[j]).reader = proc[j].reader
      /\ Killed(proc[j]).child \in {"none", "away"}
  BY <1>1 DEF Killed
<1> QED BY <1>2 DEF ProcTypeOK, Exited

\* What a step of one run does to the others, and to what has not begun or has ended.
RunKeeps ==
    \A k \in Jobs :
        /\ at[k] \in {"idle", "ended"} => at'[k] = at[k] /\ outcome'[k] = outcome[k]
        /\ at'[k] = "idle" => at[k] = "idle"

\* Only one run is concerned, and it is one that fits.
LEMMA OneRun ==
    ASSUME BatchKinds, \A k \in Jobs : JobFits(k), NEW j \in Jobs, ProcTypeOK',
           NEW a \in {"spawning", "waiting", "killing", "cleaning", "sweeping", "draining",
                      "ended"},
           NEW o \in {"none"} \cup Outcomes,
           \A k \in Jobs \ {j} : proc'[k] = proc[k],
           at' = [at EXCEPT ![j] = a], outcome' = [outcome EXCEPT ![j] = o],
           late' \in [Procs -> BOOLEAN], cancel' = cancel,
           JobFits(j)', at[j] \notin {"idle", "ended"}
    PROVE  BatchKinds' /\ RunKeeps /\ \A k \in Jobs : JobFits(k)'
<1> USE JobsAreProcs
<1>1. BatchKinds'
  BY DEF BatchKinds
<1>2. RunKeeps
  BY DEF BatchKinds, RunKeeps
<1>3. ASSUME NEW k \in Jobs PROVE JobFits(k)'
  <2>1. CASE k = j
    BY <2>1
  <2>2. CASE k # j
    <3>1. JobFits(k) /\ proc'[k] = proc[k] /\ at'[k] = at[k] /\ outcome'[k] = outcome[k]
      BY <2>2 DEF BatchKinds
    <3> QED BY <3>1 DEF JobFits, Exited
  <2> QED BY <2>1, <2>2
<1> QED BY <1>1, <1>2, <1>3

LEMMA RunFits ==
    ASSUME BatchKinds, \A k \in Jobs : JobFits(k), NEW j \in Jobs, RunsOn(j)
    PROVE  BatchKinds' /\ RunKeeps /\ \A k \in Jobs : JobFits(k)'
<1> USE JobsAreProcs
<1>1. /\ JobFits(j) /\ ProcTypeOK /\ at \in [Procs -> {"idle", "spawning", "waiting", "killing",
                                  "cleaning", "sweeping", "draining", "ended"}]
      /\ outcome \in [Procs -> {"none"} \cup Outcomes] /\ late \in [Procs -> BOOLEAN]
  BY DEF BatchKinds
<1>2. CASE Spawn(j)
  <2>1. /\ at[j] = "spawning" /\ proc' = [proc EXCEPT ![j] = Spawned]
        /\ at' = [at EXCEPT ![j] = "waiting"] /\ outcome' = [outcome EXCEPT ![j] = "none"]
        /\ UNCHANGED <<cancel, late>>
    BY <1>2 DEF Spawn, Goes
  <2>2. ProcTypeOK'
    BY <1>1, <2>1 DEF ProcTypeOK, Spawned, Unborn
  <2>3. JobFits(j)'
    BY <1>1, <2>1 DEF JobFits, ProcTypeOK
  <2> QED BY <1>1, <2>1, <2>2, <2>3, OneRun DEF ProcTypeOK
<1>3. ASSUME NEW result \in {"cancelled", "timeout"}, at[j] = "waiting",
             Terminate(j, result), UNCHANGED <<cancel, late>>
      PROVE  BatchKinds' /\ RunKeeps /\ \A k \in Jobs : JobFits(k)'
  <2>1. CASE Exited(j)
    <3>1. /\ at' = [at EXCEPT ![j] = "cleaning"] /\ outcome' = [outcome EXCEPT ![j] = result]
          /\ UNCHANGED proc
      BY <1>3, <2>1 DEF Terminate, Goes
    <3>2. JobFits(j)' /\ ProcTypeOK'
      BY <1>1, <1>3, <3>1 DEF JobFits, ProcTypeOK, NeverRan
    <3> QED BY <1>1, <1>3, <3>1, <3>2, OneRun DEF Outcomes
  <2>2. CASE ~Exited(j)
    <3>1. /\ at' = [at EXCEPT ![j] = "killing"] /\ outcome' = [outcome EXCEPT ![j] = result]
          /\ proc' = [proc EXCEPT ![j] = Killed(@)]
      BY <1>3, <2>2 DEF Terminate, Goes
    <3>2. /\ ProcTypeOK' /\ Exited(j)' /\ proc'[j].child \in {"none", "away"}
          /\ \A k \in Jobs \ {j} : proc'[k] = proc[k]
      BY <1>1, <3>1, KilledProc
    <3>3. JobFits(j)'
      BY <1>1, <3>1, <3>2 DEF JobFits, NeverRan
    <3> QED BY <1>1, <1>3, <3>1, <3>2, <3>3, OneRun DEF Outcomes
  <2> QED BY <2>1, <2>2
<1>4. CASE SeesCancel(j) \/ SeesDeadline(j)
  BY <1>3, <1>4 DEF SeesCancel, SeesDeadline
<1>5. CASE SeesExit(j)
  <2>1. /\ at[j] = "waiting" /\ UNCHANGED <<proc, cancel, late>>
        /\ at' = [at EXCEPT ![j] = "cleaning"] /\ outcome' = [outcome EXCEPT ![j] = "exit"]
    BY <1>5 DEF SeesExit, Goes
  <2>2. JobFits(j)' /\ ProcTypeOK'
    BY <1>1, <2>1 DEF JobFits, ProcTypeOK, NeverRan
  <2> QED BY <1>1, <2>1, <2>2, OneRun DEF Outcomes
<1>6. CASE KillSeen(j)
  <2>1. /\ at[j] \in {"killing", "sweeping"} /\ UNCHANGED <<proc, outcome, cancel, late>>
        /\ at' = [at EXCEPT ![j] = IF @ = "killing" THEN "cleaning" ELSE "draining"]
    BY <1>6 DEF KillSeen
  <2>2. JobFits(j)' /\ ProcTypeOK'
    BY <1>1, <2>1 DEF JobFits, ProcTypeOK, Exited
  <2>3. outcome' = [outcome EXCEPT ![j] = outcome[j]] /\ outcome[j] \in {"none"} \cup Outcomes
    BY <1>1, <2>1
  <2>4. CASE at[j] = "killing"
    BY <1>1, <2>1, <2>2, <2>3, <2>4, OneRun
  <2>5. CASE at[j] = "sweeping"
    BY <1>1, <2>1, <2>2, <2>3, <2>5, OneRun
  <2> QED BY <2>1, <2>4, <2>5
<1>7. CASE Cleanup(j)
  <2>1. /\ at[j] = "cleaning" /\ UNCHANGED <<outcome, cancel, late>>
        /\ proc' = [proc EXCEPT ![j] = Killed(@)]
        /\ at' = [at EXCEPT ![j] = IF Exited(j) THEN "draining" ELSE "sweeping"]
    BY <1>7 DEF Cleanup, GroupSwept
  <2>2. /\ ProcTypeOK' /\ Exited(j)' /\ proc'[j].child \in {"none", "away"}
        /\ \A k \in Jobs \ {j} : proc'[k] = proc[k]
    BY <1>1, <2>1, KilledProc
  <2>3. JobFits(j)'
    BY <1>1, <2>1, <2>2 DEF JobFits
  <2>4. outcome' = [outcome EXCEPT ![j] = outcome[j]] /\ outcome[j] \in {"none"} \cup Outcomes
    BY <1>1, <2>1
  <2>5. CASE Exited(j)
    BY <1>1, <2>1, <2>2, <2>3, <2>4, <2>5, OneRun
  <2>6. CASE ~Exited(j)
    BY <1>1, <2>1, <2>2, <2>3, <2>4, <2>6, OneRun
  <2> QED BY <2>5, <2>6
<1>8. CASE Finish(j)
  <2>1. /\ at[j] = "draining" /\ UNCHANGED <<outcome, cancel, late>>
        /\ proc' = [proc EXCEPT ![j] = Drained(@)]
        /\ at' = [at EXCEPT ![j] = "ended"]
    BY <1>8 DEF Finish
  <2>2. /\ ProcTypeOK' /\ \A k \in Jobs \ {j} : proc'[k] = proc[k]
    BY <1>1, <2>1 DEF ProcTypeOK, Drained
  <2>3. /\ proc'[j].leader = proc[j].leader /\ proc'[j].child = proc[j].child
        /\ proc'[j].reader # "reading"
    BY <1>1, <2>1 DEF ProcTypeOK, Drained
  <2>4. JobFits(j)'
    BY <1>1, <2>1, <2>3 DEF JobFits, Exited, NeverRan
  <2>5. outcome' = [outcome EXCEPT ![j] = outcome[j]] /\ outcome[j] \in {"none"} \cup Outcomes
    BY <1>1, <2>1
  <2> QED BY <1>1, <2>1, <2>2, <2>4, <2>5, OneRun
<1> QED BY <1>2, <1>4, <1>5, <1>6, <1>7, <1>8 DEF RunsOn

\* What the command and the world do beside its run.
LEMMA WorldFits ==
    ASSUME BatchKinds, \A k \in Jobs : JobFits(k), NEW j \in Jobs,
           \/ SpawnFails(j) \/ CallbackFails(j) \/ TimePasses(j)
           \/ ProcessStep(j) /\ UNCHANGED <<at, outcome, cancel, late>>
    PROVE  BatchKinds' /\ RunKeeps /\ \A k \in Jobs : JobFits(k)'
<1> USE JobsAreProcs
<1>1. /\ JobFits(j) /\ ProcTypeOK /\ at \in [Procs -> {"idle", "spawning", "waiting", "killing",
                                  "cleaning", "sweeping", "draining", "ended"}]
      /\ outcome \in [Procs -> {"none"} \cup Outcomes] /\ late \in [Procs -> BOOLEAN]
  BY DEF BatchKinds
<1>2. CASE SpawnFails(j)
  <2>1. /\ at[j] = "spawning" /\ UNCHANGED <<proc, cancel, late>>
        /\ at' = [at EXCEPT ![j] = "ended"]
        /\ outcome' = [outcome EXCEPT ![j] = "spawn_failed"]
    BY <1>2 DEF SpawnFails, Goes
  <2>2. JobFits(j)' /\ ProcTypeOK'
    BY <1>1, <2>1 DEF JobFits, ProcTypeOK, NeverRan, Unborn
  <2> QED BY <1>1, <2>1, <2>2, OneRun DEF Outcomes
<1>3. CASE CallbackFails(j)
  <2>1. /\ at[j] = "waiting" /\ UNCHANGED <<proc, cancel, late>>
        /\ at' = [at EXCEPT ![j] = "cleaning"] /\ outcome' = [outcome EXCEPT ![j] = "failed"]
    BY <1>3 DEF CallbackFails, Goes
  <2>2. JobFits(j)' /\ ProcTypeOK'
    BY <1>1, <2>1 DEF JobFits, ProcTypeOK, NeverRan
  <2> QED BY <1>1, <2>1, <2>2, OneRun DEF Outcomes
<1>4. CASE TimePasses(j)
  <2>1. UNCHANGED <<proc, at, outcome, cancel>> /\ late' \in [Procs -> BOOLEAN]
    BY <1>1, <1>4 DEF TimePasses
  <2> QED BY <2>1 DEF BatchKinds, ProcTypeOK, RunKeeps, JobFits, Exited
\* The leader, what the group has left alive and a reader at work only ever go.
<1>5. ASSUME UNCHANGED <<at, outcome, cancel, late>>, ProcTypeOK', proc[j] # Unborn,
             \A k \in Jobs \ {j} : proc'[k] = proc[k],
             Exited(j) => /\ Exited(j)'
                          /\ proc[j].child \in {"none", "away"} =>
                                 proc'[j].child \in {"none", "away"},
             proc[j].reader # "reading" => proc'[j].reader # "reading"
      PROVE  BatchKinds' /\ RunKeeps /\ \A k \in Jobs : JobFits(k)'
  <2>1. BatchKinds' /\ RunKeeps
    BY <1>5 DEF BatchKinds, RunKeeps
  <2>2. ASSUME NEW k \in Jobs PROVE JobFits(k)'
    <3>1. JobFits(k)
      OBVIOUS
    <3>2. CASE k = j
      BY <1>5, <3>1, <3>2 DEF JobFits, NeverRan
    <3>3. CASE k # j
      BY <1>5, <3>1, <3>3 DEF JobFits, Exited
    <3> QED BY <3>2, <3>3
  <2> QED BY <2>1, <2>2
<1>6. CASE ProcessStep(j) /\ UNCHANGED <<at, outcome, cancel, late>>
  <2>1. CASE LeaderExits(j)
    BY <1>1, <1>5, <1>6, <2>1 DEF LeaderExits, ProcTypeOK, Exited, Unborn
  <2>2. CASE LeaderForks(j)
    <3>1. PICK kind \in Descendants : proc' = [proc EXCEPT ![j].child = kind]
      BY <2>2 DEF LeaderForks
    <3> QED BY <1>1, <1>5, <1>6, <2>2, <3>1 DEF LeaderForks, ProcTypeOK, Exited, Unborn
  <2>3. CASE ChildExits(j)
    BY <1>1, <1>5, <1>6, <2>3 DEF ChildExits, ProcTypeOK, Exited, Unborn
  <2>4. CASE PipeCloses(j)
    BY <1>1, <1>5, <1>6, <2>4 DEF PipeCloses, ProcTypeOK, Exited, Unborn
  <2>5. CASE ReaderEnds(j)
    BY <1>1, <1>5, <1>6, <2>5 DEF ReaderEnds, ProcTypeOK, Exited, Unborn
  <2>6. CASE ReaderFails(j)
    BY <1>1, <1>5, <1>6, <2>6 DEF ReaderFails, ProcTypeOK, Exited, Unborn
  <2>7. CASE PipeFills(j)
    BY <1>1, <1>5, <1>6, <2>7 DEF PipeFills, ProcTypeOK, Exited, Unborn
  <2> QED BY <1>6, <2>1, <2>2, <2>3, <2>4, <2>5, <2>6, <2>7 DEF ProcessStep
<1> QED BY <1>2, <1>3, <1>4, <1>6
-----------------------------------------------------------------------------
(***************************************************************************)
(* The cores.                                                              *)
(***************************************************************************)
\* A plan that is complete: every job has a place of its own.
LEMMA PlanComplete ==
    ASSUME PlanInv, todo = {}
    PROVE  /\ \A j \in Jobs : /\ place[j].core \in Cores /\ place[j].position \in Nat
                              /\ place[j].position < length[place[j].core]
           /\ \A j, k \in Jobs :
                  place[j].core = place[k].core /\ place[j].position = place[k].position
                      => j = k
           /\ \A c \in Cores : /\ length[c] \in Nat
                               /\ \A p \in 0..(length[c] - 1) :
                                      \E j \in Jobs : place[j].core = c /\ place[j].position = p
<1>1. Placed = Jobs
  BY DEF Placed
<1> QED BY <1>1 DEF PlanInv, PlanHolds, PlanTypeOK, QueuesAreDense, Assignment

\* The head of a queue that is not empty has the turn, and nobody else on its core.
LEMMA HeadOfQueue ==
    ASSUME PlanInv, todo = {}, NEW c \in Cores, QueueFits(c), line[c] # << >>
    PROVE  /\ Head(line[c]) \in Jobs
           /\ place[Head(line[c])].core = c /\ place[Head(line[c])].position = Turn(c)
           /\ \A j \in Jobs : place[j].core = c /\ place[j].position = Turn(c)
                                  => j = Head(line[c])
<1>1. /\ line[c] \in Seq(Jobs) /\ Len(line[c]) \in Nat \ {0} /\ Head(line[c]) = line[c][1]
      /\ line[c][1] \in Jobs /\ length[c] \in Nat /\ Turn(c) \in Int
  BY PlanComplete DEF QueueFits, Turn
<1>2. place[line[c][1]].core = c /\ place[line[c][1]].position = (Turn(c) + 1) - 1
  BY <1>1 DEF QueueFits
<1> QED BY <1>1, <1>2, PlanComplete

\* Steps of runs leave the rounds alone.
LEMMA RoundKept ==
    ASSUME ExecInv, RunKeeps, UNCHANGED <<planVars, execVars>>
    PROVE  ExecTypeOK' /\ PlanInv' /\ RoundFits' /\ ResultsComplete'
<1> USE DEF execVars
<1>1. ExecTypeOK'
  BY DEF ExecInv, ExecTypeOK
<1>2. PlanInv'
  BY PlanInvStutters DEF ExecInv
<1>3. ASSUME NEW c \in Cores, QueueFits(c) PROVE QueueFits(c)'
  <2>1. Turn(c)' = Turn(c)
    BY DEF Turn, planVars
  <2> QED BY <1>3, <2>1 DEF QueueFits, RunKeeps, planVars
<1>4. RoundFits'
  BY <1>3 DEF ExecInv, RoundFits, RunKeeps, planVars
<1>5. ResultsComplete'
  BY DEF ExecInv, RoundFits, ResultsComplete, RunKeeps
<1> QED BY <1>1, <1>2, <1>4, <1>5

\* The queue is what the plan of the core has from that turn on, ...
InPlanFrom(c, queue, turn) ==
    \A i \in 1..Len(queue) :
        place[queue[i]].core = c /\ place[queue[i]].position = (turn + i) - 1

\* ... and what it has before lies behind.
EndedUpTo(c, turn) ==
    \A j \in Jobs :
        place[j].core = c =>
            /\ place[j].position < turn =>
                   at[j] = "ended" /\ outcome[j] = "exit" /\ j \in results'
            /\ place[j].position >= turn => at[j] = "idle"

\* A worker at the head of its loop: with what is left of its queue.
LEMMA BeginsFits ==
    ASSUME ExecInv, phase \in {"running", "stopping"},
           NEW c \in Cores, NEW queue \in Seq(Jobs), Begins(c, queue),
           UNCHANGED <<proc, outcome, cancel, late, planVars, rounds, phase, verdict>>,
           results \subseteq results', results' \subseteq Jobs,
           NEW turn \in Nat, turn = length[c] - Len(queue),
           InPlanFrom(c, queue, turn), EndedUpTo(c, turn)
    PROVE  ExecInv'
<1> USE JobsAreProcs DEF InPlanFrom, EndedUpTo
<1>1. /\ todo = {} /\ \A d \in Cores : QueueFits(d)
      /\ line \in [Cores -> Seq(Jobs)] /\ worker \in [Cores -> {"new", "busy", "done", "failed"}]
      /\ at \in [Jobs -> {"idle", "spawning", "waiting", "killing", "cleaning",
                         "sweeping", "draining", "ended"}]
  BY DEF ExecInv, RoundFits, ExecTypeOK, BatchKinds
<1>2. /\ line' = [line EXCEPT ![c] = queue]
      /\ \E w \in {"busy", "done", "failed"} : worker' = [worker EXCEPT ![c] = w]
      /\ worker'[c] = "done" => queue = << >>
      /\ queue = << >> => worker'[c] \in {"done", "failed"}
      /\ IF worker'[c] = "busy" THEN at' = [at EXCEPT ![Head(queue)] = "spawning"]
                                ELSE at' = at
  BY <1>1 DEF Begins
<1>3. PlanInv'
  BY PlanInvStutters DEF ExecInv
<1>4. ASSUME queue # << >>
      PROVE  /\ Head(queue) \in Jobs /\ place[Head(queue)].core = c
             /\ place[Head(queue)].position = turn
             /\ \A j \in Jobs : place[j].core = c /\ place[j].position = turn => j = Head(queue)
  <2>1. Len(queue) \in Nat \ {0} /\ Head(queue) = queue[1] /\ queue[1] \in Jobs
    BY <1>4
  <2>2. place[queue[1]].core = c /\ place[queue[1]].position = (turn + 1) - 1
    BY <2>1
  <2> QED BY <1>1, <2>1, <2>2, PlanComplete DEF ExecInv
<1>5. worker'[c] = "busy" => queue # << >> /\ at[Head(queue)] = "idle"
  BY <1>2, <1>4
<1>6. \A j \in Jobs : \/ at'[j] = at[j]
                      \/ /\ worker'[c] = "busy" /\ j = Head(queue)
                         /\ at[j] = "idle" /\ at'[j] = "spawning"
  BY <1>1, <1>2, <1>4, <1>5
<1>7. BatchKinds'
  BY <1>1, <1>2, <1>4, <1>5 DEF ExecInv, BatchKinds, ProcTypeOK
<1>8. \A j \in Jobs : JobFits(j)'
  BY <1>6 DEF ExecInv, JobFits, Exited
<1>9. ExecTypeOK'
  <2>1. worker' \in [Cores -> {"new", "busy", "done", "failed"}]
    BY <1>1, <1>2
  <2>2. \A d \in Cores : \A i \in DOMAIN line'[d] : line'[d][i] \in Jobs
    BY <1>1, <1>2 DEF ExecInv, ExecTypeOK
  <2> QED BY <2>1, <2>2 DEF ExecInv, ExecTypeOK
<1>10. ASSUME NEW d \in Cores PROVE QueueFits(d)'
  <2>1. CASE d = c
    <3>1. line'[d] = queue /\ Turn(d)' = turn
      <4>1. line'[d] = queue
        BY <1>1, <1>2, <2>1
      <4>2. length' = length /\ length[c] \in Nat
        BY <1>1, PlanComplete DEF planVars, ExecInv
      <4> QED BY <2>1, <4>1, <4>2 DEF Turn
    <3>2. Len(queue) \in Nat /\ length[c] \in Nat /\ place' = place /\ length' = length
      BY <1>1, PlanComplete DEF planVars, ExecInv
    <3>3. worker'[d] \in {"busy", "done", "failed"}
      BY <1>1, <1>2, <2>1
    <3>4. ASSUME NEW j \in Jobs, place[j].core = c
          PROVE  /\ place[j].position < turn =>
                        at'[j] = "ended" /\ outcome'[j] = "exit" /\ j \in results'
                 /\ place[j].position > turn => at'[j] = "idle"
                 /\ place[j].position = turn =>
                        /\ worker'[d] = "busy" => at'[j] # "idle"
                        /\ worker'[d] = "failed" => at'[j] \in {"idle", "ended"}
      <4>1. place[j].position \in Nat
        BY <1>1, PlanComplete DEF ExecInv
      <4>2. worker'[d] = "busy" => at'[Head(queue)] = "spawning"
        BY <1>1, <1>2, <1>4, <1>5, <2>1
      <4> QED BY <1>2, <1>4, <1>5, <1>6, <2>1, <3>4, <4>1, <4>2
    <3> QED BY <1>2, <2>1, <3>1, <3>2, <3>3, <3>4 DEF QueueFits
  <2>2. CASE d # c
    <3>1. /\ line'[d] = line[d] /\ worker'[d] = worker[d] /\ Turn(d)' = Turn(d)
          /\ place' = place /\ length' = length
      BY <1>1, <1>2, <2>2 DEF Turn, planVars
    <3>2. \A j \in Jobs : place[j].core = d => at'[j] = at[j]
      BY <1>4, <1>5, <1>6, <2>2
    <3> QED BY <1>1, <3>1, <3>2 DEF QueueFits
  <2> QED BY <2>1, <2>2
<1>11. RoundFits'
  BY <1>1, <1>2, <1>10 DEF RoundFits, planVars
<1>12. ResultsComplete'
  BY DEF ResultsComplete
<1> QED BY <1>3, <1>7, <1>8, <1>9, <1>11, <1>12 DEF ExecInv

LEMMA WorkerFits ==
    ASSUME ExecInv, NEW c \in Cores, WorkerStep(c)
    PROVE  ExecInv'
<1>1. worker[c] \in {"new", "busy"}
  BY DEF WorkerStep, WorkerStarts, WorkerGoesOn, WorkerFails, JobEnded
<1>2. phase \in {"running", "stopping"} /\ todo = {} /\ PlanInv /\ \A d \in Cores : QueueFits(d)
  BY <1>1 DEF ExecInv, RoundFits, ExecTypeOK
<1>3. /\ line[c] # << >> /\ line[c] \in Seq(Jobs) /\ Len(line[c]) \in Nat \ {0}
      /\ Len(line[c]) <= length[c] /\ length[c] \in Nat
      /\ Turn(c) = length[c] - Len(line[c]) /\ Turn(c) \in Nat
  BY <1>1, <1>2, PlanComplete DEF QueueFits, Turn
<1>4. /\ Head(line[c]) \in Jobs
      /\ place[Head(line[c])].core = c /\ place[Head(line[c])].position = Turn(c)
      /\ \A j \in Jobs : place[j].core = c /\ place[j].position = Turn(c) => j = Head(line[c])
  BY <1>2, <1>3, HeadOfQueue
<1>5. \A j \in Jobs : place[j].core \in Cores /\ place[j].position \in Nat
  BY <1>2, PlanComplete
<1>6. results \in SUBSET Jobs
  BY DEF ExecInv, ExecTypeOK
<1>7. CASE WorkerStarts(c)
  <2>1. /\ phase = "running" /\ worker[c] = "new" /\ Begins(c, line[c])
        /\ UNCHANGED <<proc, outcome, cancel, late, planVars, rounds, phase, results, verdict>>
    BY <1>7 DEF WorkerStarts
  <2>2. EndedUpTo(c, Turn(c))
    BY <1>2, <1>3, <1>5, <2>1 DEF QueueFits, EndedUpTo
  <2>3. InPlanFrom(c, line[c], Turn(c))
    BY <1>2 DEF QueueFits, InPlanFrom
  <2>4. /\ results \subseteq results' /\ results' \subseteq Jobs
        /\ UNCHANGED <<proc, outcome, cancel, late, planVars, rounds, phase, verdict>>
    BY <1>6, <2>1
  <2> QED BY <1>2, <1>3, <2>1, <2>2, <2>3, <2>4, BeginsFits
<1>8. CASE WorkerGoesOn(c)
  <2>1. /\ worker[c] = "busy" /\ at[Head(line[c])] = "ended" /\ outcome[Head(line[c])] = "exit"
        /\ results' = results \cup {Head(line[c])} /\ Begins(c, Tail(line[c]))
        /\ UNCHANGED <<proc, outcome, cancel, late, planVars, rounds, phase, verdict>>
    BY <1>8 DEF WorkerGoesOn, JobEnded
  <2>2. /\ Tail(line[c]) \in Seq(Jobs) /\ Len(Tail(line[c])) = Len(line[c]) - 1
        /\ \A i \in 1..Len(Tail(line[c])) : Tail(line[c])[i] = line[c][i + 1]
    BY <1>3
  <2>3. ASSUME NEW i \in 1..Len(Tail(line[c]))
        PROVE  /\ place[Tail(line[c])[i]].core = c
               /\ place[Tail(line[c])[i]].position = ((Turn(c) + 1) + i) - 1
    <3>1. i + 1 \in 1..Len(line[c]) /\ i \in Nat
      BY <1>3, <2>2
    <3>2. /\ place[line[c][i + 1]].core = c
          /\ place[line[c][i + 1]].position = (Turn(c) + (i + 1)) - 1
      BY <1>2, <3>1 DEF QueueFits
    <3> QED BY <1>3, <2>2, <3>1, <3>2
  <2>4. InPlanFrom(c, Tail(line[c]), Turn(c) + 1)
    BY <2>3 DEF InPlanFrom
  <2>5. ASSUME NEW j \in Jobs, place[j].core = c
        PROVE  /\ place[j].position < Turn(c) + 1 =>
                      at[j] = "ended" /\ outcome[j] = "exit" /\ j \in results'
               /\ place[j].position >= Turn(c) + 1 => at[j] = "idle"
    <3>1. place[j].position < Turn(c) + 1 =>
              place[j].position < Turn(c) \/ place[j].position = Turn(c)
      BY <1>3, <1>5
    <3>2. place[j].position >= Turn(c) + 1 => place[j].position > Turn(c)
      BY <1>3, <1>5
    <3> QED BY <1>2, <1>4, <2>1, <2>5, <3>1, <3>2 DEF QueueFits
  <2>6. EndedUpTo(c, Turn(c) + 1)
    BY <2>5 DEF EndedUpTo
  <2>7. /\ Turn(c) + 1 \in Nat /\ Turn(c) + 1 = length[c] - Len(Tail(line[c]))
        /\ results \subseteq results' /\ results' \subseteq Jobs
    BY <1>3, <1>4, <1>6, <2>1, <2>2
  <2> QED BY <1>2, <2>1, <2>2, <2>4, <2>6, <2>7, BeginsFits
<1>9. CASE WorkerFails(c)
  <2>1. /\ worker[c] = "busy" /\ at[Head(line[c])] = "ended"
        /\ worker' = [worker EXCEPT ![c] = "failed"]
        /\ UNCHANGED <<vars, planVars, rounds, phase, line, results, verdict>>
    BY <1>9 DEF WorkerFails, JobEnded
  <2>2. /\ BatchKinds' /\ \A j \in Jobs : JobFits(j)'
    BY <2>1 DEF ExecInv, BatchKinds, ProcTypeOK, JobFits, Exited, vars
  <2>3. PlanInv'
    BY <2>1, PlanInvStutters DEF ExecInv
  <2>4. ExecTypeOK' /\ ResultsComplete'
    BY <1>2, <2>1 DEF ExecInv, ExecTypeOK, ResultsComplete, vars
  <2>5. ASSUME NEW d \in Cores PROVE QueueFits(d)'
    <3>1. QueueFits(d) /\ Turn(d)' = Turn(d) /\ line' = line /\ place' = place /\ length' = length
      BY <1>2, <2>1 DEF Turn, planVars
    <3>2. at' = at /\ outcome' = outcome /\ results' = results
      BY <2>1 DEF vars
    <3>3. CASE d = c
      <4>1. worker'[d] = "failed"
        BY <2>1, <3>3 DEF ExecInv, ExecTypeOK
      <4> QED BY <1>3, <1>4, <2>1, <3>1, <3>2, <3>3, <4>1 DEF QueueFits
    <3>4. CASE d # c
      <4>1. worker'[d] = worker[d]
        BY <2>1, <3>4 DEF ExecInv, ExecTypeOK
      <4> QED BY <3>1, <3>2, <4>1 DEF QueueFits
    <3> QED BY <3>3, <3>4
  <2>6. RoundFits'
    BY <1>2, <2>1, <2>5 DEF ExecInv, RoundFits, planVars
  <2> QED BY <2>2, <2>3, <2>4, <2>6 DEF ExecInv
<1> QED BY <1>7, <1>8, <1>9 DEF WorkerStep
-----------------------------------------------------------------------------
(***************************************************************************)
(* Around the workers.                                                     *)
(***************************************************************************)
LEMMA PlanningFits ==
    ASSUME ExecInv, Plan \/ NoRound \/ CancelTask
    PROVE  ExecInv'
<1> USE JobsAreProcs
<1>1. CASE Plan
  <2>1. phase = "planning" /\ PlanStep /\ UNCHANGED <<vars, execVars>>
    BY <1>1 DEF Plan
  <2>2. PlanInv'
    BY <2>1, PlanInvKept DEF ExecInv
  <2>3. BatchKinds' /\ \A j \in Jobs : JobFits(j)'
    BY <2>1 DEF ExecInv, BatchKinds, ProcTypeOK, JobFits, Exited, vars
  <2>4. ExecTypeOK' /\ ResultsComplete' /\ RoundFits'
    BY <2>1 DEF ExecInv, ExecTypeOK, ResultsComplete, RoundFits, vars, execVars
  <2> QED BY <2>2, <2>3, <2>4 DEF ExecInv
<1>2. CASE NoRound
  <2>1. /\ phase \in {"ready", "planning"} /\ phase' = "over" /\ verdict' = "raised"
        /\ UNCHANGED <<vars, planVars, rounds, line, worker, results>>
    BY <1>2 DEF NoRound
  <2>2. PlanInv'
    BY <2>1, PlanInvStutters DEF ExecInv
  <2>3. BatchKinds' /\ \A j \in Jobs : JobFits(j)'
    BY <2>1 DEF ExecInv, BatchKinds, ProcTypeOK, JobFits, Exited, vars
  <2>4. ExecTypeOK' /\ ResultsComplete' /\ RoundFits'
    BY <2>1 DEF ExecInv, ExecTypeOK, ResultsComplete, RoundFits, vars
  <2> QED BY <2>2, <2>3, <2>4 DEF ExecInv
<1>3. CASE CancelTask
  <2>1. /\ cancel' = [j \in Procs |-> TRUE]
        /\ UNCHANGED <<proc, at, outcome, late, planVars, execVars>>
    BY <1>3 DEF CancelTask
  <2>2. BatchKinds' /\ RunKeeps /\ \A j \in Jobs : JobFits(j)'
    BY <2>1 DEF ExecInv, BatchKinds, ProcTypeOK, JobFits, Exited, RunKeeps
  <2> QED BY <2>1, <2>2, RoundKept DEF ExecInv
<1> QED BY <1>1, <1>2, <1>3

LEMMA RoundBegins ==
    ASSUME ExecInv, BeginRound
    PROVE  ExecInv'
<1> USE JobsAreProcs
<1>1. /\ phase = "ready" /\ phase' = "planning"
      /\ strategy' = Head(rounds) /\ rounds' = Tail(rounds)
      /\ estimate' \in {estimate} \cup Workloads
      /\ todo' = Jobs /\ place' = [j \in Jobs |-> Nowhere]
      /\ load' = Zero /\ length' = Zero /\ results' = {}
      /\ proc' = [j \in Procs |-> Unborn]
      /\ at' = [j \in Procs |-> "idle"]
      /\ outcome' = [j \in Procs |-> "none"]
      /\ late' = [j \in Procs |-> FALSE]
      /\ UNCHANGED <<cancel, line, worker, verdict>>
  BY DEF BeginRound
<1>2. /\ rounds # << >> /\ rounds \in Experiments \cup {<<s>> : s \in Strategies}
      /\ Experiments \subseteq
             {<<"FIFO_BASELINE", "RESOURCE_AWARE">>} \cup {<<s>> : s \in Strategies}
  BY <1>1, ExecutionAssumption DEF ExecInv, RoundFits, ExecTypeOK
<1>3. Head(rounds) \in Strategies /\ Tail(rounds) \in {<< >>} \cup {<<s>> : s \in Strategies}
  <2>1. CASE rounds = <<"FIFO_BASELINE", "RESOURCE_AWARE">>
    <3>1. Head(rounds) = "FIFO_BASELINE" /\ Tail(rounds) = <<"RESOURCE_AWARE">>
      BY <2>1
    <3> QED BY <3>1 DEF Strategies
  <2>2. ASSUME NEW s \in Strategies, rounds = <<s>>
        PROVE  Head(rounds) \in Strategies /\ Tail(rounds) = << >>
    BY <2>2
  <2> QED BY <1>2, <2>1, <2>2
<1>4. estimate' \in [Jobs -> Nat \ {0}]
  BY <1>1, SchedulerAssumption DEF ExecInv, PlanInv, PlanHolds, PlanTypeOK
<1>5. PlanInv'
  BY <1>1, <1>3, <1>4, PlanFreshNext DEF PlanBegins, Zero, Nowhere
<1>6. BatchKinds'
  BY <1>1 DEF ExecInv, BatchKinds, ProcTypeOK, Unborn
<1>7. \A j \in Jobs : JobFits(j)'
  BY <1>1 DEF JobFits
<1>8. ExecTypeOK' /\ ResultsComplete'
  BY <1>1, <1>3 DEF ExecInv, ExecTypeOK, ResultsComplete
<1>9. RoundFits'
  BY <1>1 DEF ExecInv, RoundFits
<1> QED BY <1>5, <1>6, <1>7, <1>8, <1>9 DEF ExecInv

\* Every position of a plan that is complete has its job.
LEMMA QueueOfPlan ==
    ASSUME PlanInv, todo = {}, NEW c \in Cores
    PROVE  /\ QueueOf(c) \in Seq(Jobs) /\ Len(QueueOf(c)) = length[c]
           /\ \A i \in 1..length[c] : place[QueueOf(c)[i]].core = c
                                      /\ place[QueueOf(c)[i]].position = i - 1
<1>1. /\ length[c] \in Nat
      /\ \A p \in 0..(length[c] - 1) : \E j \in Jobs : place[j].core = c /\ place[j].position = p
  BY PlanComplete
<1>2. ASSUME NEW i \in 1..length[c]
      PROVE  /\ QueueOf(c)[i] \in Jobs /\ place[QueueOf(c)[i]].core = c
             /\ place[QueueOf(c)[i]].position = i - 1
  <2>1. i - 1 \in 0..(length[c] - 1)
    BY <1>1
  <2>2. \E j \in Jobs : place[j].core = c /\ place[j].position = i - 1
    BY <1>1, <2>1
  <2>3. QueueOf(c)[i] = CHOOSE j \in Jobs : place[j].core = c /\ place[j].position = i - 1
    BY DEF QueueOf
  <2> QED BY <2>2, <2>3
<1>3. QueueOf(c) = [i \in 1..length[c] |-> QueueOf(c)[i]]
  BY DEF QueueOf
<1>4. QueueOf(c) \in Seq(Jobs) /\ Len(QueueOf(c)) = length[c]
  <2> DEFINE queue == QueueOf(c)
  <2>1. queue \in [1..length[c] -> Jobs] /\ length[c] \in Nat
    BY <1>1, <1>2, <1>3
  <2> HIDE DEF queue
  <2>2. queue \in Seq(Jobs) /\ Len(queue) = length[c]
    BY <2>1
  <2> QED BY <2>2 DEF queue
<1> QED BY <1>2, <1>4

LEMMA WorkersStart ==
    ASSUME ExecInv, StartWorkers
    PROVE  ExecInv'
<1> USE JobsAreProcs
<1>1. /\ phase = "planning" /\ todo = {} /\ phase' = "running"
      /\ line' = [c \in Cores |-> QueueOf(c)]
      /\ worker' = [c \in Cores |-> IF length[c] = 0 THEN "done" ELSE "new"]
      /\ UNCHANGED <<vars, planVars, rounds, results, verdict>>
  BY DEF StartWorkers
<1>2. /\ PlanInv /\ PlanInv' /\ \A j \in Jobs : at[j] = "idle"
  BY <1>1, PlanInvStutters DEF ExecInv, RoundFits
<1>3. BatchKinds' /\ \A j \in Jobs : JobFits(j)'
  BY <1>1 DEF ExecInv, BatchKinds, ProcTypeOK, JobFits, Exited, vars
<1>4. ASSUME NEW c \in Cores PROVE line'[c] = QueueOf(c) /\ QueueFits(c)'
  <2> DEFINE queue == QueueOf(c)
  <2>1. /\ queue \in Seq(Jobs) /\ Len(queue) = length[c] /\ length[c] \in Nat
        /\ \A i \in 1..length[c] : place[queue[i]].core = c /\ place[queue[i]].position = i - 1
    BY <1>1, <1>2, QueueOfPlan, PlanComplete
  <2>2. line'[c] = queue /\ length' = length /\ place' = place /\ at' = at
    BY <1>1 DEF vars, planVars
  <2> HIDE DEF queue
  <2>3. Turn(c)' = 0
    BY <2>1, <2>2 DEF Turn
  <2>4. worker'[c] = (IF length[c] = 0 THEN "done" ELSE "new")
    BY <1>1
  <2>5. worker'[c] = "done" <=> queue = << >>
    BY <2>1, <2>4
  <2>6. \A j \in Jobs : place[j].position \in Nat
    BY <1>1, <1>2, PlanComplete
  <2>7. QueueFits(c)'
    BY <1>2, <2>1, <2>2, <2>3, <2>4, <2>5, <2>6 DEF QueueFits
  <2> QED BY <2>2, <2>7 DEF queue
<1>5. RoundFits'
  <2>1. line' \in [Cores -> Seq(Jobs)]
    BY <1>1, <1>2, QueueOfPlan
  <2> QED BY <1>1, <1>4, <2>1 DEF RoundFits, planVars
<1>6. ExecTypeOK' /\ ResultsComplete'
  <2>1. \A c \in Cores : \A i \in DOMAIN line'[c] : line'[c][i] \in Jobs
    <3> SUFFICES ASSUME NEW c \in Cores, NEW i \in DOMAIN line'[c] PROVE line'[c][i] \in Jobs
      OBVIOUS
    <3>1. line'[c] \in Seq(Jobs)
      BY <1>4 DEF QueueFits
    <3> QED BY <3>1
  <2>2. worker' \in [Cores -> {"new", "busy", "done", "failed"}]
    BY <1>1
  <2>3. ResultsComplete'
    BY <1>1 DEF ResultsComplete
  <2> QED BY <1>1, <2>1, <2>2, <2>3 DEF ExecInv, ExecTypeOK
<1> QED BY <1>2, <1>3, <1>5, <1>6 DEF ExecInv

LEMMA GatheringFits ==
    ASSUME ExecInv, GatherReturns \/ StopEnds
    PROVE  ExecInv'
<1> USE JobsAreProcs
<1>1. /\ phase \in {"running", "stopping"} /\ todo = {} /\ PlanInv /\ \A c \in Cores : QueueFits(c)
      /\ UNCHANGED <<vars, planVars, rounds, line, worker, results>>
  BY DEF GatherReturns, StopEnds, ExecInv, RoundFits
<1>2. BatchKinds' /\ PlanInv' /\ \A j \in Jobs : JobFits(j)'
  <2>1. PlanInv'
    BY <1>1, PlanInvStutters
  <2> QED BY <1>1, <2>1 DEF ExecInv, BatchKinds, ProcTypeOK, JobFits, Exited, vars
<1>3. ASSUME NEW j \in Jobs
      PROVE  /\ place[j].core \in Cores /\ place[j].position \in Nat
             /\ place[j].position < length[place[j].core] /\ length[place[j].core] \in Nat
             /\ QueueFits(place[j].core) /\ Turn(place[j].core) \in Int
  <2>1. /\ place[j].core \in Cores /\ place[j].position \in Nat
        /\ place[j].position < length[place[j].core] /\ length[place[j].core] \in Nat
    BY <1>1, PlanComplete
  <2>2. line[place[j].core] \in Seq(Jobs)
    BY <1>1, <2>1 DEF QueueFits
  <2> QED BY <1>1, <2>1, <2>2 DEF Turn
<1>4. CASE GatherReturns
  <2>1. /\ \A c \in Cores : worker[c] = "done"
        /\ phase' = (IF rounds = << >> THEN "over" ELSE "ready") /\ verdict' = "returned"
    BY <1>4 DEF GatherReturns
  <2>2. ASSUME NEW j \in Jobs
        PROVE  at[j] = "ended" /\ outcome[j] = "exit" /\ j \in results
    <3>1. line[place[j].core] = << >>
      BY <1>3, <2>1 DEF QueueFits
    <3>2. Turn(place[j].core) = length[place[j].core]
      BY <1>3, <3>1 DEF Turn
    <3> QED BY <1>3, <3>2 DEF QueueFits
  <2>3. results = Jobs
    BY <2>2 DEF ExecInv, ExecTypeOK
  <2>4. ResultsComplete' /\ RoundFits'
    BY <1>1, <2>1, <2>2, <2>3 DEF ResultsComplete, RoundFits, ExecInv, vars
  <2>5. ExecTypeOK'
    BY <1>1, <2>1 DEF ExecInv, ExecTypeOK
  <2> QED BY <1>2, <2>4, <2>5 DEF ExecInv
<1>5. CASE StopEnds
  <2>1. /\ \A c \in Cores : worker[c] \in {"done", "failed"}
        /\ phase' = "over" /\ verdict' = "raised"
    BY <1>5 DEF StopEnds
  <2>2. ASSUME NEW j \in Jobs PROVE at[j] \in {"idle", "ended"}
    <3>1. CASE worker[place[j].core] = "failed"
      BY <1>3, <3>1 DEF QueueFits
    <3>2. CASE worker[place[j].core] = "done"
      <4>1. line[place[j].core] = << >>
        BY <1>3, <3>2 DEF QueueFits
      <4>2. Turn(place[j].core) = length[place[j].core]
        BY <1>3, <4>1 DEF Turn
      <4> QED BY <1>3, <4>2 DEF QueueFits
    <3> QED BY <1>3, <2>1, <3>1, <3>2
  <2>3. ResultsComplete' /\ RoundFits'
    BY <1>1, <2>1, <2>2 DEF ResultsComplete, RoundFits, ExecInv, vars
  <2>4. ExecTypeOK'
    BY <1>1, <2>1 DEF ExecInv, ExecTypeOK
  <2> QED BY <1>2, <2>3, <2>4 DEF ExecInv
<1> QED BY <1>4, <1>5
\* The runs that are interrupted, and those that are not.
LEMMA InterruptedRuns ==
    ASSUME BatchKinds, \A j \in Jobs : JobFits(j),
           NEW interrupted \in SUBSET Jobs, \A j \in interrupted : at[j] # "idle",
           NEW strays \in [interrupted \cap InLaunch -> {"none"} \cup Descendants],
           InterruptAll(interrupted, strays), UNCHANGED <<cancel, late>>
    PROVE  /\ BatchKinds' /\ \A j \in Jobs : JobFits(j)'
           /\ \A j \in Jobs \ interrupted : at'[j] = at[j] /\ outcome'[j] = outcome[j]
           /\ \A j \in Jobs : at'[j] = "idle" <=> at[j] = "idle"
<1> USE JobsAreProcs
<1> DEFINE launched == interrupted \cap InLaunch
<1>1. /\ launched \subseteq Procs /\ \A j \in launched : at[j] = "spawning"
      /\ \A j \in interrupted \ launched : at[j] # "spawning"
  BY DEF InLaunch
<1>2. /\ proc' = [j \in Procs |-> IF j \in launched THEN KilledInLaunch(strays[j]) ELSE proc[j]]
      /\ \A j \in launched : at'[j] = "ended" /\ outcome'[j] = "spawn_interrupted"
      /\ at' = [j \in Procs |-> at'[j]] /\ outcome' = [j \in Procs |-> outcome'[j]]
  <2>1. proc' = [j \in Procs |-> IF j \in launched THEN KilledInLaunch(strays[j]) ELSE proc[j]]
    BY DEF InterruptAll
  <2>2. \A j \in launched : at'[j] = "ended" /\ outcome'[j] = "spawn_interrupted"
    <3> SUFFICES ASSUME NEW j \in launched
                 PROVE  at'[j] = "ended" /\ outcome'[j] = "spawn_interrupted"
      OBVIOUS
    <3>1. /\ j \in Procs /\ j \in interrupted /\ j \in InLaunch
          /\ at[j] = "spawning" /\ outcome[j] = "none"
      BY DEF InLaunch, JobFits
    <3>2. at'[j] = "ended"
      BY <3>1 DEF InterruptAll
    <3>3. outcome'[j] = "spawn_interrupted"
      BY <3>1 DEF InterruptAll
    <3> QED BY <3>2, <3>3
  <2>3. at' = [j \in Procs |-> at'[j]]
    BY DEF InterruptAll
  <2>4. outcome' = [j \in Procs |-> outcome'[j]]
    BY DEF InterruptAll
  <2> QED BY <2>1, <2>2, <2>3, <2>4
<1>3. ASSUME NEW j \in Procs \ launched
      PROVE  /\ at'[j] = IF j \in interrupted /\ at[j] \in {"waiting", "killing"}
                         THEN "cleaning" ELSE at[j]
             /\ outcome'[j] = IF j \in interrupted
                                 /\ (at[j] \in {"waiting", "killing"} \/ outcome[j] = "exit")
                              THEN "interrupted" ELSE outcome[j]
  BY <1>1, <1>3 DEF InterruptAll
<1>4. /\ ProcTypeOK /\ at \in [Procs -> {"idle", "spawning", "waiting", "killing", "cleaning",
                                         "sweeping", "draining", "ended"}]
      /\ outcome \in [Procs -> {"none"} \cup Outcomes]
      /\ cancel \in [Procs -> BOOLEAN] /\ late \in [Procs -> BOOLEAN]
  BY DEF BatchKinds
<1>5. \A j \in launched :
          KilledInLaunch(strays[j]) \in
              [leader : {"exited"}, child : {"none"} \cup Descendants,
               pipe : {"closed"}, reader : {"none"}]
  BY DEF KilledInLaunch, Unborn
<1> HIDE DEF launched
<1>6. ProcTypeOK'
  BY <1>1, <1>2, <1>4, <1>5 DEF ProcTypeOK
<1>7. BatchKinds'
  <2>1. ASSUME NEW j \in Procs
        PROVE  /\ at'[j] \in {"idle", "spawning", "waiting", "killing", "cleaning",
                              "sweeping", "draining", "ended"}
               /\ outcome'[j] \in {"none"} \cup Outcomes
    <3>1. CASE j \in launched
      BY <1>2, <3>1 DEF Outcomes
    <3>2. CASE j \notin launched
      BY <1>3, <1>4, <3>2 DEF Outcomes
    <3> QED BY <3>1, <3>2
  <2> QED BY <1>2, <1>4, <1>6, <2>1 DEF BatchKinds
<1>8. ASSUME NEW j \in Jobs PROVE JobFits(j)'
  <2>1. CASE j \in launched
    <3>1. proc'[j].leader = "exited" /\ proc'[j].reader = "none"
      BY <1>2, <1>5, <2>1
    <3> QED BY <1>2, <2>1, <3>1 DEF JobFits, NeverRan, Exited
  <2>2. CASE j \notin launched
    <3>1. JobFits(j) /\ proc'[j] = proc[j]
      BY <1>2, <2>2
    <3> QED BY <1>3, <2>2, <3>1 DEF JobFits, NeverRan, Exited
  <2> QED BY <2>1, <2>2
<1>9. \A j \in Jobs \ interrupted : at'[j] = at[j] /\ outcome'[j] = outcome[j]
  BY <1>3 DEF launched
<1>10. ASSUME NEW j \in Jobs PROVE at'[j] = "idle" <=> at[j] = "idle"
  <2>1. CASE j \in launched
    BY <1>1, <1>2, <2>1
  <2>2. CASE j \notin launched
    BY <1>3, <2>2
  <2> QED BY <2>1, <2>2
<1> QED BY <1>7, <1>8, <1>9, <1>10

\* The first failure interrupts the run each other core has under way.
LEMMA FailureFits ==
    ASSUME ExecInv, GatherRaises
    PROVE  ExecInv'
<1> USE JobsAreProcs
<1>1. /\ phase = "running" /\ phase' = "stopping"
      /\ worker' = [c \in Cores |-> IF worker[c] = "new" THEN "failed" ELSE worker[c]]
      /\ UNCHANGED <<cancel, late, planVars, rounds, line, results, verdict>>
  BY DEF GatherRaises
<1>2. /\ todo = {} /\ PlanInv /\ \A c \in Cores : QueueFits(c)
      /\ line \in [Cores -> Seq(Jobs)]
      /\ worker \in [Cores -> {"new", "busy", "done", "failed"}]
  BY <1>1 DEF ExecInv, RoundFits, ExecTypeOK
<1>3. PICK strays \in [Underway \cap InLaunch -> {"none"} \cup Descendants] :
          InterruptAll(Underway, strays)
  BY DEF GatherRaises
<1>4. ASSUME NEW c \in Cores, worker[c] = "busy"
      PROVE  /\ Head(line[c]) \in Jobs /\ at[Head(line[c])] # "idle"
             /\ place[Head(line[c])].core = c /\ place[Head(line[c])].position = Turn(c)
  <2>1. line[c] # << >>
    BY <1>2, <1>4 DEF QueueFits
  <2> QED BY <1>2, <1>4, <2>1, HeadOfQueue DEF QueueFits
<1>5. /\ Underway \subseteq Jobs
      /\ \A j \in Underway : /\ at[j] # "idle"
                             /\ place[j].core \in Cores /\ worker[place[j].core] = "busy"
                             /\ place[j].position = Turn(place[j].core)
  BY <1>4 DEF Underway
<1>6. /\ BatchKinds' /\ \A j \in Jobs : JobFits(j)'
      /\ \A j \in Jobs \ Underway : at'[j] = at[j] /\ outcome'[j] = outcome[j]
      /\ \A j \in Jobs : at'[j] = "idle" <=> at[j] = "idle"
  BY <1>1, <1>3, <1>5, InterruptedRuns DEF ExecInv
<1>7. PlanInv'
  BY <1>1, <1>2, PlanInvStutters
<1>8. ExecTypeOK' /\ ResultsComplete'
  BY <1>1, <1>2 DEF ExecInv, ExecTypeOK, ResultsComplete
<1>9. ASSUME NEW c \in Cores PROVE QueueFits(c)'
  <2>1. /\ QueueFits(c) /\ line'[c] = line[c] /\ place' = place /\ length' = length
        /\ Turn(c)' = Turn(c) /\ results' = results
    BY <1>1, <1>2 DEF Turn, planVars
  <2>2. worker'[c] = IF worker[c] = "new" THEN "failed" ELSE worker[c]
    BY <1>1
  <2>3. Turn(c) \in Int /\ \A j \in Jobs : place[j].position \in Nat
    BY <1>2, <2>1, PlanComplete DEF Turn, QueueFits
  <2>4. ASSUME NEW j \in Jobs, place[j].core = c
        PROVE  /\ place[j].position < Turn(c) =>
                      at'[j] = "ended" /\ outcome'[j] = "exit" /\ j \in results
               /\ place[j].position > Turn(c) => at'[j] = "idle"
               /\ place[j].position = Turn(c) =>
                      /\ worker'[c] = "busy" => at'[j] # "idle"
                      /\ worker'[c] = "failed" => at'[j] \in {"idle", "ended"}
    <3>1. /\ place[j].position # Turn(c) => j \notin Underway
          /\ worker[c] # "busy" => j \notin Underway
      BY <1>5, <2>4
    <3> QED BY <1>6, <2>1, <2>2, <2>3, <2>4, <3>1 DEF QueueFits
  <2>5. /\ worker'[c] # "new"
        /\ worker'[c] = "done" => line[c] = << >>
        /\ line[c] = << >> => worker'[c] \in {"done", "failed"}
    BY <2>1, <2>2 DEF QueueFits
  <2> QED BY <2>1, <2>4, <2>5 DEF QueueFits
<1>10. RoundFits'
  BY <1>1, <1>2, <1>9 DEF RoundFits, planVars
<1> QED BY <1>6, <1>7, <1>8, <1>10 DEF ExecInv

-----------------------------------------------------------------------------
LEMMA ExecInvInit == ExecInit => ExecInv
<1> SUFFICES ASSUME ExecInit PROVE ExecInv
  OBVIOUS
<1> USE JobsAreProcs DEF ExecInit
<1>1. /\ rounds # << >> /\ rounds[1] \in Strategies /\ Head(rounds) = rounds[1]
  <2>1. CASE rounds = <<"FIFO_BASELINE", "RESOURCE_AWARE">>
    BY <2>1 DEF Strategies
  <2>2. ASSUME NEW s \in Strategies, rounds = <<s>>
        PROVE  rounds # << >> /\ rounds[1] \in Strategies /\ Head(rounds) = rounds[1]
    BY <2>2
  <2> QED BY <2>1, <2>2, ExecutionAssumption
<1>2. PlanInv
  BY <1>1, PlanFresh, SchedulerAssumption
<1>3. BatchKinds /\ \A j \in Jobs : JobFits(j)
  BY DEF BatchKinds, ProcTypeOK, Unborn, JobFits
<1>4. ExecTypeOK /\ ResultsComplete
  BY DEF ExecTypeOK, ResultsComplete
<1>5. RoundFits
  BY <1>1 DEF RoundFits
<1> QED BY <1>2, <1>3, <1>4, <1>5 DEF ExecInv

LEMMA ExecInvKept == ExecInv /\ [ExecNext]_allVars => ExecInv'
<1> SUFFICES ASSUME ExecInv, [ExecNext]_allVars PROVE ExecInv'
  OBVIOUS
<1>1. CASE Manages
  BY <1>1, RoundBegins, PlanningFits, WorkersStart, GatheringFits, FailureFits DEF Manages
<1>2. CASE NoRound \/ CancelTask
  BY <1>2, PlanningFits
<1>3. ASSUME NEW c \in Cores, WorkerStep(c) PROVE ExecInv'
  BY <1>3, WorkerFits
<1>4. ASSUME NEW j \in Jobs, RunStep(j) \/ Clock(j) \/ World(j) PROVE ExecInv'
  <2>1. /\ BatchKinds' /\ RunKeeps /\ \A k \in Jobs : JobFits(k)'
        /\ UNCHANGED <<planVars, execVars>>
    BY <1>4, RunFits, WorldFits DEF RunStep, Clock, World, ExecInv
  <2> QED BY <2>1, RoundKept DEF ExecInv
<1>5. CASE UNCHANGED allVars
  <2>1. UNCHANGED <<vars, planVars, execVars>>
    BY <1>5 DEF allVars
  <2>2. BatchKinds' /\ RunKeeps /\ \A j \in Jobs : JobFits(j)'
    BY <2>1, JobsAreProcs DEF ExecInv, BatchKinds, ProcTypeOK, JobFits, Exited, RunKeeps, vars
  <2> QED BY <2>1, <2>2, RoundKept DEF ExecInv
<1> QED BY <1>1, <1>2, <1>3, <1>4, <1>5 DEF ExecNext

LEMMA ExecInvHolds == ExecSpec => []ExecInv
<1> QED BY ExecInvInit, ExecInvKept, PTL DEF ExecSpec

\* The plan of every round is what its strategy promises, at every turn of its loop:
\* queues without gaps, back to back, level or dealt out evenly.  (plan_tasks)
THEOREM PlansHold == ExecSpec => []PlanHolds
<1>1. ExecInv => PlanHolds
  BY DEF ExecInv, PlanInv
<1> QED BY <1>1, ExecInvHolds, PTL

\* Runs end with a dead group and without readers, cores run one job at a time in the
\* order of the plan, and a round that returns has all its results.  (run_core_queue)
THEOREM ExecutionIsSafe == ExecSpec => []ExecutionInv
<1>1. ASSUME ExecInv PROVE BatchInv
  <2>1. BatchKinds /\ \A j \in Procs : JobFits(j)
    BY <1>1, JobsAreProcs DEF ExecInv
  <2>2. BatchTypeOK
    BY <2>1 DEF BatchTypeOK, BatchKinds, JobFits
  <2>3. GroupDiesFirst
    BY <2>1 DEF GroupDiesFirst, JobFits, GroupAlive, Exited, NeverRan, Unborn
  <2>4. NoLateOutput
    BY <2>1 DEF NoLateOutput, JobFits
  <2> QED BY <2>2, <2>3, <2>4 DEF BatchInv
<1>2. ASSUME ExecInv PROVE CoresRunInOrder
  <2> SUFFICES ASSUME phase \in {"running", "stopping"}, NEW j \in Jobs, NEW k \in Jobs,
                      Before(j, k), at[k] # "idle"
               PROVE  at[j] = "ended" /\ outcome[j] = "exit" /\ j \in results
    BY DEF CoresRunInOrder
  <2> DEFINE c == place[k].core
  <2>1. PlanInv /\ todo = {} /\ \A d \in Cores : QueueFits(d)
    BY <1>2 DEF ExecInv, RoundFits
  <2>2. /\ c \in Cores /\ place[j].core = c /\ place[k].position \in Nat
        /\ place[j].position \in Nat /\ place[j].position < place[k].position
        /\ length[c] \in Nat /\ QueueFits(c)
    BY <2>1, PlanComplete DEF Before
  <2>3. Turn(c) \in Int
    BY <2>2 DEF Turn, QueueFits
  <2>4. place[k].position <= Turn(c)
    BY <2>2, <2>3 DEF QueueFits
  <2> QED BY <2>2, <2>3, <2>4 DEF QueueFits
<1>3. ExecInv => ExecutionInv
  BY <1>1, <1>2 DEF ExecInv, ExecutionInv
<1> QED BY <1>3, ExecInvHolds, PTL

\* When an execution returns or raises, and between its rounds, no worker, no run and no
\* process group of a job is left, but for a process killed in its launch.  (execute)
THEOREM ExecutionLeavesNothing == ExecSpec => []NothingOutlivesIt
<1>1. ASSUME ExecInv PROVE NothingOutlivesIt
  <2> SUFFICES ASSUME phase \in {"ready", "over"} PROVE NothingOutlivesIt
    BY DEF NothingOutlivesIt
  <2>1. /\ \A c \in Cores : worker[c] \in {"done", "failed"}
        /\ \A j \in Jobs : at[j] \in {"idle", "ended"} /\ JobFits(j)
    BY <1>1 DEF ExecInv, RoundFits
  <2>2. \A j \in Jobs : outcome[j] # "spawn_interrupted" => ~GroupAlive(j)
    BY <2>1 DEF JobFits, GroupAlive, Exited, NeverRan, Unborn
  <2> QED BY <2>1, <2>2 DEF NothingOutlivesIt, Active
<1> QED BY <1>1, ExecInvHolds, PTL
===============================================================================
