--------------------------- MODULE TaskLifecycle ---------------------------
(***************************************************************************)
(* What the platform promises a client about a task, with nothing of how   *)
(* it is kept: a task waits, runs and gets one verdict; a request to stop  *)
(* can never be outrun by another verdict; files are offered only by tasks *)
(* that succeeded; and a restart of the backend settles everything that    *)
(* was still open at once.                                                 *)
(***************************************************************************)
CONSTANT Tasks

VARIABLES
    life,       \* life[t]: where the task is, as a client sees it
    offered     \* the tasks whose workspace is offered for download

lifeVars == <<life, offered>>

Verdicts == {"succeeded", "failed", "cancelled"}
Open     == {"waiting", "working", "stopping"}

LifeTypeOK ==
    /\ life \in [Tasks -> {"unknown"} \cup Open \cup Verdicts]
    /\ offered \in SUBSET Tasks

LifeInit ==
    /\ life = [t \in Tasks |-> "unknown"]
    /\ offered = {}

Moves(t, from, to) ==
    /\ life[t] = from
    /\ life' = [life EXCEPT ![t] = to]

Submit(t) == Moves(t, "unknown", "waiting") /\ UNCHANGED offered
Begin(t)  == Moves(t, "waiting", "working") /\ UNCHANGED offered

\* A task that has not begun is stopped on the spot; one at work is told to.
Stop(t) ==
    /\ \/ Moves(t, "waiting", "cancelled")
       \/ Moves(t, "working", "stopping")
    /\ UNCHANGED offered

\* The worker's own verdict counts only if nobody asked the task to stop.
End(t) ==
    \/ /\ Moves(t, "working", "succeeded")
       /\ offered' \in {offered, offered \cup {t}}
    \/ /\ \/ Moves(t, "working", "failed")
          \/ Moves(t, "working", "cancelled")
          \/ Moves(t, "stopping", "cancelled")
       /\ UNCHANGED offered

\* After a crash no task is left open: what was being stopped is cancelled,
\* the rest has failed.
Settle ==
    /\ life' = [t \in Tasks |->
                  CASE life[t] = "stopping" -> "cancelled"
                    [] life[t] \in {"waiting", "working"} -> "failed"
                    [] OTHER -> life[t]]
    /\ UNCHANGED offered

LifeNext ==
    \/ \E t \in Tasks : Submit(t) \/ Begin(t) \/ Stop(t) \/ End(t)
    \/ Settle

LifeSpec == LifeInit /\ [][LifeNext]_lifeVars
=============================================================================
