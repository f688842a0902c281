----------------------- MODULE VulnerabilityScan_proofs -----------------------
(***************************************************************************)
(* Vulnerability scans, for any tasks, any of them incremental, and any    *)
(* faults.                                                                 *)
(*                                                                         *)
(* The invariant says of each place of a worker what the directories of    *)
(* its swap are there; who holds the lock is the only one in a swap, so    *)
(* the stable tree is described at those places too.                       *)
(***************************************************************************)
EXTENDS VulnerabilityScan, TLAPS

Old == Tasks \cup {"none"}

\* The directories of t's swap, by the place of its worker.  Only an
\* incremental scan gets to one.
SwapFits(t) ==
    /\ place[t] = "locking" => t \in Incremental
    /\ place[t] \notin {"moving", "placing", "dropping", "scanning", "over"}
         => staging[t] = "none" /\ backup[t] = "none"
    /\ place[t] = "moving" => staging[t] = t /\ backup[t] = "none"
    /\ place[t] = "placing" => staging[t] = t /\ backup[t] \in Old
    /\ place[t] = "dropping" => staging[t] = "none" /\ backup[t] \in Old
    /\ place[t] = "scanning" => staging[t] = "none" /\ backup[t] \notin Tasks
    /\ place[t] = "over" /\ ~wrecked => staging[t] \notin Tasks /\ backup[t] \notin Tasks

\* The stable tree, by the place of the scan that has the lock.
StableFits(t) ==
    /\ place[t] = "placing" => stable = "none"
    /\ place[t] = "dropping" => stable = t
    /\ place[t] = "scanning" /\ t \in Incremental => lock = t /\ stable = t

\* Where there is an old tree, there is a stable one, or the scan between its
\* two renames has it.
OldTreeKept ==
    ~wrecked /\ (\E t \in Tasks : backup[t] # "none")
        => \/ stable # "none"
           \/ lock \in Tasks /\ place[lock] = "placing" /\ backup[lock] # "none"

SwapInv ==
    /\ ScanTypeOK
    /\ \A t \in Tasks : SwapFits(t) /\ StableFits(t)
    /\ OldTreeKept

-----------------------------------------------------------------------------
(***************************************************************************)
(* What the steps of one scan have in common.                              *)
(***************************************************************************)
\* The step of one scan does not disturb the swap of another: who is in a swap
\* or reads the stable tree has the lock.
LEMMA OthersFit ==
    ASSUME SwapInv, NEW t \in Tasks, NEW u \in Tasks \ {t},
           place'[u] = place[u], staging'[u] = staging[u], backup'[u] = backup[u],
           wrecked => wrecked',
           lock = u => lock' = u /\ stable' = stable
    PROVE  SwapFits(u)' /\ StableFits(u)'
<1>1. SwapFits(u) /\ StableFits(u)
  BY DEF SwapInv
<1>2. place[u] \in Syncing => lock = u
  BY DEF SwapInv, ScanTypeOK
<1>3. SwapFits(u)'
  BY <1>1 DEF SwapFits
<1>4. StableFits(u)'
  BY <1>1, <1>2 DEF StableFits, Syncing
<1> QED
  BY <1>3, <1>4

\* A worker that ends is no longer active and has no lock.
LEMMA EndTyped ==
    ASSUME SwapInv, NEW t \in Tasks, place[t] \in Running, Ends(t),
           UNCHANGED <<cancel, handler, posted>>,
           stable' \in Old, staging' \in [Tasks -> Tree], backup' \in [Tasks -> Tree],
           wrecked' \in BOOLEAN
    PROVE  /\ ScanTypeOK'
           /\ place'[t] = "over" /\ (lock = t => lock' = "none") /\ (lock # t => lock' = lock)
           /\ \A u \in Tasks \ {t} : place'[u] = place[u]
<1>1. ScanTypeOK
  BY DEF SwapInv
<1>2. /\ place' \in [Tasks -> Places] /\ place'[t] = "over"
      /\ \A u \in Tasks \ {t} : place'[u] = place[u]
  BY <1>1 DEF Ends, ScanTypeOK, Places
<1>3. /\ lock' \in Tasks \cup {"none"}
      /\ (lock = t => lock' = "none") /\ (lock # t => lock' = lock)
  BY <1>1 DEF Ends, ScanTypeOK
<1>4. active' \subseteq {u \in Tasks : place'[u] \in Running}
  BY <1>1, <1>2 DEF Ends, ScanTypeOK
<1>5. ASSUME NEW u \in Tasks
      PROVE  /\ place'[u] \in Syncing => lock' = u
             /\ lock' = u => u \in Incremental /\ place'[u] \in Syncing \cup {"scanning"}
  BY <1>1, <1>2, <1>3, ScanAssumption DEF ScanTypeOK, Syncing
<1>6. stable' \in Tree \ {"partial"}
  BY ScanAssumption DEF Old, Tree
<1> QED
  BY <1>1, <1>2, <1>3, <1>4, <1>5, <1>6 DEF ScanTypeOK

\* A worker that goes on keeps the lock, and takes it only when it is free.
LEMMA GoTyped ==
    ASSUME SwapInv, NEW t \in Tasks, NEW from \in Places, NEW to \in Running, Goes(t, from, to),
           UNCHANGED <<cancel, handler, posted>>,
           active' \subseteq active \cup {t},
           lock' \in Tasks \cup {"none"}, lock' = lock \/ (lock = "none" /\ lock' = t),
           to \in Syncing => lock' = t,
           lock' = t => t \in Incremental /\ to \in Syncing \cup {"scanning"},
           stable' \in Old, staging' \in [Tasks -> Tree], backup' \in [Tasks -> Tree],
           wrecked' \in BOOLEAN
    PROVE  /\ ScanTypeOK' /\ place[t] = from /\ place'[t] = to
           /\ \A u \in Tasks \ {t} : place'[u] = place[u]
<1>1. ScanTypeOK
  BY DEF SwapInv
<1>2. /\ place' \in [Tasks -> Places] /\ place[t] = from /\ place'[t] = to
      /\ \A u \in Tasks \ {t} : place'[u] = place[u]
  BY <1>1 DEF Goes, ScanTypeOK, Places, Running
<1>3. active' \subseteq {u \in Tasks : place'[u] \in Running}
  BY <1>1, <1>2 DEF ScanTypeOK
<1>4. ASSUME NEW u \in Tasks
      PROVE  /\ place'[u] \in Syncing => lock' = u
             /\ lock' = u => u \in Incremental /\ place'[u] \in Syncing \cup {"scanning"}
  BY <1>1, <1>2, ScanAssumption DEF ScanTypeOK
<1>5. stable' \in Tree \ {"partial"}
  BY ScanAssumption DEF Old, Tree
<1> QED
  BY <1>1, <1>2, <1>3, <1>4, <1>5 DEF ScanTypeOK

\* A step that leaves the trees alone: before a swap, or after it.
LEMMA TreesSame ==
    ASSUME SwapInv, ScanTypeOK', NEW t \in Tasks, UNCHANGED <<trees, wrecked>>,
           \A u \in Tasks \ {t} : place'[u] = place[u],
           \A u \in Tasks \ {t} : lock = u => lock' = u,
           place[t] \notin {"copying", "moving", "placing", "dropping", "over"},
           place'[t] \notin {"moving", "placing", "dropping"},
           place[t] = "scanning" => place'[t] = "over",
           place'[t] = "scanning" => t \notin Incremental,
           place'[t] = "locking" => t \in Incremental
    PROVE  SwapInv'
<1>1. UNCHANGED <<stable, staging, backup, wrecked>>
  BY DEF trees
<1>2. \A u \in Tasks \ {t} : SwapFits(u)' /\ StableFits(u)'
  BY <1>1, OthersFit
<1>3. SwapFits(t) /\ StableFits(t)
  BY DEF SwapInv
<1>4. SwapFits(t)'
  BY <1>1, <1>3, ScanAssumption DEF SwapFits
<1>5. StableFits(t)'
  BY <1>1 DEF StableFits
<1>6. OldTreeKept'
  BY <1>1 DEF SwapInv, OldTreeKept
<1> QED
  BY <1>2, <1>4, <1>5, <1>6 DEF SwapInv

\* Before the swap.
LEMMA BeforeSwapKeeps ==
    ASSUME SwapInv, NEW t \in Tasks,
           \/ Start(t) \/ CheckNew(t) \/ Register(t) \/ CheckRegistered(t) \/ TryLock(t)
           \/ CheckLocked(t)
    PROVE  SwapInv'
<1>1. /\ stable \in Old /\ staging \in [Tasks -> Tree] /\ backup \in [Tasks -> Tree]
      /\ wrecked \in BOOLEAN /\ lock \in Tasks \cup {"none"} /\ ScanTypeOK
  BY DEF SwapInv, ScanTypeOK, Old, Tree
<1>2. UNCHANGED <<cancel, handler, posted, stable, staging, backup, wrecked>>
  BY DEF Start, CheckNew, Register, CheckRegistered, TryLock, CheckLocked, trees
<1>3. lock = t => place[t] \in Syncing \cup {"scanning"}
  BY <1>1 DEF ScanTypeOK
<1>4. ASSUME Ends(t), place[t] \in {"new", "registered", "locking", "locked"}
      PROVE  SwapInv'
  <2>1. place[t] \in Running
    BY <1>4 DEF Running, Places, Syncing
  <2> QED
    BY <1>1, <1>2, <1>4, <2>1, EndTyped, TreesSame, ScanAssumption DEF trees
<1>5. ASSUME NEW from \in {"unborn", "new", "ready", "registered", "locking", "locked"},
             NEW to \in {"new", "ready", "registered", "locking", "locked", "copying", "scanning"},
             Goes(t, from, to), active' \subseteq active \cup {t},
             lock' = lock \/ (lock = "none" /\ lock' = t),
             to \in {"locked", "copying"} <=> lock' = t,
             to = "scanning" => t \notin Incremental,
             to = "locking" => t \in Incremental,
             lock' = t => t \in Incremental
      PROVE  SwapInv'
  <2>1. from \in Places /\ to \in Running
    BY DEF Running, Places, Syncing
  <2>2. ScanTypeOK' /\ place[t] = from /\ place'[t] = to
        /\ \A u \in Tasks \ {t} : place'[u] = place[u]
    <3>1. /\ lock' \in Tasks \cup {"none"}
          /\ to \in Syncing => lock' = t
          /\ lock' = t => t \in Incremental /\ to \in Syncing \cup {"scanning"}
      BY <1>1, <1>5 DEF Syncing
    <3> QED
      BY <1>1, <1>2, <1>5, <2>1, <3>1, GoTyped
  <2> QED
    BY <1>1, <1>2, <1>5, <2>2, TreesSame, ScanAssumption DEF trees
<1>6. CASE Start(t) \/ Register(t)
  BY <1>1, <1>3, <1>5, <1>6 DEF Start, Register, Goes, Syncing
<1>7. CASE CheckNew(t)
  BY <1>1, <1>3, <1>4, <1>5, <1>7 DEF CheckNew, Goes, Syncing
<1>8. CASE CheckRegistered(t)
  BY <1>1, <1>3, <1>4, <1>5, <1>8 DEF CheckRegistered, Scans, Goes, Syncing
<1>9. CASE TryLock(t)
  <2>1. place[t] = "locking" => t \in Incremental
    BY DEF SwapInv, SwapFits
  <2> QED
    BY <1>1, <1>3, <1>4, <1>5, <1>9, <2>1 DEF TryLock, Goes, Syncing
<1>10. CASE CheckLocked(t)
  <2>1. place[t] = "locked" => lock = t /\ t \in Incremental
    BY <1>1 DEF ScanTypeOK, Syncing
  <2> QED
    BY <1>1, <1>3, <1>4, <1>5, <1>10, <2>1 DEF CheckLocked, Goes, Syncing
<1> QED
  BY <1>6, <1>7, <1>8, <1>9, <1>10

-----------------------------------------------------------------------------
(***************************************************************************)
(* The swap, the end of a scan, and what is left.                          *)
(***************************************************************************)
\* A scan in a swap has the lock, which nobody else has.
LEMMA SwapAlone ==
    ASSUME SwapInv, NEW t \in Tasks, place[t] \in Syncing
    PROVE  /\ lock = t /\ t \in Incremental /\ place[t] \in Running
           /\ \A u \in Tasks \ {t} : place[u] \notin Syncing
BY DEF SwapInv, ScanTypeOK, Running, Places, Syncing

\* A swap that ends before its scan, its copy gone and the old tree in its place,
\* or, if the clean-up failed, wrecked.
LEMMA SwapEnds ==
    ASSUME SwapInv, NEW t \in Tasks, place[t] \in Syncing, Ends(t),
           UNCHANGED <<cancel, handler, posted>>,
           stable' \in Old, staging' \in [Tasks -> Tree], backup' \in [Tasks -> Tree],
           wrecked' \in BOOLEAN, wrecked => wrecked',
           \A u \in Tasks \ {t} : staging'[u] = staging[u] /\ backup'[u] = backup[u],
           wrecked' \/ (staging'[t] \notin Tasks /\ backup'[t] = "none"),
           \/ wrecked'
           \/ stable' = stable /\ place[t] \notin {"placing"}
           \/ stable' = (IF backup[t] = "none" THEN stable ELSE backup[t])
    PROVE  SwapInv'
<1>1. lock = t /\ place[t] \in Running /\ \A u \in Tasks \ {t} : place[u] \notin Syncing
  BY SwapAlone
<1>2. /\ ScanTypeOK' /\ place'[t] = "over" /\ lock' = "none"
      /\ \A u \in Tasks \ {t} : place'[u] = place[u]
  BY <1>1, EndTyped
<1>3. \A u \in Tasks \ {t} : SwapFits(u)' /\ StableFits(u)'
  BY <1>1, <1>2, OthersFit
<1>4. SwapFits(t)' /\ StableFits(t)'
  BY <1>2, ScanAssumption DEF SwapFits, StableFits
<1>5. OldTreeKept'
  BY <1>1, <1>2, ScanAssumption DEF OldTreeKept, SwapInv
<1> QED
  BY <1>2, <1>3, <1>4, <1>5 DEF SwapInv

\* The swap.
LEMMA SyncKeeps ==
    ASSUME SwapInv, NEW t \in Tasks, Sync(t)
    PROVE  SwapInv'
<1>1. /\ stable \in Old /\ staging \in [Tasks -> Tree] /\ backup \in [Tasks -> Tree]
      /\ wrecked \in BOOLEAN /\ lock \in Tasks \cup {"none"} /\ ScanTypeOK
      /\ t \in Tree /\ "none" \in Tree /\ "partial" \in Tree
  BY DEF SwapInv, ScanTypeOK, Old, Tree
<1>2. place[t] \in Syncing /\ UNCHANGED <<cancel, handler, posted>>
  BY DEF Sync, CopyTree, MoveOld, PlaceNew, DropOld, Syncing
<1>3. lock = t /\ t \in Incremental /\ SwapFits(t) /\ StableFits(t) /\ OldTreeKept
  BY <1>2, SwapAlone DEF SwapInv
<1>4. ASSUME NEW from \in Syncing, NEW to \in Syncing \cup {"scanning"}, Goes(t, from, to),
             UNCHANGED <<active, lock, wrecked>>,
             stable' \in Old, staging' \in [Tasks -> Tree], backup' \in [Tasks -> Tree],
             \A u \in Tasks \ {t} : staging'[u] = staging[u] /\ backup'[u] = backup[u]
      PROVE  /\ ScanTypeOK' /\ place[t] = from /\ place'[t] = to
             /\ \A u \in Tasks \ {t} : SwapFits(u)' /\ StableFits(u)'
  <2>1. from \in Places /\ to \in Running
    BY DEF Places, Running, Syncing
  <2>2. /\ ScanTypeOK' /\ place[t] = from /\ place'[t] = to
        /\ \A u \in Tasks \ {t} : place'[u] = place[u]
    BY <1>1, <1>2, <1>3, <1>4, <2>1, GoTyped
  <2> QED
    BY <1>3, <1>4, <2>2, OthersFit, ScanAssumption
<1>5. ASSUME NEW kept \in Old, Restores(t, kept),
             kept = backup[t] \/ (kept = "none" /\ place[t] = "moving")
      PROVE  SwapInv'
  <2>1. CASE wrecked' = TRUE /\ UNCHANGED <<stable, backup>>
    BY <1>1, <1>2, <1>5, <2>1, SwapEnds DEF Restores
  <2>2. CASE UNCHANGED wrecked /\ staging' = [staging EXCEPT ![t] = "none"]
             /\ stable' = (IF kept = "none" THEN stable ELSE kept)
             /\ backup' = [backup EXCEPT ![t] = "none"]
    BY <1>1, <1>2, <1>5, <2>2, SwapEnds, ScanAssumption DEF Restores, Old
  <2> QED
    BY <1>5, <2>1, <2>2 DEF Restores
<1>6. CASE CopyTree(t)
  <2>1. CASE Goes(t, "copying", "moving") /\ staging' = [staging EXCEPT ![t] = t]
             /\ UNCHANGED <<active, lock>>
    <3>1. /\ UNCHANGED <<stable, backup, wrecked>> /\ staging' \in [Tasks -> Tree]
          /\ \A u \in Tasks \ {t} : staging'[u] = staging[u]
          /\ staging'[t] = t
      BY <1>1, <1>6, <2>1 DEF CopyTree
    <3>2. /\ ScanTypeOK' /\ place[t] = "copying" /\ place'[t] = "moving"
          /\ \A u \in Tasks \ {t} : SwapFits(u)' /\ StableFits(u)'
      BY <1>1, <1>4, <2>1, <3>1 DEF Syncing
    <3> QED
      BY <1>3, <2>1, <3>1, <3>2 DEF SwapInv, SwapFits, StableFits, OldTreeKept
  <2>2. CASE Ends(t) /\ staging' = [staging EXCEPT ![t] = "partial"]
    <3>1. /\ UNCHANGED <<stable, backup, wrecked>> /\ place[t] = "copying"
          /\ staging' \in [Tasks -> Tree] /\ staging'[t] = "partial"
          /\ \A u \in Tasks \ {t} : staging'[u] = staging[u]
      BY <1>1, <1>6, <2>2 DEF CopyTree
    <3> QED
      BY <1>1, <1>2, <1>3, <2>2, <3>1, SwapEnds, ScanAssumption DEF SwapFits
  <2> QED
    BY <1>6, <2>1, <2>2 DEF CopyTree
<1>7. CASE MoveOld(t)
  <2>1. CASE Goes(t, "moving", "placing") /\ backup' = [backup EXCEPT ![t] = stable]
             /\ stable' = "none" /\ UNCHANGED <<staging, active, lock, wrecked>>
    <3>1. /\ stable' \in Old /\ backup' \in [Tasks -> Tree] /\ backup'[t] = stable
          /\ \A u \in Tasks \ {t} : backup'[u] = backup[u]
      BY <1>1, <2>1 DEF Old, Tree
    <3>2. /\ ScanTypeOK' /\ place[t] = "moving" /\ place'[t] = "placing"
          /\ \A u \in Tasks \ {t} : SwapFits(u)' /\ StableFits(u)'
      BY <1>1, <1>4, <2>1, <3>1 DEF Syncing
    <3>3. SwapFits(t)' /\ StableFits(t)'
      BY <1>1, <1>3, <2>1, <3>1, <3>2 DEF SwapFits, StableFits
    <3>4. OldTreeKept'
      BY <1>1, <1>3, <2>1, <3>1, <3>2 DEF OldTreeKept, SwapFits
    <3> QED
      BY <3>2, <3>3, <3>4 DEF SwapInv
  <2>2. CASE Restores(t, "none")
    BY <1>5, <1>7, <2>2 DEF MoveOld, Old, Restores, Ends
  <2> QED
    BY <1>7, <2>1, <2>2 DEF MoveOld
<1>8. CASE PlaceNew(t)
  <2>0. place[t] = "placing" /\ staging[t] = t /\ backup[t] \in Old
    BY <1>3, <1>8 DEF PlaceNew, SwapFits
  <2>1. CASE Goes(t, "placing", "dropping") /\ stable' = staging[t]
             /\ staging' = [staging EXCEPT ![t] = "none"]
             /\ UNCHANGED <<backup, active, lock, wrecked>>
    <3>1. /\ stable' = t /\ stable' \in Old /\ staging' \in [Tasks -> Tree]
          /\ staging'[t] = "none"
          /\ \A u \in Tasks \ {t} : staging'[u] = staging[u]
      BY <1>1, <2>0, <2>1 DEF Old
    <3>2. /\ ScanTypeOK' /\ place'[t] = "dropping"
          /\ \A u \in Tasks \ {t} : SwapFits(u)' /\ StableFits(u)'
      BY <1>1, <1>4, <2>1, <3>1 DEF Syncing
    <3>3. SwapFits(t)' /\ StableFits(t)'
      BY <2>0, <2>1, <3>1, <3>2 DEF SwapFits, StableFits
    <3>4. OldTreeKept'
      BY <3>1, ScanAssumption DEF OldTreeKept
    <3> QED
      BY <3>2, <3>3, <3>4 DEF SwapInv
  <2>2. CASE Restores(t, backup[t])
    BY <1>5, <2>0, <2>2
  <2> QED
    BY <1>8, <2>1, <2>2 DEF PlaceNew
<1>9. CASE DropOld(t)
  <2>1. /\ Goes(t, "dropping", "scanning") /\ UNCHANGED <<active, lock, stable, staging, wrecked>>
        /\ backup' \in [Tasks -> Tree] /\ backup'[t] \in {"none", "partial"}
        /\ \A u \in Tasks \ {t} : backup'[u] = backup[u]
    BY <1>1, <1>9 DEF DropOld, Scans
  <2>2. /\ ScanTypeOK' /\ place[t] = "dropping" /\ place'[t] = "scanning"
        /\ \A u \in Tasks \ {t} : SwapFits(u)' /\ StableFits(u)'
    BY <1>1, <1>4, <2>1 DEF Syncing
  <2>3. stable = t
    BY <1>3, <2>2 DEF StableFits
  <2>4. SwapFits(t)' /\ StableFits(t)'
    BY <1>3, <2>1, <2>2, <2>3, ScanAssumption DEF SwapFits, StableFits
  <2>5. OldTreeKept'
    BY <2>1, <2>3, ScanAssumption DEF OldTreeKept
  <2> QED
    BY <2>2, <2>4, <2>5 DEF SwapInv
<1> QED
  BY <1>6, <1>7, <1>8, <1>9 DEF Sync

\* A scan ends, or the worker is interrupted where it awaits.
LEMMA EndKeeps ==
    ASSUME SwapInv, NEW t \in Tasks, ScanEnds(t) \/ Interrupt(t)
    PROVE  SwapInv'
<1>1. /\ Ends(t) /\ place[t] \in {"locking", "scanning"}
      /\ UNCHANGED <<cancel, handler, posted, trees, wrecked>>
  BY DEF ScanEnds, Interrupt
<1>2. /\ stable \in Old /\ staging \in [Tasks -> Tree] /\ backup \in [Tasks -> Tree]
      /\ wrecked \in BOOLEAN /\ place[t] \in Running
  BY <1>1 DEF SwapInv, ScanTypeOK, Old, Tree, Running, Places
<1>3. /\ ScanTypeOK' /\ place'[t] = "over" /\ (lock # t => lock' = lock)
      /\ \A u \in Tasks \ {t} : place'[u] = place[u]
  BY <1>1, <1>2, EndTyped DEF trees
<1> QED
  BY <1>1, <1>3, TreesSame

\* Cancel requests change nothing of the swap.
LEMMA CancelKeeps ==
    ASSUME SwapInv, NEW t \in Tasks, RequestCancel(t) \/ CancelTask(t)
    PROVE  SwapInv'
<1>1. /\ UNCHANGED <<place, active, lock, stable, staging, backup, wrecked>>
      /\ cancel' \in [Tasks -> BOOLEAN]
      /\ handler' \in [Tasks -> {"idle", "looking", "done"}]
      /\ posted' \subseteq Tasks
  BY DEF RequestCancel, CancelTask, trees, SwapInv, ScanTypeOK
<1> QED
  BY <1>1 DEF SwapInv, ScanTypeOK, SwapFits, StableFits, OldTreeKept

\* A crash leaves no swap, and the trees as they are.
LEMMA CrashKeeps ==
    ASSUME SwapInv, Crash
    PROVE  SwapInv'
<1>1. /\ place' = [t \in Tasks |-> IF place[t] \in Running THEN "over" ELSE place[t]]
      /\ handler' = [t \in Tasks |-> IF handler[t] = "looking" THEN "done" ELSE handler[t]]
      /\ active' = {} /\ posted' = {} /\ lock' = "none" /\ wrecked' = TRUE
      /\ staging' = [t \in Tasks |-> IF place[t] = "copying" THEN "partial" ELSE staging[t]]
      /\ UNCHANGED <<cancel, stable, backup>>
  BY DEF Crash
<1>2. /\ place' \in [Tasks -> Places]
      /\ \A t \in Tasks : \/ place'[t] = "over"
                          \/ place'[t] = "unborn" /\ place[t] = "unborn"
  BY <1>1 DEF SwapInv, ScanTypeOK, Running, Places
<1>3. staging' \in [Tasks -> Tree]
  BY <1>1 DEF SwapInv, ScanTypeOK, Tree
<1>4. ScanTypeOK'
  BY <1>1, <1>2, <1>3, ScanAssumption DEF SwapInv, ScanTypeOK, Syncing
<1>5. \A t \in Tasks : SwapFits(t)' /\ StableFits(t)'
  BY <1>1, <1>2 DEF SwapInv, SwapFits, StableFits
<1>6. OldTreeKept'
  BY <1>1 DEF OldTreeKept
<1> QED
  BY <1>4, <1>5, <1>6 DEF SwapInv

LEMMA SwapHolds == ScanSpec => []SwapInv
<1>1. ScanInit => SwapInv
  <2> SUFFICES ASSUME ScanInit PROVE SwapInv
    OBVIOUS
  <2>1. ScanTypeOK
    BY ScanAssumption DEF ScanInit, ScanTypeOK, Places, Syncing, Tree
  <2>2. \A t \in Tasks : SwapFits(t) /\ StableFits(t)
    BY DEF ScanInit, SwapFits, StableFits
  <2>3. OldTreeKept
    BY DEF ScanInit, OldTreeKept
  <2> QED
    BY <2>1, <2>2, <2>3 DEF SwapInv
<1>2. SwapInv /\ [ScanNext]_vars => SwapInv'
  <2> SUFFICES ASSUME SwapInv, [ScanNext]_vars PROVE SwapInv'
    OBVIOUS
  <2>1. CASE UNCHANGED vars
    BY <2>1 DEF vars, trees, SwapInv, ScanTypeOK, SwapFits, StableFits, OldTreeKept
  <2>2. ASSUME NEW t \in Tasks, Work(t) PROVE SwapInv'
    BY <2>2, BeforeSwapKeeps, SyncKeeps DEF Work
  <2> QED
    BY <2>1, <2>2, BeforeSwapKeeps, EndKeeps, CancelKeeps, CrashKeeps
       DEF ScanNext, CancelArrives, TimeLimit
<1> QED
  BY <1>1, <1>2, PTL DEF ScanSpec

-----------------------------------------------------------------------------
\* All the time that an incremental scan has the Pipeline service read the
\* stable tree, it is the copy of that task's workspace, whatever other scans
\* of the project fail, are cancelled or crash at.
THEOREM ScansSeeTheirTree == ScanSpec => []ScanSeesItsTree
<1>1. SwapInv => ScanSeesItsTree
  BY ScanAssumption DEF SwapInv, StableFits, ScanSeesItsTree
<1> QED
  BY <1>1, SwapHolds, PTL

\* The variables keep their types; outside a swap the old tree is in backup only
\* where a new one is in its place; and a task that is over has left no tree in
\* the directories of its swap, but for what a crash or a failed clean-up left.
THEOREM SwapsAreSafe == ScanSpec => []ScanInv
<1>1. SwapInv => ScanInv
  BY ScanAssumption DEF SwapInv, SwapFits, OldTreeKept, ScanInv, OldTreeSurvives, SwapsAreSwept
<1> QED
  BY <1>1, SwapHolds, PTL
=============================================================================
