------------------------- MODULE CapsuleCacheProofs -------------------------
(***************************************************************************)
(* Proofs about CapsuleCache, for any number of capsules and of requests   *)
(* at a time: cache_lock, the relay markers, the budget and the            *)
(* advertisement.                                                          *)
(***************************************************************************)
EXTENDS CapsuleCache, FiniteSetTheorems, TLAPS

(* Where each operation can be, and where it holds cache_lock.             *)
Changing == {"claim", "publish"}
Sweeping == {"sweep", "delete", "discard"}
Listing == {"list", "mark", "apply"}

Steps(op) ==
    CASE op = "none" -> {"idle"}
      [] op = "sync" -> {"pull", "rollback", "sweepLock"} \cup Changing \cup Sweeping \cup Listing
      [] op = "fetch" -> {"lock", "pull", "rollback"} \cup Changing \cup Sweeping \cup Listing
      [] op = "push" -> {"lock", "check", "rollback"} \cup Changing \cup Sweeping \cup Listing
      [] op = "warm" -> {"pull", "promote", "sweepLock"} \cup Changing \cup Sweeping \cup Listing
      [] op = "remove" -> {"lock", "delete", "discard"}

Holds(w) == \/ w.op \in {"fetch", "push", "remove"} /\ w.pc # "lock"
            \/ w.op \in {"sync", "warm"} /\ w.pc \in Sweeping

AllOps == {"none", "sync", "fetch", "push", "warm", "remove"}
Place == Capsules \cup {0}
Works == [op : AllOps, cap : Place, to : Place, own : BOOLEAN,
          pc : {"idle", "lock", "check", "pull", "promote", "rollback", "sweepLock"}
               \cup Changing \cup Sweeping \cup Listing,
          victims : SUBSET Capsules, victim : Place, removed : SUBSET Capsules,
          seen : SUBSET Capsules, earlier : SUBSET Tasks, late : BOOLEAN,
          swept : BOOLEAN]

(* An operation is where its route leads, on capsules of the cache.        *)
Sound(w) ==
    /\ w.pc \in Steps(w.op)
    /\ w.op # "none" => w.cap \in Capsules /\ w.to \in Capsules
    /\ w.pc = "discard" => w.victim \in Capsules

TypeInv ==
    /\ files \subseteq Capsules /\ marker \subseteq Capsules
    /\ advertised \subseteq Capsules
    /\ lock \in Tasks \cup {NoTask}
    /\ task \in [Tasks -> Works]
    /\ landed \in [Capsules -> {"none", "own", "relay"}]
    /\ overtaken \in BOOLEAN /\ cut \in BOOLEAN
    /\ IsFiniteSet(files)

LockInv == \A t \in Tasks : Sound(task[t]) /\ (lock = t <=> Holds(task[t]))

(* Between a claim and its publication the marker is the claimant's own,   *)
(* unless somebody crossed it.                                             *)
ClaimInv ==
    /\ \A t \in Tasks :
          (task[t].pc = "publish" /\ task[t].to \notin crossed) =>
              (task[t].to \in marker <=> ~ task[t].own)
    /\ MarkerTellsTruth

(* A cache over its budget has somebody who owes a sweep, or a sweep under *)
(* way whose victims are enough.                                           *)
OwesSweep(w) == \/ w.pc \in {"sweepLock", "sweep"}
                \/ w.op = "warm" /\ ~ w.swept /\ w.pc \in Listing
Due(t) ==
    \/ OwesSweep(task[t])
    \/ /\ task[t].op # "remove" /\ task[t].pc \in {"delete", "discard"}
       /\ Cardinality(files \ task[t].victims) <= Budget
BudgetInv ==
    /\ cut \/ Cardinality(files) <= Budget \/ \E t \in Tasks : Due(t)
    /\ \A t \in Tasks : task[t].op = "warm" /\ task[t].pc \in {"pull", "claim", "publish"}
                        => task[t].swept = FALSE

(* The listings in flight are in the order they were taken.                *)
OrderInv ==
    /\ \A t, u \in Tasks : t \in task[u].earlier => InFlight(t) /\ t # u
    /\ \A t, u \in Tasks : InFlight(t) /\ InFlight(u) /\ t # u =>
                               (t \in task[u].earlier <=> u \notin task[t].earlier)
    /\ \A t, u, v \in Tasks :
          t \in task[u].earlier /\ u \in task[v].earlier => t \in task[v].earlier

(* Somebody will list the disk again, or note that c changed.              *)
WillList(w) ==
    \/ w.pc = "list"
    \/ w.op \in {"fetch", "push"} /\ w.pc \in Sweeping
    \/ w.op \in {"sync", "warm"} /\ w.pc = "discard"
    \/ w.op \in {"sync", "warm"} /\ w.pc = "delete" /\ w.removed # {}
WillNote(w, c) ==
    \/ w.pc = "publish" /\ w.to = c /\ ~ (w.op = "warm" /\ ~ w.own)
    \/ w.pc = "rollback" /\ w.to = c
    \/ w.pc = "discard" /\ w.victim = c
Covered(c) == \E t \in Tasks : WillList(task[t]) \/ WillNote(task[t], c)

(* A listing that no other will supersede, and what it says of c.          *)
Current(t) == InFlight(t) /\ ~ task[t].late
Newest(t) == Current(t) /\ \A u \in Tasks : Current(u) => t \notin task[u].earlier
Accurate(t, c) ==
    c \in (IF task[t].pc = "mark" THEN task[t].seen \ marker ELSE task[t].seen)
        <=> c \in files \ marker

Told(c) ==
    /\ \A t \in Tasks : Newest(t) => Accurate(t, c)
    /\ (\A t \in Tasks : ~ Current(t)) => (c \in advertised <=> c \in files \ marker)
AdvertInv ==
    overtaken \/ \A c \in Capsules \ (unnoticed \cup crossed) : Covered(c) \/ Told(c)

----------------------------------------------------------------------------
(* The types, and who holds cache_lock. *)

LEMMA IdleWork == NoWork \in Works /\ Sound(NoWork) /\ ~ Holds(NoWork)
BY DEF NoWork, Works, Sound, Holds, Steps, AllOps, Place, Sweeping

LEMMA TypeInit == Init => TypeInv /\ LockInv
<1> SUFFICES ASSUME Init PROVE TypeInv /\ LockInv
  OBVIOUS
<1>1. IsFiniteSet(files)
  BY FS_EmptySet DEF Init
<1>2. task \in [Tasks -> Works]
  BY IdleWork DEF Init
<1> QED
  BY <1>1, <1>2, IdleWork, CacheConstants DEF Init, TypeInv, LockInv

(* Task t goes on to w, and the lock with it.                              *)
Moves(t, w) ==
    /\ task' = [task EXCEPT ![t] = w]
    /\ w \in Works /\ Sound(w)
    /\ lock' \in {lock, t, NoTask}
    /\ lock' = t <=> Holds(w)
    /\ lock' # lock => lock \in {t, NoTask}

LEMMA MoveKeepsLock ==
  ASSUME TypeInv, LockInv, NEW t \in Tasks, NEW w, Moves(t, w)
  PROVE  /\ task' \in [Tasks -> Works] /\ lock' \in Tasks \cup {NoTask}
         /\ task'[t] = w /\ \A u \in Tasks \ {t} : task'[u] = task[u]
         /\ LockInv'
<1>1. /\ task' \in [Tasks -> Works] /\ lock' \in Tasks \cup {NoTask}
      /\ task'[t] = w /\ \A u \in Tasks \ {t} : task'[u] = task[u]
  BY DEF TypeInv, Moves
<1>2. ASSUME NEW u \in Tasks
      PROVE  Sound(task'[u]) /\ (lock' = u <=> Holds(task'[u]))
  BY <1>1, <1>2, CacheConstants DEF LockInv, Moves
<1> QED
  BY <1>1, <1>2 DEF LockInv

(* End.                                                                    *)
LEMMA EndMoves ==
  ASSUME TypeInv, LockInv, NEW t \in Tasks, End(t)
  PROVE  Moves(t, NoWork)
BY IdleWork, CacheConstants DEF End, Locked, Moves, TypeInv, LockInv

(* A step that changes the pc alone, and leaves the lock.                  *)
LEMMA GoesMoves ==
  ASSUME TypeInv, LockInv, NEW t \in Tasks, NEW p, Goes(t, p), lock' = lock,
         p \in Steps(task[t].op), p # "discard",
         Holds(task[t]) <=> Holds([task[t] EXCEPT !.pc = p])
  PROVE  Moves(t, [task[t] EXCEPT !.pc = p])
BY DEF Goes, Moves, TypeInv, LockInv, Works, Sound, Steps, AllOps,
       Changing, Sweeping, Listing, Holds

LEMMA NotLandedMoves ==
  ASSUME TypeInv, LockInv, NEW t \in Tasks, NotLanded(t),
         task[t].pc \in {"pull", "claim", "rollback"}
  PROVE  \E w : Moves(t, w)
<1>0. task[t] \in Works
  BY DEF TypeInv
<1>1. CASE task[t].op = "sync" /\ Goes(t, "sweepLock") /\ UNCHANGED lock
  BY <1>0, <1>1, GoesMoves DEF Holds, Steps, Works, Sweeping
<1>2. CASE task[t].op = "fetch" /\ Goes(t, "sweep") /\ UNCHANGED lock
  BY <1>0, <1>2, GoesMoves DEF Holds, Steps, Works, Sweeping
<1>3. CASE End(t)
  BY <1>3, EndMoves
<1> QED
  BY <1>1, <1>2, <1>3 DEF NotLanded

LEMMA WorkMoves ==
  ASSUME TypeInv, LockInv, NEW t \in Tasks, Work(t), ~ Apply(t)
  PROVE  \E w : Moves(t, w)
<1> DEFINE x == task[t]
<1>0. x \in Works /\ Sound(x) /\ (lock = t <=> Holds(x)) /\ x.op \in AllOps
  BY DEF TypeInv, LockInv, Works
<1>1. CASE Acquire(t)
  <2> DEFINE w == [x EXCEPT
                   !.pc = IF x.pc = "sweepLock" THEN "sweep"
                          ELSE CASE x.op = "fetch" -> "pull"
                                 [] x.op = "push" -> "check"
                                 [] x.op = "remove" -> "delete",
                   !.victims = IF x.op = "remove" THEN {x.cap} ELSE {}]
  <2>1. /\ task' = [task EXCEPT ![t] = w]
        /\ x.pc \in {"lock", "sweepLock"} /\ lock = NoTask /\ lock' = t
    BY <1>1 DEF Acquire
  <2>2. w \in Works
    BY <2>1, <1>0 DEF Works, Sound, Steps, AllOps, Changing, Sweeping, Listing
  <2>3. Sound(w) /\ Holds(w)
    BY <2>1, <1>0 DEF Works, Sound, Holds, Steps, AllOps, Changing, Sweeping, Listing
  <2> QED
    BY <2>1, <2>2, <2>3 DEF Moves
<1>2. CASE Check(t)
  BY <1>0, <1>2, EndMoves, GoesMoves
     DEF Check, Holds, Steps, Works, Sweeping, Sound, Changing, AllOps, Listing
<1>3. CASE Pull(t)
  <2>1. ASSUME NEW c \in Capsules,
               task' = [task EXCEPT ![t].to = c, ![t].pc = "claim"], UNCHANGED lock
        PROVE  \E w : Moves(t, w)
    <3> DEFINE w == [x EXCEPT !.to = c, !.pc = "claim"]
    <3>1. w \in Works /\ Sound(w) /\ (Holds(x) <=> Holds(w))
      BY <1>0, <1>3 DEF Pull, Works, Sound, Holds, Steps, AllOps, Changing,
                        Sweeping, Listing, Place
    <3>2. task' = [task EXCEPT ![t] = w]
      BY <2>1 DEF TypeInv
    <3> QED
      BY <1>0, <2>1, <3>1, <3>2 DEF Moves
  <2> QED
    BY <1>3, <2>1, NotLandedMoves DEF Pull
<1>4. CASE Claim(t)
  <2>1. CASE Goes(t, "publish") /\ UNCHANGED lock
    BY <1>0, <1>4, <2>1, GoesMoves
       DEF Claim, Holds, Steps, Works, Sweeping, Sound, Changing, AllOps, Listing
  <2> QED
    BY <1>4, <2>1, NotLandedMoves DEF Claim
<1>5. CASE Publish(t)
  <2>1. CASE Landed(t)
    <3>1. CASE x.op = "sync" /\ Goes(t, "sweepLock") /\ UNCHANGED lock
      BY <1>0, <1>5, <3>1, GoesMoves
         DEF Publish, Holds, Steps, Works, Sweeping
    <3>2. CASE x.op \in {"push", "fetch"} /\ Goes(t, "sweep") /\ UNCHANGED lock
      BY <1>0, <1>5, <3>2, GoesMoves
         DEF Publish, Holds, Steps, Works, Sweeping
    <3>3. CASE x.op = "warm" /\ Goes(t, "list") /\ UNCHANGED lock
      BY <1>0, <1>5, <3>3, GoesMoves
         DEF Publish, Holds, Steps, Works, Sweeping, Listing
    <3>4. CASE x.op = "warm" /\ Goes(t, "sweepLock") /\ UNCHANGED lock
      BY <1>0, <1>5, <3>4, GoesMoves
         DEF Publish, Holds, Steps, Works, Sweeping
    <3>5. CASE End(t)
      BY <3>5, EndMoves
    <3> QED
      BY <2>1, <3>1, <3>2, <3>3, <3>4, <3>5 DEF Landed
  <2>2. CASE x.op # "warm" /\ Goes(t, "rollback") /\ UNCHANGED lock
    BY <1>0, <1>5, <2>2, GoesMoves
       DEF Publish, Holds, Steps, Works, Sweeping, Sound, AllOps, Changing, Listing
  <2>3. CASE End(t)
    BY <2>3, EndMoves
  <2> QED
    BY <1>5, <2>1, <2>2, <2>3 DEF Publish
<1>6. CASE Rollback(t)
  BY <1>6, NotLandedMoves DEF Rollback
<1>7. CASE Promote(t)
  <2>1. CASE task' = [task EXCEPT ![t].pc = "list", ![t].swept = TRUE] /\ UNCHANGED lock
    <3> DEFINE w == [x EXCEPT !.pc = "list", !.swept = TRUE]
    <3>1. w \in Works /\ Sound(w) /\ (Holds(x) <=> Holds(w))
      BY <1>0, <1>7 DEF Promote, Works, Sound, Holds, Steps, AllOps, Changing,
                        Sweeping, Listing
    <3>2. task' = [task EXCEPT ![t] = w]
      BY <2>1 DEF TypeInv
    <3> QED
      BY <1>0, <2>1, <3>1, <3>2 DEF Moves
  <2> QED
    BY <1>7, <2>1, EndMoves DEF Promote
<1>8. CASE Sweep(t)
  <2> PICK V \in SUBSET files :
         task' = [task EXCEPT ![t].victims = V, ![t].pc = "delete"]
    BY <1>8 DEF Sweep
  <2> DEFINE w == [x EXCEPT !.victims = V, !.pc = "delete"]
  <2>1. x.pc = "sweep" /\ lock' = lock
    BY <1>8 DEF Sweep
  <2>2. w \in Works /\ Sound(w) /\ (Holds(x) <=> Holds(w))
    BY <1>0, <2>1 DEF TypeInv, Works, Sound, Holds, Steps, AllOps, Changing,
                      Sweeping, Listing
  <2> QED
    BY <1>0, <2>1, <2>2 DEF Moves, TypeInv
<1>9. ASSUME NEW c \in Capsules, Unlink(t, c)
      PROVE  \E w : Moves(t, w)
  <2>1. x.pc = "delete" /\ lock' = lock
    BY <1>9 DEF Unlink
  <2>2. CASE task' = [task EXCEPT ![t].victims = @ \ {c}, ![t].victim = c,
                                  ![t].pc = "discard"]
    <3> DEFINE w == [x EXCEPT !.victims = @ \ {c}, !.victim = c, !.pc = "discard"]
    <3>1. w \in Works /\ Sound(w) /\ (Holds(x) <=> Holds(w))
      BY <1>0, <2>1 DEF Works, Sound, Holds, Steps, AllOps, Changing,
                        Sweeping, Listing, Place
    <3> QED
      BY <1>0, <2>1, <2>2, <3>1 DEF Moves, TypeInv
  <2>3. CASE task' = [task EXCEPT ![t].victims = @ \ {c}]
    <3> DEFINE w == [x EXCEPT !.victims = @ \ {c}]
    <3>1. w \in Works /\ Sound(w) /\ (Holds(x) <=> Holds(w))
      BY <1>0, <2>1 DEF Works, Sound, Holds
    <3> QED
      BY <1>0, <2>1, <2>3, <3>1 DEF Moves, TypeInv
  <2> QED
    BY <1>9, <2>2, <2>3 DEF Unlink
<1>10. CASE Discard(t)
  <2> DEFINE w == [x EXCEPT !.removed = @ \cup {x.victim}, !.pc = "delete"]
  <2>1. /\ x.pc = "discard" /\ lock' = lock
        /\ task' = [task EXCEPT ![t] = w]
    BY <1>10 DEF Discard, TypeInv
  <2>2. w \in Works /\ Sound(w) /\ (Holds(x) <=> Holds(w))
    BY <1>0, <2>1 DEF Works, Sound, Holds, Steps, AllOps, Changing, Sweeping, Listing
  <2> QED
    BY <1>0, <2>1, <2>2 DEF Moves
<1>11. CASE Swept(t)
  <2> DEFINE w == [x EXCEPT !.pc = "list", !.swept = TRUE]
  <2>1. x.pc = "delete"
    BY <1>11 DEF Swept
  <2>2. CASE /\ task' = [task EXCEPT ![t].pc = "list", ![t].swept = TRUE]
             /\ \/ x.op \in {"fetch", "push"} /\ lock' = lock
                \/ x.op \in {"sync", "warm"} /\ lock' = NoTask
    <3>1. w \in Works /\ Sound(w)
      BY <1>0, <2>1, <2>2 DEF Works, Sound, Steps, AllOps, Changing, Sweeping, Listing
    <3>2. /\ Holds(x) /\ (Holds(w) <=> x.op \in {"fetch", "push"})
          /\ task' = [task EXCEPT ![t] = w]
      BY <1>0, <2>1, <2>2 DEF Works, Holds, Sweeping, TypeInv
    <3> QED
      BY <1>0, <2>2, <3>1, <3>2, CacheConstants DEF Moves
  <2> QED
    BY <1>11, <2>2, EndMoves DEF Swept
<1>12. CASE List(t)
  <2> DEFINE w == [x EXCEPT !.seen = files, !.pc = "mark", !.late = FALSE,
                            !.earlier = {u \in Tasks : InFlight(u)}]
  <2>1. /\ x.pc = "list" /\ lock' = lock
        /\ task' = [task EXCEPT ![t] = w]
    BY <1>12 DEF List, TypeInv
  <2>2. w \in Works /\ Sound(w) /\ (Holds(x) <=> Holds(w))
    BY <1>0, <2>1 DEF TypeInv, Works, Sound, Holds, Steps, AllOps, Changing,
                      Sweeping, Listing
  <2> QED
    BY <1>0, <2>1, <2>2 DEF Moves
<1>13. CASE ListMarkers(t)
  <2> DEFINE w == [x EXCEPT !.seen = @ \ marker, !.pc = "apply"]
  <2>1. /\ x.pc = "mark" /\ lock' = lock
        /\ task' = [task EXCEPT ![t] = w]
    BY <1>13 DEF ListMarkers, HeldOf, TypeInv
  <2>2. w \in Works /\ Sound(w) /\ (Holds(x) <=> Holds(w))
    BY <1>0, <2>1 DEF Works, Sound, Holds, Steps, AllOps, Changing, Sweeping, Listing
  <2> QED
    BY <1>0, <2>1, <2>2 DEF Moves
<1> QED
  BY <1>1, <1>2, <1>3, <1>4, <1>5, <1>6, <1>7, <1>8, <1>9, <1>10, <1>11, <1>12,
     <1>13 DEF Work

LEMMA BeginMoves ==
  ASSUME TypeInv, LockInv, NEW t \in Tasks, NEW op \in Ops, NEW c \in Capsules,
         NEW own \in Claims, Begin(t, op, c, own)
  PROVE  \E w : Moves(t, w) /\ w.pc \in {"lock", "pull", "promote"}
                /\ w.swept = FALSE /\ w.earlier = {}
<1> DEFINE p == CASE op = "sync" -> "pull"
                  [] op = "warm" -> IF c \in files THEN "promote" ELSE "pull"
                  [] OTHER -> "lock"
           w == [NoWork EXCEPT !.op = op, !.cap = c, !.to = c, !.own = own, !.pc = p]
<1>1. /\ task[t].pc = "idle" /\ task' = [task EXCEPT ![t] = w] /\ lock' = lock
  BY DEF Begin
<1>2. op \in AllOps \ {"none"} /\ own \in BOOLEAN
  BY CacheConstants DEF AllOps
<1>3. w \in Works /\ Sound(w) /\ ~ Holds(w)
  BY <1>2 DEF NoWork, Works, Sound, Holds, Steps, AllOps, Place, Changing,
              Sweeping, Listing
<1>4. lock # t
  <2>1. /\ task[t].op \in AllOps /\ task[t].pc \in Steps(task[t].op)
        /\ lock = t <=> Holds(task[t])
    BY DEF LockInv, Sound, TypeInv, Works
  <2> QED
    BY <1>1, <2>1 DEF Holds, Steps, AllOps, Changing, Sweeping, Listing
<1>5. w.pc \in {"lock", "pull", "promote"} /\ w.swept = FALSE /\ w.earlier = {}
  BY DEF NoWork
<1> HIDE DEF w
<1>6. Moves(t, w)
  BY <1>1, <1>3, <1>4 DEF Moves
<1> QED
  BY <1>5, <1>6

(* Apply: the listings that were taken earlier and are still in flight     *)
(* become late; but for that, the other tasks stay as they are.            *)
Overtakes(t, u) ==
    [task[u] EXCEPT !.late = @ \/ u \in task[t].earlier, !.earlier = @ \ {t}]

LEMMA OvertakesWork ==
  ASSUME TypeInv, NEW t \in Tasks, NEW u \in Tasks, NEW y, y = Overtakes(t, u)
  PROVE  /\ y \in Works
         /\ (Sound(task[u]) <=> Sound(y)) /\ (Holds(task[u]) <=> Holds(y))
         /\ y.late <=> task[u].late \/ u \in task[t].earlier
         /\ y.earlier = task[u].earlier \ {t}
         /\ y.op = task[u].op /\ y.pc = task[u].pc /\ y.cap = task[u].cap
         /\ y.to = task[u].to /\ y.own = task[u].own
         /\ y.victims = task[u].victims /\ y.victim = task[u].victim
         /\ y.removed = task[u].removed /\ y.seen = task[u].seen
         /\ y.swept = task[u].swept
<1> DEFINE x == task[u]
           b == x.late \/ u \in task[t].earlier
           e == x.earlier \ {t}
<1>1. x \in Works /\ e \in SUBSET Tasks
  BY DEF TypeInv, Works
<1>2. b \in BOOLEAN /\ (b <=> x.late \/ u \in task[t].earlier) /\ e = x.earlier \ {t}
  OBVIOUS
<1>3. y = [x EXCEPT !.late = b, !.earlier = e]
  BY Zenon DEF Overtakes
<1> HIDE DEF x, b, e
<1>4. /\ y \in Works /\ (Sound(x) <=> Sound(y)) /\ (Holds(x) <=> Holds(y))
      /\ y.late = b /\ y.earlier = e
      /\ y.op = x.op /\ y.pc = x.pc /\ y.cap = x.cap /\ y.to = x.to /\ y.own = x.own
      /\ y.victims = x.victims /\ y.victim = x.victim /\ y.removed = x.removed
      /\ y.seen = x.seen /\ y.swept = x.swept
  BY <1>1, <1>2, <1>3 DEF Works, Sound, Holds
<1> QED
  BY <1>2, <1>4, Zenon DEF x

LEMMA ApplyMoves ==
  ASSUME TypeInv, LockInv, NEW t \in Tasks, Apply(t)
  PROVE  /\ task' \in [Tasks -> Works] /\ lock' \in Tasks \cup {NoTask}
         /\ \A u \in Tasks \ {t} : task'[u] = Overtakes(t, u)
         /\ \/ task[t].op = "warm" /\ ~ task[t].swept
               /\ task'[t] = [Overtakes(t, t) EXCEPT !.pc = "sweepLock"]
            \/ ~ (task[t].op = "warm" /\ ~ task[t].swept) /\ task'[t] = NoWork
         /\ LockInv'
<1> DEFINE late == [u \in Tasks |-> Overtakes(t, u)]
<1>0. task \in [Tasks -> Works] /\ task[t].pc = "apply"
  BY DEF TypeInv, Apply
<1>1. late \in [Tasks -> Works]
  BY OvertakesWork
<1>2. ASSUME NEW u \in Tasks
      PROVE  (Sound(task[u]) <=> Sound(late[u])) /\ (Holds(task[u]) <=> Holds(late[u]))
  BY OvertakesWork
<1>3. CASE task[t].op = "warm" /\ ~ task[t].swept
  <2> DEFINE w == [late[t] EXCEPT !.pc = "sweepLock"]
  <2>1. task' = [late EXCEPT ![t] = w] /\ lock' = lock
    BY <1>3 DEF Apply, Overtakes
  <2>2. w \in Works /\ Sound(w) /\ ~ Holds(w)
    BY <1>0, <1>1, <1>2, <1>3, OvertakesWork
       DEF LockInv, Works, Sound, Holds, Steps, AllOps, Changing, Sweeping, Listing
  <2>3. ~ Holds(task[t])
    BY <1>0, <1>3 DEF Holds, Sweeping
  <2>4. ASSUME NEW u \in Tasks PROVE Sound(task'[u]) /\ (lock' = u <=> Holds(task'[u]))
    BY <1>1, <1>2, <2>1, <2>2, <2>3, <2>4 DEF LockInv
  <2> QED
    BY <1>1, <1>3, <2>1, <2>2, <2>4 DEF LockInv, TypeInv
<1>4. CASE ~ (task[t].op = "warm" /\ ~ task[t].swept)
  <2>1. /\ task' = [late EXCEPT ![t] = NoWork]
        /\ lock' = IF lock = t THEN NoTask ELSE lock
    BY <1>4 DEF Apply, Overtakes, Locked
  <2>2. ASSUME NEW u \in Tasks PROVE Sound(task'[u]) /\ (lock' = u <=> Holds(task'[u]))
    BY <1>1, <1>2, <2>1, <2>2, IdleWork, CacheConstants DEF LockInv
  <2> QED
    BY <1>1, <1>4, <2>1, <2>2, IdleWork DEF LockInv, TypeInv
<1> QED
  BY <1>3, <1>4

LEMMA FilesStep ==
  ASSUME TypeInv, LockInv, NEW t \in Tasks, Work(t)
  PROVE  /\ files' \subseteq Capsules /\ marker' \subseteq Capsules
         /\ landed' \in [Capsules -> {"none", "own", "relay"}]
         /\ overtaken' \in BOOLEAN /\ cut' \in BOOLEAN /\ IsFiniteSet(files')
         /\ advertised' \subseteq Capsules
<1>0. task[t] \in Works /\ Sound(task[t])
  BY DEF TypeInv, LockInv
<1>1. CASE Claim(t)
  <2>1. task[t].to \in Capsules
    BY <1>0, <1>1 DEF Claim, Sound, Steps, Works
  <2> QED
    BY <1>1, <2>1 DEF Claim, ClaimWritten, TypeInv
<1>2. CASE Publish(t)
  <2>1. task[t].to \in Capsules
    BY <1>0, <1>2 DEF Publish, Sound, Steps, Works
  <2>2. IsFiniteSet(files \cup {task[t].to})
    BY FS_AddElement DEF TypeInv
  <2> QED
    BY <1>2, <2>1, <2>2 DEF Publish, TypeInv
<1>3. CASE Rollback(t) \/ Discard(t) \/ Promote(t)
  BY <1>3 DEF Rollback, Discard, Promote, MarkersAfter, TypeInv
<1>4. ASSUME NEW c \in Capsules, Unlink(t, c)
      PROVE  /\ files' \subseteq Capsules /\ marker' = marker
             /\ landed' \in [Capsules -> {"none", "own", "relay"}]
             /\ overtaken' = overtaken /\ advertised' = advertised
             /\ cut' \in BOOLEAN /\ IsFiniteSet(files')
  <2>1. IsFiniteSet(files \ {c})
    BY FS_RemoveElement DEF TypeInv
  <2> QED
    BY <1>4, <2>1 DEF Unlink, TypeInv
<1>5. CASE Apply(t)
  BY <1>0, <1>5 DEF Apply, TypeInv, Works, disk
<1>6. CASE Sweep(t) \/ List(t)
  BY <1>6 DEF Sweep, List, TypeInv, disk
<1>7. CASE Acquire(t) \/ Check(t) \/ Pull(t) \/ Swept(t) \/ ListMarkers(t)
  BY <1>7 DEF Acquire, Check, Pull, Swept, ListMarkers, TypeInv, disk, history
<1> QED
  BY <1>1, <1>2, <1>3, <1>4, <1>5, <1>6, <1>7 DEF Work, TypeInv

LEMMA TypeStep == TypeInv /\ LockInv /\ [Next]_vars => TypeInv' /\ LockInv'
<1> SUFFICES ASSUME TypeInv, LockInv, [Next]_vars PROVE TypeInv' /\ LockInv'
  OBVIOUS
<1>1. ASSUME NEW t \in Tasks, NEW op \in Ops, NEW c \in Capsules, NEW own \in Claims,
             Begin(t, op, c, own)
      PROVE  TypeInv' /\ LockInv'
  <2>1. PICK w : Moves(t, w)
    BY <1>1, BeginMoves
  <2> QED
    BY <1>1, <2>1, MoveKeepsLock DEF Begin, TypeInv, disk, history
<1>2. ASSUME NEW t \in Tasks, Work(t)
      PROVE  TypeInv' /\ LockInv'
  <2>1. CASE Apply(t)
    BY <1>2, <2>1, ApplyMoves, FilesStep DEF TypeInv
  <2>2. CASE ~ Apply(t)
    <3>1. PICK w : Moves(t, w)
      BY <1>2, <2>2, WorkMoves
    <3> QED
      BY <1>2, <3>1, MoveKeepsLock, FilesStep DEF TypeInv
  <2> QED
    BY <2>1, <2>2
<1>3. CASE Restart
  BY <1>3, IdleWork, CacheConstants DEF Restart, TypeInv, LockInv, disk
<1>4. CASE UNCHANGED vars
  BY <1>4 DEF vars, disk, history, TypeInv, LockInv
<1> QED
  BY <1>1, <1>2, <1>3, <1>4 DEF Next

(* The task after the step, and the others.                                *)
LEMMA WorkStep ==
  ASSUME TypeInv, LockInv, NEW t \in Tasks, Work(t), ~ Apply(t)
  PROVE  Moves(t, task'[t]) /\ \A u \in Tasks \ {t} : task'[u] = task[u]
<1>1. PICK w : Moves(t, w)
  BY WorkMoves
<1> QED
  BY <1>1, MoveKeepsLock

LEMMA GoesTo ==
  ASSUME TypeInv, NEW t \in Tasks, NEW p, Goes(t, p)
  PROVE  LET w == task'[t]
             x == task[t]
         IN
         /\ w.pc = p /\ w.op = x.op /\ w.cap = x.cap /\ w.to = x.to /\ w.own = x.own
         /\ w.victims = x.victims /\ w.victim = x.victim /\ w.removed = x.removed
         /\ w.seen = x.seen /\ w.earlier = x.earlier /\ w.late = x.late
         /\ w.swept = x.swept
BY DEF TypeInv, Goes, Works

LEMMA EndsTo ==
  ASSUME TypeInv, NEW t \in Tasks, End(t)
  PROVE  /\ task'[t].pc = "idle" /\ task'[t].op = "none" /\ task'[t].earlier = {}
BY DEF TypeInv, End, NoWork

LEMMA NotLandedTo ==
  ASSUME TypeInv, NEW t \in Tasks, NotLanded(t)
  PROVE  task'[t].pc \in {"sweepLock", "sweep", "idle"}
BY GoesTo, EndsTo DEF NotLanded

LEMMA LandedTo ==
  ASSUME TypeInv, NEW t \in Tasks, Landed(t)
  PROVE  task'[t].pc \in {"sweepLock", "sweep", "idle", "list"}
BY GoesTo, EndsTo DEF Landed

LEMMA AcquireTo ==
  ASSUME TypeInv, LockInv, NEW t \in Tasks, Acquire(t)
  PROVE  /\ task[t].pc \in {"lock", "sweepLock"}
         /\ task'[t].op = task[t].op /\ task'[t].earlier = task[t].earlier
         /\ task[t].pc = "sweepLock" => task'[t].pc = "sweep"
         /\ task[t].pc = "lock" =>
               \/ task[t].op \in {"fetch", "push"} /\ task'[t].pc \in {"pull", "check"}
               \/ task[t].op = "remove" /\ task'[t].pc = "delete"
<1> DEFINE x == task[t]
           p == IF x.pc = "sweepLock" THEN "sweep"
                ELSE CASE x.op = "fetch" -> "pull"
                       [] x.op = "push" -> "check"
                       [] x.op = "remove" -> "delete"
           V == IF x.op = "remove" THEN {x.cap} ELSE {}
<1>1. task'[t] = [x EXCEPT !.pc = p, !.victims = V] /\ x.pc \in {"lock", "sweepLock"}
  BY DEF Acquire, TypeInv
<1>2. x \in Works /\ x.op \in AllOps /\ Sound(x)
  BY DEF TypeInv, LockInv, Works
<1>3. task'[t].pc = p /\ task'[t].op = x.op /\ task'[t].earlier = x.earlier
  <2> HIDE DEF p, V
  <2> QED
    BY <1>1, <1>2 DEF Works
<1> QED
  BY <1>1, <1>2, <1>3 DEF Sound, Steps, AllOps, Changing, Sweeping, Listing

LEMMA PullTo ==
  ASSUME TypeInv, NEW t \in Tasks, Pull(t)
  PROVE  \/ /\ task'[t].pc = "claim" /\ task'[t].op = task[t].op
            /\ task'[t].earlier = task[t].earlier /\ task'[t].swept = task[t].swept
         \/ NotLanded(t)
<1>1. ASSUME NEW c, task' = [task EXCEPT ![t].to = c, ![t].pc = "claim"]
      PROVE  /\ task'[t].pc = "claim" /\ task'[t].op = task[t].op
             /\ task'[t].earlier = task[t].earlier /\ task'[t].swept = task[t].swept
  BY <1>1 DEF TypeInv, Works
<1> QED
  BY <1>1 DEF Pull

LEMMA ToListing ==
  ASSUME TypeInv, NEW t \in Tasks,
         task' = [task EXCEPT ![t].pc = "list", ![t].swept = TRUE]
  PROVE  /\ task'[t].pc = "list" /\ task'[t].swept = TRUE
         /\ task'[t].op = task[t].op /\ task'[t].earlier = task[t].earlier
BY DEF TypeInv, Works

LEMMA SweepTo ==
  ASSUME TypeInv, NEW t \in Tasks, Sweep(t)
  PROVE  /\ task[t].pc = "sweep" /\ task'[t].pc = "delete"
         /\ task'[t].op = task[t].op /\ task'[t].removed = task[t].removed
         /\ task'[t].earlier = task[t].earlier
         /\ task'[t].victims \subseteq files
         /\ \E temps \in 0 .. Temporaries :
               Cardinality(task'[t].victims) =
                   Over(IF temps > Budget THEN 0 ELSE Budget - temps)
<1> PICK V \in SUBSET files, temps \in 0 .. Temporaries :
       /\ Cardinality(V) = Over(IF temps > Budget THEN 0 ELSE Budget - temps)
       /\ task' = [task EXCEPT ![t].victims = V, ![t].pc = "delete"]
  BY DEF Sweep
<1>1. /\ task'[t].victims = V /\ task'[t].pc = "delete"
      /\ task'[t].op = task[t].op /\ task'[t].removed = task[t].removed
      /\ task'[t].earlier = task[t].earlier
  BY DEF TypeInv, Works
<1> QED
  BY <1>1 DEF Sweep

LEMMA UnlinkTo ==
  ASSUME TypeInv, NEW t \in Tasks, NEW c \in Capsules, Unlink(t, c)
  PROVE  /\ task[t].pc = "delete" /\ task'[t].op = task[t].op
         /\ task'[t].victims = task[t].victims \ {c}
         /\ task'[t].removed = task[t].removed /\ task'[t].earlier = task[t].earlier
         /\ \/ /\ task'[t].pc = "discard" /\ task'[t].victim = c
               /\ c \in files /\ files' = files \ {c}
            \/ task'[t].pc = "delete" /\ files' = files
<1>1. task[t] \in Works /\ task[t].pc = "delete"
  BY DEF TypeInv, Unlink
<1>2. CASE task' = [task EXCEPT ![t].victims = @ \ {c}, ![t].victim = c, ![t].pc = "discard"]
  <2>1. task'[t] = [task[t] EXCEPT !.victims = @ \ {c}, !.victim = c, !.pc = "discard"]
    BY <1>2 DEF TypeInv
  <2>2. task'[t].pc = "discard"
    BY <1>1, <2>1 DEF Works
  <2>3. task' # [task EXCEPT ![t].victims = @ \ {c}]
    BY <1>1, <2>2 DEF TypeInv, Works
  <2> QED
    BY <1>1, <2>1, <2>3 DEF Unlink, Works
<1>3. CASE task' = [task EXCEPT ![t].victims = @ \ {c}] /\ files' = files
  BY <1>1, <1>3 DEF TypeInv, Works
<1> QED
  BY <1>2, <1>3 DEF Unlink

LEMMA DiscardTo ==
  ASSUME TypeInv, NEW t \in Tasks, Discard(t)
  PROVE  /\ task[t].pc = "discard" /\ task'[t].pc = "delete"
         /\ task'[t].op = task[t].op /\ task'[t].victims = task[t].victims
         /\ task'[t].removed = task[t].removed \cup {task[t].victim}
         /\ task'[t].earlier = task[t].earlier
BY DEF TypeInv, Works, Discard

LEMMA SweptTo ==
  ASSUME TypeInv, NEW t \in Tasks, Swept(t)
  PROVE  /\ task[t].pc = "delete" /\ task[t].victims = {}
         /\ \/ /\ task'[t].pc = "list" /\ task'[t].op = task[t].op
               /\ task'[t].earlier = task[t].earlier
            \/ /\ task'[t].pc = "idle" /\ task'[t].op = "none" /\ task'[t].earlier = {}
               /\ task[t].op = "remove" \/ (task[t].op \in {"sync", "warm"} /\ task[t].removed = {})
BY ToListing, EndsTo DEF Swept

LEMMA ListTo ==
  ASSUME TypeInv, NEW t \in Tasks, List(t)
  PROVE  /\ task[t].pc = "list" /\ task'[t].pc = "mark" /\ task'[t].op = task[t].op
         /\ task'[t].seen = files /\ task'[t].late = FALSE
         /\ task'[t].earlier = {u \in Tasks : InFlight(u)}
         /\ task'[t].swept = task[t].swept
BY DEF TypeInv, Works, List

LEMMA ListMarkersTo ==
  ASSUME TypeInv, NEW t \in Tasks, ListMarkers(t)
  PROVE  /\ task[t].pc = "mark" /\ task'[t].pc = "apply" /\ task'[t].op = task[t].op
         /\ task'[t].seen = task[t].seen \ marker /\ task'[t].late = task[t].late
         /\ task'[t].earlier = task[t].earlier /\ task'[t].swept = task[t].swept
BY DEF TypeInv, Works, ListMarkers, HeldOf

LEMMA ApplyTo ==
  ASSUME TypeInv, LockInv, NEW t \in Tasks, Apply(t)
  PROVE  /\ task[t].pc = "apply"
         /\ \A u \in Tasks \ {t} :
               /\ task'[u].op = task[u].op /\ task'[u].pc = task[u].pc
               /\ task'[u].to = task[u].to /\ task'[u].own = task[u].own
               /\ task'[u].victims = task[u].victims /\ task'[u].victim = task[u].victim
               /\ task'[u].removed = task[u].removed /\ task'[u].seen = task[u].seen
               /\ task'[u].swept = task[u].swept
               /\ task'[u].earlier = task[u].earlier \ {t}
               /\ task'[u].late <=> task[u].late \/ u \in task[t].earlier
         /\ task'[t].earlier \subseteq task[t].earlier \ {t}
         /\ task'[t].pc = IF task[t].op = "warm" /\ ~ task[t].swept THEN "sweepLock" ELSE "idle"
<1>0. task[t].pc = "apply"
  BY DEF Apply
<1>1. ASSUME NEW u \in Tasks \ {t}
      PROVE  task'[u] = Overtakes(t, u)
  BY ApplyMoves
<1>2. ASSUME NEW u \in Tasks \ {t}
      PROVE  /\ task'[u].op = task[u].op /\ task'[u].pc = task[u].pc
             /\ task'[u].to = task[u].to /\ task'[u].own = task[u].own
             /\ task'[u].victims = task[u].victims /\ task'[u].victim = task[u].victim
             /\ task'[u].removed = task[u].removed /\ task'[u].seen = task[u].seen
             /\ task'[u].swept = task[u].swept
             /\ task'[u].earlier = task[u].earlier \ {t}
             /\ task'[u].late <=> task[u].late \/ u \in task[t].earlier
  BY <1>1, OvertakesWork
<1>3. /\ task'[t].earlier \subseteq task[t].earlier \ {t}
      /\ task'[t].pc = IF task[t].op = "warm" /\ ~ task[t].swept THEN "sweepLock" ELSE "idle"
  <2>1. Overtakes(t, t) \in Works /\ Overtakes(t, t).earlier = task[t].earlier \ {t}
    BY OvertakesWork
  <2>2. CASE task[t].op = "warm" /\ ~ task[t].swept
    <3>1. task'[t] = [Overtakes(t, t) EXCEPT !.pc = "sweepLock"]
      BY <2>2, ApplyMoves
    <3> QED
      BY <2>1, <2>2, <3>1 DEF Works
  <2>3. CASE ~ (task[t].op = "warm" /\ ~ task[t].swept)
    <3>1. task'[t] = NoWork
      BY <2>3, ApplyMoves
    <3>2. task'[t].earlier = {} /\ task'[t].pc = "idle"
      BY <3>1 DEF NoWork
    <3> QED
      BY <2>3, <3>2
  <2> QED
    BY <2>2, <2>3
<1> QED
  BY <1>0, <1>2, <1>3

LEMMA TypeInvariant == Spec => [](TypeInv /\ LockInv)
BY TypeInit, TypeStep, PTL DEF Spec

(* Every variable keeps its type, and no task waits for cache_lock while   *)
(* it holds it: announce_and_bound_after_land, entered under the lock,     *)
(* goes to the sweep that does not take it.                                *)
THEOREM LockNotReentered == Spec => []TypeOK
<1>1. ASSUME TypeInv, LockInv PROVE TypeOK
  <2>1. ASSUME NEW t \in Tasks
        PROVE  /\ task[t] \in Works
               /\ lock = t => task[t].pc \notin {"idle", "lock", "sweepLock"}
    <3>1. /\ task[t] \in Works /\ task[t].op \in AllOps
          /\ task[t].pc \in Steps(task[t].op) /\ (lock = t <=> Holds(task[t]))
      BY <1>1 DEF TypeInv, LockInv, Sound, Works
    <3> QED
      BY <3>1 DEF Holds, Steps, AllOps, Changing, Sweeping, Listing
  <2>2. ASSUME NEW t \in Tasks
        PROVE  /\ task[t].pc \in {"idle", "lock", "check", "pull", "claim", "publish",
                             "rollback", "promote", "sweepLock", "sweep",
                             "delete", "discard", "list", "mark", "apply"}
               /\ task[t].victims \cup task[t].removed \cup task[t].seen \subseteq Capsules
    BY <2>1, <2>2 DEF Works, Changing, Sweeping, Listing
  <2> QED
    BY <1>1, <2>1, <2>2 DEF TypeOK, TypeInv
<1> QED
  BY <1>1, TypeInvariant, PTL

----------------------------------------------------------------------------
(* The marker and the capsule. *)

(* A change of the pair of files of c while t is about to publish c        *)
(* crosses it.                                                             *)
LEMMA CrossedBy ==
  ASSUME NEW t \in Tasks, NEW u \in Tasks, t # u,
         task[t].pc = "publish", NEW X, X = Crosses(u, task[t].to)
  PROVE  task[t].to \in X /\ crossed \subseteq X
BY DEF Crosses, Between

(* What an action may do to the markers, to the landings and to the files. *)
MarkerChange(t, c) ==
    /\ marker' \in {marker \ {c}, marker \cup {c}}
    /\ crossed' = Crosses(t, c) \/ (c \in files /\ crossed' = crossed \cup {c})
    /\ files' = files
    /\ \A d \in Capsules \ {c} : landed'[d] = landed[d]
    /\ c \in files => c \in crossed' \/ (c \in marker' <=> landed'[c] = "relay")

LEMMA ClaimInit == Init => ClaimInv
BY DEF Init, ClaimInv, MarkerTellsTruth, NoWork

LEMMA MarkerChanged ==
  ASSUME TypeInv, LockInv, ClaimInv, NEW t \in Tasks, NEW w, Moves(t, w),
         NEW c \in Capsules, MarkerChange(t, c),
         (w.pc = "publish" /\ w.to \notin crossed') =>
               (w.to = c /\ (c \in marker' <=> ~ w.own))
  PROVE  ClaimInv'
<1>1. task'[t] = w /\ \A u \in Tasks \ {t} : task'[u] = task[u]
  BY MoveKeepsLock
<1>2. crossed \subseteq crossed'
  BY DEF MarkerChange, Crosses
<1>3. ASSUME NEW u \in Tasks, task'[u].pc = "publish", task'[u].to \notin crossed'
      PROVE  task'[u].to \in marker' <=> ~ task'[u].own
  <2>1. CASE u = t
    BY <1>1, <1>3, <2>1
  <2>2. CASE u # t
    <3>1. task'[u] = task[u] /\ task[u].to \notin crossed
      BY <1>1, <1>2, <1>3, <2>2
    <3>2. task[u].to # c
      BY <1>3, <2>2, <3>1, CrossedBy DEF MarkerChange
    <3> QED
      BY <1>3, <3>1, <3>2 DEF ClaimInv, MarkerChange
  <2> QED
    BY <2>1, <2>2
<1>4. ASSUME NEW d \in files' \ crossed'
      PROVE  d \in marker' <=> landed'[d] = "relay"
  BY <1>2, <1>4 DEF MarkerChange, ClaimInv, MarkerTellsTruth, TypeInv
<1> QED
  BY <1>3, <1>4 DEF ClaimInv, MarkerTellsTruth

(* A step that changes no marker, no landing and no file, and does not     *)
(* reach the publication.                                                  *)
LEMMA MarkerKept ==
  ASSUME TypeInv, LockInv, ClaimInv, NEW t \in Tasks, NEW w, Moves(t, w),
         w.pc # "publish", UNCHANGED <<files, marker, landed, crossed>>
  PROVE  ClaimInv'
<1>1. task'[t] = w /\ \A u \in Tasks \ {t} : task'[u] = task[u]
  BY MoveKeepsLock
<1> QED
  BY <1>1 DEF ClaimInv, MarkerTellsTruth

LEMMA ClaimStep == TypeInv /\ LockInv /\ ClaimInv /\ [Next]_vars => ClaimInv'
<1> SUFFICES ASSUME TypeInv, LockInv, ClaimInv, [Next]_vars PROVE ClaimInv'
  OBVIOUS
<1>1. ASSUME NEW t \in Tasks, NEW op \in Ops, NEW c \in Capsules, NEW own \in Claims,
             Begin(t, op, c, own)
      PROVE  ClaimInv'
  <2>1. PICK w : Moves(t, w) /\ w.pc \in {"lock", "pull", "promote"}
    BY <1>1, BeginMoves
  <2> QED
    BY <1>1, <2>1, MarkerKept DEF Begin, disk, history
<1>2. ASSUME NEW t \in Tasks, Work(t), ~ Apply(t)
      PROVE  ClaimInv'
  <2> DEFINE x == task[t]
             w == task'[t]
  <2>0. /\ Moves(t, w) /\ x \in Works /\ Sound(x) /\ x.op \in AllOps
        /\ x.pc # "idle" => x.to \in Capsules /\ x.cap \in Capsules
    <3>1. x \in Works /\ Sound(x) /\ x.op \in AllOps
      BY DEF TypeInv, LockInv, Works
    <3> QED
      BY <1>2, <3>1, WorkStep DEF Sound, Steps, AllOps
  <2>1. CASE Claim(t)
    <3>1. CASE UNCHANGED <<marker, asked, crossed, landed, unnoticed>> /\ NotLanded(t)
      BY <2>0, <2>1, <3>1, NotLandedTo, MarkerKept DEF Claim
    <3>2. CASE /\ marker' = ClaimWritten(x.own, x.to) /\ crossed' = Crosses(t, x.to)
               /\ landed' = [landed EXCEPT ![x.to] =
                               IF x.to \in files
                               THEN IF x.own THEN "own" ELSE "relay" ELSE @]
               /\ Goes(t, "publish")
      <4>1. x.to \in Capsules /\ files' = files
        BY <2>0, <2>1 DEF Claim
      <4>2. w.to = x.to /\ w.own = x.own
        BY <3>2, GoesTo
      <4>3. MarkerChange(t, x.to)
        BY <3>2, <4>1 DEF MarkerChange, ClaimWritten, TypeInv
      <4>4. x.to \in marker' <=> ~ x.own
        BY <3>2 DEF ClaimWritten
      <4> QED
        BY <2>0, <4>1, <4>2, <4>3, <4>4, MarkerChanged
    <3> QED
      BY <2>1, <3>1, <3>2 DEF Claim
  <2>2. CASE Publish(t)
    <3>1. CASE /\ files' = files \cup {x.to} /\ Landed(t)
               /\ landed' = [landed EXCEPT ![x.to] = IF x.own THEN "own" ELSE "relay"]
      <4>1. /\ x.pc = "publish" /\ x.to \in Capsules /\ UNCHANGED <<marker, crossed>>
        BY <2>0, <2>2 DEF Publish
      <4>2. w.pc # "publish" /\ \A u \in Tasks \ {t} : task'[u] = task[u]
        BY <1>2, <3>1, LandedTo, WorkStep
      <4>3. ASSUME NEW d \in files' \ crossed'
            PROVE  d \in marker' <=> landed'[d] = "relay"
        BY <3>1, <4>1, <4>3 DEF ClaimInv, MarkerTellsTruth, TypeInv
      <4> QED
        BY <4>1, <4>2, <4>3 DEF ClaimInv, MarkerTellsTruth
    <3>2. CASE UNCHANGED <<files, landed, cut>> /\ (End(t) \/ Goes(t, "rollback"))
      BY <2>0, <2>2, <3>2, EndsTo, GoesTo, MarkerKept DEF Publish
    <3> QED
      BY <2>2, <3>1, <3>2 DEF Publish
  <2>3. CASE Rollback(t)
    <3>1. w.pc # "publish" /\ x.to \in Capsules
      BY <2>0, <2>3, NotLandedTo DEF Rollback
    <3>2. MarkerChange(t, x.to)
      BY <2>3 DEF Rollback, MarkerChange
    <3> QED
      BY <2>0, <3>1, <3>2, MarkerChanged
  <2>4. CASE Promote(t)
    <3>1. CASE End(t) /\ UNCHANGED <<marker, crossed, landed>>
      BY <2>0, <2>4, <3>1, EndsTo, MarkerKept DEF Promote
    <3>2. CASE /\ marker' = marker \ {x.cap} /\ crossed' = Crosses(t, x.cap)
               /\ landed' = [landed EXCEPT ![x.cap] = IF x.cap \in files THEN "own" ELSE @]
               /\ task' = [task EXCEPT ![t].pc = "list", ![t].swept = TRUE]
      <4>1. w.pc # "publish"
        BY <2>0, <3>2 DEF TypeInv, Works
      <4>2. x.cap \in Capsules /\ MarkerChange(t, x.cap)
        BY <2>0, <2>4, <3>2 DEF Promote, MarkerChange, TypeInv
      <4> QED
        BY <2>0, <4>1, <4>2, MarkerChanged
    <3> QED
      BY <2>4, <3>1, <3>2 DEF Promote
  <2>5. ASSUME NEW c \in Capsules, Unlink(t, c)
        PROVE  ClaimInv'
    <3>1. w.pc # "publish" /\ \A u \in Tasks \ {t} : task'[u] = task[u]
      <4>1. x.pc = "delete" /\ w.pc \in {"delete", "discard"}
        BY <2>0, <2>5 DEF Unlink, TypeInv, Works
      <4> QED
        BY <1>2, <4>1, WorkStep
    <3>2. /\ marker' = marker /\ files' \subseteq files /\ crossed \subseteq crossed'
          /\ \A d \in files' : landed'[d] = landed[d]
      BY <2>5 DEF Unlink, Crosses, TypeInv
    <3> QED
      BY <3>1, <3>2 DEF ClaimInv, MarkerTellsTruth
  <2>6. CASE Discard(t)
    <3>1. w.pc # "publish" /\ x.victim \in Capsules
      BY <2>0, <2>6 DEF Discard, TypeInv, Works, Sound
    <3>2. MarkerChange(t, x.victim)
      BY <2>6 DEF Discard, MarkersAfter, MarkerChange
    <3> QED
      BY <2>0, <3>1, <3>2, MarkerChanged
  <2>7. CASE Acquire(t) \/ Sweep(t) \/ Swept(t) \/ List(t) \/ ListMarkers(t)
    <3>1. w.pc # "publish"
      BY <2>7, AcquireTo, SweepTo, SweptTo, ListTo, ListMarkersTo
    <3> QED
      BY <2>0, <2>7, <3>1, MarkerKept
         DEF Acquire, Sweep, Swept, List, ListMarkers, disk, history
  <2>8. CASE Check(t) \/ Pull(t)
    <3>1. w.pc # "publish"
      BY <2>8, EndsTo, GoesTo, NotLandedTo, PullTo DEF Check
    <3> QED
      BY <2>0, <2>8, <3>1, MarkerKept DEF Check, Pull, disk, history
  <2> QED
    BY <1>2, <2>1, <2>2, <2>3, <2>4, <2>5, <2>6, <2>7, <2>8 DEF Work
<1>3. ASSUME NEW t \in Tasks, Apply(t)
      PROVE  ClaimInv'
  <2>1. ASSUME NEW u \in Tasks, task'[u].pc = "publish"
        PROVE  task[u].pc = "publish" /\ task'[u].to = task[u].to /\ task'[u].own = task[u].own
    BY <1>3, <2>1, ApplyTo
  <2> QED
    BY <1>3, <2>1 DEF Apply, disk, ClaimInv, MarkerTellsTruth
<1>4. CASE Restart
  BY <1>4 DEF Restart, disk, ClaimInv, MarkerTellsTruth, NoWork
<1>5. CASE UNCHANGED vars
  BY <1>5 DEF vars, disk, history, ClaimInv, MarkerTellsTruth
<1> QED
  BY <1>1, <1>2, <1>3, <1>4, <1>5 DEF Next

LEMMA ClaimInvariant == Spec => []ClaimInv
BY TypeInvariant, ClaimInit, ClaimStep, PTL DEF Spec

(* The marker beside a capsule tells whose it is, for any number of        *)
(* capsules and requests, over failed writes, sweeps, removals and         *)
(* restarts, unless two changes of the pair of files met                   *)
(* (persist_holder_claim, discard_relay_marker_beside).                    *)
THEOREM MarkerTruthful == Spec => []MarkerTellsTruth
BY ClaimInvariant, PTL DEF ClaimInv

----------------------------------------------------------------------------
(* The budget. *)

LEMMA Smaller ==
  ASSUME NEW S, NEW T, IsFiniteSet(S), T \subseteq S
  PROVE  /\ Cardinality(T) \in Nat /\ Cardinality(S) \in Nat
         /\ Cardinality(T) <= Cardinality(S)
BY FS_Subset, FS_CardinalityType

LEMMA DueKept ==
  ASSUME TypeInv, NEW u \in Tasks, files' \subseteq files, Due(u),
         task'[u].op = task[u].op, task'[u].pc = task[u].pc,
         task'[u].victims = task[u].victims, task'[u].swept = task[u].swept
  PROVE  Due(u)'
<1>1. CASE OwesSweep(task[u])
  BY <1>1 DEF Due, OwesSweep
<1>2. CASE /\ task[u].op # "remove" /\ task[u].pc \in {"delete", "discard"}
           /\ Cardinality(files \ task[u].victims) <= Budget
  <2>1. IsFiniteSet(files \ task[u].victims)
    BY FS_Subset DEF TypeInv
  <2>2. /\ Cardinality(files' \ task[u].victims) \in Nat
        /\ Cardinality(files \ task[u].victims) \in Nat
        /\ Cardinality(files' \ task[u].victims) <= Cardinality(files \ task[u].victims)
    <3>1. files' \ task[u].victims \subseteq files \ task[u].victims
      OBVIOUS
    <3> QED
      BY <2>1, <3>1, Smaller
  <2> QED
    BY <1>2, <2>2, CacheConstants DEF Due
<1> QED
  BY <1>1, <1>2 DEF Due

(* A sweep names enough victims, whatever temporary files it counted.      *)
LEMMA EnoughVictims ==
  ASSUME TypeInv, NEW t \in Tasks, Sweep(t)
  PROVE  Cardinality(files \ task'[t].victims) <= Budget
<1> DEFINE V == task'[t].victims
<1>1. PICK temps \in 0 .. Temporaries :
         Cardinality(V) = Over(IF temps > Budget THEN 0 ELSE Budget - temps)
  BY SweepTo
<1>2. V \subseteq files /\ IsFiniteSet(files)
  BY SweepTo DEF TypeInv
<1> HIDE DEF V
<1>3. /\ Cardinality(V) \in Nat /\ Cardinality(files) \in Nat
      /\ Cardinality(V) <= Cardinality(files)
  BY <1>2, Smaller
<1>4. Cardinality(files \ V) = Cardinality(files) - Cardinality(V)
  <2>1. files \cap V = V
    BY <1>2
  <2> QED
    BY <1>2, <2>1, FS_Difference
<1>5. temps \in Int /\ 0 <= temps
  OBVIOUS
<1>6. Cardinality(files) - Cardinality(V) <= Budget
  BY <1>1, <1>3, <1>5, CacheConstants DEF Over
<1> QED
  BY <1>4, <1>6 DEF V

LEMMA BudgetInit == Init => BudgetInv
<1> SUFFICES ASSUME Init PROVE BudgetInv
  OBVIOUS
<1>1. Cardinality(files) = 0
  BY FS_EmptySet DEF Init
<1> QED
  BY <1>1, CacheConstants DEF Init, BudgetInv, NoWork

LEMMA FreshStep ==
  ASSUME TypeInv, LockInv, BudgetInv, NEW t \in Tasks, Work(t)
  PROVE  \A u \in Tasks : task'[u].op = "warm" /\ task'[u].pc \in {"pull", "claim", "publish"}
                          => task'[u].swept = FALSE
<1> SUFFICES ASSUME NEW u \in Tasks, task'[u].op = "warm",
                    task'[u].pc \in {"pull", "claim", "publish"}
             PROVE  task'[u].swept = FALSE
  OBVIOUS
<1>0. task[t].op \in AllOps /\ task[t].pc \in Steps(task[t].op)
  BY DEF TypeInv, LockInv, Sound, Works
<1>1. CASE u # t
  BY <1>1, WorkStep, ApplyTo DEF BudgetInv
<1>2. CASE u = t
  <2>1. CASE Acquire(t) \/ Sweep(t) \/ Discard(t) \/ Swept(t) \/ List(t)
             \/ ListMarkers(t) \/ Apply(t)
    BY <1>2, <2>1, AcquireTo, SweepTo, DiscardTo, SweptTo, ListTo, ListMarkersTo, ApplyTo
  <2>2. CASE Claim(t) \/ Rollback(t)
    BY <1>2, <2>2, NotLandedTo, GoesTo DEF Claim, Rollback, BudgetInv
  <2>3. CASE Publish(t)
    BY <1>2, <2>3, LandedTo, EndsTo, GoesTo DEF Publish
  <2>4. CASE Check(t)
    <3>1. task[t].op = "push"
      BY <1>0, <2>4 DEF Check, Steps, AllOps, Changing, Sweeping, Listing
    <3> QED
      BY <1>2, <2>4, <3>1, EndsTo, GoesTo DEF Check
  <2>5. CASE Pull(t)
    BY <1>2, <2>5, NotLandedTo, PullTo DEF Pull, BudgetInv
  <2>6. CASE Promote(t)
    BY <1>2, <2>6, ToListing, EndsTo DEF Promote
  <2>7. CASE \E c \in Capsules : Unlink(t, c)
    BY <1>2, <2>7, UnlinkTo
  <2> QED
    BY <2>1, <2>2, <2>3, <2>4, <2>5, <2>6, <2>7 DEF Work
<1> QED
  BY <1>1, <1>2

(* Over its budget or not, the cache stays covered when no file is added   *)
(* and the task that moves has still to sweep, or has no more to sweep.    *)
LEMMA BudgetKept ==
  ASSUME TypeInv, NEW t \in Tasks, files' \subseteq files, cut => cut',
         cut \/ Cardinality(files) <= Budget \/ \E v \in Tasks : Due(v),
         Due(t) => cut' \/ Due(t)' \/ Cardinality(files') <= Budget,
         \A u \in Tasks \ {t} :
            /\ task'[u].op = task[u].op /\ task'[u].pc = task[u].pc
            /\ task'[u].victims = task[u].victims /\ task'[u].swept = task[u].swept
  PROVE  cut' \/ Cardinality(files') <= Budget \/ \E u \in Tasks : Due(u)'
<1>1. CASE cut
  BY <1>1
<1>2. CASE Cardinality(files) <= Budget
  BY <1>2, Smaller, CacheConstants DEF TypeInv
<1>3. ASSUME NEW u \in Tasks, Due(u)
      PROVE  cut' \/ Cardinality(files') <= Budget \/ \E v \in Tasks : Due(v)'
  <2>1. CASE u = t
    BY <1>3, <2>1
  <2>2. CASE u # t
    BY <1>3, <2>2, DueKept
  <2> QED
    BY <2>1, <2>2
<1> QED
  BY <1>1, <1>2, <1>3

LEMMA NotDue ==
  ASSUME TypeInv, NEW t \in Tasks,
         task[t].pc \in {"idle", "lock", "check", "pull", "claim", "publish", "rollback", "promote"}
  PROVE  ~ Due(t)
BY DEF Due, OwesSweep, Listing

LEMMA PublishOwes ==
  ASSUME TypeInv, LockInv, BudgetInv, NEW t \in Tasks, Publish(t), Landed(t),
         cut' = (cut \/ (task[t].op = "fetch" /\ task[t].cap \notin files'))
  PROVE  cut' \/ Due(t)'
<1>0. task[t].pc = "publish"
  BY DEF Publish
<1>1. CASE task[t].op = "sync" /\ Goes(t, "sweepLock")
  BY <1>1, GoesTo DEF Due, OwesSweep
<1>2. CASE Goes(t, "sweep")
  BY <1>2, GoesTo DEF Due, OwesSweep
<1>3. CASE task[t].op = "warm" /\ Goes(t, IF task[t].own THEN "list" ELSE "sweepLock")
  <2>1. task[t].swept = FALSE
    BY <1>0, <1>3 DEF BudgetInv
  <2>2. /\ task'[t].op = "warm" /\ task'[t].swept = FALSE
        /\ task'[t].pc = IF task[t].own THEN "list" ELSE "sweepLock"
    BY <1>3, <2>1, GoesTo
  <2> QED
    BY <2>2 DEF Due, OwesSweep, Listing
<1> QED
  BY <1>1, <1>2, <1>3 DEF Landed

LEMMA BudgetWork ==
  ASSUME TypeInv, LockInv, BudgetInv, NEW t \in Tasks, Work(t)
  PROVE  cut' \/ Cardinality(files') <= Budget \/ \E u \in Tasks : Due(u)'
<1>0. \A u \in Tasks \ {t} :
         /\ task'[u].op = task[u].op /\ task'[u].pc = task[u].pc
         /\ task'[u].victims = task[u].victims /\ task'[u].swept = task[u].swept
  BY WorkStep, ApplyTo
<1>a. cut \/ Cardinality(files) <= Budget \/ \E v \in Tasks : Due(v)
  BY DEF BudgetInv
<1>1. CASE Publish(t)
  <2>1. CASE Landed(t) /\ cut' = (cut \/ (task[t].op = "fetch" /\ task[t].cap \notin files'))
    BY <1>1, <2>1, PublishOwes
  <2>2. CASE UNCHANGED <<files, landed, cut>>
    BY <1>0, <1>a, <1>1, <2>2, NotDue, BudgetKept DEF Publish
  <2> QED
    BY <1>1, <2>1, <2>2 DEF Publish
<1>2. CASE Sweep(t)
  <2>1. task'[t].pc = "delete" /\ files' = files
    BY <1>2, SweepTo DEF Sweep, disk
  <2>2. CASE task[t].op # "remove"
    BY <1>2, <2>1, <2>2, SweepTo, EnoughVictims DEF Due
  <2>3. CASE task[t].op = "remove"
    BY <1>2, <2>3, SweepTo DEF LockInv, Sound, Steps, Changing, Sweeping, Listing
  <2> QED
    BY <2>2, <2>3
<1>3. CASE Claim(t) \/ Rollback(t) \/ Promote(t) \/ Check(t) \/ Pull(t)
  <2>1. files' = files /\ cut' = cut /\ ~ Due(t)
    BY <1>3, NotDue DEF Claim, Rollback, Promote, Check, Pull, disk, history
  <2> QED
    BY <1>0, <1>a, <2>1, BudgetKept
<1>4. CASE Acquire(t)
  <2>1. files' = files /\ cut' = cut /\ (Due(t) => Due(t)')
    BY <1>4, AcquireTo, NotDue DEF Acquire, disk, history, Due, OwesSweep
  <2> QED
    BY <1>0, <1>a, <2>1, BudgetKept
<1>5. ASSUME NEW c \in Capsules, Unlink(t, c)
      PROVE  cut' \/ Cardinality(files') <= Budget \/ \E u \in Tasks : Due(u)'
  <2>0. cut => cut'
    BY <1>5, Zenon DEF Unlink
  <2>1. task[t].pc = "delete" /\ c \in task[t].victims /\ files' \subseteq files
    BY <1>5 DEF Unlink
  <2>2. ASSUME Due(t) PROVE cut' \/ Due(t)'
    <3>1. task[t].op # "remove" /\ Cardinality(files \ task[t].victims) <= Budget
      BY <2>1, <2>2 DEF Due, OwesSweep, Listing
    <3>2. /\ task'[t].op = task[t].op /\ task'[t].pc \in {"delete", "discard"}
          /\ task'[t].victims = task[t].victims \ {c}
      BY <1>5, UnlinkTo
    <3>3. cut' \/ files' \ task'[t].victims = files \ task[t].victims
      BY <1>5, <2>1, <3>1, <3>2 DEF Unlink
    <3> QED
      BY <3>1, <3>2, <3>3 DEF Due
  <2> QED
    BY <1>0, <1>a, <2>0, <2>1, <2>2, BudgetKept
<1>6. CASE Discard(t)
  <2>1. files' = files /\ cut' = cut /\ (Due(t) => Due(t)')
    BY <1>6, DiscardTo DEF Discard, Due, OwesSweep, Listing
  <2> QED
    BY <1>0, <1>a, <2>1, BudgetKept
<1>7. CASE Swept(t)
  <2>1. /\ files' = files /\ cut' = cut /\ task[t].pc = "delete" /\ files \ task[t].victims = files
    BY <1>7, SweptTo DEF Swept, disk, history
  <2>2. Due(t) => Cardinality(files') <= Budget
    BY <2>1 DEF Due, OwesSweep, Listing
  <2> QED
    BY <1>0, <1>a, <2>1, <2>2, BudgetKept
<1>8. CASE List(t) \/ ListMarkers(t)
  <2>1. files' = files /\ cut' = cut
    BY <1>8 DEF List, ListMarkers, disk, history
  <2>2. Due(t) => Due(t)'
    BY <1>8, ListTo, ListMarkersTo DEF Due, OwesSweep, Listing
  <2> QED
    BY <1>0, <1>a, <2>1, <2>2, BudgetKept
<1>9. CASE Apply(t)
  <2>1. files' = files /\ cut' = cut
    BY <1>9 DEF Apply, disk
  <2>2. Due(t) => Due(t)'
    BY <1>9, ApplyTo DEF Due, OwesSweep
  <2> QED
    BY <1>0, <1>a, <2>1, <2>2, BudgetKept
<1> QED
  BY <1>1, <1>2, <1>3, <1>4, <1>5, <1>6, <1>7, <1>8, <1>9 DEF Work

LEMMA BudgetStep == TypeInv /\ LockInv /\ BudgetInv /\ [Next]_vars => BudgetInv'
<1> SUFFICES ASSUME TypeInv, LockInv, BudgetInv, [Next]_vars PROVE BudgetInv'
  OBVIOUS
<1>1. ASSUME NEW t \in Tasks, NEW op \in Ops, NEW c \in Capsules, NEW own \in Claims,
             Begin(t, op, c, own)
      PROVE  BudgetInv'
  <2>1. PICK w : Moves(t, w) /\ w.swept = FALSE
    BY <1>1, BeginMoves
  <2>2. task'[t].swept = FALSE /\ \A u \in Tasks \ {t} : task'[u] = task[u]
    BY <2>1, MoveKeepsLock
  <2>3. files' = files /\ cut' = cut /\ ~ Due(t)
    BY <1>1, NotDue DEF Begin, disk, history
  <2>4. cut' \/ Cardinality(files') <= Budget \/ \E u \in Tasks : Due(u)'
    BY <2>2, <2>3, BudgetKept DEF BudgetInv
  <2> QED
    BY <2>2, <2>4 DEF BudgetInv
<1>2. ASSUME NEW t \in Tasks, Work(t)
      PROVE  BudgetInv'
  BY <1>2, BudgetWork, FreshStep DEF BudgetInv
<1>3. CASE Restart
  BY <1>3 DEF Restart, BudgetInv, NoWork
<1>4. CASE UNCHANGED vars
  BY <1>4 DEF vars, disk, history, BudgetInv, Due
<1> QED
  BY <1>1, <1>2, <1>3, <1>4 DEF Next

(* At rest the cache is within its budget, for any budget and however many *)
(* landings and sweeps ran together, unless a landing's own sweep was cut  *)
(* short (evict_modules_locked, warm_claiming).                            *)
THEOREM CacheBounded == Spec => []BoundedAtRest
<1>1. TypeInv /\ BudgetInv => BoundedAtRest
  BY NotDue DEF BudgetInv, BoundedAtRest, AtRest
<1> QED
  BY <1>1, TypeInvariant, BudgetInit, BudgetStep, PTL DEF Spec

----------------------------------------------------------------------------
(* The advertisement. *)

(* Only List puts a listing in flight, and only Apply takes it out.        *)
LEMMA FlightKept ==
  ASSUME TypeInv, LockInv, NEW t \in Tasks, Work(t), ~ List(t), ~ Apply(t)
  PROVE  /\ InFlight(t) <=> task'[t].pc \in {"mark", "apply"}
         /\ InFlight(t) => ListMarkers(t) /\ task'[t].earlier = task[t].earlier
         /\ task'[t].earlier \in {task[t].earlier, {}}
<1>1. CASE ListMarkers(t)
  BY <1>1, ListMarkersTo DEF InFlight
<1>2. CASE Acquire(t) \/ Sweep(t) \/ Discard(t) \/ Swept(t)
  BY <1>2, AcquireTo, SweepTo, DiscardTo, SweptTo DEF InFlight
<1>3. CASE \E c \in Capsules : Unlink(t, c)
  BY <1>3, UnlinkTo DEF InFlight
<1>4. ASSUME NotLanded(t) \/ Landed(t) \/ End(t)
      PROVE  /\ task'[t].pc \in {"sweepLock", "sweep", "idle", "list"}
             /\ task'[t].earlier \in {task[t].earlier, {}}
  BY <1>4, GoesTo, EndsTo DEF NotLanded, Landed
<1>5. CASE Check(t)
  BY <1>4, <1>5, GoesTo DEF Check, InFlight
<1>6. CASE Pull(t)
  BY <1>4, <1>6, PullTo DEF Pull, InFlight
<1>7. CASE Claim(t) \/ Rollback(t)
  BY <1>4, <1>7, GoesTo DEF Claim, Rollback, InFlight
<1>8. CASE Publish(t)
  BY <1>4, <1>8, GoesTo DEF Publish, InFlight
<1>9. CASE Promote(t)
  BY <1>4, <1>9, ToListing DEF Promote, InFlight
<1> QED
  BY <1>1, <1>2, <1>3, <1>5, <1>6, <1>7, <1>8, <1>9 DEF Work

LEMMA OrderInit == Init => OrderInv /\ AdvertInv
BY DEF Init, OrderInv, AdvertInv, Told, Newest, Current, InFlight, NoWork

LEMMA OrderKept ==
  ASSUME OrderInv, NEW t \in Tasks, task'[t].pc \in {"mark", "apply"} <=> InFlight(t),
         InFlight(t) => task'[t].earlier = task[t].earlier,
         task'[t].earlier \in {task[t].earlier, {}},
         \A u \in Tasks \ {t} : task'[u] = task[u]
  PROVE  OrderInv'
<1>1. \A u \in Tasks : InFlight(u)' <=> InFlight(u)
  BY DEF InFlight
<1>2. \A u \in Tasks : task'[u].earlier \subseteq task[u].earlier
  OBVIOUS
<1>3. \A u \in Tasks : InFlight(u) => task'[u].earlier = task[u].earlier
  OBVIOUS
<1>4. \A v, u \in Tasks : v \in task'[u].earlier => task'[u].earlier = task[u].earlier
  OBVIOUS
<1> QED
  BY <1>1, <1>2, <1>3, <1>4 DEF OrderInv

LEMMA OrderStep == TypeInv /\ LockInv /\ OrderInv /\ [Next]_vars => OrderInv'
<1> SUFFICES ASSUME TypeInv, LockInv, OrderInv, [Next]_vars PROVE OrderInv'
  OBVIOUS
<1>1. ASSUME NEW t \in Tasks, NEW op \in Ops, NEW c \in Capsules, NEW own \in Claims,
             Begin(t, op, c, own)
      PROVE  OrderInv'
  <2>1. PICK w : Moves(t, w) /\ w.pc \in {"lock", "pull", "promote"} /\ w.earlier = {}
    BY <1>1, BeginMoves
  <2>2. task'[t] = w /\ \A u \in Tasks \ {t} : task'[u] = task[u]
    BY <2>1, MoveKeepsLock
  <2>3. ~ InFlight(t)
    BY <1>1 DEF Begin, InFlight
  <2> QED
    BY <2>1, <2>2, <2>3, OrderKept
<1>2. ASSUME NEW t \in Tasks, Work(t), ~ List(t), ~ Apply(t)
      PROVE  OrderInv'
  BY <1>2, FlightKept, WorkStep, OrderKept
<1>3. ASSUME NEW t \in Tasks, List(t)
      PROVE  OrderInv'
  <2>1. \A u \in Tasks \ {t} : task'[u] = task[u]
    BY <1>3, ListTo DEF List, TypeInv
  <2>2. /\ ~ InFlight(t) /\ InFlight(t)' /\ task'[t].earlier = {u \in Tasks : InFlight(u)}
        /\ \A u \in Tasks \ {t} : InFlight(u)' <=> InFlight(u)
    BY <1>3, <2>1, ListTo DEF InFlight
  <2>3. \A v, u \in Tasks : v \in task'[u].earlier => InFlight(v)' /\ v # u
    BY <2>1, <2>2 DEF OrderInv
  <2>4. \A v, u \in Tasks : InFlight(v)' /\ InFlight(u)' /\ v # u =>
                               (v \in task'[u].earlier <=> u \notin task'[v].earlier)
    BY <2>1, <2>2 DEF OrderInv
  <2>5. \A v, u, x \in Tasks :
          v \in task'[u].earlier /\ u \in task'[x].earlier => v \in task'[x].earlier
    BY <2>1, <2>2, <2>3 DEF OrderInv
  <2> QED
    BY <2>3, <2>4, <2>5 DEF OrderInv
<1>4. ASSUME NEW t \in Tasks, Apply(t)
      PROVE  OrderInv'
  <2>1. /\ \A u \in Tasks \ {t} : task'[u].earlier = task[u].earlier \ {t}
        /\ task'[t].earlier \subseteq task[t].earlier \ {t}
    BY <1>4, ApplyTo
  <2>2. /\ \A u \in Tasks \ {t} : InFlight(u)' <=> InFlight(u)
        /\ ~ InFlight(t)'
    BY <1>4, ApplyTo DEF InFlight
  <2>3. task'[t].earlier \in {{}, task[t].earlier \ {t}}
    <3>1. Overtakes(t, t) \in Works /\ Overtakes(t, t).earlier = task[t].earlier \ {t}
      BY OvertakesWork
    <3>2. task'[t] \in {[Overtakes(t, t) EXCEPT !.pc = "sweepLock"], NoWork}
      BY <1>4, ApplyMoves
    <3> QED
      BY <3>1, <3>2 DEF Works, NoWork
  <2> QED
    BY <2>1, <2>2, <2>3 DEF OrderInv
<1>5. CASE Restart
  BY <1>5 DEF Restart, OrderInv, InFlight, NoWork
<1>6. CASE UNCHANGED vars
  BY <1>6 DEF vars, OrderInv, InFlight
<1> QED
  BY <1>1, <1>2, <1>3, <1>4, <1>5, <1>6 DEF Next, Work

(* What the mover does for c: the others cover what they covered.          *)
Covers(w, c) == WillList(w) \/ WillNote(w, c)

LEMMA CoverKept ==
  ASSUME NEW t \in Tasks, NEW c, \A u \in Tasks \ {t} : task'[u] = task[u],
         Covers(task[t], c) => Covers(task'[t], c)
  PROVE  Covered(c) => Covered(c)'
BY DEF Covered, Covers

LEMMA CoverTaken ==
  ASSUME NEW t \in Tasks, NEW c, Covers(task'[t], c)
  PROVE  Covered(c)'
BY DEF Covered, Covers

(* A step outside the listings that leaves c as it is, or covers it.       *)
LEMMA ToldKept ==
  ASSUME NEW t \in Tasks, NEW c, \A u \in Tasks \ {t} : task'[u] = task[u],
         ~ InFlight(t), task'[t].pc \notin {"mark", "apply"}, advertised' = advertised,
         c \in marker' <=> c \in marker, c \in files' \ marker' <=> c \in files \ marker,
         Told(c)
  PROVE  Told(c)'
<1>1. \A u \in Tasks : /\ Current(u)' <=> Current(u)
                       /\ Current(u) => task'[u] = task[u]
  BY DEF Current, InFlight
<1>2. \A u \in Tasks : Newest(u)' => Newest(u) /\ task'[u] = task[u]
  BY <1>1 DEF Newest
<1>3. \A u \in Tasks : Newest(u)' => Accurate(u, c)'
  BY <1>2 DEF Told, Accurate
<1> QED
  BY <1>1, <1>3 DEF Told

(* Outside List, ListMarkers and Apply: c is covered still, or noted, or   *)
(* has not changed.                                                        *)
Quiet(t, c) ==
    \/ Covers(task'[t], c)
    \/ /\ ~ Covers(task[t], c)
       /\ c \in marker' <=> c \in marker
       /\ c \in files' \ marker' <=> c \in files \ marker

LEMMA QuietStep ==
  ASSUME TypeInv, LockInv, ClaimInv, NEW t \in Tasks, Work(t),
         ~ List(t), ~ ListMarkers(t), ~ Apply(t),
         NEW c \in Capsules, c \notin unnoticed' \cup crossed'
  PROVE  /\ Quiet(t, c) /\ c \notin unnoticed \cup crossed
         /\ overtaken' = overtaken /\ advertised' = advertised
<1> DEFINE x == task[t]
           w == task'[t]
<1>0. x \in Works /\ x.op \in AllOps /\ x.pc \in Steps(x.op)
  BY DEF TypeInv, LockInv, Sound, Works
<1>1. CASE Acquire(t) \/ Check(t) \/ Pull(t)
  BY <1>1, AcquireTo DEF Acquire, Check, Pull, disk, history, Quiet, Covers, WillList,
                         WillNote, Sweeping
<1>2. CASE Claim(t)
  <2>0. ~ Covers(x, c) /\ files' = files /\ overtaken' = overtaken /\ advertised' = advertised
    BY <1>2 DEF Claim, Covers, WillList, WillNote, Sweeping
  <2>1. CASE UNCHANGED <<marker, asked, crossed, landed, unnoticed>>
    BY <2>0, <2>1 DEF Quiet
  <2>2. CASE /\ marker' = ClaimWritten(x.own, x.to) /\ crossed' = Crosses(t, x.to)
             /\ unnoticed' = (IF x.op = "warm" /\ ~ x.own
                             THEN unnoticed \cup {x.to} ELSE unnoticed)
             /\ Goes(t, "publish")
    <3>1. c \notin unnoticed \cup crossed
      BY <2>2 DEF Crosses
    <3>2. CASE c = x.to
      <4>1. /\ w.pc = "publish" /\ w.to = c /\ w.op = x.op /\ w.own = x.own
            /\ ~ (x.op = "warm" /\ ~ x.own)
        BY <2>2, <3>2, GoesTo
      <4> QED
        BY <2>0, <3>1, <4>1 DEF Quiet, Covers, WillNote
    <3>3. CASE c # x.to
      BY <2>0, <2>2, <3>1, <3>3 DEF Quiet, ClaimWritten
    <3> QED
      BY <3>2, <3>3
  <2> QED
    BY <1>2, <2>1, <2>2 DEF Claim
<1>3. CASE Publish(t)
  <2>0. /\ x.pc = "publish" /\ marker' = marker /\ crossed' = crossed
        /\ overtaken' = overtaken /\ advertised' = advertised
    BY <1>3 DEF Publish
  <2>1. CASE /\ files' = files \cup {x.to} /\ Landed(t)
             /\ unnoticed' = (IF x.op = "sync" \/ (x.op = "fetch" /\ x.cap # x.to)
                             THEN unnoticed \cup {x.to} ELSE unnoticed)
    <3>1. c \notin unnoticed \cup crossed
      BY <2>0, <2>1
    <3>2. CASE c # x.to
      BY <2>0, <2>1, <3>1, <3>2 DEF Quiet, Covers, WillList, WillNote, Sweeping
    <3>3. CASE c = x.to /\ x.op = "warm" /\ ~ x.own
      <4>1. c \in marker
        BY <2>0, <3>1, <3>3 DEF ClaimInv
      <4> QED
        BY <2>0, <2>1, <3>1, <3>3, <4>1 DEF Quiet, Covers, WillList, WillNote, Sweeping
    <3>4. CASE c = x.to /\ ~ (x.op = "warm" /\ ~ x.own)
      <4>1. WillList(w)
        BY <2>1, <3>4, GoesTo DEF Landed, WillList, Sweeping
      <4> QED
        BY <2>0, <3>1, <4>1 DEF Quiet, Covers
    <3> QED
      BY <3>2, <3>3, <3>4
  <2>2. CASE /\ IF x.op = "warm" THEN End(t) ELSE Goes(t, "rollback") /\ UNCHANGED lock
             /\ unnoticed' = (IF x.op = "warm" THEN unnoticed \cup {x.to} ELSE unnoticed)
             /\ UNCHANGED <<files, landed, cut>>
    <3>1. c \notin unnoticed \cup crossed
      BY <2>0, <2>2
    <3>2. CASE c # x.to
      BY <2>0, <2>2, <3>1, <3>2 DEF Quiet, Covers, WillList, WillNote, Sweeping
    <3>3. CASE c = x.to
      BY <2>0, <2>2, <3>1, <3>3, GoesTo DEF Quiet, Covers, WillNote
    <3> QED
      BY <3>2, <3>3
  <2> QED
    BY <1>3, <2>1, <2>2 DEF Publish
<1>4. CASE Rollback(t)
  <2>1. /\ x.pc = "rollback" /\ marker' = marker \ {x.to} /\ files' = files
        /\ unnoticed' = unnoticed \cup {x.to} /\ crossed \subseteq crossed'
        /\ overtaken' = overtaken /\ advertised' = advertised
    BY <1>4 DEF Rollback, Crosses
  <2> QED
    BY <2>1 DEF Quiet, Covers, WillList, WillNote, Sweeping
<1>5. CASE Promote(t)
  <2>1. /\ x.pc = "promote" /\ unnoticed' = unnoticed /\ crossed \subseteq crossed'
        /\ overtaken' = overtaken /\ advertised' = advertised /\ files' = files
    BY <1>5 DEF Promote, Crosses
  <2>2. w.pc = "list" \/ marker' = marker
    BY <1>5, ToListing DEF Promote
  <2> QED
    BY <2>1, <2>2 DEF Quiet, Covers, WillList, WillNote, Sweeping
<1>6. CASE Sweep(t)
  <2>1. /\ x.pc = "sweep" /\ w.pc = "delete" /\ w.op = x.op
        /\ UNCHANGED <<files, marker, crossed, unnoticed, overtaken, advertised>>
    BY <1>6, SweepTo DEF Sweep, disk
  <2> QED
    BY <2>1 DEF Quiet, Covers, WillList, WillNote, Sweeping
<1>7. ASSUME NEW d \in Capsules, Unlink(t, d)
      PROVE  /\ Quiet(t, c) /\ c \notin unnoticed \cup crossed
             /\ overtaken' = overtaken /\ advertised' = advertised
  <2>1. /\ marker' = marker /\ unnoticed' = unnoticed /\ crossed \subseteq crossed'
        /\ overtaken' = overtaken /\ advertised' = advertised
    BY <1>7 DEF Unlink, Crosses
  <2>2. /\ x.pc = "delete" /\ w.op = x.op /\ w.removed = x.removed
        /\ \/ w.pc = "discard" /\ w.victim = d /\ files' = files \ {d}
           \/ w.pc = "delete" /\ files' = files
    BY <1>7, UnlinkTo
  <2> QED
    BY <2>1, <2>2 DEF Quiet, Covers, WillList, WillNote, Sweeping
<1>8. CASE Discard(t)
  <2>1. /\ marker' = marker \ {x.victim} /\ files' = files /\ crossed \subseteq crossed'
        /\ unnoticed' = (IF x.op = "remove" THEN unnoticed \cup {x.victim} ELSE unnoticed)
        /\ overtaken' = overtaken /\ advertised' = advertised
    BY <1>8 DEF Discard, Crosses, MarkersAfter
  <2>2. /\ x.pc = "discard" /\ w.pc = "delete" /\ w.op = x.op
        /\ w.removed = x.removed \cup {x.victim}
    BY <1>8, DiscardTo
  <2>3. CASE x.op = "remove"
    BY <2>1, <2>2, <2>3 DEF Quiet, Covers, WillList, WillNote, Sweeping
  <2>4. CASE x.op # "remove"
    <3>1. WillList(w)
      BY <1>0, <2>2, <2>4 DEF WillList, Sweeping, Steps, AllOps
    <3> QED
      BY <2>1, <2>4, <3>1 DEF Quiet, Covers
  <2> QED
    BY <2>3, <2>4
<1>9. CASE Swept(t)
  <2>1. UNCHANGED <<files, marker, crossed, unnoticed, overtaken, advertised>>
    BY <1>9 DEF Swept, disk, history
  <2> QED
    BY <1>9, <2>1, SweptTo DEF Quiet, Covers, WillList, WillNote, Sweeping
<1> QED
  BY <1>1, <1>2, <1>3, <1>4, <1>5, <1>6, <1>7, <1>8, <1>9 DEF Work

(* List: the new listing is the newest one, and it is accurate.            *)
LEMMA ListTells ==
  ASSUME TypeInv, OrderInv, NEW t \in Tasks, List(t), NEW c
  PROVE  Told(c)'
<1>1. \A u \in Tasks \ {t} : task'[u] = task[u]
  BY DEF List, TypeInv
<1>2. /\ task'[t].pc = "mark" /\ task'[t].seen = files /\ ~ task'[t].late
      /\ task'[t].earlier = {u \in Tasks : InFlight(u)} /\ ~ InFlight(t)
      /\ files' = files /\ marker' = marker
  BY ListTo DEF List, disk, InFlight
<1>3. Current(t)'
  BY <1>2 DEF Current, InFlight
<1>4. \A u \in Tasks : Newest(u)' => u = t
  BY <1>1, <1>2, <1>3 DEF Newest, Current, InFlight
<1>5. Accurate(t, c)'
  BY <1>2 DEF Accurate
<1> QED
  BY <1>3, <1>4, <1>5 DEF Told

LEMMA ListMarkersTells ==
  ASSUME TypeInv, NEW t \in Tasks, ListMarkers(t), NEW c, Told(c)
  PROVE  Told(c)'
<1>1. \A u \in Tasks \ {t} : task'[u] = task[u]
  BY DEF ListMarkers, TypeInv
<1>2. /\ task[t].pc = "mark" /\ task'[t].pc = "apply" /\ task'[t].seen = task[t].seen \ marker
      /\ task'[t].late = task[t].late /\ task'[t].earlier = task[t].earlier
      /\ files' = files /\ marker' = marker /\ advertised' = advertised
  BY ListMarkersTo DEF ListMarkers, disk
<1>3. \A u \in Tasks : /\ Current(u)' <=> Current(u)
                       /\ task'[u].earlier = task[u].earlier
  BY <1>1, <1>2 DEF Current, InFlight
<1>4. \A u \in Tasks : Newest(u)' <=> Newest(u)
  BY <1>3 DEF Newest
<1>5. \A u \in Tasks : Accurate(u, c)' <=> Accurate(u, c)
  BY <1>1, <1>2 DEF Accurate
<1> QED
  BY <1>2, <1>3, <1>4, <1>5 DEF Told

(* Apply: the newest listing leaves nothing current behind it; an older    *)
(* one leaves the newest where it is.                                      *)
LEMMA ApplyTells ==
  ASSUME TypeInv, LockInv, OrderInv, NEW t \in Tasks, Apply(t), ~ task[t].late,
         NEW c, Told(c)
  PROVE  Told(c)'
<1>1. /\ task[t].pc = "apply" /\ ~ InFlight(t)' /\ Current(t)
      /\ files' = files /\ marker' = marker /\ advertised' = task[t].seen
  BY ApplyTo DEF Apply, disk, InFlight, Current
<1>2. ASSUME NEW u \in Tasks, u # t
      PROVE  /\ task'[u].pc = task[u].pc /\ task'[u].seen = task[u].seen
             /\ task'[u].earlier = task[u].earlier \ {t}
             /\ Current(u)' <=> Current(u) /\ u \notin task[t].earlier
  BY <1>2, ApplyTo DEF Current, InFlight
<1>3. ASSUME NEW u \in Tasks, Newest(u)'
      PROVE  u # t /\ Newest(u) /\ Accurate(u, c)'
  <2>1. u # t /\ Current(u) /\ u \notin task[t].earlier
    BY <1>1, <1>2, <1>3 DEF Newest, Current
  <2>2. ASSUME NEW v \in Tasks, Current(v), u \in task[v].earlier
        PROVE  FALSE
    <3>1. v # t
      BY <2>1, <2>2
    <3>2. ~ Current(v)'
      BY <1>2, <1>3, <2>1, <2>2, <3>1 DEF Newest
    <3>3. v \in task[t].earlier
      BY <1>2, <2>2, <3>1, <3>2
    <3> QED
      BY <2>1, <2>2, <3>3 DEF OrderInv
  <2>3. Newest(u)
    BY <2>1, <2>2 DEF Newest
  <2> QED
    BY <1>1, <1>2, <2>1, <2>3 DEF Told, Accurate
<1>4. ASSUME \A u \in Tasks : ~ Current(u)'
      PROVE  c \in advertised' <=> c \in files' \ marker'
  <2>1. ASSUME NEW u \in Tasks, Current(u), t \in task[u].earlier
        PROVE  FALSE
    <3>1. u # t
      BY <2>1 DEF OrderInv
    <3>2. u \in task[t].earlier
      BY <1>2, <1>4, <2>1, <3>1
    <3> QED
      BY <1>1, <2>1, <3>1, <3>2 DEF OrderInv, Current
  <2>2. Newest(t)
    BY <1>1, <2>1 DEF Newest
  <2> QED
    BY <1>1, <2>2 DEF Told, Accurate
<1> QED
  BY <1>3, <1>4 DEF Told

LEMMA AdvertStep ==
  TypeInv /\ LockInv /\ ClaimInv /\ OrderInv /\ AdvertInv /\ [Next]_vars => AdvertInv'
<1> SUFFICES ASSUME TypeInv, LockInv, ClaimInv, OrderInv, AdvertInv, [Next]_vars,
                    ~ overtaken', NEW c \in Capsules, c \notin unnoticed' \cup crossed'
             PROVE  Covered(c)' \/ Told(c)'
  BY DEF AdvertInv
<1>1. ASSUME NEW t \in Tasks, NEW op \in Ops, NEW d \in Capsules, NEW own \in Claims,
             Begin(t, op, d, own)
      PROVE  Covered(c)' \/ Told(c)'
  <2>1. PICK w : Moves(t, w) /\ w.pc \in {"lock", "pull", "promote"}
    BY <1>1, BeginMoves
  <2>2. task'[t] = w /\ \A u \in Tasks \ {t} : task'[u] = task[u]
    BY <2>1, MoveKeepsLock
  <2>3. /\ task[t].pc = "idle"
        /\ UNCHANGED <<files, marker, advertised, unnoticed, crossed, overtaken>>
    BY <1>1 DEF Begin, disk, history
  <2>4. ~ InFlight(t) /\ ~ Covers(task[t], c)
    BY <2>3 DEF InFlight, Covers, WillList, WillNote, Sweeping
  <2>5. Covered(c) => Covered(c)'
    BY <2>2, <2>4, CoverKept
  <2>6. Told(c) => Told(c)'
    BY <2>1, <2>2, <2>3, <2>4, ToldKept
  <2> QED
    BY <2>3, <2>5, <2>6 DEF AdvertInv
<1>2. ASSUME NEW t \in Tasks, Work(t), ~ List(t), ~ ListMarkers(t), ~ Apply(t)
      PROVE  Covered(c)' \/ Told(c)'
  <2>1. /\ Quiet(t, c) /\ c \notin unnoticed \cup crossed
        /\ overtaken' = overtaken /\ advertised' = advertised
    BY <1>2, QuietStep
  <2>2. /\ \A u \in Tasks \ {t} : task'[u] = task[u]
        /\ ~ InFlight(t) /\ task'[t].pc \notin {"mark", "apply"}
    BY <1>2, WorkStep, FlightKept
  <2>3. CASE Covers(task'[t], c)
    BY <2>3, CoverTaken
  <2>4. CASE /\ ~ Covers(task[t], c)
             /\ c \in marker' <=> c \in marker
             /\ c \in files' \ marker' <=> c \in files \ marker
    <3>1. Covered(c) \/ Told(c)
      BY <2>1 DEF AdvertInv
    <3> QED
      BY <2>1, <2>2, <2>4, <3>1, CoverKept, ToldKept
  <2> QED
    BY <2>1, <2>3, <2>4 DEF Quiet
<1>3. ASSUME NEW t \in Tasks, List(t)
      PROVE  Told(c)'
  BY <1>3, ListTells
<1>4. ASSUME NEW t \in Tasks, ListMarkers(t)
      PROVE  Covered(c)' \/ Told(c)'
  <2>1. /\ \A u \in Tasks \ {t} : task'[u] = task[u]
        /\ ~ Covers(task[t], c) /\ UNCHANGED <<unnoticed, crossed, overtaken>>
    BY <1>4 DEF ListMarkers, TypeInv, history, Covers, WillList, WillNote, Sweeping
  <2> QED
    BY <1>4, <2>1, CoverKept, ListMarkersTells DEF AdvertInv
<1>5. ASSUME NEW t \in Tasks, Apply(t)
      PROVE  Covered(c)' \/ Told(c)'
  <2>1. ~ overtaken /\ ~ task[t].late /\ UNCHANGED <<unnoticed, crossed>>
    BY <1>5 DEF Apply
  <2>2. Covered(c) => Covered(c)'
    <3>1. ~ Covers(task[t], c)
      BY <1>5 DEF Apply, Covers, WillList, WillNote, Sweeping
    <3>2. \A u \in Tasks \ {t} : Covers(task[u], c) => Covers(task'[u], c)
      BY <1>5, ApplyTo DEF Covers, WillList, WillNote
    <3> QED
      BY <3>1, <3>2 DEF Covered, Covers
  <2> QED
    BY <1>5, <2>1, <2>2, ApplyTells DEF AdvertInv
<1>6. CASE Restart
  BY <1>6 DEF Restart, disk, Told, Newest, Current, InFlight, NoWork
<1>7. CASE UNCHANGED vars
  <2>1. UNCHANGED <<task, files, marker, advertised, unnoticed, crossed, overtaken>>
    BY <1>7 DEF vars, disk, history
  <2> QED
    BY <2>1 DEF AdvertInv, Covered, Told, Newest, Current, InFlight, Accurate
<1> QED
  BY <1>1, <1>2, <1>3, <1>4, <1>5, <1>6, <1>7 DEF Next, Work

(* At rest the node advertises exactly what it holds for itself, for any   *)
(* number of reconciles in flight: however landings, sweeps and listings   *)
(* overlap, the last listing applied is right about every capsule, but for *)
(* the changes the code does not announce and a listing overtaken by a     *)
(* later one (advertise_holdings_change, reconcile_inventory).             *)
THEOREM AdvertisementFollows == Spec => []AdvertisedAtRest
<1>1. AdvertInv => AdvertisedAtRest
  <2> SUFFICES ASSUME AdvertInv, AtRest, ~ overtaken,
                      NEW c \in Capsules \ (unnoticed \cup crossed)
               PROVE  c \in advertised <=> c \in files \ marker
    BY DEF AdvertisedAtRest
  <2>1. ~ Covered(c)
    BY DEF AtRest, Covered, WillList, WillNote, Sweeping
  <2>2. \A t \in Tasks : ~ Current(t)
    BY DEF AtRest, Current, InFlight
  <2> QED
    BY <2>1, <2>2 DEF AdvertInv, Told
<1>2. TypeInv /\ LockInv /\ ClaimInv /\ OrderInv /\ AdvertInv /\ [Next]_vars
         => OrderInv' /\ AdvertInv'
  BY OrderStep, AdvertStep
<1> QED
  BY <1>1, <1>2, TypeInvariant, ClaimInvariant, OrderInit, PTL DEF Spec
=============================================================================
