---------------------------- MODULE CapsuleCache ----------------------------
(***************************************************************************)
(* The capsule cache of dig-node-core: how a capsule lands on disk, how    *)
(* the budget is kept, and how the node's advertisement follows (lib.rs,   *)
(* seams/capsule, seams/dig_peer/module_reshare.rs, holdings.rs, dht.rs).  *)
(*                                                                         *)
(* A cached capsule is a file; a capsule held on a stranger's behalf has a *)
(* relay marker beside it, a second file.  A capsule without a marker is   *)
(* the node's own: it is advertised, and the operator's money may be       *)
(* staked on it.  Capsules land by four routes:                            *)
(*                                                                         *)
(*   - sync:  the read path, outside cache_lock;                           *)
(*   - fetch: cache.fetchAndCache, gap filling and backfill, under it;     *)
(*   - push:  an uploaded capsule, under it;                               *)
(*   - warm:  re-sharing, outside it, one pull per capsule at a time;      *)
(*                                                                         *)
(* and leave by the sweep that every route runs, or by a removal (the      *)
(* operator's or a melt's).  A reconcile lists the disk and then replaces  *)
(* what is advertised by that listing.                                     *)
(*                                                                         *)
(* Every access to the disk is a step of its own.  Capsules have one size. *)
(* External: what upstreams and peers serve, and the eviction policy       *)
(* (dig_sex), which names as many capsules as are over the budget.         *)
(***************************************************************************)
EXTENDS Integers, FiniteSets

CONSTANTS
    Capsules,
    Tasks,      \* requests handled at a time
    NoTask,
    Ops,        \* the operations that occur
    Claims,     \* whose capsules land: TRUE the node's own, FALSE a stranger's
    Budget,     \* cache_budget().modules, in capsules
    MaxOps,     \* bound on the operations begun
    MaxFaults   \* bound on failed writes and deletions, and on restarts

ASSUME CacheConstants ==
    /\ NoTask \notin Tasks
    /\ Ops \subseteq {"sync", "fetch", "push", "warm", "remove"}
    /\ Claims \subseteq BOOLEAN
    /\ Budget \in Nat /\ MaxOps \in Nat /\ MaxFaults \in Nat

VARIABLES
    files,      \* the capsules at their cache path
    marker,     \* the capsules with a relay marker at theirs
    lock,       \* the holder of cache_lock
    advertised, \* DhtHandle::announced
    task,       \* [Tasks -> the operation in progress]
    ops, faults,
    asked,      \* history: capsules the node was asked for on its own behalf
    landed,     \* history: [Capsules -> the claim of the last landing]
    crossed,    \* history: capsules with two changes of their files at once
    unnoticed,  \* history: capsules that changed and no reconcile followed
    overtaken,  \* history: a listing was applied after a later one was
    cut         \* history: a landing whose sweep did not follow

disk == <<files, marker>>
history == <<asked, landed, crossed, unnoticed, overtaken, cut>>
vars == <<disk, lock, advertised, task, ops, faults, history>>

NoWork == [op |-> "none", cap |-> 0, to |-> 0, own |-> FALSE, pc |-> "idle",
           victims |-> {}, victim |-> 0, removed |-> {}, seen |-> {},
           earlier |-> {}, late |-> FALSE, swept |-> FALSE]

Init ==
    /\ files = {} /\ marker = {} /\ lock = NoTask /\ advertised = {}
    /\ task = [t \in Tasks |-> NoWork]
    /\ ops = 0 /\ faults = 0
    /\ asked = {} /\ landed = [c \in Capsules |-> "none"]
    /\ crossed = {} /\ unnoticed = {} /\ overtaken = FALSE /\ cut = FALSE

----------------------------------------------------------------------------
Goes(t, pc) == task' = [task EXCEPT ![t].pc = pc]
Fault == faults < MaxFaults /\ faults' = faults + 1
Locked(t) == lock = t

(* The operation is over, and its guard of cache_lock with it.             *)
End(t) ==
    /\ task' = [task EXCEPT ![t] = NoWork]
    /\ lock' = IF Locked(t) THEN NoTask ELSE lock

(* Another task is between the two files of c.                             *)
Between(t, c) ==
    \E u \in Tasks \ {t} :
        \/ task[u].pc \in {"publish", "rollback"} /\ task[u].to = c
        \/ task[u].pc = "discard" /\ task[u].victim = c
Crosses(t, c) == IF Between(t, c) THEN crossed \cup {c} ELSE crossed

----------------------------------------------------------------------------
(* The routes' beginnings.  A capsule that is there is not pulled again;   *)
(* one that was relayed becomes the node's own when it warms it for itself.*)
Warming == {task[t].cap : t \in {u \in Tasks :
               task[u].op = "warm" /\ ~ task[u].swept
               /\ task[u].pc \in {"pull", "claim", "publish", "list", "mark", "apply"}}}

Begin(t, op, c, own) ==
    /\ task[t].pc = "idle" /\ ops < MaxOps /\ ops' = ops + 1
    /\ op = "remove" => ~ own
    /\ op \in {"sync", "fetch"} => c \notin files
    /\ op = "warm" => \/ c \notin files /\ c \notin Warming
                      \/ c \in files /\ own /\ c \in marker
    /\ task' = [task EXCEPT ![t] = [NoWork EXCEPT
                   !.op = op, !.cap = c, !.to = c, !.own = own,
                   !.pc = CASE op = "sync" -> "pull"
                            [] op = "warm" -> IF c \in files THEN "promote" ELSE "pull"
                            [] OTHER -> "lock"]]
    /\ UNCHANGED <<disk, lock, advertised, faults, history>>

(* cache_lock, at the start of fetch, push and remove, and for the sweep   *)
(* of the others (evict_modules_if_needed).                                *)
Acquire(t) ==
    LET w == task[t] IN
    /\ w.pc \in {"lock", "sweepLock"} /\ lock = NoTask
    /\ lock' = t
    /\ task' = [task EXCEPT ![t] = [w EXCEPT
                   !.pc = IF w.pc = "sweepLock" THEN "sweep"
                          ELSE CASE w.op = "fetch" -> "pull"
                                 [] w.op = "push" -> "check"
                                 [] w.op = "remove" -> "delete",
                   !.victims = IF w.op = "remove" THEN {w.cap} ELSE {}]]
    /\ UNCHANGED <<disk, advertised, ops, faults, history>>

(* land_capsule_bytes: a capsule already there stays as it is.             *)
Check(t) ==
    /\ task[t].pc = "check"
    /\ IF task[t].cap \in files THEN End(t)
       ELSE Goes(t, "claim") /\ UNCHANGED lock
    /\ UNCHANGED <<disk, advertised, ops, faults, history>>

(* What a route does when nothing was landed: the read path sweeps all the *)
(* same, fetch goes by whether the capsule is there after all.             *)
NotLanded(t) ==
    \/ task[t].op = "sync" /\ Goes(t, "sweepLock") /\ UNCHANGED lock
    \/ /\ task[t].op = "fetch" /\ task[t].cap \in files
       /\ Goes(t, "sweep") /\ UNCHANGED lock
    \/ task[t].op = "fetch" /\ task[t].cap \notin files /\ End(t)
    \/ task[t].op \in {"push", "warm"} /\ End(t)

(* The capsule is downloaded and verified, or not.  The upstream of sync   *)
(* and fetch may serve a newer root than the one asked for.                *)
Pull(t) ==
    /\ task[t].pc = "pull"
    /\ \/ \E c \in Capsules :
             /\ c = task[t].cap \/ task[t].op \in {"sync", "fetch"}
             /\ task' = [task EXCEPT ![t].to = c, ![t].pc = "claim"]
             /\ UNCHANGED lock
       \/ NotLanded(t)
    /\ UNCHANGED <<disk, advertised, ops, faults, history>>

(* Mutant: a stranger's claim leaves what is on disk alone.                *)
ClaimOwnOnly(own, c) == IF own THEN marker \ {c} ELSE marker

(* persist_holder_claim.                                                   *)
ClaimWritten(own, c) == IF own THEN marker \ {c} ELSE marker \cup {c}

(* The claim is written before the capsule is visible.                     *)
Claim(t) ==
    LET w == task[t] IN
    /\ w.pc = "claim"
    /\ \/ /\ marker' = ClaimWritten(w.own, w.to)
          /\ asked' = IF w.own THEN asked \cup {w.to} ELSE asked
          /\ crossed' = Crosses(t, w.to)
          /\ landed' = [landed EXCEPT ![w.to] =
                          IF w.to \in files
                          THEN IF w.own THEN "own" ELSE "relay" ELSE @]
          /\ unnoticed' = IF w.op = "warm" /\ ~ w.own
                          THEN unnoticed \cup {w.to} ELSE unnoticed
          /\ Goes(t, "publish") /\ UNCHANGED <<lock, faults>>
       \/ /\ Fault /\ NotLanded(t)
          /\ UNCHANGED <<marker, asked, crossed, landed, unnoticed>>
    /\ UNCHANGED <<files, advertised, ops, overtaken, cut>>

(* Mutant: a pushed capsule is bounded through the locking sweep.          *)
LandedRelocks(t) ==
    LET w == task[t] IN
    \/ /\ w.op # "fetch" /\ UNCHANGED lock
       /\ Goes(t, IF w.op = "warm" /\ w.own THEN "list" ELSE "sweepLock")
    \/ w.op = "fetch" /\ w.cap \in files' /\ Goes(t, "sweep") /\ UNCHANGED lock
    \/ w.op = "fetch" /\ w.cap \notin files' /\ End(t)

(* After the rename.  fetch looks for the capsule it asked for.            *)
Landed(t) ==
    LET w == task[t] IN
    \/ w.op = "sync" /\ Goes(t, "sweepLock") /\ UNCHANGED lock
    \/ w.op = "push" /\ Goes(t, "sweep") /\ UNCHANGED lock
    \/ w.op = "warm" /\ Goes(t, IF w.own THEN "list" ELSE "sweepLock")
       /\ UNCHANGED lock
    \/ w.op = "fetch" /\ w.cap \in files' /\ Goes(t, "sweep") /\ UNCHANGED lock
    \/ w.op = "fetch" /\ w.cap \notin files' /\ End(t)

(* write_atomic, or promote_into_cache's rename.  A warm that fails here   *)
(* leaves its claim behind.                                                *)
Publish(t) ==
    LET w == task[t] IN
    /\ w.pc = "publish"
    /\ \/ /\ files' = files \cup {w.to}
          /\ landed' = [landed EXCEPT ![w.to] = IF w.own THEN "own" ELSE "relay"]
          /\ unnoticed' = IF w.op = "sync" \/ (w.op = "fetch" /\ w.cap # w.to)
                          THEN unnoticed \cup {w.to} ELSE unnoticed
          /\ cut' = (cut \/ (w.op = "fetch" /\ w.cap \notin files'))
          /\ Landed(t) /\ UNCHANGED faults
       \/ /\ Fault
          /\ IF w.op = "warm" THEN End(t)
             ELSE Goes(t, "rollback") /\ UNCHANGED lock
          /\ unnoticed' = IF w.op = "warm" THEN unnoticed \cup {w.to}
                          ELSE unnoticed
          /\ UNCHANGED <<files, landed, cut>>
    /\ UNCHANGED <<marker, advertised, ops, asked, crossed, overtaken>>

(* The rollback of a failed write takes the marker away, whoever's it is.  *)
Rollback(t) ==
    LET c == task[t].to IN
    /\ task[t].pc = "rollback"
    /\ marker' = marker \ {c}
    /\ crossed' = IF c \in files THEN crossed \cup {c} ELSE Crosses(t, c)
    /\ unnoticed' = unnoticed \cup {c}
    /\ NotLanded(t)
    /\ UNCHANGED <<files, advertised, ops, faults, asked, landed, overtaken, cut>>

(* A warm of the node's own finds a relayed capsule and makes it its own.  *)
Promote(t) ==
    LET c == task[t].cap IN
    /\ task[t].pc = "promote"
    /\ \/ /\ marker' = marker \ {c} /\ asked' = asked \cup {c}
          /\ crossed' = Crosses(t, c)
          /\ landed' = [landed EXCEPT ![c] = IF c \in files THEN "own" ELSE @]
          /\ task' = [task EXCEPT ![t].pc = "list", ![t].swept = TRUE]
          /\ UNCHANGED <<lock, faults>>
       \/ Fault /\ End(t) /\ UNCHANGED <<marker, asked, crossed, landed>>
    /\ UNCHANGED <<files, advertised, ops, unnoticed, overtaken, cut>>

----------------------------------------------------------------------------
(* evict_modules_locked.  Temporary files of landings count against the    *)
(* budget while they are there.                                            *)
Temporaries ==
    Cardinality({t \in Tasks : \/ task[t].pc = "publish"
                               \/ task[t].pc = "claim" /\ task[t].op = "warm"})

(* Mutant: what is over the budget, less one.                              *)
OverLessOne(cap) == IF Cardinality(files) > cap + 1
                    THEN Cardinality(files) - cap - 1 ELSE 0

Over(cap) == IF Cardinality(files) > cap THEN Cardinality(files) - cap ELSE 0

Sweep(t) ==
    /\ task[t].pc = "sweep"
    /\ \E V \in SUBSET files, temps \in 0 .. Temporaries :
          /\ Cardinality(V) =
                Over(IF temps > Budget THEN 0 ELSE Budget - temps)
          /\ task' = [task EXCEPT ![t].victims = V, ![t].pc = "delete"]
    /\ cut' = FALSE
    /\ UNCHANGED <<disk, lock, advertised, ops, faults, asked, landed, crossed,
                   unnoticed, overtaken>>

(* One file of a victim, then the other.                                   *)
Unlink(t, c) ==
    /\ task[t].pc = "delete" /\ c \in task[t].victims
    /\ \/ /\ c \in files /\ files' = files \ {c}
          /\ landed' = [landed EXCEPT ![c] = "none"]
          /\ crossed' = Crosses(t, c)
          /\ task' = [task EXCEPT ![t].victims = @ \ {c}, ![t].victim = c,
                                  ![t].pc = "discard"]
          /\ UNCHANGED <<faults, cut>>
       \/ /\ \/ c \notin files /\ UNCHANGED <<faults, cut>>
             \/ c \in files /\ Fault
                /\ cut' = (cut \/ task[t].op # "remove")
          /\ task' = [task EXCEPT ![t].victims = @ \ {c}]
          /\ UNCHANGED <<files, landed, crossed>>
    /\ UNCHANGED <<marker, lock, advertised, ops, asked, unnoticed, overtaken>>

MarkersAfter(c) == marker \ {c}

Discard(t) ==
    LET c == task[t].victim IN
    /\ task[t].pc = "discard"
    /\ marker' = MarkersAfter(c)
    /\ crossed' = IF c \in files THEN crossed \cup {c} ELSE Crosses(t, c)
    /\ unnoticed' = IF task[t].op = "remove" THEN unnoticed \cup {c}
                    ELSE unnoticed
    /\ task' = [task EXCEPT ![t].removed = @ \cup {c}, ![t].pc = "delete"]
    /\ UNCHANGED <<files, lock, advertised, ops, faults, asked, landed,
                   overtaken, cut>>

(* The sweep is done.  fetch and push advertise, still under the lock;     *)
(* sync and warm after it, where something was removed; remove does not.   *)
Swept(t) ==
    LET w == task[t] IN
    /\ w.pc = "delete" /\ w.victims = {}
    /\ \/ /\ w.op \in {"fetch", "push"}
          /\ task' = [task EXCEPT ![t].pc = "list", ![t].swept = TRUE]
          /\ UNCHANGED lock
       \/ /\ w.op \in {"sync", "warm"} /\ w.removed # {}
          /\ task' = [task EXCEPT ![t].pc = "list", ![t].swept = TRUE]
          /\ lock' = NoTask
       \/ (w.op = "remove" \/ (w.op \in {"sync", "warm"} /\ w.removed = {}))
          /\ End(t)
    /\ UNCHANGED <<disk, advertised, ops, faults, history>>

----------------------------------------------------------------------------
(* reconcile_and_flood: list_cached_capsules looks at the capsules, then   *)
(* for their markers; reconcile_inventory applies the listing under the    *)
(* mutex of the handle.  A listing that is in flight when a later one is   *)
(* applied is late.                                                        *)
InFlight(t) == task[t].pc \in {"mark", "apply"}

List(t) ==
    /\ task[t].pc = "list"
    /\ task' = [task EXCEPT ![t].seen = files, ![t].pc = "mark", ![t].late = FALSE,
                            ![t].earlier = {u \in Tasks : InFlight(u)}]
    /\ unnoticed' = {}
    /\ UNCHANGED <<disk, lock, advertised, ops, faults, asked, landed, crossed,
                   overtaken, cut>>

(* Mutant: relayed capsules are listed as held.                            *)
HeldOrRelayed(found) == found

HeldOf(found) == found \ marker

ListMarkers(t) ==
    /\ task[t].pc = "mark"
    /\ task' = [task EXCEPT ![t].seen = HeldOf(@), ![t].pc = "apply"]
    /\ UNCHANGED <<disk, lock, advertised, ops, faults, history>>

Apply(t) ==
    LET w == task[t]
        late == [u \in Tasks |-> [task[u] EXCEPT !.late = @ \/ u \in w.earlier,
                                                 !.earlier = @ \ {t}]]
    IN
    /\ w.pc = "apply"
    /\ advertised' = w.seen
    /\ overtaken' = (overtaken \/ w.late)
    /\ IF w.op = "warm" /\ ~ w.swept
       THEN /\ task' = [late EXCEPT ![t].pc = "sweepLock"]
            /\ UNCHANGED lock
       ELSE /\ task' = [late EXCEPT ![t] = NoWork]
            /\ lock' = IF Locked(t) THEN NoTask ELSE lock
    /\ UNCHANGED <<disk, ops, faults, asked, landed, crossed, unnoticed, cut>>

(* The process stops and starts: the disk stays, and is what the new       *)
(* process advertises.                                                     *)
Restart ==
    /\ Fault
    /\ task' = [t \in Tasks |-> NoWork] /\ lock' = NoTask
    /\ advertised' = files \ marker
    /\ cut' = TRUE /\ unnoticed' = {} /\ overtaken' = FALSE
    /\ UNCHANGED <<disk, ops, asked, landed, crossed>>

Work(t) ==
    \/ Acquire(t) \/ Check(t) \/ Pull(t) \/ Claim(t) \/ Publish(t)
    \/ Rollback(t) \/ Promote(t)
    \/ Sweep(t) \/ (\E c \in Capsules : Unlink(t, c)) \/ Discard(t) \/ Swept(t)
    \/ List(t) \/ ListMarkers(t) \/ Apply(t)

Next ==
    \/ \E t \in Tasks :
          \/ \E op \in Ops, c \in Capsules, own \in Claims : Begin(t, op, c, own)
          \/ Work(t)
    \/ Restart

Spec == Init /\ [][Next]_vars

----------------------------------------------------------------------------
(* Properties.                                                             *)
AtRest == \A t \in Tasks : task[t].pc = "idle"

(* Every variable keeps its type, and cache_lock, which is not reentrant,  *)
(* is held by a task that is at work and not waiting for it                *)
(* (announce_and_bound_after_land).                                        *)
TypeOK ==
    /\ files \subseteq Capsules /\ marker \subseteq Capsules
    /\ advertised \subseteq Capsules
    /\ lock \in Tasks \cup {NoTask}
    /\ lock # NoTask => task[lock].pc \notin {"idle", "lock", "sweepLock"}
    /\ \A t \in Tasks :
          /\ task[t].pc \in {"idle", "lock", "check", "pull", "claim", "publish",
                             "rollback", "promote", "sweepLock", "sweep",
                             "delete", "discard", "list", "mark", "apply"}
          /\ task[t].victims \cup task[t].removed \cup task[t].seen
                \subseteq Capsules

(* A marker says whose a capsule is: it is there exactly when the last     *)
(* landing was a stranger's, over failed writes, evictions, removals and   *)
(* restarts, unless two changes of the pair of files met                   *)
(* (persist_holder_claim, discard_relay_marker_beside).                    *)
MarkerTellsTruth ==
    \A c \in files \ crossed : c \in marker <=> landed[c] = "relay"

(* With nothing in progress the cache is within its budget, unless a       *)
(* landing's own sweep was lost to a restart or a failed deletion, or left *)
(* out because another root was served (sync_module_and_bound,             *)
(* announce_and_bound_after_land, warm_claiming).                          *)
BoundedAtRest == AtRest /\ ~ cut => Cardinality(files) <= Budget

(* With nothing in progress the node advertises what it holds for itself:  *)
(* nothing evicted is still advertised and nothing of its own is missing,  *)
(* but for capsules whose change no reconcile follows, and listings that   *)
(* were applied out of order (advertise_holdings_change).                  *)
AdvertisedAtRest ==
    AtRest /\ ~ overtaken =>
        \A c \in Capsules \ (unnoticed \cup crossed) :
            c \in advertised <=> c \in files \ marker

(* A capsule that was never wanted but by strangers is never without its   *)
(* marker.                                                                 *)
StrangersNotClaimed == files \ marker \subseteq asked
=============================================================================
