-------------------------- MODULE AskNetworkProofs --------------------------
(***************************************************************************)
(* Proofs about AskNetwork, for any network of nodes and pools, any hop    *)
(* cap, fan-out and number of permits: how far a question goes, what a     *)
(* claim of absence rests on, and that no permit is lost.                  *)
(***************************************************************************)
EXTENDS AskNetwork, FiniteSetTheorems, SequenceTheorems, TLAPS

Before == {"none", "arrive", "decide", "enter"}
Working == {"enter", "asking", "wait"}
Over == {"none", "done", "lost"}

Asks == [pc : Before \cup Working \cup Over, depth : 0 .. HopCap,
         first : SUBSET Nodes, whole : BOOLEAN, todo : SUBSET Nodes,
         to : Paths \cup {<<>>}, heard : SUBSET Nodes, names : SUBSET Nodes,
         absent : BOOLEAN]

(* A run at p: it was told its depth, its node is up for as long as it     *)
(* works, it puts the question onward only where forwarding is enabled and *)
(* a hop is left, and every node before it on its path did forward.        *)
RunSound(p, r) ==
    /\ r.pc \notin {"none", "lost"} => r.depth = Depth(p)
    /\ r.pc \in Working => /\ At(p) \in Forwarding /\ Depth(p) < HopCap
                           /\ r.todo \subseteq Eligible(p)
    /\ r.pc = "wait" => r.to \in Paths
    /\ r.absent = TRUE => /\ r.pc = "done" /\ r.whole = TRUE /\ r.names = {}
                          /\ At(p) \notin Forwarding
    /\ r.pc # "none" => \A i \in 1 .. Len(p) - 1 : p[i] \in Forwarding

RunInv ==
    /\ run \in [Paths -> Asks]
    /\ seen \subseteq Nodes /\ up \subseteq Nodes
    /\ \A p \in Paths : RunSound(p, run[p])
    /\ \A p \in Paths : run[p].pc \notin Over => At(p) \in up

(* Nobody is asked twice along one path.                                   *)
ChildInv ==
    \A p \in Paths, q \in Nodes :
        (Append(p, q) \in Paths /\ (run[p].pc \in Before \/ q \in run[p].todo))
            => run[Append(p, q)].pc = "none"

Holding(n) == {p \in Paths : At(p) = n /\ run[p].pc \in {"asking", "wait"}}
PermitInv ==
    /\ free \in [Nodes -> 0 .. Slots]
    /\ \A n \in up : /\ IsFiniteSet(Holding(n))
                     /\ free[n] + Cardinality(Holding(n)) = Slots

----------------------------------------------------------------------------
(* Paths. *)

LEMMA PathSeq ==
  ASSUME NEW p \in Paths
  PROVE  /\ p \in Seq(Nodes) /\ Len(p) \in 1 .. HopCap + 2
         /\ DOMAIN p = 1 .. Len(p) /\ At(p) \in Nodes
<1>1. PICK k \in 1 .. HopCap + 2 : p \in [1 .. k -> Nodes]
  BY DEF Paths
<1>2. p \in Seq(Nodes)
  BY <1>1, AskConstants
<1>3. Len(p) = k
  BY <1>1, <1>2, AskConstants, LenProperties
<1> QED
  BY <1>1, <1>2, <1>3, LenProperties DEF At, Last

LEMMA OneParent ==
  ASSUME NEW p \in Paths, NEW q \in Nodes, NEW r \in Paths, NEW s \in Nodes,
         Append(p, q) = Append(r, s)
  PROVE  p = r /\ q = s
BY PathSeq, AppendInjective

(* The path to a peer that may be asked.                                   *)
LEMMA AskedPath ==
  ASSUME NEW p \in Paths, NEW q \in Eligible(p), Depth(p) < HopCap
  PROVE  /\ Append(p, q) \in Paths /\ Append(p, q) # p
         /\ Len(Append(p, q)) = Len(p) + 1 /\ At(Append(p, q)) = q
         /\ \A i \in 1 .. Len(p) : Append(p, q)[i] = p[i]
<1> DEFINE t == Append(p, q)
<1>1. /\ p \in Seq(Nodes) /\ Len(p) \in 1 .. HopCap + 2 /\ At(p) \in Nodes
      /\ p \in [1 .. Len(p) -> Nodes]
  BY PathSeq, LenProperties
<1>2. q \in Nodes /\ q \in Pool[At(p)] /\ q # At(p) /\ q \notin Asker(p)
  BY <1>1, AskConstants DEF Eligible
<1>3. /\ t \in Seq(Nodes) /\ Len(t) = Len(p) + 1 /\ t[Len(p) + 1] = q
      /\ \A i \in 1 .. Len(p) : t[i] = p[i]
  BY <1>1, <1>2, AppendProperties
<1> HIDE DEF t
<1>4. t \in [1 .. Len(t) -> Nodes] /\ Len(t) \in 1 .. HopCap + 2
  BY <1>1, <1>3, AskConstants, LenProperties DEF Depth
<1>5. t \in UNION {[1 .. k -> Nodes] : k \in 1 .. HopCap + 2}
  BY <1>4
<1>6. t[1] \in Entries
  BY <1>1, <1>3 DEF Paths
<1>7. ASSUME NEW i \in 2 .. Len(t)
      PROVE  t[i] \in Pool[t[i - 1]] \ {t[i - 1], t[IF i > 2 THEN i - 2 ELSE 1]}
  <2>1. CASE i <= Len(p)
    <3>1. p[i] \in Pool[p[i - 1]] \ {p[i - 1], p[IF i > 2 THEN i - 2 ELSE 1]}
      BY <1>1, <2>1 DEF Paths
    <3>2. t[i] = p[i] /\ t[i - 1] = p[i - 1]
      BY <1>1, <1>3, <2>1
    <3>3. t[IF i > 2 THEN i - 2 ELSE 1] = p[IF i > 2 THEN i - 2 ELSE 1]
      BY <1>1, <1>3, <2>1
    <3> QED
      BY <3>1, <3>2, <3>3
  <2>2. CASE i > Len(p)
    <3>1. i = Len(p) + 1 /\ t[i] = q /\ t[i - 1] = At(p)
      BY <1>1, <1>3, <2>2 DEF At, Last
    <3>2. CASE i > 2
      <4>1. t[i - 2] = p[Len(p) - 1] /\ Asker(p) = {p[Len(p) - 1]}
        BY <1>1, <1>3, <3>1, <3>2 DEF Asker
      <4> QED
        BY <1>2, <3>1, <3>2, <4>1
    <3>3. CASE i = 2
      BY <1>2, <3>1, <3>3
    <3> QED
      BY <3>2, <3>3
  <2> QED
    BY <1>1, <1>3, <2>1, <2>2
<1>8. t \in Paths
  BY <1>5, <1>6, <1>7 DEF Paths
<1>9. t # p /\ At(t) = q
  BY <1>1, <1>3 DEF At, Last
<1> QED
  BY <1>3, <1>8, <1>9 DEF t

----------------------------------------------------------------------------
(* The runs. *)

LEMMA NoRunAsks ==
  /\ NoRun \in Asks
  /\ \A p \in Paths : RunSound(p, NoRun)
  /\ NoRun.pc = "none" /\ NoRun.todo = {}
BY AskConstants DEF NoRun, Asks, RunSound, Before, Working, Over

(* A run that starts where its path has led.                               *)
LEMMA ArriveAsks ==
  ASSUME NEW p \in Paths, NEW d \in 0 .. HopCap, d = Depth(p),
         \A i \in 1 .. Len(p) - 1 : p[i] \in Forwarding,
         NEW r, r = [NoRun EXCEPT !.pc = "arrive", !.depth = d]
  PROVE  r \in Asks /\ RunSound(p, r) /\ r.pc = "arrive" /\ r.todo = {}
BY DEF NoRun, Asks, RunSound, Before, Working, Over

LEMMA RunInit == Init => RunInv /\ ChildInv /\ PermitInv
<1> SUFFICES ASSUME Init PROVE RunInv /\ ChildInv /\ PermitInv
  OBVIOUS
<1>1. ASSUME NEW p \in Paths
      PROVE  /\ run[p] \in Asks /\ RunSound(p, run[p]) /\ run[p].todo = {}
             /\ run[p].pc = IF Len(p) = 1 THEN "arrive" ELSE "none"
  <2>1. CASE Len(p) = 1
    <3> DEFINE r == run[p]
    <3>1. r = [NoRun EXCEPT !.pc = "arrive"]
      BY <2>1 DEF Init
    <3>2. Depth(p) = 0 /\ 1 .. Len(p) - 1 = {}
      BY <2>1 DEF Depth
    <3> HIDE DEF r
    <3>3. /\ r.pc = "arrive" /\ r.depth = 0 /\ r.todo = {} /\ r.absent = FALSE
          /\ r \in Asks
      <4>1. r = [pc |-> "arrive", depth |-> 0, first |-> {}, whole |-> FALSE,
                 todo |-> {}, to |-> <<>>, heard |-> {}, names |-> {}, absent |-> FALSE]
        BY <3>1 DEF NoRun
      <4>2. 0 \in 0 .. HopCap
        BY AskConstants
      <4> QED
        BY <4>1, <4>2 DEF Asks, Before
    <3>4. RunSound(p, r)
      BY <3>2, <3>3 DEF RunSound, Working
    <3> QED
      BY <2>1, <3>3, <3>4 DEF r
  <2>2. CASE Len(p) # 1
    BY <2>2, NoRunAsks DEF Init
  <2> QED
    BY <2>1, <2>2
<1>2. RunInv
  <2>1. run \in [Paths -> Asks]
    BY <1>1 DEF Init
  <2> QED
    BY <1>1, <2>1, PathSeq DEF Init, RunInv
<1>3. ChildInv
  <2> SUFFICES ASSUME NEW p \in Paths, NEW q \in Nodes, Append(p, q) \in Paths
               PROVE  run[Append(p, q)].pc = "none"
    BY DEF ChildInv
  <2>1. Len(Append(p, q)) # 1
    BY PathSeq, AppendProperties
  <2> QED
    BY <1>1, <2>1
<1>4. PermitInv
  <2>1. \A n \in Nodes : Holding(n) = {}
    BY <1>1 DEF Holding
  <2>2. IsFiniteSet({}) /\ Cardinality({}) = 0
    BY FS_EmptySet
  <2>3. free \in [Nodes -> 0 .. Slots] /\ up = Nodes /\ \A n \in Nodes : free[n] = Slots
    BY AskConstants DEF Init
  <2>4. Slots + 0 = Slots
    BY AskConstants
  <2> QED
    BY <2>1, <2>2, <2>3, <2>4 DEF PermitInv
<1> QED
  BY <1>2, <1>3, <1>4

LEMMA StepKeeps ==
  ASSUME RunInv, NEW p \in Paths, NEW r \in Asks, RunSound(p, r), Step(p, r),
         r.pc \notin Over => At(p) \in up, up' = up, seen' \subseteq Nodes
  PROVE  RunInv' /\ run'[p] = r /\ \A q \in Paths \ {p} : run'[q] = run[q]
<1>1. run' \in [Paths -> Asks] /\ run'[p] = r /\ \A q \in Paths \ {p} : run'[q] = run[q]
  BY DEF RunInv, Step
<1> QED
  BY <1>1 DEF RunInv

(* The children of p stay as they are when p moves on without asking.      *)
LEMMA StepKeepsChildren ==
  ASSUME ChildInv, NEW p \in Paths, \A q \in Paths \ {p} : run'[q] = run[q],
         run'[p].pc = "none" <=> run[p].pc = "none",
         run'[p].pc \in Before => run[p].pc \in Before,
         run[p].pc \notin Before => run'[p].todo \subseteq run[p].todo
  PROVE  ChildInv'
<1> SUFFICES ASSUME NEW t \in Paths, NEW q \in Nodes, Append(t, q) \in Paths,
                    run'[t].pc \in Before \/ q \in run'[t].todo
             PROVE  run'[Append(t, q)].pc = "none"
  BY DEF ChildInv
<1>1. run[t].pc \in Before \/ q \in run[t].todo
  BY DEF Before
<1>2. run[Append(t, q)].pc = "none"
  BY <1>1 DEF ChildInv
<1> QED
  BY <1>2

LEMMA LocatedAsks ==
  ASSUME RunInv, NEW p \in Paths, run[p].pc \in {"decide", "enter", "asking"},
         NEW off \in BOOLEAN, off => At(p) \notin Forwarding,
         NEW r, r = Located(p, off)
  PROVE  r \in Asks /\ RunSound(p, r) /\ r.pc = "done" /\ r.todo = {}
<1> DEFINE x == run[p]
           named == (x.first \cup x.heard) \ {At(p)}
           b == EstablishesAbsence(named, x.whole, Conclusive(off))
<1>1. x \in Asks /\ RunSound(p, x) /\ named \in SUBSET Nodes
  BY DEF RunInv, Asks
<1>2. b \in BOOLEAN
  BY DEF EstablishesAbsence
<1>3. b = TRUE => named = {} /\ x.whole = TRUE /\ off
  <2>1. x.whole \in BOOLEAN
    BY <1>1 DEF Asks
  <2> QED
    BY <2>1, Zenon DEF EstablishesAbsence, Conclusive
<1>4. r = [NoRun EXCEPT !.pc = "done", !.depth = x.depth, !.whole = x.whole,
                        !.names = named, !.absent = b]
  BY Zenon DEF Located
<1>5. x.pc \in {"decide", "enter", "asking"}
  OBVIOUS
<1> HIDE DEF x, named, b
<1>6. /\ r.pc = "done" /\ r.depth = x.depth /\ r.whole = x.whole /\ r.names = named
      /\ r.absent = b /\ r.todo = {} /\ r \in Asks
  BY <1>1, <1>2, <1>4 DEF NoRun, Asks, Over
<1> QED
  BY <1>1, <1>3, <1>5, <1>6 DEF RunSound, Working

(* The run at p goes on to r, and asks nobody.                             *)
Moved(p, r) ==
    /\ Step(p, r) /\ r \in Asks /\ RunSound(p, r)
    /\ r.pc # "none" /\ run[p].pc \notin Over
    /\ r.pc \in Before => run[p].pc \in Before
    /\ run[p].pc \notin Before => r.todo \subseteq run[p].todo

LEMMA MovedKeeps ==
  ASSUME RunInv, ChildInv, NEW p \in Paths, NEW r, Moved(p, r),
         up' = up, seen' \subseteq Nodes
  PROVE  RunInv' /\ ChildInv' /\ run'[p] = r /\ \A q \in Paths \ {p} : run'[q] = run[q]
<1>1. At(p) \in up
  BY DEF RunInv, Moved
<1>2. RunInv' /\ run'[p] = r /\ \A q \in Paths \ {p} : run'[q] = run[q]
  BY <1>1, StepKeeps DEF Moved
<1> QED
  BY <1>2, StepKeepsChildren DEF Moved, Over

LEMMA LocatedMoved ==
  ASSUME RunInv, NEW p \in Paths, run[p].pc \in {"decide", "enter", "asking"},
         NEW off \in BOOLEAN, off => At(p) \notin Forwarding, Step(p, Located(p, off))
  PROVE  Moved(p, Located(p, off)) /\ Located(p, off).pc = "done"
BY LocatedAsks DEF Moved, Before, Over

LEMMA ArriveMoved ==
  ASSUME RunInv, NEW p \in Paths, Arrive(p)
  PROVE  \E r : Moved(p, r) /\ r.pc \in {"done", "decide"}
<1> DEFINE x == run[p]
<1>1. x \in Asks /\ RunSound(p, x) /\ x.pc = "arrive" /\ At(p) \in Nodes
  BY PathSeq DEF RunInv, Arrive
<1>2. CASE Step(p, [x EXCEPT !.pc = "done", !.names = {At(p)}])
  <2> DEFINE r == [x EXCEPT !.pc = "done", !.names = {At(p)}]
  <2>1. r \in Asks /\ RunSound(p, r) /\ r.pc = "done" /\ r.todo = x.todo
    BY <1>1 DEF Asks, RunSound, Over, Working
  <2> QED
    BY <1>1, <1>2, <2>1 DEF Moved, Before, Over
<1>3. CASE Step(p, [x EXCEPT !.pc = "done"])
  <2> DEFINE r == [x EXCEPT !.pc = "done"]
  <2>1. r \in Asks /\ RunSound(p, r) /\ r.pc = "done" /\ r.todo = x.todo
    BY <1>1 DEF Asks, RunSound, Over, Working
  <2> QED
    BY <1>1, <1>3, <2>1 DEF Moved, Before, Over
<1>4. ASSUME NEW found \in SUBSET (Holders \ {At(p)}),
             Step(p, [x EXCEPT !.pc = "decide", !.first = found, !.whole = TRUE])
      PROVE  \E r : Moved(p, r) /\ r.pc \in {"done", "decide"}
  <2> DEFINE r == [x EXCEPT !.pc = "decide", !.first = found, !.whole = TRUE]
  <2>1. r \in Asks /\ RunSound(p, r) /\ r.pc = "decide" /\ r.todo = x.todo
    BY <1>1, AskConstants DEF Asks, RunSound, Before, Working
  <2> QED
    BY <1>1, <1>4, <2>1 DEF Moved, Before, Over
<1>5. CASE Step(p, [x EXCEPT !.pc = "decide"])
  <2> DEFINE r == [x EXCEPT !.pc = "decide"]
  <2>1. r \in Asks /\ RunSound(p, r) /\ r.pc = "decide" /\ r.todo = x.todo
    BY <1>1 DEF Asks, RunSound, Before, Working
  <2> QED
    BY <1>1, <1>5, <2>1 DEF Moved, Before, Over
<1> QED
  BY <1>2, <1>3, <1>4, <1>5 DEF Arrive

LEMMA DecideMoved ==
  ASSUME RunInv, NEW p \in Paths, Decide(p)
  PROVE  \E r : Moved(p, r) /\ r.pc \in {"done", "enter"}
<1> DEFINE x == run[p]
<1>1. x \in Asks /\ RunSound(p, x) /\ x.pc = "decide" /\ At(p) \in Nodes
  BY PathSeq DEF RunInv, Decide
<1>2. CASE At(p) \notin Forwarding /\ Step(p, Located(p, TRUE))
  BY <1>1, <1>2, LocatedMoved
<1>3. CASE Step(p, Located(p, FALSE))
  BY <1>1, <1>3, LocatedMoved
<1>4. ASSUME At(p) \in Forwarding, HopsLeft(p) > 0, NEW S \in SUBSET Eligible(p),
             Step(p, [x EXCEPT !.pc = "enter", !.todo = S])
      PROVE  \E r : Moved(p, r) /\ r.pc \in {"done", "enter"}
  <2> DEFINE r == [x EXCEPT !.pc = "enter", !.todo = S]
  <2>1. x.depth \in Nat /\ x.depth = Depth(p) /\ x.depth < HopCap
    BY <1>1, <1>4, AskConstants DEF HopsLeft, RunSound, Asks
  <2>2. Eligible(p) \subseteq Nodes
    BY <1>1, AskConstants DEF Eligible
  <2>3. r \in Asks /\ r.pc = "enter" /\ r.todo = S
    BY <1>1, <2>2 DEF Asks, Before
  <2>4. RunSound(p, r)
    BY <1>1, <1>4, <2>1 DEF RunSound, Asks
  <2> QED
    BY <1>1, <1>4, <2>3, <2>4 DEF Moved, Before, Over
<1> QED
  BY <1>2, <1>3, <1>4 DEF Decide

LEMMA EnterMoved ==
  ASSUME RunInv, NEW p \in Paths, Enter(p)
  PROVE  \E r : /\ Moved(p, r)
                /\ \/ r.pc = "done" /\ free' = free
                   \/ /\ r.pc = "asking" /\ free[At(p)] # 0
                      /\ free' = [free EXCEPT ![At(p)] = @ - 1]
<1> DEFINE x == run[p]
<1>1. x \in Asks /\ RunSound(p, x) /\ x.pc = "enter"
  BY DEF RunInv, Enter
<1>2. CASE free[At(p)] = 0
  BY <1>1, <1>2, LocatedMoved DEF Enter
<1>3. CASE free[At(p)] # 0
  <2> DEFINE r == [x EXCEPT !.pc = "asking"]
  <2>1. r \in Asks /\ RunSound(p, r) /\ r.pc = "asking"
    BY <1>1 DEF Asks, RunSound, Working
  <2>2. Step(p, r) /\ free' = [free EXCEPT ![At(p)] = @ - 1]
    BY <1>3 DEF Enter
  <2> QED
    BY <1>1, <1>3, <2>1, <2>2 DEF Moved, Before, Over
<1> QED
  BY <1>2, <1>3

LEMMA WaitMoved ==
  ASSUME RunInv, NEW p \in Paths, Hear(p) \/ GiveUp(p)
  PROVE  run[p].pc = "wait" /\ \E r : Moved(p, r) /\ r.pc = "asking"
<1> DEFINE x == run[p]
<1>1. x \in Asks /\ RunSound(p, x) /\ x.pc = "wait" /\ x.to \in Paths
  BY DEF RunInv, Hear, GiveUp, Late, RunSound
<1>2. run[x.to].names \subseteq Nodes
  BY <1>1 DEF RunInv, Asks
<1>3. ASSUME NEW H \in SUBSET Nodes, Step(p, [x EXCEPT !.pc = "asking", !.to = <<>>, !.heard = H])
      PROVE  \E r : Moved(p, r) /\ r.pc = "asking"
  <2> DEFINE r == [x EXCEPT !.pc = "asking", !.to = <<>>, !.heard = H]
  <2>1. r \in Asks /\ r.pc = "asking" /\ r.todo = x.todo
    BY <1>1 DEF Asks, Working
  <2>2. RunSound(p, r)
    BY <1>1 DEF RunSound, Asks, Working
  <2> QED
    BY <1>1, <1>3, <2>1, <2>2 DEF Moved, Before, Over
<1>4. CASE Hear(p)
  <2>1. x.heard \cup run[x.to].names \in SUBSET Nodes
    BY <1>1, <1>2 DEF Asks
  <2> QED
    BY <1>1, <1>3, <1>4, <2>1 DEF Hear
<1>5. CASE GiveUp(p)
  <2>1. x.heard \in SUBSET Nodes
    BY <1>1 DEF Asks
  <2>2. [x EXCEPT !.pc = "asking", !.to = <<>>]
          = [x EXCEPT !.pc = "asking", !.to = <<>>, !.heard = x.heard]
    BY <1>1 DEF Asks
  <2>3. Step(p, [x EXCEPT !.pc = "asking", !.to = <<>>, !.heard = x.heard])
    BY <1>5, <2>2 DEF GiveUp
  <2> QED
    BY <1>1, <1>3, <2>1, <2>3
<1> QED
  BY <1>1, <1>4, <1>5

LEMMA StopAskingMoved ==
  ASSUME RunInv, NEW p \in Paths, StopAsking(p)
  PROVE  run[p].pc = "asking" /\ \E r : Moved(p, r) /\ r.pc = "done"
BY LocatedMoved DEF StopAsking

LEMMA UnreachableMoved ==
  ASSUME RunInv, NEW p \in Paths, NEW q, Ask(p, q), q \notin up
  PROVE  run[p].pc = "asking" /\ \E r : Moved(p, r) /\ r.pc = "asking"
<1> DEFINE x == run[p]
           r == [x EXCEPT !.todo = @ \ {q}]
<1>1. x \in Asks /\ RunSound(p, x) /\ x.pc = "asking" /\ Step(p, r)
  BY DEF RunInv, Ask
<1>2. r \in Asks /\ r.pc = "asking" /\ r.todo = x.todo \ {q}
  BY <1>1 DEF Asks
<1>3. RunSound(p, r)
  BY <1>1 DEF RunSound, Asks
<1> QED
  BY <1>1, <1>2, <1>3 DEF Moved, Before, Over

(* A peer that is up is asked: its run begins, one hop further.            *)
LEMMA AskStep ==
  ASSUME RunInv, ChildInv, NEW p \in Paths, NEW q \in Nodes, Ask(p, q), q \in up
  PROVE  /\ RunInv' /\ ChildInv'
         /\ Append(p, q) \in Paths /\ run[p].pc = "asking" /\ run'[p].pc = "wait"
         /\ run[Append(p, q)].pc = "none" /\ run'[Append(p, q)].pc = "arrive"
         /\ \A t \in Paths \ {p, Append(p, q)} : run'[t] = run[t]
<1> DEFINE x == run[p]
           t == Append(p, q)
           r == [x EXCEPT !.pc = "wait", !.todo = @ \ {q}, !.to = t]
           a == [NoRun EXCEPT !.pc = "arrive", !.depth = NextDepth(p)]
<1>1. /\ x \in Asks /\ RunSound(p, x) /\ x.pc = "asking" /\ q \in x.todo
      /\ x.depth = Depth(p) /\ Depth(p) < HopCap /\ q \in Eligible(p)
      /\ At(p) \in Forwarding /\ At(p) \in up /\ At(p) \in Nodes
  BY PathSeq DEF RunInv, RunSound, Ask, Working, Over
<1>2. /\ t \in Paths /\ t # p /\ Len(t) = Len(p) + 1 /\ At(t) = q
      /\ \A i \in 1 .. Len(p) : t[i] = p[i]
  BY <1>1, AskedPath
<1>3. run[t].pc = "none"
  BY <1>1, <1>2 DEF ChildInv
<1>4. /\ run' \in [Paths -> {run[u] : u \in Paths} \cup {r, a}]
      /\ run'[p] = r /\ run'[t] = a /\ \A u \in Paths \ {p, t} : run'[u] = run[u]
  <2>1. run' = [run EXCEPT ![p] = r, ![t] = a]
    BY Zenon DEF Ask
  <2>2. run \in [Paths -> Asks]
    BY DEF RunInv
  <2> HIDE DEF a, t, r, x
  <2> QED
    BY <1>2, <2>1, <2>2
<1>5. NextDepth(p) = Depth(t) /\ NextDepth(p) \in 0 .. HopCap
  <2>1. Len(p) \in Nat /\ x.depth \in Nat
    BY <1>1, PathSeq, AskConstants DEF Asks
  <2>2. HopsLeft(p) = HopCap - x.depth
    BY <1>1, <2>1, AskConstants DEF HopsLeft
  <2> QED
    BY <1>1, <1>2, <2>1, <2>2, AskConstants DEF NextDepth, Depth
<1>6. \A i \in 1 .. Len(t) - 1 : t[i] \in Forwarding
  <2>1. Len(p) \in Nat /\ Len(p) >= 1
    BY PathSeq, AskConstants
  <2>2. ASSUME NEW i \in 1 .. Len(p) PROVE p[i] \in Forwarding
    <3>1. CASE i = Len(p)
      BY <1>1, <3>1 DEF At, Last
    <3>2. CASE i < Len(p)
      BY <1>1, <2>1, <3>2 DEF RunSound
    <3> QED
      BY <2>1, <3>1, <3>2
  <2> QED
    BY <1>2, <2>1, <2>2
<1>7. a \in Asks /\ RunSound(t, a) /\ a.pc = "arrive" /\ a.todo = {}
  BY <1>2, <1>5, <1>6, ArriveAsks
<1>8. r \in Asks /\ r.pc = "wait" /\ r.todo = x.todo \ {q} /\ r.to = t
  BY <1>1, <1>2 DEF Asks, Working
<1>9. RunSound(p, r)
  <2>1. r.depth = x.depth /\ r.absent = x.absent
    BY <1>1 DEF Asks
  <2> HIDE DEF r
  <2> QED
    BY <1>1, <1>2, <1>8, <2>1 DEF RunSound, Working
<1> HIDE DEF x, t, r, a
<1>10. /\ run' \in [Paths -> Asks] /\ run'[p] = r /\ run'[t] = a
       /\ \A u \in Paths \ {p, t} : run'[u] = run[u]
  BY <1>2, <1>4, <1>7, <1>8 DEF RunInv
<1>11. RunInv'
  <2>1. up' = up /\ seen' = seen
    BY DEF Ask
  <2> QED
    BY <1>1, <1>2, <1>7, <1>8, <1>9, <1>10, <2>1 DEF RunInv
<1>12. ChildInv'
  <2> SUFFICES ASSUME NEW u \in Paths, NEW s \in Nodes, Append(u, s) \in Paths,
                      run'[u].pc \in Before \/ s \in run'[u].todo
               PROVE  run'[Append(u, s)].pc = "none"
    BY DEF ChildInv
  <2>1. /\ u = p => s \in x.todo /\ s # q
        /\ u = t => run[u].pc \in Before
    BY <1>2, <1>3, <1>7, <1>8, <1>10 DEF Before
  <2>2. run[Append(u, s)].pc = "none"
    BY <1>10, <2>1 DEF ChildInv, x
  <2>3. Append(u, s) # p
    BY <1>1, <2>2 DEF x
  <2>4. Append(u, s) # t
    BY <2>1, OneParent DEF t
  <2> QED
    BY <1>10, <2>2, <2>3, <2>4
<1> QED
  BY <1>1, <1>2, <1>3, <1>7, <1>8, <1>10, <1>11, <1>12 DEF x, t

(* A run that ended without an answer.                                     *)
LEMMA LostRun ==
  ASSUME NEW r, r = [NoRun EXCEPT !.pc = "lost"]
  PROVE  r = [pc |-> "lost", depth |-> 0, first |-> {}, whole |-> FALSE,
              todo |-> {}, to |-> <<>>, heard |-> {}, names |-> {}, absent |-> FALSE]
BY DEF NoRun

LEMMA LostAsks ==
  ASSUME NEW d \in 0 .. HopCap,
         NEW r, r = [pc |-> "lost", depth |-> d, first |-> {}, whole |-> FALSE,
                     todo |-> {}, to |-> <<>>, heard |-> {}, names |-> {},
                     absent |-> FALSE]
  PROVE  r \in Asks /\ r.pc = "lost" /\ r.todo = {} /\ r.absent = FALSE
BY DEF Asks, Over

LEMMA StopStep ==
  ASSUME RunInv, ChildInv, NEW n \in Nodes, Stop(n)
  PROVE  /\ RunInv' /\ ChildInv'
         /\ \A p \in Paths : At(p) # n => run'[p] = run[p]
<1> DEFINE lost == [NoRun EXCEPT !.pc = "lost"]
<1>1. lost \in Asks /\ lost.pc = "lost" /\ lost.todo = {} /\ lost.absent = FALSE
  <2>1. lost = [pc |-> "lost", depth |-> 0, first |-> {}, whole |-> FALSE,
                todo |-> {}, to |-> <<>>, heard |-> {}, names |-> {}, absent |-> FALSE]
    BY LostRun
  <2>2. 0 \in 0 .. HopCap
    BY AskConstants
  <2> HIDE DEF lost
  <2> QED
    BY <2>1, <2>2, LostAsks
<1>2. /\ run' = [p \in Paths |-> IF At(p) = n /\ run[p].pc \notin {"none", "done"}
                                 THEN lost ELSE run[p]]
      /\ up' = up \ {n} /\ seen' = seen
  BY DEF Stop
<1> HIDE DEF lost
<1>3. ASSUME NEW p \in Paths
      PROVE  /\ run'[p] \in Asks /\ RunSound(p, run'[p])
             /\ run'[p].pc \notin Over => At(p) \in up'
             /\ run'[p].pc = "none" <=> run[p].pc = "none"
             /\ run'[p].pc \in Before => run[p].pc \in Before
             /\ run'[p].todo \subseteq run[p].todo
  <2>1. CASE run'[p] = lost /\ run[p].pc \notin {"none", "done"}
    <3>1. RunSound(p, lost)
      BY <1>1, <2>1 DEF RunSound, RunInv, Working
    <3> QED
      BY <1>1, <2>1, <3>1 DEF Over, Before
  <2>2. CASE run'[p] = run[p] /\ ~ (At(p) = n /\ run[p].pc \notin {"none", "done"})
    BY <1>2, <2>2 DEF RunInv, Over
  <2> QED
    BY <1>2, <2>1, <2>2
<1>4. RunInv'
  <2>1. run' \in [Paths -> Asks]
    BY <1>2, <1>3
  <2> QED
    BY <1>2, <1>3, <2>1 DEF RunInv
<1>5. ChildInv'
  BY <1>3 DEF ChildInv
<1> QED
  BY <1>2, <1>4, <1>5

LEMMA RunStep == RunInv /\ ChildInv /\ [Next]_vars => RunInv' /\ ChildInv'
<1> SUFFICES ASSUME RunInv, ChildInv, [Next]_vars PROVE RunInv' /\ ChildInv'
  OBVIOUS
<1>1. ASSUME NEW p \in Paths, Handle(p)
      PROVE  RunInv' /\ ChildInv'
  <2>0. At(p) \in Nodes /\ seen \subseteq Nodes
    BY PathSeq DEF RunInv
  <2>1. CASE Arrive(p) \/ Decide(p) \/ Enter(p) \/ Hear(p) \/ GiveUp(p) \/ StopAsking(p)
    <3>1. up' = up /\ seen' \subseteq Nodes
      BY <2>0, <2>1 DEF Arrive, Decide, Enter, Hear, GiveUp, StopAsking
    <3>2. PICK r : Moved(p, r)
      BY <2>1, ArriveMoved, DecideMoved, EnterMoved, WaitMoved, StopAskingMoved
    <3> QED
      BY <3>1, <3>2, MovedKeeps
  <2>2. ASSUME NEW q \in Nodes, Ask(p, q)
        PROVE  RunInv' /\ ChildInv'
    <3>1. CASE q \in up
      BY <2>2, <3>1, AskStep
    <3>2. CASE q \notin up
      <4>1. PICK r : Moved(p, r)
        BY <2>2, <3>2, UnreachableMoved
      <4> QED
        BY <2>0, <2>2, <4>1, MovedKeeps DEF Ask
    <3> QED
      BY <3>1, <3>2
  <2> QED
    BY <1>1, <2>1, <2>2 DEF Handle
<1>2. ASSUME NEW n \in Nodes, Stop(n)
      PROVE  RunInv' /\ ChildInv'
  BY <1>2, StopStep
<1>3. CASE UNCHANGED vars
  BY <1>3 DEF vars, RunInv, ChildInv
<1> QED
  BY <1>1, <1>2, <1>3 DEF Next, Handled

----------------------------------------------------------------------------
(* The permits. *)

LEMMA PermitsUnmoved ==
  ASSUME PermitInv, free' = free, up' \subseteq up,
         \A n \in up' : Holding(n)' = Holding(n)
  PROVE  PermitInv'
BY DEF PermitInv

LEMMA HoldingUnmoved ==
  ASSUME NEW n,
         \A p \in Paths : At(p) = n =>
            (run'[p].pc \in {"asking", "wait"} <=> run[p].pc \in {"asking", "wait"})
  PROVE  Holding(n)' = Holding(n)
BY DEF Holding

(* A permit is taken by a run that held none.                              *)
LEMMA PermitTaken ==
  ASSUME PermitInv, NEW p \in Paths, At(p) \in Nodes, up \subseteq Nodes,
         run[p].pc = "enter", run'[p].pc = "asking",
         \A q \in Paths \ {p} : run'[q] = run[q], up' = up,
         free[At(p)] # 0, free' = [free EXCEPT ![At(p)] = @ - 1]
  PROVE  PermitInv'
<1>1. Holding(At(p))' = Holding(At(p)) \cup {p} /\ p \notin Holding(At(p))
  BY DEF Holding
<1>2. \A n \in Nodes \ {At(p)} : Holding(n)' = Holding(n)
  BY DEF Holding
<1>3. free[At(p)] \in 0 .. Slots /\ free \in [Nodes -> 0 .. Slots]
  BY DEF PermitInv
<1>4. /\ free' \in [Nodes -> 0 .. Slots] /\ free'[At(p)] = free[At(p)] - 1
      /\ \A n \in Nodes \ {At(p)} : free'[n] = free[n]
  BY <1>3, AskConstants
<1>5. ASSUME NEW n \in up
      PROVE  IsFiniteSet(Holding(n)') /\ free'[n] + Cardinality(Holding(n)') = Slots
  <2>1. /\ IsFiniteSet(Holding(n)) /\ Cardinality(Holding(n)) \in Nat
        /\ free[n] + Cardinality(Holding(n)) = Slots
    BY FS_CardinalityType DEF PermitInv
  <2>2. CASE n = At(p)
    <3> DEFINE H == Holding(n)
    <3>1. IsFiniteSet(H \cup {p}) /\ Cardinality(H \cup {p}) = Cardinality(H) + 1
      BY <1>1, <2>1, <2>2, FS_AddElement
    <3>2. Holding(n)' = H \cup {p}
      BY <1>1, <2>2
    <3> HIDE DEF H
    <3>3. Cardinality(H) \in Nat /\ free[n] + Cardinality(H) = Slots
      BY <2>1 DEF H
    <3> QED
      BY <1>3, <1>4, <2>2, <3>1, <3>2, <3>3, AskConstants
  <2>3. CASE n # At(p)
    BY <1>2, <1>4, <2>1, <2>3
  <2> QED
    BY <2>2, <2>3
<1> QED
  BY <1>4, <1>5 DEF PermitInv

(* The permit of a run that stops asking is free again.                    *)
LEMMA PermitReturned ==
  ASSUME PermitInv, NEW p \in Paths, At(p) \in up, up \subseteq Nodes,
         run[p].pc = "asking", run'[p].pc = "done",
         \A q \in Paths \ {p} : run'[q] = run[q], up' = up,
         free' = [free EXCEPT ![At(p)] = @ + 1]
  PROVE  PermitInv'
<1>1. Holding(At(p))' = Holding(At(p)) \ {p} /\ p \in Holding(At(p))
  BY DEF Holding
<1>2. \A n \in Nodes \ {At(p)} : Holding(n)' = Holding(n)
  BY DEF Holding
<1>3. /\ free[At(p)] \in 0 .. Slots /\ free \in [Nodes -> 0 .. Slots]
      /\ \A n \in up : /\ IsFiniteSet(Holding(n)) /\ Cardinality(Holding(n)) \in Nat
                        /\ free[n] + Cardinality(Holding(n)) = Slots
  BY FS_CardinalityType DEF PermitInv
<1> DEFINE H == Holding(At(p))
<1>4. /\ IsFiniteSet(H \ {p}) /\ Cardinality(H \ {p}) = Cardinality(H) - 1
      /\ Cardinality(H \ {p}) \in Nat /\ Holding(At(p))' = H \ {p}
  BY <1>1, <1>3, FS_RemoveElement, FS_CardinalityType
<1>5. Cardinality(H) \in Nat /\ free[At(p)] + Cardinality(H) = Slots
  BY <1>3
<1> HIDE DEF H
<1>6. /\ free' \in [Nodes -> 0 .. Slots] /\ free'[At(p)] = free[At(p)] + 1
      /\ \A n \in Nodes \ {At(p)} : free'[n] = free[n]
  BY <1>3, <1>4, <1>5, AskConstants
<1>7. ASSUME NEW n \in up
      PROVE  IsFiniteSet(Holding(n)') /\ free'[n] + Cardinality(Holding(n)') = Slots
  <2>1. CASE n = At(p)
    <3>1. Holding(n)' = H \ {p} /\ IsFiniteSet(H \ {p})
      BY <1>4, <2>1
    <3>2. free'[n] + Cardinality(H \ {p}) = Slots
      BY <1>3, <1>4, <1>5, <1>6, <2>1, AskConstants
    <3> QED
      BY <3>1, <3>2, Zenon
  <2>2. CASE n # At(p)
    BY <1>2, <1>3, <1>6, <2>2
  <2> QED
    BY <2>1, <2>2
<1> QED
  BY <1>6, <1>7 DEF PermitInv

LEMMA PermitStep == RunInv /\ ChildInv /\ PermitInv /\ [Next]_vars => PermitInv'
<1> SUFFICES ASSUME RunInv, ChildInv, PermitInv, [Next]_vars PROVE PermitInv'
  OBVIOUS
<1>0. up \subseteq Nodes /\ seen \subseteq Nodes
  BY DEF RunInv
<1>1. ASSUME NEW p \in Paths, Handle(p)
      PROVE  PermitInv'
  <2>0. At(p) \in Nodes
    BY PathSeq
  <2>1. CASE Arrive(p) \/ Decide(p)
    <3>1. PICK r : Moved(p, r) /\ r.pc \in {"done", "decide", "enter"}
      BY <2>1, ArriveMoved, DecideMoved
    <3>2. up' = up /\ seen' \subseteq Nodes /\ free' = free
      BY <1>0, <2>1 DEF Arrive, Decide
    <3>3. run'[p] = r /\ \A q \in Paths \ {p} : run'[q] = run[q]
      BY <3>1, <3>2, MovedKeeps
    <3>4. run[p].pc \in {"arrive", "decide"}
      BY <2>1 DEF Arrive, Decide
    <3>5. \A n \in up' : Holding(n)' = Holding(n)
      BY <3>1, <3>3, <3>4, HoldingUnmoved
    <3> QED
      BY <3>2, <3>5, PermitsUnmoved
  <2>2. CASE Enter(p)
    <3>1. PICK r : /\ Moved(p, r)
                   /\ \/ r.pc = "done" /\ free' = free
                      \/ /\ r.pc = "asking" /\ free[At(p)] # 0
                         /\ free' = [free EXCEPT ![At(p)] = @ - 1]
      BY <2>2, EnterMoved
    <3>2. up' = up /\ seen' \subseteq Nodes /\ run[p].pc = "enter"
      BY <1>0, <2>0, <2>2 DEF Enter
    <3>3. run'[p] = r /\ \A q \in Paths \ {p} : run'[q] = run[q]
      BY <3>1, <3>2, MovedKeeps
    <3>4. CASE r.pc = "done" /\ free' = free
      <4>1. \A n \in up' : Holding(n)' = Holding(n)
        BY <3>2, <3>3, <3>4, HoldingUnmoved
      <4> QED
        BY <3>2, <3>4, <4>1, PermitsUnmoved
    <3>5. CASE /\ r.pc = "asking" /\ free[At(p)] # 0
               /\ free' = [free EXCEPT ![At(p)] = @ - 1]
      BY <1>0, <2>0, <3>2, <3>3, <3>5, PermitTaken
    <3> QED
      BY <3>1, <3>4, <3>5
  <2>3. CASE Hear(p) \/ GiveUp(p)
    <3>1. PICK r : Moved(p, r) /\ r.pc = "asking"
      BY <2>3, WaitMoved
    <3>2. up' = up /\ seen' \subseteq Nodes /\ free' = free
      BY <1>0, <2>3 DEF Hear, GiveUp
    <3>3. run'[p] = r /\ \A q \in Paths \ {p} : run'[q] = run[q]
      BY <3>1, <3>2, MovedKeeps
    <3>4. \A n \in up' : Holding(n)' = Holding(n)
      BY <2>3, <3>1, <3>3, WaitMoved, HoldingUnmoved
    <3> QED
      BY <3>2, <3>4, PermitsUnmoved
  <2>4. CASE StopAsking(p)
    <3>1. PICK r : Moved(p, r) /\ r.pc = "done"
      BY <2>4, StopAskingMoved
    <3>2. /\ up' = up /\ seen' \subseteq Nodes /\ run[p].pc = "asking"
          /\ free' = [free EXCEPT ![At(p)] = @ + 1]
      BY <1>0, <2>4 DEF StopAsking, Returned
    <3>3. run'[p] = r /\ \A q \in Paths \ {p} : run'[q] = run[q]
      BY <3>1, <3>2, MovedKeeps
    <3>4. At(p) \in up
      BY <3>2 DEF RunInv, Over
    <3> QED
      BY <1>0, <3>1, <3>2, <3>3, <3>4, PermitReturned
  <2>5. ASSUME NEW q \in Nodes, Ask(p, q)
        PROVE  PermitInv'
    <3>1. up' = up /\ seen' \subseteq Nodes /\ free' = free
      BY <1>0, <2>5 DEF Ask
    <3>2. CASE q \in up
      <4>1. \A n \in up' : Holding(n)' = Holding(n)
        BY <2>5, <3>2, AskStep, HoldingUnmoved
      <4> QED
        BY <3>1, <4>1, PermitsUnmoved
    <3>3. CASE q \notin up
      <4>1. PICK r : Moved(p, r) /\ r.pc = "asking"
        BY <2>5, <3>3, UnreachableMoved
      <4>2. run'[p] = r /\ \A u \in Paths \ {p} : run'[u] = run[u]
        BY <3>1, <4>1, MovedKeeps
      <4>3. \A n \in up' : Holding(n)' = Holding(n)
        BY <2>5, <3>3, <4>1, <4>2, UnreachableMoved, HoldingUnmoved
      <4> QED
        BY <3>1, <4>3, PermitsUnmoved
    <3> QED
      BY <3>2, <3>3
  <2> QED
    BY <1>1, <2>1, <2>2, <2>3, <2>4, <2>5 DEF Handle
<1>2. ASSUME NEW n \in Nodes, Stop(n)
      PROVE  PermitInv'
  <2>1. free' = free /\ up' = up \ {n}
    BY <1>2 DEF Stop
  <2>2. \A m \in up' : Holding(m)' = Holding(m)
    BY <1>2, <2>1, StopStep, HoldingUnmoved
  <2> QED
    BY <2>1, <2>2, PermitsUnmoved
<1>3. CASE UNCHANGED vars
  BY <1>3 DEF vars, PermitInv, Holding
<1> QED
  BY <1>1, <1>2, <1>3 DEF Next, Handled

LEMMA AskInvariant == Spec => [](RunInv /\ ChildInv /\ PermitInv)
<1>1. /\ RunInv /\ ChildInv /\ PermitInv /\ [Next]_vars
        => (RunInv /\ ChildInv /\ PermitInv)'
  BY RunStep, PermitStep
<1> QED
  BY <1>1, RunInit, PTL DEF Spec

----------------------------------------------------------------------------
(* The properties. *)

(* However the pools are linked and however answers are lost or late, no   *)
(* question goes further than the cap, and a run is told the number of     *)
(* hops that led to it (HopBudget, forwarded_holders); a node never gives  *)
(* out more permits than it has.                                           *)
THEOREM HopsBounded == Spec => []TypeOK
<1>1. RunInv /\ PermitInv => TypeOK
  <2> SUFFICES ASSUME RunInv, PermitInv PROVE TypeOK
    OBVIOUS
  <2>1. \A p \in Runs : run[p].pc # "lost" => run[p].depth = Depth(p)
    BY DEF RunInv, RunSound, Runs
  <2>2. ASSUME NEW p \in Paths
        PROVE  /\ run[p].pc \in {"none", "arrive", "decide", "enter", "asking",
                                 "wait", "done", "lost"}
               /\ run[p].depth \in 0 .. HopCap
               /\ run[p].first \cup run[p].heard \cup run[p].names
                     \cup run[p].todo \subseteq Nodes
    <3>1. run[p] \in Asks
      BY DEF RunInv
    <3> QED
      BY <3>1 DEF Asks, Before, Working, Over
  <2> QED
    BY <2>1, <2>2 DEF TypeOK, RunInv, PermitInv
<1> QED
  BY <1>1, AskInvariant, PTL

LEMMA PrefixOf ==
  ASSUME NEW p \in Paths, NEW q \in Paths, IsPrefix(p, q), q # p
  PROVE  Len(p) \in 1 .. Len(q) - 1 /\ q[Len(p)] = At(p)
<1>1. /\ p \in Seq(Nodes) /\ Len(p) \in Nat /\ Len(p) >= 1
      /\ q \in Seq(Nodes) /\ Len(q) \in Nat /\ Len(p) <= Len(q)
  BY PathSeq, AskConstants DEF IsPrefix
<1>2. SubSeq(p, 1, Len(p)) = p
  BY <1>1, SubSeqFull
<1>3. SubSeq(q, 1, Len(p)) = p
  BY <1>2 DEF IsPrefix
<1>4. Len(p) # Len(q)
  <2>1. SubSeq(q, 1, Len(q)) = q
    BY <1>1, SubSeqFull
  <2> QED
    BY <1>3, <2>1
<1>5. \A i \in 1 .. Len(p) : q[i] \in Nodes
  BY <1>1, ElementOfSeq
<1>6. SubSeq(q, 1, Len(p))[Len(p)] = q[Len(p)]
  BY <1>1, <1>5, SubSeqProperties
<1> QED
  BY <1>1, <1>3, <1>4, <1>6 DEF At, Last

(* A node claims absence only from a completed search of its own, naming   *)
(* nobody and with no part of it left to peers, whatever the peers do and  *)
(* whoever stops (LocatedHolders::establishes_absence, ForwardedAnswers).  *)
THEOREM AbsenceIsOwn == Spec => []AbsenceFromOwnSearch
<1>1. RunInv => AbsenceFromOwnSearch
  <2> SUFFICES ASSUME RunInv, NEW p \in Runs, run[p].absent
               PROVE  /\ run[p].whole /\ run[p].names = {} /\ At(p) \notin Forwarding
                      /\ \A q \in Runs : IsPrefix(p, q) => q = p
    BY DEF AbsenceFromOwnSearch
  <2>1. p \in Paths /\ run[p].absent = TRUE
    <3>1. p \in Paths /\ run[p].absent \in BOOLEAN
      BY DEF RunInv, Runs, Asks
    <3> QED
      BY <3>1, Zenon
  <2>2. run[p].whole = TRUE /\ run[p].names = {} /\ At(p) \notin Forwarding
    BY <2>1 DEF RunInv, RunSound
  <2>3. ASSUME NEW q \in Runs, IsPrefix(p, q), q # p
        PROVE  FALSE
    <3>1. q \in Paths /\ \A i \in 1 .. Len(q) - 1 : q[i] \in Forwarding
      BY DEF Runs, RunInv, RunSound
    <3>2. Len(p) \in 1 .. Len(q) - 1 /\ q[Len(p)] = At(p)
      BY <2>1, <2>3, <3>1, PrefixOf
    <3> QED
      BY <2>2, <3>1, <3>2
  <2> QED
    BY <2>2, <2>3, Zenon
<1> QED
  BY <1>1, AskInvariant, PTL

(* No permit of a node that is up is lost or made, however its searches    *)
(* end (forwarded_ask_slots).                                              *)
THEOREM NoPermitLost == Spec => []PermitsKept
<1>1. PermitInv => PermitsKept
  <2>1. \A n : {p \in Runs : At(p) = n /\ run[p].pc \in {"asking", "wait"}} = Holding(n)
    BY DEF Runs, Holding
  <2> QED
    BY <2>1 DEF PermitInv, PermitsKept
<1> QED
  BY <1>1, AskInvariant, PTL
=============================================================================
