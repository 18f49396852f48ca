----------------------------- MODULE AskNetwork -----------------------------
(***************************************************************************)
(* The search for the holders of one piece of content (dig-node-core,      *)
(* download.rs, lib.rs availability_answer, seams/dig_peer/forwarded_ask   *)
(* and holder_cache).  A node that is asked and does not hold the content  *)
(* walks the DHT, then puts the same question to a few peers of its pool,  *)
(* one after the other, each for no longer than is left of the time it was *)
(* given; those do the same, one hop less far.  What comes back is a set   *)
(* of holders, and perhaps the claim that there are none.                  *)
(*                                                                         *)
(* One question (one ask_id, one content) is followed through the network. *)
(* It enters at one or more nodes; a run of the handler at a node is named *)
(* by the path that led there.  A peer that is asked works on when its     *)
(* asker gives up, so runs of one node overlap.  Messages are implicit: an *)
(* ask is the start of the peer's run, the answer is read from its end.    *)
(*                                                                         *)
(* Time is not counted: an asker may give up, or find its time spent, at   *)
(* any moment.  What runs without an await or a shared lock is one step.   *)
(* External: the DHT, the choice of peers (dig_sex decide_forward), and    *)
(* which peers of the pool are alive.                                      *)
(***************************************************************************)
EXTENDS Integers, Sequences, FiniteSets, SequencesExt

CONSTANTS
    Nodes,
    Entries,    \* the nodes the question enters at
    Pool,       \* [Nodes -> SUBSET Nodes], connected_pool
    Holders,    \* the nodes that hold the content
    Forwarding, \* the nodes with the forwarded ask enabled
    HopCap,     \* RecursionConfig::hop_cap
    FanOut,     \* RecursionConfig::fan_out
    Slots,      \* MAX_CONCURRENT_FORWARDED_ASKS
    MaxFaults   \* bound on nodes that stop, failed walks, refusals

ASSUME AskConstants ==
    /\ Entries \subseteq Nodes /\ Holders \subseteq Nodes
    /\ Forwarding \subseteq Nodes
    /\ Pool \in [Nodes -> SUBSET Nodes]
    /\ HopCap \in Nat /\ FanOut \in Nat /\ Slots \in Nat /\ MaxFaults \in Nat

(* The paths a question can take: along the pools, never straight back     *)
(* (decide_forward leaves out the asker); one hop past the cap, were one   *)
(* asked there.                                                            *)
Paths ==
    {p \in UNION {[1 .. k -> Nodes] : k \in 1 .. HopCap + 2} :
        /\ p[1] \in Entries
        /\ \A i \in 2 .. Len(p) :
              p[i] \in Pool[p[i - 1]] \ {p[i - 1], p[IF i > 2 THEN i - 2 ELSE 1]}}
At(p) == Last(p)
Depth(p) == Len(p) - 1

VARIABLES
    run,        \* [Paths -> the handler's run]
    seen,       \* AskSeenSet: the nodes that have claimed the question
    free,       \* [Nodes -> permits left in forwarded_ask_slots]
    up,         \* the nodes that answer
    faults      \* faults so far

vars == <<run, seen, free, up, faults>>

NoRun == [pc |-> "none", depth |-> 0, first |-> {}, whole |-> FALSE,
          todo |-> {}, to |-> <<>>, heard |-> {},
          names |-> {}, absent |-> FALSE]

Init ==
    /\ run = [p \in Paths |->
                IF Len(p) = 1 THEN [NoRun EXCEPT !.pc = "arrive"] ELSE NoRun]
    /\ seen = {} /\ free = [n \in Nodes |-> Slots]
    /\ up = Nodes /\ faults = 0

Step(p, r) == run' = [run EXCEPT ![p] = r]
Fault == faults < MaxFaults /\ faults' = faults + 1

----------------------------------------------------------------------------
(* The answer.                                                             *)
(* LocatedHolders::establishes_absence.                                    *)
EstablishesAbsence(named, whole, sure) == named = {} /\ whole /\ sure

(* Mutant: a search that has ended is taken for a whole one.               *)
EverSure(off) == TRUE

(* Not asking is conclusive only where the leg is off                      *)
(* (ForwardedAnswers::recursion_disabled, ::refused, ::asked).             *)
Conclusive(off) == off

(* locate_holders, the merge: its own and what it heard, without itself.   *)
Located(p, off) ==
    LET r == run[p]
        named == (r.first \cup r.heard) \ {At(p)}
    IN  [NoRun EXCEPT !.pc = "done", !.depth = r.depth, !.whole = r.whole,
           !.names = named,
           !.absent = EstablishesAbsence(named, r.whole, Conclusive(off))]

----------------------------------------------------------------------------
(* availability_answer.  A holder says so.  A caller over its lookup       *)
(* budget gets an answer in which no claim is made.  Else the node looks   *)
(* itself (the own leg of locate_holders): its cache or a walk of the DHT  *)
(* names some of the holders, never the node itself, or the walk fails.    *)
Arrive(p) ==
    LET r == run[p] IN
    /\ r.pc = "arrive"
    /\ \/ /\ At(p) \in Holders
          /\ Step(p, [r EXCEPT !.pc = "done", !.names = {At(p)}])
          /\ UNCHANGED faults
       \/ /\ At(p) \notin Holders /\ Fault
          /\ Step(p, [r EXCEPT !.pc = "done"])
       \/ /\ At(p) \notin Holders
          /\ \E found \in SUBSET (Holders \ {At(p)}) :
                Step(p, [r EXCEPT !.pc = "decide", !.first = found,
                                  !.whole = TRUE])
          /\ UNCHANGED faults
       \/ /\ At(p) \notin Holders /\ Fault
          /\ Step(p, [r EXCEPT !.pc = "decide"])
    /\ UNCHANGED <<seen, free, up>>

----------------------------------------------------------------------------
(* forwarded_holders.                                                      *)
Asker(p) == IF Len(p) = 1 THEN {} ELSE {p[Len(p) - 1]}

(* Mutant: a node at the cap asks its own peers all the same.              *)
OneHopMore(p) == IF run[p].depth >= HopCap THEN 1 ELSE HopCap - run[p].depth

HopsLeft(p) == IF run[p].depth >= HopCap THEN 0 ELSE HopCap - run[p].depth

Eligible(p) == Pool[At(p)] \ ({At(p)} \cup Asker(p))

(* The decision, and the first half of AskSeenSet::claim: a question that  *)
(* was put onward before is not put onward again.                          *)
Decide(p) ==
    /\ run[p].pc = "decide"
    /\ \/ /\ At(p) \notin Forwarding
          /\ Step(p, Located(p, TRUE)) /\ UNCHANGED faults
       \/ /\ At(p) \in Forwarding
          /\ HopsLeft(p) = 0 \/ Eligible(p) = {} \/ At(p) \in seen
          /\ Step(p, Located(p, FALSE)) /\ UNCHANGED faults
       \/ At(p) \in Forwarding /\ Fault /\ Step(p, Located(p, FALSE))
       \/ /\ At(p) \in Forwarding /\ HopsLeft(p) > 0 /\ At(p) \notin seen
          /\ Eligible(p) # {}
          /\ \E S \in SUBSET Eligible(p) :
                /\ Cardinality(S) = Min({FanOut, Cardinality(Eligible(p))})
                /\ Step(p, [run[p] EXCEPT !.pc = "enter", !.todo = S])
          /\ UNCHANGED faults
    /\ UNCHANGED <<seen, free, up>>

(* The second half of claim, under its own lock, then a permit: a          *)
(* saturated node does not wait for one.                                   *)
Enter(p) ==
    LET n == At(p) IN
    /\ run[p].pc = "enter"
    /\ seen' = seen \cup {n}
    /\ IF free[n] = 0
       THEN Step(p, Located(p, FALSE)) /\ UNCHANGED free
       ELSE /\ free' = [free EXCEPT ![n] = @ - 1]
            /\ Step(p, [run[p] EXCEPT !.pc = "asking"])
    /\ UNCHANGED <<up, faults>>

(* hop_cap less the hops decide_forward leaves.                            *)
NextDepth(p) == HopCap - (HopsLeft(p) - 1)

(* The next peer is asked, if it can be reached.                           *)
Ask(p, q) ==
    LET to == Append(p, q) IN
    /\ run[p].pc = "asking" /\ q \in run[p].todo
    /\ IF q \in up
       THEN run' = [run EXCEPT
                ![p] = [run[p] EXCEPT !.pc = "wait", !.todo = @ \ {q}, !.to = to],
                ![to] = [NoRun EXCEPT !.pc = "arrive", !.depth = NextDepth(p)]]
       ELSE Step(p, [run[p] EXCEPT !.todo = @ \ {q}])
    /\ UNCHANGED <<seen, free, up, faults>>

(* parse_forwarded_answer: the peer itself, where it holds the content,    *)
(* and whom it names.  What it claims about absence is not used.           *)
Hear(p) ==
    /\ run[p].pc = "wait" /\ run[run[p].to].pc = "done"
    /\ Step(p, [run[p] EXCEPT !.pc = "asking", !.to = <<>>,
                              !.heard = @ \cup run[run[p].to].names])
    /\ UNCHANGED <<seen, free, up, faults>>

(* Mutant: an answer is awaited for as long as it takes.                   *)
NeverLate(p) == FALSE

Late(p) == run[p].pc = "wait"

(* awaited_outcome: the time left runs out before the answer.              *)
GiveUp(p) ==
    /\ Late(p)
    /\ Step(p, [run[p] EXCEPT !.pc = "asking", !.to = <<>>])
    /\ UNCHANGED <<seen, free, up, faults>>

(* Mutant: a search cut short keeps its permit.                            *)
KeptOnBreak(p) == IF run[p].todo = {} THEN 1 ELSE 0

Returned(p) == 1

(* Everyone was asked, or the time is spent with peers unasked.            *)
StopAsking(p) ==
    /\ run[p].pc = "asking"
    /\ free' = [free EXCEPT ![At(p)] = @ + Returned(p)]
    /\ Step(p, Located(p, FALSE))
    /\ UNCHANGED <<seen, up, faults>>

(* A node stops: its runs end without an answer.                           *)
Stop(n) ==
    /\ n \in up /\ Fault
    /\ up' = up \ {n}
    /\ run' = [p \in Paths |->
                 IF At(p) = n /\ run[p].pc \notin {"none", "done"}
                 THEN [NoRun EXCEPT !.pc = "lost"] ELSE run[p]]
    /\ UNCHANGED <<seen, free>>

Handle(p) ==
    \/ Arrive(p) \/ Decide(p) \/ Enter(p)
    \/ (\E q \in Nodes : Ask(p, q)) \/ Hear(p) \/ GiveUp(p) \/ StopAsking(p)

(* A node that is up runs its handlers, and its timers fire.  Handlers     *)
(* take finitely many steps, so it is enough to ask that while some of     *)
(* them can go on, one does.                                               *)
Handled == \E p \in Paths : Handle(p)

Next == Handled \/ (\E n \in Nodes : Stop(n))

Spec == Init /\ [][Next]_vars /\ WF_vars(Handled)

----------------------------------------------------------------------------
(* Properties.                                                             *)
Runs == {p \in Paths : run[p].pc # "none"}

(* Every variable keeps its type; no question goes further than the cap,   *)
(* by whatever path, and the depth a run was told is the number of hops    *)
(* that led to it (HopBudget, forwarded_holders).                          *)
TypeOK ==
    /\ \A p \in Runs : run[p].pc # "lost" => run[p].depth = Depth(p)
    /\ \A p \in Paths :
          /\ run[p].pc \in {"none", "arrive", "decide", "enter", "asking",
                            "wait", "done", "lost"}
          /\ run[p].depth \in 0 .. HopCap
          /\ run[p].first \cup run[p].heard \cup run[p].names
                \cup run[p].todo \subseteq Nodes
    /\ seen \subseteq Nodes /\ up \subseteq Nodes
    /\ free \in [Nodes -> 0 .. Slots]

(* A node claims absence only from its own completed search: its walk      *)
(* ended, nobody was named by anyone, and no part of the search was left   *)
(* to peers, or would have been but for a refusal, a saturated node or     *)
(* spent time (LocatedHolders::establishes_absence, ForwardedAnswers).     *)
AbsenceFromOwnSearch ==
    \A p \in Runs : run[p].absent =>
        /\ run[p].whole /\ run[p].names = {} /\ At(p) \notin Forwarding
        /\ \A q \in Runs : IsPrefix(p, q) => q = p

(* The permits of a node are the ones its searches hold and the free ones: *)
(* none is lost when a search is cut short (forwarded_ask_slots).          *)
PermitsKept ==
    \A n \in up :
        free[n] + Cardinality({p \in Runs : At(p) = n
                                 /\ run[p].pc \in {"asking", "wait"}}) = Slots

(* Every question is answered while the node is up, though the peers it    *)
(* asks may stop without a word, or be asking one another                  *)
(* (awaited_outcome).                                                      *)
AskEnds == <>[](\A p \in Runs : run[p].pc \in {"done", "lost"})
============================================================================
