----------------------- MODULE MirrorLifecycleProofs -----------------------
(***************************************************************************)
(* Proofs about MirrorLifecycle, for any set of capsules, any wallet, any  *)
(* windows and whichever faults happen: what a confirmation rests on, that *)
(* the audit file implements SpendRecord, that a submitted coin is not     *)
(* offered to another create, and that the collateral of a held copy is    *)
(* not taken back.                                                         *)
(***************************************************************************)
EXTENDS MirrorLifecycle, SequenceTheorems, TLAPS

IsSeq(c) == c \in Seq(Range(c))
IsCoin(c) == IsSeq(c) /\ c # None

Stages == {"idle", "listed", "observed", "acting", "begun", "accepted", "refused", "submitted"}
InHand == {"begun", "accepted", "refused", "submitted"}

(* The shape of what a pass keeps.                                         *)
PassInv ==
    /\ DOMAIN pass = DOMAIN Idle /\ pass.pc \in Stages
    /\ DOMAIN pass.committed = {"known", "coins"} /\ pass.committed.known \in BOOLEAN

(* Spends only grow, and everything that speaks of a spend speaks of one   *)
(* that was begun.                                                         *)
SpendInv ==
    /\ now \in Nat /\ IsSeq(spends)
    /\ \A s \in Spends : IsCoin(spends[s].input)
    /\ \A c \in unspent \cup pass.reclaims : IsCoin(c)
    /\ DOMAIN ledger \subseteq Spends /\ DOMAIN acked \subseteq Spends
    /\ mempool \subseteq Spends
    /\ \A s \in DOMAIN acked : acked[s] \in 0 .. now
    /\ \A s \in DOMAIN ledger : ledger[s].updated \in Nat

(* The spend in hand is the newest, and nothing has been settled about it. *)
HandInv ==
    /\ pass.pc \in InHand =>
        /\ pass.spend \in Spends /\ pass.spend = Len(spends)
        /\ pass.spend \in DOMAIN ledger =>
              ledger[pass.spend].status \in {"pending", "submitted"}
    /\ pass.pc \in InHand \ {"submitted"} => pass.spend \notin DOMAIN acked

(* The newest line of the spend in hand, if one can be read, is one the    *)
(* pass wrote: the intent, or the submission.                              *)
LineInv ==
    /\ Len(spends) <= MaxSpends
    /\ pass.pc \in InHand \ {"submitted"} /\ pass.spend \in DOMAIN ledger =>
          ledger[pass.spend].status = "pending"

(* A create that may have reached the network names no coin.               *)
NamelessInv ==
    \A s \in DOMAIN ledger :
        MayHaveReached(ledger[s]) /\ spends[s].op = "create" => ledger[s].intended = None

(* While every line can be read, the record holds the coin of every        *)
(* submission that left a trace, until it is confirmed.                    *)
AckInv ==
    torn = "whole" => \A s \in DOMAIN acked \ unrecorded :
        /\ s \in DOMAIN ledger
        /\ \/ ledger[s].status = "confirmed"
           \/ /\ ledger[s].status \in {"submitted", "unresolved"}
              /\ ledger[s].funding = spends[s].input
              /\ acked[s] <= ledger[s].updated

Confirmed(s) == s \in DOMAIN ledger /\ ledger[s].status = "confirmed"

(* A submission that a trace is left of, or may still be.                  *)
Traced(s) == s \notin unrecorded \/ (pass.pc = "submitted" /\ s = pass.spend)

(* What a pass knows to be committed covers what is.                       *)
CommitInv ==
    pass.pc # "idle" /\ pass.committed.known = TRUE =>
        \A s \in DOMAIN acked :
            Traced(s) /\ now - acked[s] < Reserve /\ ~ Confirmed(s)
                => spends[s].input \in pass.committed.coins

(* The tracker has seen a steady capsule for at least as long, and the     *)
(* pass that observed it holds it.                                         *)
SteadyInv ==
    /\ now \in Nat /\ epoch \in Nat
    /\ \A b \in DOMAIN seen : /\ seen[b].since \in Nat /\ seen[b].since <= now
                              /\ seen[b].present \in BOOLEAN
    /\ \A b \in DOMAIN steady : /\ steady[b] \in Nat
                                /\ b \in DOMAIN seen /\ seen[b].present = TRUE
                                /\ seen[b].since <= steady[b]
    /\ pass.pc \in {"listed", "observed"} => pass.epoch \in Nat
    /\ pass.pc = "observed" =>
        /\ pass.at \in Nat
        /\ \A b \in DOMAIN steady : pass.at - steady[b] >= Window => b \in pass.held

----------------------------------------------------------------------------
(* Sequences and coins. *)

LEMMA OutputIsCoin ==
  ASSUME SpendInv, NEW s \in Spends
  PROVE  IsCoin(Output(s))
<1> DEFINE c == spends[s].input
           d == IF spends[s].op = "create"
                THEN <<spends[s].bond, spends[s].epoch>> ELSE <<0>>
           S == Range(c) \cup {spends[s].bond, spends[s].epoch, 0}
<1>1. d \in Seq(S) /\ d # <<>>
  <2> HIDE DEF c
  <2>1. CASE spends[s].op = "create"
    <3>1. d = <<spends[s].bond, spends[s].epoch>>
      BY <2>1
    <3>2. spends[s].bond \in S /\ spends[s].epoch \in S
      OBVIOUS
    <3> HIDE DEF d, S
    <3> QED
      BY <3>1, <3>2
  <2>2. CASE spends[s].op # "create"
    <3>1. d = <<0>> /\ 0 \in S
      BY <2>2
    <3> HIDE DEF d, S
    <3> QED
      BY <3>1
  <2> QED
    BY <2>1, <2>2
<1>2. c \in Seq(Range(c)) /\ Range(c) \subseteq S
  BY DEF SpendInv, IsCoin, IsSeq
<1>3. Output(s) = c \o d
  BY Zenon DEF Output
<1> HIDE DEF c, d, S
<1>4. c \in Seq(S)
  BY <1>2
<1>5. c \o d \in Seq(S) /\ Len(c \o d) = Len(c) + Len(d)
  BY <1>1, <1>4, ConcatProperties
<1>6. Len(c) \in Nat /\ Len(d) \in Nat \ {0}
  BY <1>1, <1>4, LenProperties, EmptySeq
<1>7. c \o d # <<>>
  <2>1. Len(<<>>) = 0
    BY EmptySeq
  <2> QED
    BY <1>5, <1>6, <2>1
<1>8. IsSeq(c \o d)
  BY <1>5, SeqOfRange DEF IsSeq
<1> QED
  BY <1>3, <1>7, <1>8, Zenon DEF IsCoin, None

----------------------------------------------------------------------------
(* The parts of a step. *)

LEMMA PassFields ==
  DOMAIN Idle = {"pc", "at", "mode", "epoch", "held", "balance", "committed",
                 "reclaims", "stale", "creates", "spend", "accepted"}
BY DEF Idle

LEMMA IdlePass ==
  /\ Idle.pc = "idle" /\ Idle.reclaims = {} /\ DOMAIN Idle = DOMAIN Idle
  /\ DOMAIN Idle.committed = {"known", "coins"} /\ Idle.committed.known \in BOOLEAN
BY DEF Idle

(* What an append to the audit file leaves.                                *)
LEMMA Appended ==
  ASSUME NEW s, NEW rec, NEW how \in Outcomes, Append1(s, rec, how)
  PROVE  /\ DOMAIN ledger \subseteq DOMAIN ledger'
         /\ DOMAIN ledger' \subseteq DOMAIN ledger \cup {s}
         /\ \A i \in DOMAIN ledger : i # s => ledger'[i] = ledger[i]
         /\ s \in DOMAIN ledger' =>
               \/ ledger'[s] = rec
               \/ s \in DOMAIN ledger /\ ledger'[s] = ledger[s]
         /\ torn' = "whole" => torn = "whole" /\ how # "partly"
         /\ how = "nothing" => ledger' = ledger
         /\ torn' = "whole" /\ how = "written" => s \in DOMAIN ledger' /\ ledger'[s] = rec
         /\ how \in {"written", "nothing", "partly"}
<1>0. how \in {"written", "nothing", "partly"}
  BY DEF Outcomes
<1>1. CASE how # "written" \/ torn = "tail"
  BY <1>0, <1>1 DEF Append1
<1>2. CASE how = "written" /\ torn # "tail"
  BY <1>2 DEF Append1
<1> QED
  BY <1>0, <1>1, <1>2

(* What resolving leaves: a record as it was, or confirmed for a coin that *)
(* only it claims.                                                         *)
LEMMA ResolvedRecord ==
  ASSUME NEW F, NEW R \in SUBSET Resolvable(F), NEW s \in DOMAIN ledger
  PROVE  \/ Resolved(R)[s] = ledger[s]
         \/ \E c \in minted : /\ Claimants(c, F) = {s} /\ c \notin Attributed
                              /\ Resolved(R)[s] = Record("confirmed", ledger[s].funding, c)
<1>1. CASE \E p \in R : p[1] = s
  <2> DEFINE p == CHOOSE p \in R : p[1] = s
  <2>1. p \in R /\ p[1] = s
    BY <1>1
  <2>2. Resolved(R)[s] = Record("confirmed", ledger[s].funding, p[2])
    BY <1>1 DEF Resolved
  <2> HIDE DEF p
  <2>3. p \in Resolvable(F)
    BY <2>1
  <2>4. p[2] \in minted /\ Claimants(p[2], F) = {p[1]} /\ p[2] \notin Attributed
    BY <2>3 DEF Resolvable
  <2> QED
    BY <2>1, <2>2, <2>4
<1>2. CASE ~ \E p \in R : p[1] = s
  BY <1>2 DEF Resolved
<1> QED
  BY <1>1, <1>2

LEMMA ResolvedDomain ==
  ASSUME NEW R
  PROVE  DOMAIN Resolved(R) = DOMAIN ledger
BY DEF Resolved

----------------------------------------------------------------------------
(* The pass, action by action. *)

LEMMA PassStarts ==
  ASSUME PassInv, StartPass
  PROVE  /\ PassInv' /\ pass.pc = "idle" /\ pass'.pc = "listed"
         /\ pass'.epoch = epoch /\ pass'.committed = Commitments
         /\ pass'.reclaims = {}
<1> DEFINE k == Commitments
<1>1. k.known \in BOOLEAN /\ DOMAIN k = {"known", "coins"}
  BY DEF Commitments
<1>2. /\ pass.pc = "idle"
      /\ pass' = [Idle EXCEPT !.pc = "listed", !.epoch = epoch, !.held = disk,
                     !.balance = Cardinality(FundingCoins), !.committed = k]
  BY DEF StartPass
<1> HIDE DEF k
<1>3. /\ pass'.pc = "listed" /\ pass'.epoch = epoch
      /\ pass'.committed = k /\ pass'.reclaims = {} /\ DOMAIN pass' = DOMAIN Idle
  BY <1>2 DEF Idle
<1> QED
  BY <1>1, <1>2, <1>3 DEF PassInv, Stages, k

LEMMA PassObserves ==
  ASSUME PassInv, NEW m, ObservePass(m)
  PROVE  /\ PassInv' /\ pass.pc = "listed" /\ pass'.pc = "observed"
         /\ pass'.at = now /\ pass'.held = Settled /\ pass'.epoch = pass.epoch
         /\ pass'.committed = pass.committed /\ pass'.reclaims = pass.reclaims
<1> DEFINE h == Settled
<1>1. /\ pass.pc = "listed"
      /\ pass' = [pass EXCEPT !.pc = "observed", !.at = now, !.mode = m, !.held = h]
  BY DEF ObservePass
<1> HIDE DEF h
<1>2. /\ pass'.pc = "observed" /\ pass'.at = now /\ pass'.held = h /\ pass'.epoch = pass.epoch
      /\ pass'.committed = pass.committed /\ pass'.reclaims = pass.reclaims
      /\ DOMAIN pass' = DOMAIN Idle
  BY <1>1, PassFields DEF PassInv
<1> QED
  BY <1>1, <1>2 DEF PassInv, Stages, h

(* What a pass decides, and what it has resolved by then.                  *)
LEMMA Decided ==
  ASSUME Decide
  PROVE  \E F \in Firsts : \E R \in SUBSET Resolvable(F) : \E D :
           /\ ledger' = Resolved(R) /\ torn' \in TornBy(Resolvable(F) \ R)
           /\ D \subseteq Mirrors
           /\ pass' = [Idle EXCEPT !.pc = "acting", !.epoch = pass.epoch,
                                   !.committed = pass.committed,
                                   !.reclaims = ToReclaim \cup D, !.stale = D,
                                   !.creates = ToCreate(Resolved(R))]
<1>1. ASSUME NEW led, NEW D \in Directives(led) PROVE D \subseteq Mirrors
  BY <1>1 DEF Directives, MayBeStale
<1> QED
  BY <1>1 DEF Decide

LEMMA PassDecides ==
  ASSUME PassInv, Decide
  PROVE  /\ PassInv' /\ pass.pc = "observed" /\ pass'.pc = "acting"
         /\ pass'.reclaims \subseteq Mirrors
         /\ pass'.reclaims = ToReclaim \cup pass'.stale
         /\ pass'.committed = pass.committed
<1>1. PICK R, D :
        /\ D \subseteq Mirrors
        /\ pass' = [Idle EXCEPT !.pc = "acting", !.epoch = pass.epoch,
                                !.committed = pass.committed,
                                !.reclaims = ToReclaim \cup D, !.stale = D,
                                !.creates = ToCreate(Resolved(R))]
  BY Decided
<1> DEFINE r == ToReclaim \cup D
           C == ToCreate(Resolved(R))
<1>2. pass' = [Idle EXCEPT !.pc = "acting", !.epoch = pass.epoch, !.committed = pass.committed,
                           !.reclaims = r, !.stale = D, !.creates = C]
  BY <1>1
<1>3. r \subseteq Mirrors
  BY <1>1 DEF ToReclaim
<1> HIDE DEF r, C
<1>4. /\ pass'.pc = "acting" /\ pass'.reclaims = r /\ pass'.stale = D
      /\ pass'.committed = pass.committed /\ DOMAIN pass' = DOMAIN Idle
  BY <1>2 DEF Idle
<1> QED
  BY <1>3, <1>4 DEF PassInv, Stages, Decide, r

LEMMA PassBegins ==
  ASSUME PassInv, NEW c, BeginReclaim(c) \/ BeginCreate(c)
  PROVE  /\ PassInv' /\ pass.pc = "acting" /\ pass'.pc = "begun"
         /\ pass'.spend = Len(spends) + 1 /\ pass'.committed = pass.committed
         /\ pass'.reclaims \subseteq pass.reclaims
<1>1. pass.pc = "acting"
  BY DEF BeginReclaim, BeginCreate
<1>2. CASE BeginReclaim(c)
  <2>1. pass' = [pass EXCEPT !.pc = "begun", !.spend = Len(spends) + 1, !.reclaims = @ \ {c}]
    BY <1>2 DEF BeginReclaim
  <2>2. /\ pass'.pc = "begun" /\ pass'.spend = Len(spends) + 1
        /\ pass'.reclaims = pass.reclaims \ {c} /\ pass'.committed = pass.committed
        /\ DOMAIN pass' = DOMAIN Idle
    BY <2>1, PassFields DEF PassInv
  <2> QED
    BY <1>1, <2>2 DEF PassInv, Stages
<1>3. CASE BeginCreate(c)
  <2>1. pass' = [pass EXCEPT !.pc = "begun", !.spend = Len(spends) + 1,
                             !.creates = @ \ {NextCreate}]
    BY <1>3 DEF BeginCreate
  <2>2. /\ pass'.pc = "begun" /\ pass'.spend = Len(spends) + 1
        /\ pass'.reclaims = pass.reclaims /\ pass'.committed = pass.committed
        /\ DOMAIN pass' = DOMAIN Idle
    BY <2>1, PassFields DEF PassInv
  <2> QED
    BY <1>1, <2>2 DEF PassInv, Stages
<1> QED
  BY <1>2, <1>3

(* The steps in which a pass goes on with what it has.                     *)
LEMMA PassGoesOn ==
  ASSUME PassInv, \/ StopCreates \/ SigningFails \/ BroadcastAccepted
                  \/ BroadcastFails \/ RecordFailure \/ DropRecorded
  PROVE  /\ PassInv' /\ pass.pc \in Stages \ {"idle", "listed", "observed"}
         /\ pass'.pc \in {"acting", "accepted", "refused"}
         /\ pass'.pc # "acting" => pass.pc = "begun"
         /\ pass'.spend = pass.spend /\ pass'.committed = pass.committed
         /\ pass'.reclaims = pass.reclaims
<1>1. PICK pc, X : /\ pass' = [pass EXCEPT !.pc = pc, !.creates = X]
                   /\ pc \in {"acting", "accepted", "refused"}
                   /\ pc # "acting" => pass.pc = "begun"
                   /\ pass.pc \in Stages \ {"idle", "listed", "observed"}
  <2>1. CASE StopCreates
    <3>1. pass' = [pass EXCEPT !.pc = "acting", !.creates = {}]
      BY <2>1, PassFields DEF StopCreates, PassInv
    <3> QED
      BY <2>1, <3>1 DEF StopCreates, Stages
  <2>2. CASE SigningFails \/ RecordFailure
    <3>1. PICK X : pass' = [pass EXCEPT !.pc = "acting", !.creates = X]
      BY <2>2 DEF SigningFails, RecordFailure, AfterFailure
    <3> QED
      BY <2>2, <3>1 DEF SigningFails, RecordFailure, Stages
  <2>3. CASE BroadcastAccepted \/ BroadcastFails \/ DropRecorded
    <3>1. PICK pc : /\ pass' = [pass EXCEPT !.pc = pc]
                    /\ pc \in {"acting", "accepted", "refused"}
                    /\ pc # "acting" => pass.pc = "begun"
                    /\ pass.pc \in {"begun", "submitted"}
      BY <2>3 DEF BroadcastAccepted, BroadcastFails, DropRecorded
    <3>2. [pass EXCEPT !.pc = pc] = [pass EXCEPT !.pc = pc, !.creates = pass.creates]
      BY PassFields DEF PassInv
    <3> QED
      BY <3>1, <3>2 DEF Stages
  <2> QED
    BY <2>1, <2>2, <2>3
<1>2. /\ pass'.pc = pc /\ pass'.spend = pass.spend /\ pass'.committed = pass.committed
      /\ pass'.reclaims = pass.reclaims /\ DOMAIN pass' = DOMAIN Idle
  BY <1>1, PassFields DEF PassInv
<1> QED
  BY <1>1, <1>2 DEF PassInv, Stages

LEMMA PassSubmits ==
  ASSUME PassInv, RecordSubmission
  PROVE  /\ PassInv' /\ pass.pc = "accepted" /\ pass'.pc = "submitted"
         /\ pass'.spend = pass.spend /\ pass'.reclaims = pass.reclaims
         /\ pass'.committed.known = pass.committed.known
         /\ pass.committed.known = TRUE => pass'.committed.coins
               = pass.committed.coins \cup {spends[pass.spend].input}
<1> DEFINE k == CommittedNow
<1>1. /\ DOMAIN k = {"known", "coins"} /\ k.known = pass.committed.known
      /\ pass.committed.known = TRUE =>
            k.coins = pass.committed.coins \cup {spends[pass.spend].input}
  BY DEF PassInv, CommittedNow
<1>2. PICK a : /\ pass.pc = "accepted"
               /\ pass' = [pass EXCEPT !.pc = "submitted", !.committed = k, !.accepted = a]
  BY DEF RecordSubmission
<1> HIDE DEF k
<1>3. /\ pass'.pc = "submitted" /\ pass'.committed = k /\ pass'.spend = pass.spend
      /\ pass'.reclaims = pass.reclaims /\ DOMAIN pass' = DOMAIN Idle
  BY <1>2, PassFields DEF PassInv
<1> QED
  BY <1>1, <1>2, <1>3 DEF PassInv, Stages

LEMMA PassStep == PassInv /\ [Next]_vars => PassInv'
<1> SUFFICES ASSUME PassInv, [Next]_vars PROVE PassInv'
  OBVIOUS
<1>1. CASE AbortPass \/ EndPass \/ Killed
  BY <1>1, IdlePass DEF AbortPass, EndPass, Killed, PassInv, Stages
<1>2. CASE pass' = pass
  BY <1>2 DEF PassInv
<1> QED
  BY <1>1, <1>2, PassStarts, PassObserves, PassDecides, PassBegins, PassGoesOn, PassSubmits
     DEF Next, vars, Included, Evicted, CapsuleLands, CapsuleGoes, Tick, Rollover

----------------------------------------------------------------------------
(* The spends. *)

LEMMA SpendsGrow ==
  ASSUME SpendInv, NEW op, NEW c, NEW b, NEW e, Begin(op, c, b, e)
  PROVE  /\ IsSeq(spends') /\ Len(spends) \in Nat /\ Len(spends') = Len(spends) + 1
         /\ Spends = 1 .. Len(spends) /\ Spends' = Spends \cup {Len(spends) + 1}
         /\ Len(spends) + 1 \notin Spends
         /\ \A s \in Spends : spends'[s] = spends[s]
         /\ spends'[Len(spends) + 1]
               = [op |-> op, input |-> c, bond |-> b, epoch |-> e, at |-> now]
<1> DEFINE x == [op |-> op, input |-> c, bond |-> b, epoch |-> e, at |-> now]
           n == Len(spends) + 1
           S == Range(spends) \cup {x}
<1>1. /\ spends' = Append(spends, x) /\ spends \in Seq(Range(spends))
      /\ Range(spends) \subseteq S /\ x \in S
  BY DEF Begin, SpendInv, IsSeq
<1> HIDE DEF x, S
<1>2. spends \in Seq(S)
  BY <1>1
<1>3. /\ spends' \in Seq(S) /\ Len(spends) \in Nat /\ Len(spends') = Len(spends) + 1
      /\ DOMAIN spends = 1 .. Len(spends) /\ DOMAIN spends' = 1 .. Len(spends')
      /\ \A i \in 1 .. Len(spends) : spends'[i] = spends[i]
      /\ spends'[Len(spends) + 1] = x
  BY <1>1, <1>2, AppendProperties, LenProperties
<1>4. spends'[n] = x /\ IsSeq(spends')
  BY <1>3, SeqOfRange DEF IsSeq
<1>5. /\ Spends = 1 .. Len(spends) /\ Spends' = 1 .. Len(spends) + 1
      /\ \A s \in Spends : spends'[s] = spends[s]
  BY <1>3 DEF Spends
<1>6. 1 .. Len(spends) + 1 = (1 .. Len(spends)) \cup {n} /\ n \notin 1 .. Len(spends)
  BY <1>3
<1> QED
  BY <1>3, <1>4, <1>5, <1>6 DEF IsCoin, x

(* A begun spend is one of a coin the pass may spend.                      *)
LEMMA Begun ==
  ASSUME PassInv, SpendInv, NEW c \in Mirrors \cup FundingCoins \cup pass.reclaims,
         BeginReclaim(c) \/ BeginCreate(c)
  PROVE  \E op, b, e : /\ Begin(op, c, b, e) /\ IsCoin(c)
                       /\ op = "create" <=> BeginCreate(c)
                       /\ op = "create" => pass.committed.known /\ c \in Selectable
<1>1. IsCoin(c)
  BY DEF SpendInv, Mirrors, FundingCoins
<1>2. CASE BeginReclaim(c) /\ ~ BeginCreate(c)
  <2>1. PICK op \in {"reclaim", "reconcile"} : Begin(op, c, BondOf(c), EpochOf(c))
    BY <1>2 DEF BeginReclaim
  <2> QED
    BY <1>1, <1>2, <2>1
<1>3. CASE BeginCreate(c)
  <2>1. Begin("create", c, NextCreate, pass.epoch) /\ pass.committed.known /\ c \in Selectable
    BY <1>3 DEF BeginCreate
  <2> QED
    BY <1>1, <1>3, <2>1
<1> QED
  BY <1>2, <1>3

LEMMA RecordIs ==
  ASSUME NEW st, NEW fu, NEW i
  PROVE  /\ Record(st, fu, i).status = st /\ Record(st, fu, i).funding = fu
         /\ Record(st, fu, i).intended = i /\ Record(st, fu, i).updated = now
BY DEF Record

(* The steps that write a line about the spend in hand.                    *)
Writes == SigningFails \/ RecordFailure \/ RecordSubmission \/ DropRecorded

LEMMA WritesLine ==
  ASSUME Writes
  PROVE  \E st, fu, i :
            /\ \E how \in Outcomes : Append1(pass.spend, Record(st, fu, i), how)
            /\ st # "confirmed"
            /\ i = None \/ i = Intended(pass.spend)
            /\ pass.pc \in InHand
            /\ UNCHANGED <<now, spends, chain>>
BY DEF Writes, SigningFails, RecordFailure, RecordSubmission, DropRecorded, Submission, InHand

(* The steps in which a pass reads what it will decide from.               *)
Looks == StartPass \/ \E m \in Modes : ObservePass(m)

(* A step, by what becomes of the spends and the audit record.             *)
Begins == \E c \in Mirrors \cup FundingCoins \cup pass.reclaims :
             BeginReclaim(c) \/ BeginCreate(c)
Ends == AbortPass \/ EndPass \/ Killed
Sends == BroadcastAccepted \/ BroadcastFails
World == \/ \E s \in mempool : Included(s) \/ Evicted(s)
         \/ \E b \in Bonds : CapsuleLands(b) \/ CapsuleGoes(b)
         \/ Tick \/ Rollover

LEMMA Steps ==
  ASSUME [Next]_vars
  PROVE  \/ Looks \/ Decide \/ Begins \/ Writes \/ Ends \/ Sends \/ StopCreates
         \/ World \/ UNCHANGED vars
BY DEF Next, Looks, Begins, Writes, Ends, Sends, World

LEMMA Looked ==
  ASSUME Looks
  PROVE  UNCHANGED <<now, epoch, chain, spends, ledger, torn, sent>>
BY DEF Looks, StartPass, ObservePass, audit

LEMMA SpendStep == PassInv /\ SpendInv /\ HandInv /\ [Next]_vars => SpendInv'
<1> SUFFICES ASSUME PassInv, SpendInv, HandInv, [Next]_vars PROVE SpendInv'
  OBVIOUS
<1>1. CASE Looks
  <2>1. pass'.reclaims \subseteq pass.reclaims
    BY <1>1, PassStarts, PassObserves DEF Looks
  <2> QED
    BY <1>1, <2>1, Looked DEF SpendInv, chain, sent, Spends
<1>2. CASE Decide
  <2>1. PICK F \in Firsts : \E R \in SUBSET Resolvable(F) : ledger' = Resolved(R)
    BY <1>2, Decided
  <2>2. PICK R \in SUBSET Resolvable(F) : ledger' = Resolved(R)
    BY <2>1
  <2>3. ASSUME NEW s \in DOMAIN ledger' PROVE s \in DOMAIN ledger /\ ledger'[s].updated \in Nat
    <3>1. s \in DOMAIN ledger
      BY <2>2, ResolvedDomain
    <3>2. now \in Nat /\ ledger[s].updated \in Nat
      BY <3>1 DEF SpendInv
    <3> QED
      BY <2>2, <3>1, <3>2, ResolvedRecord, RecordIs
  <2>4. pass'.reclaims \subseteq unspent
    BY <1>2, PassDecides DEF Mirrors
  <2> QED
    BY <1>2, <2>3, <2>4 DEF SpendInv, Decide, chain, sent, Spends
<1>3. CASE Begins
  <2>1. PICK c \in Mirrors \cup FundingCoins \cup pass.reclaims :
               BeginReclaim(c) \/ BeginCreate(c)
    BY <1>3 DEF Begins
  <2>2. PICK op, b, e : Begin(op, c, b, e) /\ IsCoin(c)
    BY <2>1, Begun
  <2> DEFINE n == Len(spends) + 1
  <2>3. /\ IsSeq(spends') /\ Spends' = Spends \cup {n} /\ n \notin Spends
        /\ \A s \in Spends : spends'[s] = spends[s]
        /\ spends'[n] = [op |-> op, input |-> c, bond |-> b, epoch |-> e, at |-> now]
    BY <2>2, SpendsGrow
  <2>4. PICK how \in Outcomes :
          /\ Append1(n, Record("pending", None, None), how)
          /\ now' = now /\ unspent' = unspent /\ mempool' = mempool /\ acked' = acked
    BY <2>2 DEF Begin, chain, sent
  <2>5. pass'.reclaims \subseteq pass.reclaims
    BY <2>1, PassBegins
  <2> HIDE DEF n
  <2>6. \A s \in Spends' : IsCoin(spends'[s].input)
    BY <2>2, <2>3 DEF SpendInv
  <2>7. DOMAIN ledger' \subseteq Spends' /\ \A s \in DOMAIN ledger' : ledger'[s].updated \in Nat
    BY <2>3, <2>4, Appended, RecordIs DEF SpendInv
  <2> QED
    BY <2>3, <2>4, <2>5, <2>6, <2>7 DEF SpendInv
<1>4. CASE Writes
  <2>1. PICK st, fu, i :
          /\ \E how \in Outcomes : Append1(pass.spend, Record(st, fu, i), how)
          /\ pass.pc \in InHand /\ UNCHANGED <<now, spends, chain>>
    BY <1>4, WritesLine
  <2>2. pass.spend \in Spends
    BY <2>1 DEF HandInv
  <2>3. DOMAIN ledger' \subseteq Spends /\ \A s \in DOMAIN ledger' : ledger'[s].updated \in Nat
    BY <2>1, <2>2, Appended, RecordIs DEF SpendInv
  <2>4. pass'.reclaims = pass.reclaims
    BY <1>4, PassGoesOn, PassSubmits DEF Writes
  <2>5. DOMAIN acked' \subseteq Spends /\ \A s \in DOMAIN acked' : acked'[s] \in 0 .. now
    <3>1. \/ acked' = acked
          \/ acked' = [s \in DOMAIN acked \cup {pass.spend} |->
                          IF s = pass.spend THEN now ELSE acked[s]]
      <4>1. SigningFails \/ RecordFailure => acked' = acked
        BY DEF SigningFails, RecordFailure, sent
      <4>2. DropRecorded => acked' = acked
        BY DEF DropRecorded
      <4> QED
        BY <1>4, <4>1, <4>2 DEF Writes, RecordSubmission
    <3> QED
      BY <2>2, <3>1 DEF SpendInv
  <2> QED
    BY <2>1, <2>3, <2>4, <2>5 DEF SpendInv, chain, Spends
<1>5. CASE Ends
  <2>1. pass' = Idle /\ Idle.reclaims = {}
    BY <1>5, IdlePass DEF Ends, AbortPass, EndPass, Killed
  <2>2. DOMAIN acked' \subseteq Spends /\ \A s \in DOMAIN acked' : acked'[s] \in 0 .. now
    <3>1. AbortPass \/ EndPass => acked' = acked
      BY DEF AbortPass, EndPass, sent
    <3>2. Killed => \/ acked' = acked
                    \/ /\ pass.pc = "accepted"
                       /\ acked' = [s \in DOMAIN acked \cup {pass.spend} |->
                                       IF s = pass.spend THEN now ELSE acked[s]]
      BY DEF Killed
    <3> QED
      BY <1>5, <3>1, <3>2 DEF Ends, SpendInv, HandInv, InHand
  <2>3. UNCHANGED <<now, spends, chain, ledger>>
    BY <1>5 DEF Ends, AbortPass, EndPass, Killed, audit
  <2> QED
    BY <2>1, <2>2, <2>3 DEF SpendInv, chain, Spends
<1>6. CASE Sends \/ StopCreates
  <2>1. pass'.reclaims = pass.reclaims
    BY <1>6, PassGoesOn DEF Sends
  <2>2. mempool' \subseteq Spends
    BY <1>6 DEF SpendInv, HandInv, InHand, Sends, BroadcastAccepted, BroadcastFails,
                StopCreates, chain
  <2>3. UNCHANGED <<now, unspent, spends, ledger, acked>>
    BY <1>6 DEF Sends, BroadcastAccepted, BroadcastFails, StopCreates, chain, audit, sent
  <2> QED
    BY <2>1, <2>2, <2>3 DEF SpendInv, Spends
<1>7. CASE World
  <2>1. now' \in Nat /\ mempool' \subseteq mempool /\ UNCHANGED <<spends, ledger, acked, pass>>
    BY <1>7 DEF SpendInv, World, Included, Evicted, CapsuleLands, CapsuleGoes, Tick,
                Rollover, chain, audit, sent
  <2>2. \A c \in unspent' : IsCoin(c)
    <3>1. ASSUME NEW s \in mempool, Included(s)
          PROVE  \A c \in unspent' : IsCoin(c)
      <4>1. IsCoin(Output(s))
        BY OutputIsCoin DEF SpendInv
      <4> QED
        BY <3>1, <4>1 DEF Included, SpendInv
    <3>2. CASE unspent' = unspent
      BY <3>2 DEF SpendInv
    <3> QED
      BY <1>7, <3>1, <3>2 DEF World, Evicted, CapsuleLands, CapsuleGoes, Tick, Rollover, chain
  <2>3. now' \in now .. now + 1
    BY <1>7 DEF SpendInv, World, Included, Evicted, CapsuleLands, CapsuleGoes, Tick, Rollover
  <2>4. \A s \in DOMAIN acked' : acked'[s] \in 0 .. now'
    BY <2>1, <2>3 DEF SpendInv
  <2> QED
    BY <2>1, <2>2, <2>4 DEF SpendInv, Spends
<1>8. CASE UNCHANGED vars
  BY <1>8 DEF SpendInv, Spends, vars, chain, audit, sent
<1> QED
  BY <1>1, <1>2, <1>3, <1>4, <1>5, <1>6, <1>7, <1>8, Steps

(* A spend that has come to an end leaves the hand of the pass.            *)
LEMMA LetGo ==
  ASSUME PassInv, SigningFails \/ RecordFailure \/ DropRecorded \/ StopCreates
  PROVE  pass'.pc = "acting"
BY PassFields DEF PassInv, SigningFails, RecordFailure, DropRecorded, StopCreates, AfterFailure

LEMMA Kept ==
  ASSUME World \/ Sends \/ StopCreates \/ UNCHANGED vars
  PROVE  UNCHANGED <<spends, ledger, torn, acked, unrecorded>>
BY DEF World, Sends, BroadcastAccepted, BroadcastFails, StopCreates, Included, Evicted,
       CapsuleLands, CapsuleGoes, Tick, Rollover, audit, sent, vars

LEMMA WorldKeepsPass ==
  ASSUME World \/ UNCHANGED vars
  PROVE  pass' = pass
BY DEF World, Included, Evicted, CapsuleLands, CapsuleGoes, Tick, Rollover, vars

LEMMA Stopped ==
  ASSUME Ends
  PROVE  pass'.pc = "idle" /\ UNCHANGED <<now, spends, ledger, minted>>
BY IdlePass DEF Ends, AbortPass, EndPass, Killed, audit, chain

LEMMA HandStep == PassInv /\ SpendInv /\ HandInv /\ [Next]_vars => HandInv'
<1> SUFFICES ASSUME PassInv, SpendInv, HandInv, [Next]_vars PROVE HandInv'
  OBVIOUS
<1>1. CASE pass'.pc \in {"listed", "observed", "acting", "idle"}
  BY <1>1 DEF HandInv, InHand
<1>2. CASE Begins
  <2>1. PICK c \in Mirrors \cup FundingCoins \cup pass.reclaims :
               BeginReclaim(c) \/ BeginCreate(c)
    BY <1>2 DEF Begins
  <2>2. PICK op, b, e : Begin(op, c, b, e)
    BY <2>1, Begun
  <2> DEFINE n == Len(spends) + 1
  <2>3. Spends' = Spends \cup {n} /\ n \notin Spends /\ Len(spends') = n
    BY <2>2, SpendsGrow
  <2>4. PICK how \in Outcomes : Append1(n, Record("pending", None, None), how) /\ acked' = acked
    BY <2>2 DEF Begin, sent
  <2>5. pass'.pc = "begun" /\ pass'.spend = n
    BY <2>1, PassBegins
  <2> HIDE DEF n
  <2>6. n \notin DOMAIN ledger /\ n \notin DOMAIN acked
    BY <2>3 DEF SpendInv
  <2>7. n \in DOMAIN ledger' => ledger'[n].status = "pending"
    BY <2>4, <2>6, Appended, RecordIs
  <2> QED
    BY <2>3, <2>4, <2>5, <2>6, <2>7 DEF HandInv
<1>3. CASE RecordSubmission
  <2>1. pass.pc = "accepted" /\ pass'.pc = "submitted" /\ pass'.spend = pass.spend
    BY <1>3, PassSubmits
  <2>2. PICK how \in Outcomes :
          /\ Append1(pass.spend, Submission("submitted"), how)
          /\ spends' = spends
    BY <1>3 DEF RecordSubmission
  <2>3. pass.spend \in DOMAIN ledger' => ledger'[pass.spend].status \in {"pending", "submitted"}
    BY <2>1, <2>2, Appended, RecordIs DEF HandInv, InHand, Submission
  <2> QED
    BY <2>1, <2>2, <2>3 DEF HandInv, InHand, Spends
<1>4. CASE Sends
  <2>1. pass'.pc \in {"acting", "accepted", "refused"} /\ pass.pc = "begun"
        /\ pass'.spend = pass.spend
    BY <1>4, PassGoesOn DEF Sends, BroadcastAccepted, BroadcastFails
  <2> QED
    BY <1>4, <2>1, Kept DEF HandInv, InHand, Spends
<1>5. CASE World \/ UNCHANGED vars
  BY <1>5, Kept, WorldKeepsPass DEF HandInv, Spends
<1>6. Writes => RecordSubmission \/ pass'.pc = "acting"
  BY LetGo DEF Writes
<1>7. \/ pass'.pc \in {"listed", "observed", "acting", "idle"} \/ Begins \/ RecordSubmission
      \/ Sends \/ World \/ UNCHANGED vars
  BY <1>6, Steps, PassStarts, PassObserves, PassDecides, LetGo, Stopped DEF Looks
<1> QED
  BY <1>1, <1>2, <1>3, <1>4, <1>5, <1>7

----------------------------------------------------------------------------
(* The audit record. *)

(* What a step does to one record: nothing, a line about the spend in      *)
(* hand, or a confirmation.                                                *)
LEMMA RecordStep ==
  ASSUME PassInv, SpendInv, HandInv, [Next]_vars, NEW s \in DOMAIN ledger
  PROVE  /\ s \in DOMAIN ledger' /\ s \in Spends /\ s \in Spends' /\ spends'[s] = spends[s]
         /\ \/ ledger'[s] = ledger[s]
            \/ Writes /\ s = pass.spend /\ ~ IsTerminal(ledger[s])
            \/ Decide /\ MayHaveReached(ledger[s]) /\ ledger'[s].status = "confirmed"
<1>0. s \in Spends
  BY DEF SpendInv
<1>1. CASE Decide
  <2>1. PICK F \in Firsts : \E R \in SUBSET Resolvable(F) : ledger' = Resolved(R)
    BY <1>1, Decided
  <2>2. PICK R \in SUBSET Resolvable(F) : ledger' = Resolved(R)
    BY <2>1
  <2>3. \/ ledger'[s] = ledger[s]
        \/ MayHaveReached(ledger[s]) /\ ledger'[s].status = "confirmed"
    BY <2>2, ResolvedRecord, RecordIs DEF Claimants
  <2> QED
    BY <1>0, <1>1, <2>2, <2>3, ResolvedDomain DEF Decide, Spends
<1>2. CASE Begins
  <2>1. PICK c \in Mirrors \cup FundingCoins \cup pass.reclaims :
               BeginReclaim(c) \/ BeginCreate(c)
    BY <1>2 DEF Begins
  <2>2. PICK op, b, e : Begin(op, c, b, e)
    BY <2>1, Begun
  <2>3. /\ Len(spends) + 1 \notin Spends /\ s \in Spends' /\ spends'[s] = spends[s]
        /\ \E how \in Outcomes : Append1(Len(spends) + 1, Record("pending", None, None), how)
    BY <1>0, <2>2, SpendsGrow DEF Begin
  <2> QED
    BY <1>0, <2>3, Appended
<1>3. CASE Writes
  <2>1. PICK st, fu, i :
          /\ \E how \in Outcomes : Append1(pass.spend, Record(st, fu, i), how)
          /\ pass.pc \in InHand /\ spends' = spends
    BY <1>3, WritesLine
  <2>2. s = pass.spend => ~ IsTerminal(ledger[s])
    BY <2>1 DEF HandInv, IsTerminal
  <2> QED
    BY <1>0, <1>3, <2>1, <2>2, Appended DEF Spends
<1>4. CASE UNCHANGED <<spends, ledger>>
  BY <1>0, <1>4 DEF Spends
<1> QED
  BY <1>1, <1>2, <1>3, <1>4, Looked, Steps, Kept, Stopped

LEMMA LineStep == PassInv /\ SpendInv /\ HandInv /\ LineInv /\ [Next]_vars => LineInv'
<1> SUFFICES ASSUME PassInv, SpendInv, HandInv, LineInv, [Next]_vars PROVE LineInv'
  OBVIOUS
<1>1. CASE spends' = spends /\ pass'.pc \in {"listed", "observed", "acting", "idle", "submitted"}
  BY <1>1 DEF LineInv, InHand
<1>2. CASE Begins
  <2>1. PICK c \in Mirrors \cup FundingCoins \cup pass.reclaims :
               BeginReclaim(c) \/ BeginCreate(c)
    BY <1>2 DEF Begins
  <2>2. PICK op, b, e : Begin(op, c, b, e)
    BY <2>1, Begun
  <2> DEFINE n == Len(spends) + 1
  <2>3. n \notin Spends /\ Len(spends') = n /\ Len(spends) \in Nat /\ Len(spends) < MaxSpends
    BY <2>2, SpendsGrow DEF Begin
  <2>4. PICK how \in Outcomes : Append1(n, Record("pending", None, None), how)
    BY <2>2 DEF Begin
  <2>5. pass'.pc = "begun" /\ pass'.spend = n
    BY <2>1, PassBegins
  <2>6. Len(spends') <= MaxSpends
    BY <2>3, MirrorConstants
  <2> HIDE DEF n
  <2>7. n \notin DOMAIN ledger
    BY <2>3 DEF SpendInv
  <2>8. n \in DOMAIN ledger' => ledger'[n].status = "pending"
    BY <2>4, <2>7, Appended, RecordIs
  <2> QED
    BY <2>5, <2>6, <2>8 DEF LineInv
<1>3. RecordSubmission => spends' = spends /\ pass'.pc = "submitted"
  BY PassSubmits DEF RecordSubmission
<1>4. CASE Sends
  <2>1. pass.pc = "begun" /\ pass'.spend = pass.spend /\ pass'.pc # "submitted"
    BY <1>4, PassGoesOn DEF Sends, BroadcastAccepted, BroadcastFails
  <2> QED
    BY <1>4, <2>1, Kept DEF LineInv, InHand
<1>5. CASE World \/ UNCHANGED vars
  BY <1>5, Kept, WorldKeepsPass DEF LineInv
<1>6. Writes => RecordSubmission \/ (spends' = spends /\ pass'.pc = "acting")
  BY LetGo, WritesLine DEF Writes
<1>7. Looks => spends' = spends /\ pass'.pc \in {"listed", "observed"}
  BY Looked, PassStarts, PassObserves DEF Looks
<1>8. Decide => spends' = spends /\ pass'.pc = "acting"
  BY PassDecides DEF Decide
<1>9. Ends => spends' = spends /\ pass'.pc = "idle"
  BY Stopped
<1>10. StopCreates => spends' = spends /\ pass'.pc = "acting"
  BY LetGo, Kept
<1> QED
  BY <1>1, <1>2, <1>3, <1>4, <1>5, <1>6, <1>7, <1>8, <1>9, <1>10, Steps

LEMMA StaysConfirmed ==
  ASSUME PassInv, SpendInv, HandInv, [Next]_vars, NEW s, Confirmed(s)
  PROVE  Confirmed(s)'
BY RecordStep DEF Confirmed, IsTerminal, MayHaveReached

LEMMA NamelessStep ==
  PassInv /\ SpendInv /\ HandInv /\ NamelessInv /\ [Next]_vars => NamelessInv'
<1> SUFFICES ASSUME PassInv, SpendInv, HandInv, NamelessInv, [Next]_vars,
                    NEW s \in DOMAIN ledger', MayHaveReached(ledger[s])',
                    (spends[s].op = "create")'
             PROVE  (ledger[s].intended = None)'
  BY DEF NamelessInv
<1>1. CASE s \in DOMAIN ledger /\ ledger'[s] = ledger[s]
  BY <1>1, RecordStep DEF NamelessInv, MayHaveReached
<1>2. CASE Writes /\ ~ (s \in DOMAIN ledger /\ ledger'[s] = ledger[s])
  <2>1. PICK st, fu, i :
          /\ \E how \in Outcomes : Append1(pass.spend, Record(st, fu, i), how)
          /\ i = None \/ i = Intended(pass.spend)
          /\ spends' = spends
    BY <1>2, WritesLine
  <2>2. s = pass.spend /\ ledger'[s] = Record(st, fu, i)
    BY <1>2, <2>1, Appended
  <2>3. Intended(s) = None
    BY <2>1 DEF Intended
  <2> QED
    BY <2>1, <2>2, <2>3, RecordIs
<1>3. CASE Begins /\ s \notin DOMAIN ledger
  <2>1. PICK c \in Mirrors \cup FundingCoins \cup pass.reclaims :
               BeginReclaim(c) \/ BeginCreate(c)
    BY <1>3 DEF Begins
  <2>2. PICK op, b, e : Begin(op, c, b, e)
    BY <2>1, Begun
  <2>3. ledger'[s] = Record("pending", None, None)
    BY <1>3, <2>2, Appended DEF Begin
  <2> QED
    BY <2>3, RecordIs
<1>4. CASE s \in DOMAIN ledger /\ ledger'[s].status = "confirmed"
  BY <1>4 DEF MayHaveReached
<1>5. s \notin DOMAIN ledger => Writes \/ Begins
  <2>1. Decide => DOMAIN ledger' = DOMAIN ledger
    BY ResolvedDomain, Decided
  <2> QED
    BY <2>1, Looked, Steps, Kept, Stopped
<1> QED
  BY <1>1, <1>2, <1>3, <1>4, <1>5, RecordStep

(* Only resolving confirms.                                                *)
LEMMA ConfirmedBefore ==
  ASSUME PassInv, SpendInv, HandInv, [Next]_vars, NEW s, Confirmed(s)'
  PROVE  s \in DOMAIN ledger /\ (Decide \/ ledger'[s] = ledger[s])
<1>1. s \in DOMAIN ledger' /\ ledger'[s].status = "confirmed"
  BY DEF Confirmed
<1>2. CASE Writes
  <2>1. PICK st, fu, i :
          /\ \E how \in Outcomes : Append1(pass.spend, Record(st, fu, i), how)
          /\ st # "confirmed"
    BY <1>2, WritesLine
  <2> QED
    BY <1>1, <2>1, Appended, RecordIs
<1>3. CASE Begins
  <2>1. PICK c \in Mirrors \cup FundingCoins \cup pass.reclaims :
               BeginReclaim(c) \/ BeginCreate(c)
    BY <1>3 DEF Begins
  <2>2. PICK op, b, e : Begin(op, c, b, e)
    BY <2>1, Begun
  <2> QED
    BY <1>1, <2>2, Appended, RecordIs DEF Begin
<1>4. CASE Decide
  BY <1>1, <1>4, ResolvedDomain, Decided
<1> QED
  BY <1>1, <1>2, <1>3, <1>4, Looked, Steps, Kept, Stopped

LEMMA MintedGrows ==
  ASSUME [Next]_vars
  PROVE  minted \subseteq minted'
<1>1. ASSUME NEW c, BeginReclaim(c) \/ BeginCreate(c) PROVE minted' = minted
  BY <1>1 DEF BeginReclaim, BeginCreate, Begin, chain
<1> QED
  BY <1>1, Stopped, WritesLine, Looked, Steps DEF Decide, Begins, Sends, BroadcastAccepted,
     BroadcastFails, StopCreates, World, Included, Evicted, CapsuleLands, CapsuleGoes,
     Tick, Rollover, chain, vars

LEMMA AttributionStep ==
  /\ PassInv /\ SpendInv /\ HandInv /\ NamelessInv /\ AttributionSound /\ [Next]_vars
  => AttributionSound'
<1> SUFFICES ASSUME PassInv, SpendInv, HandInv, NamelessInv, AttributionSound, [Next]_vars
             PROVE  AttributionSound'
  OBVIOUS
<1>1. CASE ~ Decide
  <2>1. \A s \in DOMAIN ledger' : ledger'[s].status = "confirmed" =>
          /\ s \in DOMAIN ledger /\ ledger'[s] = ledger[s] /\ spends'[s] = spends[s]
    BY <1>1, ConfirmedBefore, RecordStep DEF Confirmed
  <2> QED
    BY <2>1, MintedGrows DEF AttributionSound, BondOf, EpochOf
<1>2. CASE Decide
  <2>1. PICK F \in Firsts : \E R \in SUBSET Resolvable(F) : ledger' = Resolved(R)
    BY <1>2, Decided
  <2>2. PICK R \in SUBSET Resolvable(F) : ledger' = Resolved(R)
    BY <2>1
  <2>3. minted' = minted /\ spends' = spends /\ DOMAIN ledger' = DOMAIN ledger
    BY <1>2, <2>2, ResolvedDomain DEF Decide, chain
  <2> DEFINE New(s) == /\ Claimants(ledger'[s].intended, F) = {s}
                       /\ ledger'[s].intended \notin Attributed
                       /\ ledger'[s].intended \in minted
  <2>4. ASSUME NEW s \in DOMAIN ledger, ledger'[s].status = "confirmed"
        PROVE  ledger'[s] = ledger[s] \/ New(s)
    <3>1. CASE Resolved(R)[s] = ledger[s]
      BY <2>2, <3>1
    <3>2. ASSUME NEW c \in minted, Claimants(c, F) = {s}, c \notin Attributed,
                 Resolved(R)[s] = Record("confirmed", ledger[s].funding, c)
          PROVE  New(s)
      BY <2>2, <3>2, RecordIs
    <3> QED
      BY <3>1, <3>2, ResolvedRecord
  <2>5. ASSUME NEW s \in DOMAIN ledger, ledger'[s].status = "confirmed"
        PROVE  /\ ledger'[s].intended \in minted
               /\ spends[s].op = "create" =>
                    /\ BondOf(ledger'[s].intended) = spends[s].bond
                    /\ EpochOf(ledger'[s].intended) = spends[s].epoch
    <3>1. CASE ledger'[s] = ledger[s]
      BY <2>5, <3>1 DEF AttributionSound
    <3>2. CASE New(s)
      <4>1. MayHaveReached(ledger[s]) /\ ledger'[s].intended \in Claimed(s, F)
        BY <3>2 DEF Claimants
      <4>2. spends[s].op = "create" => ledger[s].intended = None
        BY <4>1 DEF NamelessInv
      <4> QED
        BY <3>2, <4>1, <4>2 DEF Claimed
    <3> QED
      BY <2>4, <2>5, <3>1, <3>2
  <2>6. ASSUME NEW s \in DOMAIN ledger, NEW t \in DOMAIN ledger, s # t,
               ledger'[s].status = "confirmed", ledger'[t].status = "confirmed"
        PROVE  ledger'[s].intended # ledger'[t].intended
    <3>1. ASSUME NEW u \in DOMAIN ledger, ledger'[u].status = "confirmed", ledger'[u] = ledger[u]
          PROVE  ledger'[u].intended \in Attributed
      BY <3>1 DEF Attributed
    <3>2. ledger'[s] = ledger[s] /\ ledger'[t] = ledger[t]
            => ledger'[s].intended # ledger'[t].intended
      BY <2>6 DEF AttributionSound
    <3> QED
      BY <2>4, <2>6, <3>1, <3>2
  <2> QED
    BY <2>3, <2>5, <2>6 DEF AttributionSound, BondOf, EpochOf
<1> QED
  BY <1>1, <1>2

----------------------------------------------------------------------------
(* The coins of submissions. *)

LEMMA AckStep == PassInv /\ SpendInv /\ HandInv /\ AckInv /\ [Next]_vars => AckInv'
<1> SUFFICES ASSUME PassInv, SpendInv, HandInv, AckInv, [Next]_vars,
                    torn' = "whole", NEW s \in DOMAIN acked' \ unrecorded'
             PROVE  /\ s \in DOMAIN ledger'
                    /\ \/ ledger'[s].status = "confirmed"
                       \/ /\ ledger'[s].status \in {"submitted", "unresolved"}
                          /\ ledger'[s].funding = spends'[s].input
                          /\ acked'[s] <= ledger'[s].updated
  BY DEF AckInv
<1>1. CASE RecordSubmission \/ DropRecorded
  <2>1. PICK st \in {"submitted", "unresolved"}, how \in Outcomes :
          /\ Append1(pass.spend, Submission(st), how)
          /\ now' = now /\ spends' = spends
          /\ unrecorded \ {pass.spend} \subseteq unrecorded'
          /\ how = "nothing" => unrecorded \subseteq unrecorded'
          /\ how = "nothing" /\ RecordSubmission => pass.spend \in unrecorded'
    BY <1>1 DEF RecordSubmission, DropRecorded
  <2>2. torn = "whole" /\ how \in {"written", "nothing"}
    BY <2>1, Appended
  <2>3. acked'[s] <= now
    BY <1>1 DEF RecordSubmission, DropRecorded, SpendInv
  <2>4. CASE s = pass.spend /\ how = "written"
    <3>1. s \in DOMAIN ledger' /\ ledger'[s] = Submission(st)
      BY <2>1, <2>4, Appended
    <3> QED
      BY <2>1, <2>3, <2>4, <3>1, RecordIs DEF Submission
  <2>5. CASE s # pass.spend \/ how = "nothing"
    <3>1. s \in DOMAIN acked \ unrecorded /\ acked'[s] = acked[s]
      BY <1>1, <2>1, <2>5 DEF RecordSubmission, DropRecorded
    <3>2. s \in DOMAIN ledger
      BY <2>2, <3>1 DEF AckInv
    <3>3. s \in DOMAIN ledger' /\ ledger'[s] = ledger[s]
      BY <2>1, <2>5, <3>2, Appended
    <3> QED
      BY <2>1, <2>2, <3>1, <3>3 DEF AckInv
  <2> QED
    BY <2>2, <2>4, <2>5
<1>2. CASE /\ ~ (RecordSubmission \/ DropRecorded)
           /\ torn = "whole" /\ s \in DOMAIN acked \ unrecorded /\ acked'[s] = acked[s]
  <2>1. s \in DOMAIN ledger
    BY <1>2 DEF AckInv
  <2>2. Writes => s # pass.spend
    BY <1>2 DEF Writes, SigningFails, RecordFailure, HandInv, InHand
  <2> QED
    BY <1>2, <2>1, <2>2, RecordStep DEF AckInv
<1>3. ~ (RecordSubmission \/ DropRecorded) =>
        torn = "whole" /\ s \in DOMAIN acked \ unrecorded /\ acked'[s] = acked[s]
  <2>1. Decide => torn = "whole" /\ UNCHANGED <<acked, unrecorded>>
    <3>1. ASSUME NEW X, torn' \in TornBy(X) PROVE torn = "whole"
      BY <3>1 DEF TornBy
    <3> QED
      BY <3>1, Decided DEF Decide, sent
  <2>2. ASSUME NEW c \in Mirrors \cup FundingCoins \cup pass.reclaims,
               BeginReclaim(c) \/ BeginCreate(c)
        PROVE  torn = "whole" /\ UNCHANGED <<acked, unrecorded>>
    <3>1. PICK op, b, e : Begin(op, c, b, e)
      BY <2>2, Begun
    <3> QED
      BY <3>1, Appended DEF Begin, sent
  <2>3. SigningFails \/ RecordFailure => torn = "whole" /\ UNCHANGED <<acked, unrecorded>>
    BY Appended DEF SigningFails, RecordFailure, sent
  <2>4. Ends => UNCHANGED <<torn, acked, unrecorded>>
    BY DEF Ends, AbortPass, EndPass, Killed, audit, sent
  <2>5. Looks => UNCHANGED <<torn, acked, unrecorded>>
    BY Looked DEF sent
  <2> QED
    BY <2>1, <2>2, <2>3, <2>4, <2>5, Steps, Kept DEF Begins, Writes
<1> QED
  BY <1>1, <1>2, <1>3

(* A pass keeps what it knows to be committed.                             *)
LEMMA CommitKeeps ==
  ASSUME PassInv, SpendInv, HandInv, CommitInv, [Next]_vars, pass.pc # "idle",
         pass'.committed = pass.committed, acked' = acked, now' \in Nat, now <= now',
         \A s \in Spends : spends'[s] = spends[s],
         \A s \in DOMAIN acked : Traced(s)' => Traced(s)
  PROVE  CommitInv'
<1> SUFFICES ASSUME pass'.committed.known = TRUE, NEW s \in DOMAIN acked, Traced(s)',
                    now' - acked[s] < Reserve, ~ Confirmed(s)'
             PROVE  spends'[s].input \in pass.committed.coins
  BY DEF CommitInv
<1>1. ~ Confirmed(s)
  BY StaysConfirmed
<1>2. now - acked[s] < Reserve
  BY MirrorConstants DEF SpendInv
<1>3. spends'[s] = spends[s] /\ Traced(s)
  BY DEF SpendInv
<1> QED
  BY <1>1, <1>2, <1>3 DEF CommitInv

LEMMA CommitStep ==
  PassInv /\ SpendInv /\ HandInv /\ AckInv /\ CommitInv /\ [Next]_vars => CommitInv'
<1> SUFFICES ASSUME PassInv, SpendInv, HandInv, AckInv, CommitInv, [Next]_vars
             PROVE  CommitInv'
  OBVIOUS
<1>0. now \in Nat
  BY DEF SpendInv
<1>1. CASE StartPass
  <2>1. /\ pass'.committed = Commitments /\ pass'.pc = "listed"
        /\ UNCHANGED <<now, spends, ledger, torn, acked, unrecorded>>
    BY <1>1, PassStarts DEF StartPass, audit, sent
  <2> SUFFICES ASSUME pass'.committed.known = TRUE, NEW s \in DOMAIN acked \ unrecorded,
                      now - acked[s] < Reserve, ~ Confirmed(s)
               PROVE  spends[s].input \in pass'.committed.coins
    BY <2>1 DEF CommitInv, Confirmed, Traced
  <2>2. torn = "whole" /\ pass'.committed.coins = CommittedCoins
    <3>1. Commitments.known <=> torn = "whole"
      BY DEF Commitments
    <3>2. Commitments.known
      BY <2>1, Zenon
    <3>3. torn = "whole"
      BY <3>1, <3>2
    <3> QED
      BY <2>1, <3>3 DEF Commitments
  <2>3. /\ s \in DOMAIN ledger /\ ledger[s].status \in {"submitted", "unresolved"}
        /\ ledger[s].funding = spends[s].input /\ acked[s] <= ledger[s].updated
    BY <2>2 DEF AckInv, Confirmed
  <2>4. now - ledger[s].updated < Reserve
    BY <2>3, MirrorConstants DEF SpendInv
  <2>5. ReservesFunding(ledger[s], now)
    BY <2>3, <2>4 DEF ReservesFunding, IsTerminal
  <2>6. spends[s].input # None
    BY DEF SpendInv, IsCoin
  <2> QED
    BY <2>2, <2>3, <2>5, <2>6 DEF CommittedCoins
<1>2. CASE Decide \/ \E m \in Modes : ObservePass(m)
  <2>1. pass'.committed = pass.committed /\ pass.pc # "idle" /\ pass'.pc # "submitted"
    BY <1>2, PassDecides, PassObserves
  <2>2. UNCHANGED <<now, spends, acked, unrecorded>>
    BY <1>2 DEF Decide, ObservePass, sent
  <2> QED
    BY <1>0, <2>1, <2>2, CommitKeeps DEF Traced
<1>3. CASE Begins
  <2>1. PICK c \in Mirrors \cup FundingCoins \cup pass.reclaims :
               BeginReclaim(c) \/ BeginCreate(c)
    BY <1>3 DEF Begins
  <2>2. PICK op, b, e : Begin(op, c, b, e)
    BY <2>1, Begun
  <2>3. /\ now' = now /\ acked' = acked /\ unrecorded' = unrecorded
        /\ \A s \in Spends : spends'[s] = spends[s]
    BY <2>2, SpendsGrow DEF Begin, sent
  <2>4. pass'.committed = pass.committed /\ pass.pc # "idle" /\ pass'.pc # "submitted"
    BY <2>1, PassBegins
  <2> QED
    BY <1>0, <2>3, <2>4, CommitKeeps DEF Traced
<1>4. CASE SigningFails \/ RecordFailure \/ DropRecorded
  <2>1. /\ pass'.committed = pass.committed /\ pass.pc # "idle" /\ pass'.pc = "acting"
    BY <1>4, PassGoesOn, LetGo
  <2>2. acked' = acked /\ now' = now /\ spends' = spends
    BY <1>4 DEF SigningFails, RecordFailure, DropRecorded, sent
  <2>3. \A s \in DOMAIN acked : Traced(s)' => Traced(s)
    BY <1>4, <2>1 DEF SigningFails, RecordFailure, DropRecorded, sent, Traced
  <2> QED
    BY <1>0, <2>1, <2>2, <2>3, CommitKeeps
<1>5. CASE RecordSubmission
  <2>1. /\ pass.pc = "accepted" /\ pass'.committed.known = pass.committed.known
        /\ pass'.spend = pass.spend
        /\ pass.committed.known = TRUE => pass'.committed.coins
               = pass.committed.coins \cup {spends[pass.spend].input}
    BY <1>5, PassSubmits
  <2>2. /\ now' = now /\ spends' = spends /\ unrecorded \subseteq unrecorded'
        /\ \A s \in DOMAIN acked' : s # pass.spend => s \in DOMAIN acked /\ acked'[s] = acked[s]
    BY <1>5 DEF RecordSubmission
  <2> SUFFICES ASSUME pass.committed.known = TRUE, NEW s \in DOMAIN acked', Traced(s)',
                      now' - acked'[s] < Reserve, ~ Confirmed(s)'
               PROVE  spends'[s].input \in pass'.committed.coins
    BY <2>1 DEF CommitInv
  <2>3. ~ Confirmed(s)
    BY StaysConfirmed
  <2>4. s # pass.spend => Traced(s)
    BY <2>1, <2>2 DEF Traced
  <2> QED
    BY <2>1, <2>2, <2>3, <2>4 DEF CommitInv
<1>6. CASE Ends
  BY <1>6, Stopped DEF CommitInv
<1>7. CASE Sends \/ StopCreates
  <2>1. pass'.committed = pass.committed /\ pass.pc # "idle" /\ pass'.pc # "submitted"
    BY <1>7, PassGoesOn DEF Sends
  <2>2. now' = now /\ UNCHANGED <<spends, ledger, torn, acked, unrecorded>>
    BY <1>7, Kept DEF Sends, BroadcastAccepted, BroadcastFails, StopCreates
  <2> QED
    BY <1>0, <2>1, <2>2, CommitKeeps DEF Traced
<1>8. CASE World \/ UNCHANGED vars
  <2>1. pass' = pass /\ UNCHANGED <<spends, ledger, torn, acked, unrecorded>>
    BY <1>8, Kept, WorldKeepsPass
  <2>2. now' \in Nat /\ now <= now'
    BY <1>0, <1>8 DEF World, Included, Evicted, CapsuleLands, CapsuleGoes, Tick, Rollover, vars
  <2>3. CASE pass.pc = "idle"
    BY <2>1, <2>3 DEF CommitInv
  <2>4. CASE pass.pc # "idle"
    BY <2>1, <2>2, <2>4, CommitKeeps DEF Traced
  <2> QED
    BY <2>3, <2>4
<1> QED
  BY <1>1, <1>2, <1>3, <1>4, <1>5, <1>6, <1>7, <1>8, Steps DEF Looks, Writes

(* A submission newly recorded is of the newest spend.                     *)
LEMMA AckedLast ==
  ASSUME PassInv, SpendInv, HandInv, [Next]_vars, NEW s \in DOMAIN acked' \ unrecorded'
  PROVE  \/ s \in DOMAIN acked \ unrecorded /\ acked'[s] = acked[s]
         \/ s = Len(spends) /\ spends' = spends
<1>1. Looks => UNCHANGED <<acked, unrecorded>>
  BY Looked DEF sent
<1>2. Decide => UNCHANGED <<acked, unrecorded>>
  BY DEF Decide, sent
<1>3. ASSUME NEW c, BeginReclaim(c) \/ BeginCreate(c) PROVE UNCHANGED <<acked, unrecorded>>
  BY <1>3 DEF BeginReclaim, BeginCreate, Begin, sent
<1>4. SigningFails \/ RecordFailure => UNCHANGED <<acked, unrecorded>>
  BY DEF SigningFails, RecordFailure, sent
<1>5. CASE RecordSubmission \/ DropRecorded
  <2>1. /\ s # pass.spend => s \in DOMAIN acked \ unrecorded /\ acked'[s] = acked[s]
        /\ spends' = spends /\ pass.pc \in InHand
    BY <1>5 DEF RecordSubmission, DropRecorded, InHand
  <2> QED
    BY <2>1 DEF HandInv
<1>6. CASE Ends
  <2>1. /\ unrecorded' = unrecorded /\ spends' = spends
        /\ \/ acked' = acked
           \/ pass.pc = "accepted" /\ acked' =
                [u \in DOMAIN acked \cup {pass.spend} |-> IF u = pass.spend THEN now ELSE acked[u]]
    BY <1>6 DEF Ends, AbortPass, EndPass, Killed, sent
  <2> QED
    BY <2>1 DEF HandInv, InHand
<1> QED
  BY <1>1, <1>2, <1>3, <1>4, <1>5, <1>6, Steps, Kept DEF Begins, Writes

LEMMA FundingStep ==
  /\ PassInv /\ SpendInv /\ HandInv /\ CommitInv /\ FundingNotDoubleCommitted /\ [Next]_vars
  => FundingNotDoubleCommitted'
<1> SUFFICES ASSUME PassInv, SpendInv, HandInv, CommitInv, FundingNotDoubleCommitted,
                    [Next]_vars, NEW s \in DOMAIN acked' \ unrecorded', NEW t \in Spends', s < t,
                    spends'[t].op = "create", spends'[t].at - acked'[s] < Reserve,
                    ~ Confirmed(s)'
             PROVE  spends'[t].input # spends'[s].input
  BY DEF FundingNotDoubleCommitted, Confirmed
<1>0. ~ Confirmed(s) /\ Spends = 1 .. Len(spends) /\ Len(spends) \in Nat
  BY StaysConfirmed, LenProperties DEF SpendInv, IsSeq, Spends
<1>1. CASE s = Len(spends) /\ spends' = spends
  BY <1>0, <1>1 DEF Spends
<1>2. CASE s \in DOMAIN acked \ unrecorded /\ acked'[s] = acked[s] /\ ~ Begins
  <2>1. spends' = spends
    <3>1. Decide => spends' = spends
      BY DEF Decide
    <3> QED
      BY <1>2, <3>1, Looked, Steps, Kept, Stopped, WritesLine
  <2> QED
    BY <1>0, <1>2, <2>1 DEF FundingNotDoubleCommitted, Spends, Confirmed
<1>3. CASE s \in DOMAIN acked \ unrecorded /\ acked'[s] = acked[s] /\ Begins
  <2>1. PICK c \in Mirrors \cup FundingCoins \cup pass.reclaims :
               BeginReclaim(c) \/ BeginCreate(c)
    BY <1>3 DEF Begins
  <2>2. PICK op, b, e : /\ Begin(op, c, b, e)
                        /\ op = "create" => pass.committed.known /\ c \in Selectable
    BY <2>1, Begun
  <2> DEFINE n == Len(spends) + 1
  <2>3. /\ Spends' = Spends \cup {n} /\ \A u \in Spends : spends'[u] = spends[u]
        /\ spends'[n] = [op |-> op, input |-> c, bond |-> b, epoch |-> e, at |-> now]
    BY <2>2, SpendsGrow
  <2> HIDE DEF n
  <2>4. s \in Spends /\ spends'[s] = spends[s]
    BY <1>3, <2>3 DEF SpendInv
  <2>5. CASE t \in Spends
    BY <1>0, <1>3, <2>3, <2>4, <2>5 DEF FundingNotDoubleCommitted, Confirmed
  <2>6. CASE t = n
    <3>1. op = "create" /\ spends'[t].at = now /\ spends'[t].input = c
      BY <2>3, <2>6
    <3>2. pass.committed.known = TRUE /\ c \in Selectable
      <4>1. pass.committed.known \in BOOLEAN
        BY DEF PassInv
      <4> QED
        BY <2>2, <3>1, <4>1, Zenon
    <3>3. pass.pc # "idle"
      BY <2>1, PassBegins
    <3>4. spends[s].input \in pass.committed.coins
      BY <1>0, <1>3, <3>1, <3>2, <3>3 DEF CommitInv, Traced
    <3> QED
      BY <2>4, <3>1, <3>2, <3>4 DEF Selectable
  <2> QED
    BY <2>3, <2>5, <2>6
<1> QED
  BY <1>1, <1>2, <1>3, AckedLast

----------------------------------------------------------------------------
(* What the process has seen of the disk. *)

LEMMA SeenWhere ==
  ASSUME SteadyInv, NEW b \in DOMAIN SeenNow
  PROVE  /\ SeenNow[b].since \in Nat /\ SeenNow[b].since <= now
         /\ SeenNow[b].present \in BOOLEAN
         /\ b \in pass.held => SeenNow[b].present = TRUE
         /\ b \in pass.held /\ b \in DOMAIN seen /\ seen[b].present = TRUE => SeenNow[b] = seen[b]
<1>0. now \in Nat
  BY DEF SteadyInv
<1>1. b \in pass.held \/ b \in DOMAIN seen
  BY DEF SeenNow
<1>3. CASE b \in pass.held /\ b \in DOMAIN seen /\ seen[b].present = TRUE
  <2>1. SeenNow[b] = seen[b]
    BY <1>3 DEF SeenNow
  <2> QED
    BY <1>3, <2>1 DEF SteadyInv
<1>4. CASE b \in pass.held /\ ~ (b \in DOMAIN seen /\ seen[b].present = TRUE)
  <2>1. b \in DOMAIN seen => seen[b].present \in BOOLEAN
    BY DEF SteadyInv
  <2>2. SeenNow[b] = [present |-> TRUE, since |-> now]
    BY <1>4, <2>1, Zenon DEF SeenNow, Observed
  <2>3. SeenNow[b].present = TRUE /\ SeenNow[b].since = now
    BY <2>2
  <2>4. SeenNow[b].since \in Nat /\ SeenNow[b].since <= now
    <3>1. now <= now
      BY <1>0
    <3> QED
      BY <1>0, <2>3, <3>1, Zenon
  <2> QED
    BY <1>4, <2>3, <2>4, Zenon
<1>5. CASE b \notin pass.held
  <2>1. b \in DOMAIN seen /\ seen[b].present \in BOOLEAN
    BY <1>1, <1>5 DEF SteadyInv
  <2>2. SeenNow[b] = [present |-> FALSE, since |-> now] \/ SeenNow[b] = seen[b]
    BY <1>5, <2>1, Zenon DEF SeenNow, Observed
  <2>3. CASE SeenNow[b] = [present |-> FALSE, since |-> now]
    <3>1. SeenNow[b].present = FALSE /\ SeenNow[b].since = now
      BY <2>3
    <3>2. now <= now
      BY <1>0
    <3>3. SeenNow[b].since \in Nat /\ SeenNow[b].since <= now
      BY <1>0, <3>1, <3>2, Zenon
    <3> QED
      BY <1>5, <3>1, <3>3, Zenon
  <2>4. CASE SeenNow[b] = seen[b]
    BY <1>5, <2>1, <2>4 DEF SteadyInv
  <2> QED
    BY <2>2, <2>3, <2>4
<1> QED
  BY <1>3, <1>4, <1>5

LEMMA SteadyKeeps ==
  ASSUME SteadyInv, UNCHANGED <<seen, steady>>, now' \in Nat, now <= now', epoch' \in Nat,
         pass'.pc \in {"listed", "observed"} => pass' = pass
  PROVE  SteadyInv'
<1>1. \A b \in DOMAIN seen : seen[b].since <= now'
  BY DEF SteadyInv
<1> QED
  BY <1>1 DEF SteadyInv

LEMMA SteadyStep == PassInv /\ SteadyInv /\ [Next]_vars => SteadyInv'
<1> SUFFICES ASSUME PassInv, SteadyInv, [Next]_vars PROVE SteadyInv'
  OBVIOUS
<1>0. now \in Nat /\ epoch \in Nat
  BY DEF SteadyInv
<1>1. ASSUME NEW m, ObservePass(m) PROVE SteadyInv'
  <2>1. /\ pass.pc = "listed" /\ pass'.pc = "observed" /\ pass'.at = now /\ pass'.held = Settled
        /\ now' = now /\ epoch' = epoch /\ pass'.epoch = pass.epoch
        /\ seen' = [b \in Remembered |-> SeenNow[b]]
        /\ steady' = [b \in pass.held |-> IF b \in DOMAIN steady THEN steady[b] ELSE now]
    BY <1>1, PassObserves DEF ObservePass, Restrict
  <2>2. Remembered \subseteq DOMAIN SeenNow /\ pass.held \subseteq DOMAIN SeenNow
    BY DEF Remembered, SeenNow
  <2>3. \A b \in DOMAIN seen' : /\ seen'[b].since \in Nat /\ seen'[b].since <= now'
                                /\ seen'[b].present \in BOOLEAN
    BY <2>1, <2>2, SeenWhere
  <2>4. ASSUME NEW b \in pass.held
        PROVE  /\ steady'[b] \in Nat /\ SeenNow[b].since <= steady'[b]
               /\ b \in Remembered /\ SeenNow[b].present = TRUE
               /\ now - steady'[b] >= Window => b \in Settled
    <3>1. /\ SeenNow[b].since \in Nat /\ SeenNow[b].since <= now
          /\ SeenNow[b].present = TRUE /\ b \in DOMAIN SeenNow
          /\ b \in DOMAIN seen /\ seen[b].present = TRUE => SeenNow[b] = seen[b]
      BY <2>2, SeenWhere
    <3>2. steady'[b] \in Nat /\ SeenNow[b].since <= steady'[b]
      <4>1. CASE b \in DOMAIN steady
        BY <2>1, <3>1, <4>1 DEF SteadyInv
      <4>2. CASE b \notin DOMAIN steady
        BY <1>0, <2>1, <3>1, <4>2
      <4> QED
        BY <4>1, <4>2
    <3>3. b \in Remembered
      BY <3>1, Zenon DEF Remembered
    <3>4. ASSUME now - steady'[b] >= Window
          PROVE  b \in Settled
      <4>1. now - SeenNow[b].since >= Window
        BY <1>0, <3>1, <3>2, <3>4, MirrorConstants
      <4> QED
        BY <3>1, <4>1, Zenon DEF Settled
    <3> QED
      BY <3>1, <3>2, <3>3, <3>4
  <2>5. \A b \in DOMAIN steady' :
          /\ steady'[b] \in Nat /\ b \in DOMAIN seen' /\ seen'[b].present = TRUE
          /\ seen'[b].since <= steady'[b]
          /\ pass'.at - steady'[b] >= Window => b \in pass'.held
    BY <2>1, <2>4
  <2> QED
    BY <1>0, <2>1, <2>3, <2>5 DEF SteadyInv
<1>2. CASE Killed
  <2>1. DOMAIN seen' = {} /\ DOMAIN steady' = {} /\ now' = now /\ epoch' = epoch /\ pass'.pc = "idle"
    BY <1>2, IdlePass DEF Killed
  <2> QED
    BY <1>0, <2>1 DEF SteadyInv
<1>3. CASE Decide \/ AbortPass \/ EndPass
  <2>1. pass'.pc \in {"idle", "acting"} /\ now' = now /\ epoch' = epoch /\ UNCHANGED <<seen, steady>>
    BY <1>3, IdlePass, PassDecides DEF Decide, AbortPass, EndPass
  <2> QED
    BY <1>0, <2>1, SteadyKeeps
<1>4. ASSUME NEW c, BeginReclaim(c) \/ BeginCreate(c) PROVE SteadyInv'
  <2>1. pass'.pc = "begun" /\ now' = now /\ epoch' = epoch /\ UNCHANGED <<seen, steady>>
    BY <1>4, PassBegins DEF BeginReclaim, BeginCreate, Begin
  <2> QED
    BY <1>0, <2>1, SteadyKeeps
<1>5. CASE Writes \/ Sends \/ StopCreates
  <2>1. pass'.pc \notin {"listed", "observed"}
    BY <1>5, PassGoesOn, PassSubmits DEF Writes, Sends
  <2>2. now' = now /\ epoch' = epoch /\ UNCHANGED <<seen, steady>>
    BY <1>5 DEF Writes, Sends, SigningFails, RecordFailure, RecordSubmission, DropRecorded,
                BroadcastAccepted, BroadcastFails, StopCreates
  <2> QED
    BY <1>0, <2>1, <2>2, SteadyKeeps
<1>6. CASE World \/ UNCHANGED vars
  <2>1. now' \in Nat /\ now <= now' /\ epoch' \in Nat /\ UNCHANGED <<seen, steady>>
    BY <1>0, <1>6 DEF World, Included, Evicted, CapsuleLands, CapsuleGoes, Tick, Rollover, vars
  <2> QED
    BY <1>6, <2>1, WorldKeepsPass, SteadyKeeps
<1>7. CASE StartPass
  <2>1. /\ pass'.pc = "listed" /\ pass'.epoch = epoch
        /\ now' = now /\ epoch' = epoch /\ UNCHANGED <<seen, steady>>
    BY <1>7, PassStarts DEF StartPass
  <2> QED
    BY <1>0, <2>1 DEF SteadyInv
<1> QED
  BY <1>1, <1>2, <1>3, <1>4, <1>5, <1>6, <1>7, Steps DEF Looks, Begins, Ends

----------------------------------------------------------------------------
(* The invariant, and what follows. *)

LifecycleInv ==
    /\ PassInv /\ SpendInv /\ HandInv /\ LineInv /\ NamelessInv /\ AttributionSound
    /\ AckInv /\ CommitInv /\ FundingNotDoubleCommitted /\ SteadyInv

LEMMA LifecycleInit == Init => LifecycleInv
<1> SUFFICES ASSUME Init PROVE LifecycleInv
  OBVIOUS
<1>1. PassInv /\ pass.pc = "idle" /\ pass.reclaims = {}
  BY IdlePass DEF Init, PassInv, Stages
<1>2. DOMAIN ledger = {} /\ DOMAIN acked = {} /\ DOMAIN seen = {} /\ DOMAIN steady = {}
  BY DEF Init
<1>3. IsSeq(spends) /\ Spends = {} /\ mempool = {} /\ now = 0 /\ epoch = 1
  <2>1. spends = <<>> /\ <<>> \in Seq({}) /\ Len(<<>>) = 0
    BY EmptySeq DEF Init
  <2>2. IsSeq(spends)
    BY <2>1, SeqOfRange DEF IsSeq
  <2> QED
    BY <2>1, <2>2 DEF Init, Spends
<1>4. \A c \in unspent : IsCoin(c)
  <2> SUFFICES ASSUME NEW w \in Wallet PROVE IsCoin(<<w>>)
    BY DEF Init
  <2>1. <<w>> \in Seq({w}) /\ <<w>> # <<>>
    OBVIOUS
  <2> QED
    BY <2>1, SeqOfRange DEF IsCoin, IsSeq, None
<1>5. SpendInv
  BY <1>1, <1>2, <1>3, <1>4 DEF SpendInv
<1>6. LineInv
  <2>1. Len(spends) = 0
    BY EmptySeq DEF Init
  <2> QED
    BY <1>1, <2>1, MirrorConstants DEF LineInv, InHand
<1> QED
  BY <1>1, <1>2, <1>3, <1>5, <1>6 DEF LifecycleInv, HandInv, InHand, NamelessInv, AttributionSound,
     AckInv, CommitInv, FundingNotDoubleCommitted, SteadyInv

LEMMA LifecycleInvariant == Spec => []LifecycleInv
<1>1. LifecycleInv /\ [Next]_vars => LifecycleInv'
  BY PassStep, SpendStep, HandStep, LineStep, NamelessStep, AttributionStep, AckStep, CommitStep,
     FundingStep, SteadyStep DEF LifecycleInv
<1> QED
  BY <1>1, LifecycleInit, PTL DEF Spec

(* Whatever fails, a confirmation is of a coin that a block made, for the  *)
(* bond and epoch of the create it confirms, and of nobody else's coin     *)
(* (resolve_landed_spends).                                                *)
THEOREM ConfirmationsSound == Spec => []AttributionSound
<1>1. LifecycleInv => AttributionSound
  BY DEF LifecycleInv
<1> QED
  BY <1>1, LifecycleInvariant, PTL

(* Through kills, lines that fail or are cut and lost broadcasts, no pass  *)
(* offers a coin to a create while the reservation of its submission       *)
(* lasts, if one byte of one line about it reached the file                *)
(* (committed_funding_coin_ids, select_operator_dig_cats).                 *)
THEOREM FundingCommittedOnce == Spec => []FundingNotDoubleCommitted
<1>1. LifecycleInv => FundingNotDoubleCommitted
  BY DEF LifecycleInv
<1> QED
  BY <1>1, LifecycleInvariant, PTL

----------------------------------------------------------------------------
(* The record that SpendRecord promises. *)

(* A line that can be read opens the entry of its spend, or revises it;    *)
(* one that was not written, or not whole, changes nothing.                *)
LEMMA LineIsEntry ==
  ASSUME NEW s \in 1 .. MaxSpends, NEW rec, NEW how \in Outcomes, Append1(s, rec, how),
         minted' = minted, rec.status \in Audit!Openings,
         s \in DOMAIN ledger => <<ledger[s].status, rec.status>> \in Audit!Forward
  PROVE  Audit!Next \/ UNCHANGED Audit!book
<1>0. CASE how # "written" \/ torn = "tail"
  BY <1>0 DEF Append1, Audit!book
<1>1. CASE ~ (how # "written" \/ torn = "tail")
  <2>1. /\ DOMAIN ledger' = DOMAIN ledger \cup {s} /\ ledger'[s] = rec
        /\ \A t \in DOMAIN ledger \ {s} : ledger'[t] = ledger[t]
    BY <1>1 DEF Append1
  <2>2. rec.status # "confirmed"
    BY DEF Audit!Openings
  <2>3. CASE s \notin DOMAIN ledger
    <3>1. Audit!Open(s, rec.status)
      BY <2>1, <2>2, <2>3 DEF Audit!Open, Audit!Says
    <3> QED
      BY <3>1 DEF Audit!Next
  <2>4. CASE s \in DOMAIN ledger
    <3>1. Audit!Revise(s, rec.status)
      BY <2>1, <2>2, <2>4 DEF Audit!Revise, Audit!Says
    <3> QED
      BY <3>1 DEF Audit!Next
  <2> QED
    BY <2>3, <2>4
<1> QED
  BY <1>0, <1>1

(* Resolving confirms the entries it changes, each with its own coin.      *)
LEMMA ResolvingConfirms ==
  ASSUME Decide
  PROVE  Audit!Next
<1>1. PICK F \in Firsts : \E R \in SUBSET Resolvable(F) : ledger' = Resolved(R)
  BY Decided
<1>2. PICK R \in SUBSET Resolvable(F) : ledger' = Resolved(R)
  BY <1>1
<1>3. minted' = minted /\ DOMAIN ledger' = DOMAIN ledger
  BY <1>2, ResolvedDomain DEF Decide, chain
<1> DEFINE New(s) == /\ Claimants(ledger'[s].intended, F) = {s}
                     /\ ledger'[s].intended \in minted \ Attributed
                     /\ ledger'[s].status = "confirmed"
           S == {s \in DOMAIN ledger : New(s)}
           coin == [s \in S |-> ledger'[s].intended]
<1>4. ASSUME NEW s \in DOMAIN ledger PROVE ledger'[s] = ledger[s] \/ s \in S
  <2>1. ASSUME NEW c \in minted, Claimants(c, F) = {s}, c \notin Attributed,
               Resolved(R)[s] = Record("confirmed", ledger[s].funding, c)
        PROVE  New(s)
    BY <1>2, <2>1, RecordIs
  <2> QED
    BY <1>2, <2>1, ResolvedRecord
<1>5. S \subseteq Audit!Chased
  BY DEF Claimants, MayHaveReached, Audit!Chased
<1>6. Audit!IsInjective(coin)
  BY DEF Audit!IsInjective
<1>7. coin \in [S -> minted]
  OBVIOUS
<1>8. Audit!Taken = Attributed
  BY DEF Audit!Taken, Attributed
<1>9. \A s \in S : coin[s] \in minted \ Audit!Taken
  BY <1>8
<1>10. \A s \in S : ledger'[s].status = "confirmed" /\ ledger'[s].intended = coin[s]
  OBVIOUS
<1> HIDE DEF S, coin
<1>11. PICK T \in SUBSET Audit!Chased : T = S
  BY <1>5
<1>12. PICK paid \in [T -> minted] : paid = coin
  BY <1>7, <1>11
<1>13. Audit!Confirm(T, paid)
  BY <1>3, <1>4, <1>6, <1>9, <1>10, <1>11, <1>12 DEF Audit!Confirm, Audit!Says
<1> QED
  BY <1>13 DEF Audit!Next

LEMMA AuditInit == Init => Audit!Init
BY DEF Init, Audit!Init

LEMMA AuditStep == LifecycleInv /\ [Next]_vars => [Audit!Next]_(Audit!book)
<1> SUFFICES ASSUME LifecycleInv, [Next]_vars
             PROVE  Audit!Next \/ UNCHANGED Audit!book
  OBVIOUS
<1>0. PassInv /\ SpendInv /\ HandInv /\ LineInv
  BY DEF LifecycleInv
<1>1. CASE Begins
  <2>1. PICK c \in Mirrors \cup FundingCoins \cup pass.reclaims :
               BeginReclaim(c) \/ BeginCreate(c)
    BY <1>1 DEF Begins
  <2>2. PICK op, b, e : Begin(op, c, b, e)
    BY <1>0, <2>1, Begun
  <2> DEFINE n == Len(spends) + 1
             r == Record("pending", None, None)
  <2>3. PICK how \in Outcomes : Append1(n, r, how) /\ minted' = minted /\ Len(spends) < MaxSpends
    BY <2>2 DEF Begin, chain
  <2>4. n \notin Spends /\ Len(spends) \in Nat
    BY <1>0, <2>2, SpendsGrow
  <2>5. n \in 1 .. MaxSpends /\ n \notin DOMAIN ledger
    BY <1>0, <2>3, <2>4, MirrorConstants DEF SpendInv
  <2>6. r.status \in Audit!Openings
    BY RecordIs DEF Audit!Openings
  <2> HIDE DEF n, r
  <2> QED
    BY <2>3, <2>5, <2>6, LineIsEntry
<1>2. CASE Writes
  <2>1. PICK st, fu, i :
          /\ st \in Audit!Openings
          /\ \E how \in Outcomes : Append1(pass.spend, Record(st, fu, i), how)
          /\ pass.pc \in InHand
          /\ pass.pc = "submitted" => st = "unresolved"
          /\ minted' = minted
    <3>1. CASE SigningFails
      BY <3>1 DEF SigningFails, InHand, Audit!Openings, chain
    <3>2. CASE RecordFailure
      BY <3>2 DEF RecordFailure, InHand, Audit!Openings, chain
    <3>3. CASE RecordSubmission
      BY <3>3 DEF RecordSubmission, Submission, InHand, Audit!Openings, chain
    <3>4. CASE DropRecorded
      BY <3>4 DEF DropRecorded, Submission, InHand, Audit!Openings, chain
    <3> QED
      BY <1>2, <3>1, <3>2, <3>3, <3>4 DEF Writes
  <2> DEFINE r == Record(st, fu, i)
  <2>2. r.status = st
    BY RecordIs
  <2>3. pass.spend \in Spends /\ Len(spends) <= MaxSpends
    BY <1>0, <2>1 DEF LineInv, HandInv, InHand
  <2>4. pass.spend \in 1 .. MaxSpends
    <3>1. Spends = 1 .. Len(spends) /\ Len(spends) \in Nat
      BY <1>0, LenProperties DEF SpendInv, IsSeq, Spends
    <3> QED
      BY <2>3, <3>1, MirrorConstants
  <2> HIDE DEF r
  <2>5. pass.spend \in DOMAIN ledger => <<ledger[pass.spend].status, st>> \in Audit!Forward
    BY <1>0, <2>1 DEF LineInv, HandInv, InHand, Audit!Forward
  <2>6. PICK how \in Outcomes : Append1(pass.spend, r, how)
    BY <2>1 DEF r
  <2> QED
    BY <2>1, <2>2, <2>4, <2>5, <2>6, LineIsEntry
<1>3. CASE ledger' = ledger
  <2>1. Audit!Block
    BY <1>3, MintedGrows DEF Audit!Block
  <2> QED
    BY <2>1 DEF Audit!Next
<1> QED
  BY <1>1, <1>2, <1>3, Looked, Steps, Kept, Stopped, ResolvingConfirms

(* The file that is appended to, missing the lines that failed, cut short  *)
(* by kills and folded again implements the record that SpendRecord        *)
(* states: entries are revised only forward, and only                      *)
(* resolve_landed_spends confirms one, of a coin on chain that no other    *)
(* entry has (SpendLog, RecordedSpend).                                    *)
THEOREM AuditIsARecord == Spec => ImplementsRecord
<1> USE DEF ImplementsRecord, Audit!Spec
<1> QED
  BY AuditInit, AuditStep, LifecycleInvariant, PTL DEF Spec

(* A record that has reached a terminal status never changes again, in any *)
(* of its fields.                                                          *)
TerminalIsFinal ==
    [][\A s \in DOMAIN ledger : IsTerminal(ledger[s]) =>
          s \in DOMAIN ledger' /\ ledger'[s] = ledger[s]]_vars

(* Terminal records of the audit file are never changed or lost, in any    *)
(* step of the node or of the world around it (SpendLog).                  *)
THEOREM TerminalRecordsStay == Spec => TerminalIsFinal
<1>1. LifecycleInv /\ [Next]_vars =>
        [\A s \in DOMAIN ledger : IsTerminal(ledger[s]) =>
           s \in DOMAIN ledger' /\ ledger'[s] = ledger[s]]_vars
  BY RecordStep DEF LifecycleInv, IsTerminal, MayHaveReached
<1> QED
  BY <1>1, LifecycleInvariant, PTL DEF Spec, TerminalIsFinal

(* Collateral of the current epoch is not taken back from a capsule that   *)
(* this process has seen at every look for the settling window, unless a   *)
(* URL reconcile directs it (PresenceTracker::observe, decide).            *)
THEOREM HeldCopyKept == Spec => HeldCopyNotReclaimed
<1>1. ASSUME LifecycleInv, [Next]_vars, NEW c \in pass'.reclaims \ pass.reclaims,
             EpochOf(c) = pass.epoch, pass.mode # "disabled", c \notin pass'.stale,
             BondOf(c) \in DOMAIN steady
      PROVE  pass.at - steady[BondOf(c)] < Window
  <2>0. PassInv /\ SteadyInv
    BY <1>1 DEF LifecycleInv
  <2>1. Decide
    <3>1. Looks => pass'.reclaims \subseteq pass.reclaims
      BY <2>0, PassStarts, PassObserves DEF Looks
    <3>2. ASSUME NEW d, BeginReclaim(d) \/ BeginCreate(d)
          PROVE  pass'.reclaims \subseteq pass.reclaims
      BY <2>0, <3>2, PassBegins
    <3>3. Writes \/ Sends \/ StopCreates => pass'.reclaims = pass.reclaims
      BY <2>0, PassGoesOn, PassSubmits DEF Writes, Sends
    <3>4. Ends => pass'.reclaims = {}
      BY IdlePass DEF Ends, AbortPass, EndPass, Killed
    <3> QED
      BY <1>1, <3>1, <3>2, <3>3, <3>4, Steps, WorldKeepsPass DEF Begins
  <2>2. pass.pc = "observed" /\ c \in ToReclaim
    BY <1>1, <2>0, <2>1, PassDecides
  <2>3. BondOf(c) \notin pass.held
    <3>1. EpochOf(c) < pass.epoch \/ BondOf(c) \notin Desired
      BY <2>2 DEF ToReclaim
    <3>2. ~ (EpochOf(c) < pass.epoch)
      BY <1>1, <2>0, <2>2 DEF SteadyInv
    <3> QED
      BY <1>1, <3>1, <3>2 DEF Desired
  <2> QED
    BY <1>1, <2>0, <2>2, <2>3, MirrorConstants DEF SteadyInv
<1>2. LifecycleInv /\ [Next]_vars =>
        [\A c \in pass.reclaims' \ pass.reclaims :
          (/\ EpochOf(c) = pass.epoch /\ pass.mode # "disabled"
           /\ c \notin pass.stale' /\ BondOf(c) \in DOMAIN steady)
             => pass.at - steady[BondOf(c)] < Window]_vars
  BY <1>1
<1> QED
  BY <1>2, LifecycleInvariant, PTL DEF Spec, HeldCopyNotReclaimed
=============================================================================
