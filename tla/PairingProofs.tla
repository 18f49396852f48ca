--------------------------- MODULE PairingProofs ---------------------------
(***************************************************************************)
(* Proofs about controller pairing, for any number of pairings, requests   *)
(* and revocations.                                                        *)
(***************************************************************************)
EXTENDS Pairing, FiniteSetTheorems, TLAPS

LEMMA KeptSubset == \A S : Kept(S) \subseteq S
  BY DEF Kept

LEMMA EmptyPending ==
  LET none == [p \in {} |-> [created |-> 0, approved |-> FALSE]]
  IN  DOMAIN none = {} /\ none \in [{} -> [created : 0 .. MaxTime, approved : BOOLEAN]]
  OBVIOUS

(* What a handler that only sweeps or removes does to the map.             *)
LEMMA KeepOnlyType ==
  ASSUME TypeOK, NEW S, S \subseteq DOMAIN pending, KeepOnly(S)
  PROVE  /\ DOMAIN pending' = S
         /\ \A p \in S : pending'[p] = pending[p]
         /\ pending' \in [S -> [created : 0 .. MaxTime, approved : BOOLEAN]]
  BY DEF KeepOnly, TypeOK

LEMMA RequestEffect ==
  ASSUME TypeOK, NEW p \in Ids, Request(p)
  PROVE  /\ DOMAIN pending' \subseteq DOMAIN pending \cup {p}
         /\ \A q \in DOMAIN pending' \ {p} : pending'[q] = pending[q]
         /\ pending'[p] = [created |-> now, approved |-> FALSE]
         /\ pending' \in [DOMAIN pending' -> [created : 0 .. MaxTime, approved : BOOLEAN]]
<1>1. PICK gone : pending' = [q \in (Kept(DOMAIN pending) \ gone) \cup {p} |->
                     IF q = p THEN [created |-> now, approved |-> FALSE] ELSE pending[q]]
  BY DEF Request
<1> QED
  BY <1>1, KeptSubset DEF TypeOK

LEMMA InitType == Init => TypeOK
<1> SUFFICES ASSUME Init PROVE TypeOK
  OBVIOUS
<1>1. pending \in [DOMAIN pending -> [created : 0 .. MaxTime, approved : BOOLEAN]]
      /\ DOMAIN pending \subseteq Ids
  BY EmptyPending DEF Init
<1> QED
  BY <1>1, PairingConstants DEF Init, TypeOK, NoRevocation

LEMMA NextType == TypeOK /\ [Next]_vars => TypeOK'
<1> SUFFICES ASSUME TypeOK, [Next]_vars PROVE TypeOK'
  OBVIOUS
<1>1. ASSUME NEW p \in Ids, Request(p) PROVE TypeOK'
  <2>1. DOMAIN pending' \subseteq Ids
        /\ pending' \in [DOMAIN pending' -> [created : 0 .. MaxTime, approved : BOOLEAN]]
    BY <1>1, RequestEffect DEF TypeOK
  <2> QED
    BY <1>1, <2>1 DEF Request, TypeOK
<1>2. ASSUME NEW p \in Ids, PollApproved(p) PROVE TypeOK'
  <2>1. DOMAIN pending' \subseteq Ids
        /\ pending' \in [DOMAIN pending' -> [created : 0 .. MaxTime, approved : BOOLEAN]]
    BY <1>2, KeptSubset, KeepOnlyType DEF PollApproved, Collect, TypeOK
  <2> QED
    BY <1>2, <2>1 DEF PollApproved, TypeOK
<1>3. CASE PollOtherOrList
  <2>1. DOMAIN pending' \subseteq Ids
        /\ pending' \in [DOMAIN pending' -> [created : 0 .. MaxTime, approved : BOOLEAN]]
    BY <1>3, KeptSubset, KeepOnlyType DEF PollOtherOrList, TypeOK
  <2> QED
    BY <1>3, <2>1 DEF PollOtherOrList, TypeOK, history
<1>4. ASSUME NEW p \in Ids, ApproveLoads(p) PROVE TypeOK'
  <2>1. DOMAIN pending' \subseteq Ids
        /\ pending' \in [DOMAIN pending' -> [created : 0 .. MaxTime, approved : BOOLEAN]]
    BY <1>4, KeptSubset, KeepOnlyType DEF ApproveLoads, TypeOK
  <2> QED
    BY <1>4, <2>1 DEF ApproveLoads, TypeOK, history
<1>5. CASE ApproveSaves
  <2>1. PICK a \in approving :
          /\ file' = a.loaded \cup {a.pairing}
          /\ pending' = [pending EXCEPT ![a.pairing].approved = TRUE]
    BY <1>5 DEF ApproveSaves, ApproveWrites
  <2>2. DOMAIN pending' = DOMAIN pending
        /\ pending' \in [DOMAIN pending -> [created : 0 .. MaxTime, approved : BOOLEAN]]
    BY <2>1 DEF TypeOK
  <2> QED
    BY <1>5, <2>1, <2>2 DEF ApproveSaves, TypeOK, history
<1>6. CASE ApproveSaveFails
  BY <1>6 DEF ApproveSaveFails, TypeOK, history
<1>7. ASSUME NEW r \in Revokers, NEW p \in Ids, RevokeLoads(r, p) PROVE TypeOK'
  BY <1>7 DEF RevokeLoads, TypeOK, history
<1>8. ASSUME NEW r \in Revokers, RevokeSaves(r) PROVE TypeOK'
  BY <1>8 DEF RevokeSaves, RevokeWrites, TypeOK, NoRevocation
<1>9. ASSUME NEW r \in Revokers, RevokeSaveFails(r) PROVE TypeOK'
  BY <1>9 DEF RevokeSaveFails, TypeOK, NoRevocation, history
<1>10. CASE Crash
  <2>1. DOMAIN pending' \subseteq Ids
        /\ pending' \in [DOMAIN pending' -> [created : 0 .. MaxTime, approved : BOOLEAN]]
    BY <1>10, EmptyPending DEF Crash
  <2> QED
    BY <1>10, <2>1 DEF Crash, TypeOK, NoRevocation
<1>11. CASE Tick
  BY <1>11, PairingConstants DEF Tick, TypeOK, process, history
<1>12. CASE UNCHANGED vars
  BY <1>12 DEF TypeOK, vars, process, history
<1> QED
  BY <1>1, <1>2, <1>3, <1>4, <1>5, <1>6, <1>7, <1>8, <1>9, <1>10, <1>11, <1>12
     DEF Next, Client, Admin

(* Type correctness of the pairing state under every interleaving.         *)
THEOREM PairingTypeCorrect == Spec => []TypeOK
  BY InitType, NextType, PTL DEF Spec

----------------------------------------------------------------------------
LEMMA SerialInit == Init => SerialInv
  BY EmptyPending
     DEF Init, SerialInv, CollectedOnce, RevokedIsRejected, CollectedIsAccepted

(* A step that only removes entries from the map keeps the invariant.      *)
LEMMA SweepKeeps ==
  ASSUME TypeOK, SerialInv, NEW S, S \subseteq DOMAIN pending, KeepOnly(S),
         approving = {}, approving' = {}, UNCHANGED <<file, revoking, drawn, revoked>>,
         collected' = collected \/ (\E p \in DOMAIN pending \ S :
                                       pending[p].approved /\ collected' = collected \cup {p})
  PROVE  SerialInv'
<1>1. DOMAIN pending' = S /\ \A p \in S : pending'[p] = pending[p]
  BY KeepOnlyType
<1>2. collected' \subseteq file \cup revoked /\ collected' \subseteq drawn
      /\ \A p \in collected' : p \notin S
  BY DEF SerialInv, CollectedOnce, CollectedIsAccepted
<1> QED
  BY <1>1, <1>2 DEF SerialInv, CollectedOnce, RevokedIsRejected, CollectedIsAccepted

LEMMA SerialNext == SerialAdmin /\ TypeOK /\ SerialInv /\ [Next]_vars => SerialInv'
<1> SUFFICES ASSUME SerialAdmin, TypeOK, SerialInv, [Next]_vars PROVE SerialInv'
  OBVIOUS
<1> USE DEF CollectedOnce, RevokedIsRejected, CollectedIsAccepted
<1>1. ASSUME NEW p \in Ids, Request(p) PROVE SerialInv'
  <2>1. p \notin drawn /\ drawn' = drawn \cup {p} /\ approving = {} /\ approving' = {}
        /\ UNCHANGED <<file, revoking, collected, revoked>>
    BY <1>1 DEF Request, MutexFree
  <2> QED
    BY <1>1, <2>1, RequestEffect DEF SerialInv
<1>2. ASSUME NEW p \in Ids, PollApproved(p) PROVE SerialInv'
  <2>1. Kept(DOMAIN pending) \ {p} \subseteq DOMAIN pending
    BY KeptSubset
  <2> QED
    BY <1>2, <2>1, SweepKeeps DEF PollApproved, Collect, MutexFree
<1>3. CASE PollOtherOrList
  BY <1>3, KeptSubset, SweepKeeps DEF PollOtherOrList, MutexFree, history
<1>4. ASSUME NEW p \in Ids, ApproveLoads(p) PROVE SerialInv'
  <2>1. DOMAIN pending' = Kept(DOMAIN pending)
        /\ \A q \in Kept(DOMAIN pending) : pending'[q] = pending[q]
    BY <1>4, KeptSubset, KeepOnlyType DEF ApproveLoads
  <2>2. /\ approving' = {[pairing |-> p, loaded |-> file]}
        /\ p \in Kept(DOMAIN pending) /\ ~ pending[p].approved
        /\ \A r \in Revokers : revoking[r] = NoRevocation
        /\ UNCHANGED <<file, revoking, drawn, collected, revoked>>
    BY <1>4 DEF ApproveLoads, AdminIdle, history
  <2> QED
    BY <2>1, <2>2, KeptSubset DEF SerialInv
<1>5. CASE ApproveSaves
  <2>1. PICK a \in approving :
          /\ file' = a.loaded \cup {a.pairing}
          /\ pending' = [pending EXCEPT ![a.pairing].approved = TRUE]
    BY <1>5 DEF ApproveSaves, ApproveWrites
  <2>2. /\ DOMAIN pending' = DOMAIN pending
        /\ pending'[a.pairing].approved
        /\ \A q \in DOMAIN pending \ {a.pairing} : pending'[q] = pending[q]
    BY <2>1 DEF TypeOK, SerialInv
  <2>3. /\ a.loaded = file /\ a.pairing \in DOMAIN pending
        /\ a.pairing \notin file \cup revoked /\ a.pairing \notin collected
        /\ \A r \in Revokers : revoking[r] = NoRevocation
        /\ approving' = {} /\ UNCHANGED <<revoking, drawn, collected, revoked>>
    BY <1>5 DEF ApproveSaves, SerialInv, history
  <2> QED
    BY <2>1, <2>2, <2>3 DEF SerialInv
<1>6. CASE ApproveSaveFails
  BY <1>6 DEF ApproveSaveFails, SerialInv, history
<1>7. ASSUME NEW r \in Revokers, NEW p \in Ids, RevokeLoads(r, p) PROVE SerialInv'
  BY <1>7 DEF RevokeLoads, AdminIdle, SerialInv, TypeOK, history
<1>8. ASSUME NEW r \in Revokers, RevokeSaves(r) PROVE SerialInv'
  <2>1. /\ approving = {}
        /\ revoking[r].loaded = file
        /\ \A q \in Revokers \ {r} : revoking[q] = NoRevocation
        /\ file' = file \ {revoking[r].token}
        /\ revoked' = revoked \cup {revoking[r].token}
    BY <1>8 DEF RevokeSaves, RevokeWrites, SerialInv
  <2>2. \A q \in Revokers : revoking'[q] = NoRevocation
    BY <1>8, <2>1 DEF RevokeSaves, TypeOK
  <2>3. revoking[r].token \in file
    BY <1>8 DEF RevokeSaves, SerialInv
  <2> QED
    BY <1>8, <2>1, <2>2, <2>3 DEF RevokeSaves, SerialInv
<1>9. ASSUME NEW r \in Revokers, RevokeSaveFails(r) PROVE SerialInv'
  <2>1. \A q \in Revokers : revoking'[q] \in {revoking[q], NoRevocation}
    BY <1>9 DEF RevokeSaveFails, TypeOK
  <2> QED
    BY <1>9, <2>1 DEF RevokeSaveFails, SerialInv, history
<1>10. CASE Crash
  <2>1. DOMAIN pending' = {}
    BY <1>10, EmptyPending DEF Crash
  <2> QED
    BY <1>10, <2>1 DEF Crash, SerialInv
<1>11. CASE Tick \/ UNCHANGED vars
  BY <1>11 DEF Tick, SerialInv, vars, process, history
<1> QED
  BY <1>1, <1>2, <1>3, <1>4, <1>5, <1>6, <1>7, <1>8, <1>9, <1>10, <1>11
     DEF Next, Client, Admin

(* With one admin call at a time, a revoked token is never accepted again, *)
(* whatever crashes, failed saves and approvals happen around it.          *)
THEOREM SerialRevocation == SerialAdmin => (Spec => []RevokedIsRejected)
<1> SUFFICES ASSUME SerialAdmin PROVE Spec => []RevokedIsRejected
  OBVIOUS
<1>1. TypeOK /\ SerialInv /\ [Next]_vars => SerialInv'
  BY SerialNext
<1>2. SerialInv => RevokedIsRejected
  BY DEF SerialInv
<1> QED
  BY SerialInit, <1>1, <1>2, PairingTypeCorrect, PTL DEF Spec

(* And under the same assumption a collected token works until it is       *)
(* revoked: no approval or other revocation makes it disappear.            *)
THEOREM SerialAcceptance == SerialAdmin => (Spec => []CollectedIsAccepted)
<1> SUFFICES ASSUME SerialAdmin PROVE Spec => []CollectedIsAccepted
  OBVIOUS
<1>1. TypeOK /\ SerialInv /\ [Next]_vars => SerialInv'
  BY SerialNext
<1>2. SerialInv => CollectedIsAccepted
  BY DEF SerialInv
<1> QED
  BY SerialInit, <1>1, <1>2, PairingTypeCorrect, PTL DEF Spec

----------------------------------------------------------------------------
(* What holds whether or not admin calls are serial.                       *)

(* An id in the map, or handed out, was drawn, and what was handed out has *)
(* left the map.                                                           *)
DrawnInv == DOMAIN pending \cup collected \subseteq drawn /\ CollectedOnce

LEMMA DrawnStep == TypeOK /\ DrawnInv /\ [Next]_vars => DrawnInv'
<1> SUFFICES ASSUME TypeOK, DrawnInv, [Next]_vars PROVE DrawnInv'
  OBVIOUS
<1> USE DEF DrawnInv, CollectedOnce
<1>1. ASSUME NEW p \in Ids, Request(p) PROVE DrawnInv'
  BY <1>1, RequestEffect DEF Request
<1>2. ASSUME NEW p \in Ids, PollApproved(p) PROVE DrawnInv'
  <2>1. DOMAIN pending' = Kept(DOMAIN pending) \ {p}
    BY <1>2, KeptSubset, KeepOnlyType DEF PollApproved, Collect
  <2> QED
    BY <1>2, <2>1, KeptSubset DEF PollApproved
<1>3. CASE PollOtherOrList \/ \E p \in Ids : ApproveLoads(p)
  <2>1. DOMAIN pending' = Kept(DOMAIN pending)
    BY <1>3, KeptSubset, KeepOnlyType DEF PollOtherOrList, ApproveLoads
  <2> QED
    BY <1>3, <2>1, KeptSubset DEF PollOtherOrList, ApproveLoads, history
<1>4. CASE ApproveSaves
  <2>1. DOMAIN pending' = DOMAIN pending
    BY <1>4 DEF ApproveSaves
  <2> QED
    BY <1>4, <2>1 DEF ApproveSaves, history
<1>5. CASE \/ ApproveSaveFails \/ Tick \/ UNCHANGED vars
           \/ \E r \in Revokers : RevokeSaves(r) \/ RevokeSaveFails(r)
           \/ \E r \in Revokers, p \in Ids : RevokeLoads(r, p)
  BY <1>5 DEF ApproveSaveFails, Tick, vars, RevokeSaves, RevokeSaveFails, RevokeLoads,
              process, history
<1>6. CASE Crash
  <2>1. DOMAIN pending' = {}
    BY <1>6, EmptyPending DEF Crash
  <2> QED
    BY <1>6, <2>1 DEF Crash
<1> QED
  BY <1>1, <1>2, <1>3, <1>4, <1>5, <1>6 DEF Next, Client, Admin

(* poll: a token is handed out once, by whatever interleaving of polls,    *)
(* approvals and revocations, because an id is drawn once and leaves the   *)
(* map with its answer.                                                    *)
THEOREM TokenCollectedOnce == Spec => []CollectedOnce
<1>1. Init => DrawnInv
  BY EmptyPending DEF Init, DrawnInv, CollectedOnce
<1>2. DrawnInv => CollectedOnce
  BY DEF DrawnInv
<1> QED
  BY <1>1, <1>2, DrawnStep, PairingTypeCorrect, PTL DEF Spec

(* Nobody approved is evicted or swept.                                    *)
LEMMA RequestSpares ==
  ASSUME TypeOK, NEW p \in Ids, Request(p), NEW q \in DOMAIN pending, pending[q].approved
  PROVE  q \in DOMAIN pending'
<1>1. PICK gone \in Evicted(Kept(DOMAIN pending)) :
        DOMAIN pending' = (Kept(DOMAIN pending) \ gone) \cup {p}
  BY DEF Request
<1>2. q \in Kept(DOMAIN pending)
  BY DEF Kept
<1>3. q \notin gone
  BY <1>1 DEF Evicted, EvictionChoices
<1> QED
  BY <1>1, <1>2, <1>3

(* request and prune: a minted token that waits for its extension leaves   *)
(* the map by being collected, or with the process.                        *)
THEOREM MintedNotDropped == Spec => ApprovedNotDropped
<1>1. ASSUME TypeOK, [Next]_vars, NEW q \in DOMAIN pending,
             pending[q].approved, q \notin DOMAIN pending'
      PROVE  q \in collected' \cup orphaned'
  <2> USE <1>1
  <2>1. ASSUME NEW p \in Ids, Request(p) PROVE FALSE
    BY <2>1, RequestSpares
  <2>2. ASSUME NEW p \in Ids, PollApproved(p) PROVE q \in collected'
    <3>1. DOMAIN pending' = Kept(DOMAIN pending) \ {p}
      BY <2>2, KeptSubset, KeepOnlyType DEF PollApproved, Collect
    <3> QED
      BY <2>2, <3>1 DEF PollApproved, Kept
  <2>3. CASE PollOtherOrList \/ \E p \in Ids : ApproveLoads(p)
    <3>1. DOMAIN pending' = Kept(DOMAIN pending)
      BY <2>3, KeptSubset, KeepOnlyType DEF PollOtherOrList, ApproveLoads
    <3> QED
      BY <3>1 DEF Kept
  <2>4. CASE ApproveSaves
    BY <2>4 DEF ApproveSaves
  <2>5. CASE \/ ApproveSaveFails \/ Tick \/ UNCHANGED vars
             \/ \E r \in Revokers : RevokeSaves(r) \/ RevokeSaveFails(r)
             \/ \E r \in Revokers, p \in Ids : RevokeLoads(r, p)
    BY <2>5 DEF ApproveSaveFails, Tick, vars, RevokeSaves, RevokeSaveFails, RevokeLoads,
                process, history
  <2>6. CASE Crash
    BY <2>6 DEF Crash
  <2> QED
    BY <2>1, <2>2, <2>3, <2>4, <2>5, <2>6 DEF Next, Client, Admin
<1>2. TypeOK /\ [Next]_vars =>
        [\A p \in DOMAIN pending : (pending[p].approved /\ p \notin DOMAIN pending')
             => p \in collected' \cup orphaned']_vars
  BY <1>1
<1> QED
  BY <1>2, PairingTypeCorrect, PTL DEF Spec, ApprovedNotDropped

----------------------------------------------------------------------------
(* The cap on the map.                                                     *)
Unapproved(S) == {p \in S : ~ pending[p].approved}

(* A set of numbers that is not empty has a least one.                     *)
LEMMA LeastNumber ==
  ASSUME NEW T, T \subseteq Nat, T # {}
  PROVE  \E x \in T : \A y \in T : x <= y
<1>1. PICK R : R = OpToRel(<, Nat)
  OBVIOUS
<1>2. \E x \in T : \A y \in T : ~ (<<y, x>> \in R)
  BY <1>1, NatLessThanWellFounded, WFMin
<1>3. \A x, y \in Nat : y < x => <<y, x>> \in R
  BY <1>1 DEF OpToRel
<1>4. \A x, y \in Nat : ~ (y < x) => x <= y
  OBVIOUS
<1>5. \A x, y \in T : ~ (<<y, x>> \in R) => x <= y
  BY <1>3, <1>4, Zenon
<1> QED
  BY <1>2, <1>5, Zenon

(* Where there is an unapproved entry, one of them is the oldest.          *)
LEMMA OldestExists ==
  ASSUME TypeOK, NEW S, S \subseteq DOMAIN pending, Unapproved(S) # {}
  PROVE  EvictionChoices(S) # {}
<1> DEFINE T == {pending[p].created : p \in Unapproved(S)}
<1>1. \A p \in DOMAIN pending : pending[p].created \in Nat
  BY PairingConstants DEF TypeOK
<1>2. T \subseteq Nat /\ T # {}
  BY <1>1 DEF Unapproved
<1>3. PICK x \in T : \A y \in T : x <= y
  <2> HIDE DEF T
  <2> QED
    BY <1>2, LeastNumber
<1>4. PICK p \in Unapproved(S) : pending[p].created = x
  BY <1>3
<1>5. p \in EvictionChoices(S)
  BY <1>3, <1>4 DEF EvictionChoices, Unapproved
<1> QED
  BY <1>5

LEMMA PendingFinite ==
  ASSUME TypeOK, NEW S, S \subseteq DOMAIN pending
  PROVE  /\ IsFiniteSet(S) /\ Cardinality(S) \in Nat
         /\ \A R : R \subseteq S => IsFiniteSet(R) /\ Cardinality(R) \in Nat
                                    /\ Cardinality(R) <= Cardinality(S)
<1>1. IsFiniteSet(S)
  BY PairingConstants, FS_Subset DEF TypeOK
<1> QED
  BY <1>1, FS_Subset, FS_CardinalityType

(* A map that lost entries, or whose entries were approved, is no fuller.  *)
LEMMA FewerUnapproved ==
  ASSUME TypeOK, UnapprovedBounded, DOMAIN pending' \subseteq DOMAIN pending,
         \A q \in DOMAIN pending' : ~ pending'[q].approved => ~ pending[q].approved
  PROVE  UnapprovedBounded'
<1> DEFINE U == {p \in DOMAIN pending : ~ pending[p].approved}
           V == {p \in DOMAIN pending' : ~ pending'[p].approved}
<1>1. V \subseteq U /\ U \subseteq DOMAIN pending
  OBVIOUS
<1>2. Cardinality(V) \in Nat /\ Cardinality(U) \in Nat /\ Cardinality(V) <= Cardinality(U)
  <2> HIDE DEF U, V
  <2> QED
    BY <1>1, PendingFinite
<1>3. Cardinality(U) <= MaxPending
  BY DEF UnapprovedBounded
<1>4. Cardinality(V) <= MaxPending
  <2> HIDE DEF U, V
  <2> QED
    BY <1>2, <1>3, PairingConstants
<1> QED
  BY <1>4 DEF UnapprovedBounded

LEMMA RequestBounded ==
  ASSUME TypeOK, DrawnInv, UnapprovedBounded, NEW p \in Ids, Request(p)
  PROVE  UnapprovedBounded'
<1> DEFINE K == Kept(DOMAIN pending)
           U == Unapproved(K)
           W == {q \in DOMAIN pending : ~ pending[q].approved}
           V == {q \in DOMAIN pending' : ~ pending'[q].approved}
<1>1. PICK gone \in Evicted(K) :
        pending' = [q \in (K \ gone) \cup {p} |->
                      IF q = p THEN [created |-> now, approved |-> FALSE] ELSE pending[q]]
  BY DEF Request
<1>2. p \notin DOMAIN pending /\ K \subseteq DOMAIN pending /\ U \subseteq W
  BY KeptSubset DEF Request, DrawnInv, Unapproved
<1>3. V = (U \ gone) \cup {p}
  BY <1>1, <1>2 DEF Unapproved
<1> HIDE DEF V
<1>4. Cardinality(W) <= MaxPending
  BY DEF UnapprovedBounded
<1>5. /\ IsFiniteSet(K) /\ IsFiniteSet(U) /\ IsFiniteSet(U \ gone)
      /\ Cardinality(K) \in Nat /\ Cardinality(U) \in Nat /\ Cardinality(W) \in Nat
      /\ Cardinality(U \ gone) \in Nat
      /\ Cardinality(U) <= Cardinality(K) /\ Cardinality(U) <= Cardinality(W)
      /\ Cardinality(U \ gone) <= Cardinality(U)
  <2>1. U \subseteq K /\ U \ gone \subseteq U /\ W \subseteq DOMAIN pending
    BY DEF Unapproved
  <2> HIDE DEF K, U, W
  <2> QED
    BY <1>2, <2>1, PendingFinite
<1>6. Cardinality(V) <= Cardinality(U \ gone) + 1 /\ Cardinality(V) \in Nat
  <2> DEFINE R == U \ gone
  <2>1. IsFiniteSet(R) /\ Cardinality(R) \in Nat /\ V = R \cup {p}
    BY <1>3, <1>5
  <2> HIDE DEF R
  <2>2. Cardinality(R \cup {p}) = IF p \in R THEN Cardinality(R) ELSE Cardinality(R) + 1
    BY <2>1, FS_AddElement
  <2>3. Cardinality(V) <= Cardinality(R) + 1 /\ Cardinality(V) \in Nat
    BY <2>1, <2>2
  <2> QED
    BY <2>3 DEF R
<1>7. Cardinality(U \ gone) + 1 <= MaxPending
  <2>1. CASE Cardinality(K) < MaxPending
    <3> HIDE DEF K, U
    <3> QED
      BY <1>5, <2>1, PairingConstants
  <2>2. CASE Cardinality(K) >= MaxPending /\ U = {}
    <3>1. U \ gone = {}
      BY <2>2
    <3> HIDE DEF U
    <3> QED
      BY <3>1, FS_EmptySet, PairingConstants
  <2>3. CASE Cardinality(K) >= MaxPending /\ U # {}
    <3>1. EvictionChoices(K) # {}
      BY <1>2, <2>3, OldestExists
    <3>2. PICK e \in EvictionChoices(K) : gone = {e}
      BY <1>1, <2>3, <3>1 DEF Evicted
    <3>3. e \in U
      BY <3>2 DEF EvictionChoices, Unapproved
    <3>4. Cardinality(U \ gone) = Cardinality(U) - 1
      <4> HIDE DEF U
      <4> QED
        BY <1>5, <3>2, <3>3, FS_RemoveElement
    <3> HIDE DEF U, W
    <3> QED
      BY <1>4, <1>5, <3>4, PairingConstants
  <2> HIDE DEF K, U
  <2> QED
    BY <1>5, <2>1, <2>2, <2>3, PairingConstants
<1>8. Cardinality(V) <= MaxPending
  <2> HIDE DEF U
  <2> QED
    BY <1>5, <1>6, <1>7, PairingConstants
<1> QED
  BY <1>8 DEF UnapprovedBounded, V

(* request: a flood of requests never leaves more unapproved entries than  *)
(* MAX_PENDING, because at the cap there is an oldest one to evict.        *)
THEOREM FloodBounded == Spec => []UnapprovedBounded
<1>1. Init => DrawnInv /\ UnapprovedBounded
  <2> SUFFICES ASSUME Init PROVE DrawnInv /\ UnapprovedBounded
    OBVIOUS
  <2>1. {p \in DOMAIN pending : ~ pending[p].approved} = {}
    BY EmptyPending DEF Init
  <2> QED
    BY <2>1, EmptyPending, FS_EmptySet, PairingConstants
       DEF Init, DrawnInv, CollectedOnce, UnapprovedBounded
<1>2. ASSUME TypeOK, DrawnInv, UnapprovedBounded, [Next]_vars
      PROVE  UnapprovedBounded'
  <2> USE <1>2
  <2>1. ASSUME NEW p \in Ids, Request(p) PROVE UnapprovedBounded'
    BY <2>1, RequestBounded
  <2>2. CASE \/ PollOtherOrList
             \/ \E p \in Ids : PollApproved(p) \/ ApproveLoads(p)
    <3>1. PICK S \in SUBSET DOMAIN pending : KeepOnly(S)
      BY <2>2, KeptSubset DEF PollOtherOrList, PollApproved, Collect, ApproveLoads
    <3> QED
      BY <3>1, KeepOnlyType, FewerUnapproved
  <2>3. CASE ApproveSaves
    <3>1. PICK a \in approving : pending' = [pending EXCEPT ![a.pairing].approved = TRUE]
      BY <2>3 DEF ApproveSaves
    <3>2. /\ DOMAIN pending' = DOMAIN pending
          /\ \A q \in DOMAIN pending : ~ pending'[q].approved => ~ pending[q].approved
      BY <3>1 DEF TypeOK
    <3> QED
      BY <3>2, FewerUnapproved
  <2>4. CASE \/ ApproveSaveFails \/ Tick \/ UNCHANGED vars
             \/ \E r \in Revokers : RevokeSaves(r) \/ RevokeSaveFails(r)
             \/ \E r \in Revokers, p \in Ids : RevokeLoads(r, p)
    BY <2>4 DEF ApproveSaveFails, Tick, vars, RevokeSaves, RevokeSaveFails, RevokeLoads,
                process, history, UnapprovedBounded
  <2>5. CASE Crash
    <3>1. DOMAIN pending' = {}
      BY <2>5, EmptyPending DEF Crash
    <3> QED
      BY <3>1, FewerUnapproved
  <2> QED
    BY <2>1, <2>2, <2>3, <2>4, <2>5 DEF Next, Client, Admin
<1> QED
  BY <1>1, <1>2, DrawnStep, PairingTypeCorrect, PTL DEF Spec
=============================================================================
