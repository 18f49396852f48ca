-------------------------- MODULE CoinHoldsProofs --------------------------
(***************************************************************************)
(* Proofs about CoinHolds, for any coins, bundles, lifetimes and caps, any *)
(* number of calls in progress and any settings of the wall clock.         *)
(*                                                                         *)
(* HoldBound is not inductive: a re-push may move a deadline up to one cap *)
(* past the row's anchor, so it is the anchor that has to stay within a    *)
(* cap less a lifetime of every instant observed (RowsBounded).            *)
(*                                                                         *)
(* NotLapsedEarly rests on the readings of the governor: of two readings   *)
(* taken in one process the later gained no more than the monotonic clock  *)
(* did (Gained).  A reading is kept by the call that took it, then by the  *)
(* row or lease it dated, so the invariant relates all of those to each    *)
(* other and to the governor (ReadingsAgree).                              *)
(***************************************************************************)
EXTENDS CoinHolds, TLAPS

RowsBounded ==
    \A b \in pending :
        /\ row[b].submitted + TTL <= row[b].expires
        /\ row[b].expires <= row[b].submitted + CAP
        /\ row[b].submitted <= floor[b] + CAP - TTL

CallShape ==
    \A k \in Calls :
        /\ call[k].pc = "prune" => call[k].op # "none"
        /\ call[k].pc \in {"push", "reserve"} => call[k].bundle \in Bundles

(* The reading y, if it was taken after x, gained no more than the         *)
(* monotonic clock.                                                        *)
Gained(x, y) == x.at < y.at => y.now - x.now <= y.at - x.at

(* The same against the governor's last reading.                           *)
Known(x) == x.at <= gov.at /\ gov.ms - x.now <= gov.at - x.at

Read(k) == call[k].pc \notin {"idle", "push"}

ReadingsAgree ==
    /\ gov.at <= real
    /\ \A k \in Calls : Read(k) => Known(call[k])
    /\ \A k, m \in Calls : Read(k) /\ Read(m) => Gained(call[k], call[m])
    /\ \A b \in pending : anchor[b].at # Past =>
          /\ anchor[b].now = row[b].submitted
          /\ Known(anchor[b])
          /\ \A k \in Calls : Read(k) => Gained(anchor[b], call[k])
    /\ \A c \in Leased : leaseAnchor[c].at # Past =>
          /\ Known(leaseAnchor[c])
          /\ \A k \in Calls : Read(k) => Gained(leaseAnchor[c], call[k])

HoldInv == RowsBounded /\ ClaimsHaveRows /\ CallShape

----------------------------------------------------------------------------
(* Types.                                                                  *)
LEMMA NoneTypes ==
  /\ NoRow \in Rows /\ NoLease \in LeaseRows /\ NoAnchor \in Anchors
  /\ NoCall \in CallStates
  BY DEF NoRow, Rows, NoLease, LeaseRows, NoAnchor, Anchors, Past, NoCall,
         CallStates

LEMMA TypeInit == Init => TypeOK
  BY NoneTypes, HoldConstants DEF Init, TypeOK

LEMMA ReadingType == TypeOK => Reading \in Int
  BY DEF TypeOK, Reading, Lesser

(* A change of one call's state by another of the right type.              *)
LEMMA CallBecomes ==
  ASSUME TypeOK, NEW k \in Calls, NEW q \in CallStates,
         call' = [call EXCEPT ![k] = q]
  PROVE  call' \in [Calls -> CallStates]
  BY DEF TypeOK

LEMMA TypeStep == TypeOK /\ CallShape /\ [Next]_vars => TypeOK'
<1> SUFFICES ASSUME TypeOK, CallShape, [Next]_vars PROVE TypeOK'
  OBVIOUS
<1> USE DEF clocks, holds, history
<1>1. CASE Tick
  BY <1>1 DEF Tick, TypeOK
<1>2. CASE SetWall
  BY <1>2, HoldConstants DEF SetWall, TypeOK
<1>3. CASE ReplicaTold
  BY <1>3 DEF ReplicaTold, TypeOK
<1>4. CASE Restart
  <2>1. anchor' \in [Bundles -> Anchors] /\ leaseAnchor' \in [Coins -> Anchors]
    BY <1>4 DEF Restart, TypeOK, Anchors
  <2> QED
    BY <1>4, <2>1, NoneTypes DEF Restart, TypeOK
<1>5. ASSUME NEW id \in Leases, Release(id) PROVE TypeOK'
  BY <1>5, NoneTypes DEF Release, TypeOK
<1>6. ASSUME NEW k \in Calls, CallStep(k) PROVE TypeOK'
  <2>1. ASSUME NEW op \in {"select", "lease", "reset"}, Begin(k, op)
        PROVE  TypeOK'
    <3>1. [NoCall EXCEPT !.pc = "prune", !.op = op, !.now = Reading,
                         !.at = real] \in CallStates
      BY ReadingType DEF NoCall, CallStates, TypeOK
    <3>2. gov' \in [ms : Int, at : Nat]
      BY <2>1, ReadingType DEF Begin, ReadClock, TypeOK
    <3> QED
      BY <2>1, <3>1, <3>2, CallBecomes DEF Begin, TypeOK
  <2>2. CASE Prune(k)
    <3>1. call[k] \in CallStates /\ call[k].op \in {"select", "lease", "reset"}
      BY <2>2 DEF TypeOK, CallStates, CallShape, Prune
    <3>2. call' \in [Calls -> CallStates]
      BY <2>2, <3>1 DEF Prune, CallStates, TypeOK
    <3>3. row' \in [Bundles -> Rows]
      BY <2>2, <3>1, NoneTypes, HoldConstants
         DEF Prune, Repaired, Rows, TypeOK, CallStates
    <3>4. claim' \in [Coins -> Bundles \cup {Free}]
      BY <2>2 DEF Prune, ClaimsOf, TypeOK
    <3>5. lease' \in [Coins -> LeaseRows]
      BY <2>2, <3>1, NoneTypes, HoldConstants
         DEF Prune, PruneLease, RepairedLease, LeaseRows, TypeOK, CallStates
    <3>6. [now |-> call[k].now, at |-> call[k].at] \in Anchors
      BY <3>1 DEF CallStates, Anchors
    <3>7. anchor' \in [Bundles -> Anchors] /\ leaseAnchor' \in [Coins -> Anchors]
      BY <2>2, <3>6, NoneTypes DEF Prune, TypeOK
    <3>8. floor' \in [Bundles -> Int]
      BY <2>2, <3>1 DEF Prune, Lesser, TypeOK, CallStates
    <3> QED
      BY <2>2, <3>2, <3>3, <3>4, <3>5, <3>7, <3>8 DEF Prune, TypeOK
  <2>3. CASE End(k)
    BY <2>3, NoneTypes, CallBecomes DEF End, TypeOK
  <2>4. CASE ReadUnspent(k)
    <3>1. [call[k] EXCEPT !.pc = "filter", !.coins = Coins \ spent] \in CallStates
      BY DEF TypeOK, CallStates
    <3> QED
      BY <2>4, <3>1, CallBecomes DEF ReadUnspent, TypeOK
  <2>5. CASE ReadReserved(k)
    <3>1. [call[k] EXCEPT !.pc = "built", !.coins = call[k].coins \ Held] \in CallStates
      BY DEF TypeOK, CallStates
    <3> QED
      BY <2>5, <3>1, CallBecomes DEF ReadReserved, TypeOK
  <2>6. ASSUME NEW id \in Leases, NEW S \in SUBSET Coins \ {{}},
               NEW ttl \in 1 .. LeaseMax, ReserveCoins(k, id, S, ttl)
        PROVE  TypeOK'
    <3>1. call[k].now \in Int /\ call[k].at \in Nat
      BY DEF TypeOK, CallStates
    <3>2. [id |-> id, expires |-> call[k].now + ttl] \in LeaseRows
      BY <3>1 DEF LeaseRows
    <3>3. lease' \in [Coins -> LeaseRows]
      BY <2>6, <3>2, NoneTypes DEF ReserveCoins, TypeOK
    <3>4. [now |-> call[k].now, at |-> call[k].at] \in Anchors
      BY <3>1 DEF Anchors
    <3>5. leaseAnchor' \in [Coins -> Anchors]
      BY <2>6, <3>4, NoneTypes DEF ReserveCoins, TypeOK
    <3> QED
      BY <2>6, <3>3, <3>5, NoneTypes, CallBecomes DEF ReserveCoins, TypeOK
  <2>7. CASE Reset(k)
    BY <2>7, NoneTypes, CallBecomes DEF Reset, TypeOK
  <2>8. ASSUME NEW b \in Bundles, PushBundle(k, b) PROVE TypeOK'
    <3>1. [NoCall EXCEPT !.pc = "push", !.bundle = b] \in CallStates
      BY NoneTypes DEF CallStates
    <3> QED
      BY <2>8, <3>1, CallBecomes DEF PushBundle, TypeOK
  <2>9. CASE Answered(k)
    <3>1. [call[k] EXCEPT !.pc = "reserve", !.now = Reading, !.at = real]
             \in CallStates
      BY ReadingType DEF TypeOK, CallStates
    <3>2. gov' \in [ms : Int, at : Nat]
      BY <2>9, ReadingType DEF Answered, ReadClock, TypeOK
    <3> QED
      BY <2>9, <3>1, <3>2, CallBecomes DEF Answered, TypeOK
  <2>10. CASE ReserveSpend(k)
    <3>1. /\ call[k].now \in Int /\ call[k].at \in Nat
          /\ call[k].bundle \in Bundles
      BY <2>10 DEF ReserveSpend, TypeOK, CallStates, CallShape
    <3>2. RepushDeadline(row[call[k].bundle], call[k].now) \in Int
      BY <3>1, HoldConstants DEF RepushDeadline, Greater, Lesser, TypeOK, Rows
    <3>3. row' \in [Bundles -> Rows]
      BY <2>10, <3>1, <3>2, HoldConstants DEF ReserveSpend, TypeOK, Rows
    <3>4. [now |-> call[k].now, at |-> call[k].at] \in Anchors
      BY <3>1 DEF Anchors
    <3>5. anchor' \in [Bundles -> Anchors] /\ floor' \in [Bundles -> Int]
      BY <2>10, <3>1, <3>4 DEF ReserveSpend, TypeOK
    <3>6. claim' \in [Coins -> Bundles \cup {Free}]
      BY <2>10, <3>1 DEF ReserveSpend, TypeOK
    <3> QED
      BY <2>10, <3>1, <3>3, <3>5, <3>6, NoneTypes, CallBecomes
         DEF ReserveSpend, TypeOK
  <2> QED
    BY <1>6, <2>1, <2>2, <2>3, <2>4, <2>5, <2>6, <2>7, <2>8, <2>9, <2>10
       DEF CallStep
<1>7. CASE UNCHANGED vars
  BY <1>7 DEF vars, TypeOK
<1> QED
  BY <1>1, <1>2, <1>3, <1>4, <1>5, <1>6, <1>7 DEF Next

----------------------------------------------------------------------------
(* Rows, claims and the shape of a call.                                   *)
LEMMA HoldInit == Init => HoldInv
  BY DEF Init, HoldInv, RowsBounded, ClaimsHaveRows, Claimed, CallShape, NoCall

(* The steps that leave the rows and claims alone.                         *)
LEMMA HoldUnchanged ==
  ASSUME RowsBounded, ClaimsHaveRows, UNCHANGED <<pending, row, claim, floor>>
  PROVE  RowsBounded' /\ ClaimsHaveRows'
  BY DEF RowsBounded, ClaimsHaveRows, Claimed

(* A surviving row is bounded from the instant it was pruned with.         *)
LEMMA HoldPrune ==
  ASSUME TypeOK, HoldInv, NEW k \in Calls, Prune(k)
  PROVE  RowsBounded' /\ ClaimsHaveRows'
<1>1. call[k].now \in Int
  BY DEF TypeOK, CallStates
<1>2. RowsBounded'
  <2> SUFFICES ASSUME NEW b \in pending'
               PROVE  /\ row'[b].submitted + TTL <= row'[b].expires
                      /\ row'[b].expires <= row'[b].submitted + CAP
                      /\ row'[b].submitted <= floor'[b] + CAP - TTL
    BY DEF RowsBounded
  <2>1. b \in pending /\ b \in Bundles
    BY DEF Prune, TypeOK
  <2>2. /\ row'[b] = Repaired(row[b], call[k].now)
        /\ floor'[b] = Lesser(floor[b], call[k].now)
    BY <2>1 DEF Prune
  <2>3. row[b] \in Rows /\ floor[b] \in Int
    BY <2>1 DEF TypeOK
  <2>4. /\ row[b].submitted + TTL <= row[b].expires
        /\ row[b].expires <= row[b].submitted + CAP
        /\ row[b].submitted <= floor[b] + CAP - TTL
    BY <2>1 DEF HoldInv, RowsBounded
  <2>5. CASE row[b].expires > call[k].now + CAP
    BY <1>1, <2>2, <2>3, <2>4, <2>5, HoldConstants DEF Repaired, Lesser, Rows
  <2>6. CASE ~ (row[b].expires > call[k].now + CAP)
    BY <1>1, <2>2, <2>3, <2>4, <2>6, HoldConstants DEF Repaired, Lesser, Rows
  <2> QED
    BY <2>5, <2>6
<1>3. ClaimsHaveRows'
  BY DEF Prune, ClaimsOf, HoldInv, ClaimsHaveRows, Claimed, TypeOK
<1> QED
  BY <1>2, <1>3

LEMMA HoldReserve ==
  ASSUME TypeOK, HoldInv, NEW k \in Calls, ReserveSpend(k)
  PROVE  RowsBounded' /\ ClaimsHaveRows'
<1> DEFINE b == call[k].bundle
           now == call[k].now
<1>1. now \in Int /\ b \in Bundles
  BY DEF TypeOK, CallStates, HoldInv, CallShape, ReserveSpend
<1>2. RowsBounded'
  <2> SUFFICES ASSUME NEW d \in pending'
               PROVE  /\ row'[d].submitted + TTL <= row'[d].expires
                      /\ row'[d].expires <= row'[d].submitted + CAP
                      /\ row'[d].submitted <= floor'[d] + CAP - TTL
    BY DEF RowsBounded
  <2>1. d \in Bundles /\ (d \in pending \/ d = b)
    BY <1>1 DEF ReserveSpend, TypeOK
  <2>2. CASE d # b
    BY <1>1, <2>1, <2>2 DEF ReserveSpend, HoldInv, RowsBounded, TypeOK
  <2>3. CASE d = b /\ b \notin pending
    <3>1. /\ row'[b] = [submitted |-> now, expires |-> now + TTL]
          /\ floor'[b] = now
      BY <1>1, <2>3 DEF ReserveSpend, TypeOK
    <3> QED
      BY <1>1, <2>3, <3>1, HoldConstants
  <2>4. CASE d = b /\ b \in pending
    <3>1. row[b] \in Rows /\ floor[b] \in Int
      BY <1>1 DEF TypeOK
    <3>2. /\ row'[b] = [row[b] EXCEPT !.expires = RepushDeadline(row[b], now)]
          /\ floor'[b] = floor[b]
      BY <1>1, <2>4 DEF ReserveSpend, TypeOK
    <3>3. /\ row[b].submitted + TTL <= row[b].expires
          /\ row[b].expires <= row[b].submitted + CAP
          /\ row[b].submitted <= floor[b] + CAP - TTL
      BY <2>4 DEF HoldInv, RowsBounded
    <3>4. /\ row'[b].submitted = row[b].submitted
          /\ row'[b].expires = RepushDeadline(row[b], now)
      BY <3>1, <3>2 DEF Rows
    <3> HIDE DEF b, now
    <3> QED
      BY <1>1, <2>4, <3>1, <3>2, <3>3, <3>4, HoldConstants
         DEF RepushDeadline, Greater, Lesser, Rows
  <2> QED
    BY <2>1, <2>2, <2>3, <2>4
<1>3. ClaimsHaveRows'
  <2>1. pending' = pending \cup {b}
    BY DEF ReserveSpend
  <2>2. \A c \in Coins : claim'[c] = IF c \in Inputs[b] /\ claim[c] = Free
                                     THEN b ELSE claim[c]
    BY DEF ReserveSpend
  <2> HIDE DEF b
  <2> QED
    BY <1>1, <2>1, <2>2 DEF HoldInv, ClaimsHaveRows, Claimed
<1> QED
  BY <1>2, <1>3

LEMMA HoldStep == TypeOK /\ HoldInv /\ [Next]_vars => HoldInv'
<1> SUFFICES ASSUME TypeOK, HoldInv, [Next]_vars PROVE HoldInv'
  OBVIOUS
<1> USE DEF clocks, holds, history
<1>1. RowsBounded' /\ ClaimsHaveRows'
  <2>1. CASE UNCHANGED <<pending, row, claim, floor>>
    BY <2>1, HoldUnchanged DEF HoldInv
  <2>2. ASSUME NEW k \in Calls, CallStep(k), ~ UNCHANGED <<pending, row, claim, floor>>
        PROVE  Prune(k) \/ ReserveSpend(k)
    BY <2>2 DEF CallStep, Begin, End, ReadUnspent, ReadReserved, ReserveCoins,
                Reset, PushBundle, Answered
  <2>3. CASE ~ UNCHANGED <<pending, row, claim, floor>>
    <3>1. PICK k \in Calls : CallStep(k)
      BY <2>3 DEF Next, vars, Tick, SetWall, ReplicaTold, Restart, Release
    <3> QED
      BY <2>2, <2>3, <3>1, HoldPrune, HoldReserve
  <2> QED
    BY <2>1, <2>3
<1>2. CallShape'
  <2>1. ASSUME NEW k \in Calls, CallStep(k) PROVE CallShape'
    <3> USE DEF CallShape, HoldInv, TypeOK
    <3>1. ASSUME NEW op \in {"select", "lease", "reset"}, Begin(k, op) PROVE CallShape'
      BY <3>1 DEF Begin, NoCall
    <3>2. CASE Prune(k)
      BY <3>2 DEF Prune, CallStates
    <3>3. CASE End(k)
      BY <3>3 DEF End, NoCall
    <3>4. CASE ReadUnspent(k)
      BY <3>4 DEF ReadUnspent, CallStates
    <3>5. CASE ReadReserved(k)
      BY <3>5 DEF ReadReserved, CallStates
    <3>6. CASE Reset(k) \/ ReserveSpend(k)
              \/ \E id \in Leases, S \in SUBSET Coins \ {{}}, ttl \in 1 .. LeaseMax :
                    ReserveCoins(k, id, S, ttl)
      BY <3>6 DEF Reset, ReserveSpend, ReserveCoins, NoCall
    <3>7. ASSUME NEW b \in Bundles, PushBundle(k, b) PROVE CallShape'
      BY <3>7 DEF PushBundle, NoCall
    <3>8. CASE Answered(k)
      BY <3>8 DEF Answered, CallStates
    <3> QED
      BY <2>1, <3>1, <3>2, <3>3, <3>4, <3>5, <3>6, <3>7, <3>8 DEF CallStep
  <2>2. CASE Restart
    BY <2>2 DEF Restart, CallShape, NoCall
  <2>3. CASE UNCHANGED call
    BY <2>3 DEF CallShape, HoldInv
  <2> QED
    BY <2>1, <2>2, <2>3 DEF Next, vars, Tick, SetWall, ReplicaTold, Release
<1> QED
  BY <1>1, <1>2 DEF HoldInv

----------------------------------------------------------------------------
(* Readings of the clock.                                                  *)
LEMMA ReadingsInit == Init => ReadingsAgree
  BY DEF Init, ReadingsAgree, Read, NoCall, Leased, NoLease

(* The steps that change neither the clock's state, nor a call's reading,  *)
(* nor what dates a row or a lease.                                        *)
LEMMA ReadingsKept ==
  ASSUME ReadingsAgree, UNCHANGED <<gov, pending, row, lease, anchor, leaseAnchor>>,
         real' \in Int, real \in Int, gov.at \in Int, real <= real',
         \A k \in Calls : Read(k)' =>
             Read(k) /\ call'[k].now = call[k].now /\ call'[k].at = call[k].at
  PROVE  ReadingsAgree'
  BY DEF ReadingsAgree, Known, Gained, Leased

(* A fresh reading, against the governor and against any known reading.    *)
LEMMA FreshReading ==
  ASSUME TypeOK, ReadingsAgree, ReadClock
  PROVE  /\ gov'.at = real /\ gov'.ms = Reading /\ Reading \in Int
         /\ \A n \in Int, a \in Int :
              (a <= gov.at /\ gov.ms - n <= gov.at - a)
                => a <= real /\ Reading - n <= real - a
<1>1. gov'.at = real /\ gov'.ms = Reading /\ Reading \in Int
  BY ReadingType DEF ReadClock
<1>2. Reading <= gov.ms + (real - gov.at) /\ gov.at <= real
  BY DEF Reading, Lesser, TypeOK, ReadingsAgree
<1>3. real \in Int /\ gov.at \in Int /\ gov.ms \in Int
  BY DEF TypeOK
<1> HIDE DEF Reading
<1> QED
  BY <1>1, <1>2, <1>3

LEMMA ReadingsFresh ==
  ASSUME TypeOK, ReadingsAgree, ReadClock, NEW k \in Calls,
         UNCHANGED <<real, pending, row, lease, anchor, leaseAnchor>>,
         call'[k].now = Reading, call'[k].at = real,
         \A m \in Calls \ {k} : call'[m] = call[m]
  PROVE  ReadingsAgree'
<1>1. /\ gov'.at = real /\ gov'.ms = Reading /\ Reading \in Int
      /\ \A n \in Int, a \in Int :
              (a <= gov.at /\ gov.ms - n <= gov.at - a)
                => a <= real /\ Reading - n <= real - a
  BY FreshReading
<1>2. real \in Int
  BY DEF TypeOK
<1> HIDE DEF Reading
<1>3. \A m \in Calls : call[m].now \in Int /\ call[m].at \in Int
  BY DEF TypeOK, CallStates
<1>4. \A m \in Calls : Read(m) =>
          /\ call[m].at <= real /\ Reading - call[m].now <= real - call[m].at
  BY <1>1, <1>3 DEF ReadingsAgree, Known
<1>5. \A m \in Calls \ {k} : Read(m)' = Read(m)
  BY DEF Read
<1>6. \A m \in Calls : Read(m)' => Known(call[m])'
  BY <1>1, <1>2, <1>4, <1>5 DEF Known
<1>7. \A m, n \in Calls : Read(m)' /\ Read(n)' => Gained(call[m], call[n])'
  <2> SUFFICES ASSUME NEW m \in Calls, NEW n \in Calls, Read(m)', Read(n)'
               PROVE  Gained(call[m], call[n])'
    OBVIOUS
  <2>1. CASE m # k /\ n # k
    BY <1>5, <2>1 DEF ReadingsAgree, Gained
  <2>2. CASE m # k /\ n = k
    BY <1>1, <1>2, <1>3, <1>4, <1>5, <2>2 DEF Gained
  <2>3. CASE m = k
    <3>1. call'[n].at <= real
      BY <1>2, <1>4, <1>5
    <3> QED
      BY <1>2, <1>3, <2>3, <3>1 DEF Gained
  <2> QED
    BY <2>1, <2>2, <2>3
<1>8. \A b \in pending : anchor[b].at # Past =>
          /\ anchor[b].now = row[b].submitted
          /\ Known(anchor[b])'
          /\ \A m \in Calls : Read(m)' => Gained(anchor[b], call[m])'
  <2> SUFFICES ASSUME NEW b \in pending, anchor[b].at # Past
               PROVE  /\ anchor[b].now = row[b].submitted
                      /\ Known(anchor[b])'
                      /\ \A m \in Calls : Read(m)' => Gained(anchor[b], call[m])'
    OBVIOUS
  <2>1. anchor[b].now \in Int /\ anchor[b].at \in Int
    BY DEF TypeOK, Anchors, Past
  <2>2. /\ anchor[b].now = row[b].submitted /\ Known(anchor[b])
        /\ \A m \in Calls : Read(m) => Gained(anchor[b], call[m])
    BY DEF ReadingsAgree
  <2>3. anchor[b].at <= real /\ Reading - anchor[b].now <= real - anchor[b].at
    BY <1>1, <2>1, <2>2 DEF Known
  <2>4. Known(anchor[b])'
    BY <1>1, <2>3 DEF Known
  <2>5. \A m \in Calls : Read(m)' => Gained(anchor[b], call[m])'
    BY <1>5, <2>2, <2>3 DEF Gained
  <2> QED
    BY <2>2, <2>4, <2>5
<1>9. \A c \in Leased : leaseAnchor[c].at # Past =>
          /\ Known(leaseAnchor[c])'
          /\ \A m \in Calls : Read(m)' => Gained(leaseAnchor[c], call[m])'
  <2> SUFFICES ASSUME NEW c \in Leased, leaseAnchor[c].at # Past
               PROVE  /\ Known(leaseAnchor[c])'
                      /\ \A m \in Calls : Read(m)' => Gained(leaseAnchor[c], call[m])'
    OBVIOUS
  <2>1. leaseAnchor[c].now \in Int /\ leaseAnchor[c].at \in Int
    BY DEF TypeOK, Anchors, Past, Leased
  <2>2. /\ Known(leaseAnchor[c])
        /\ \A m \in Calls : Read(m) => Gained(leaseAnchor[c], call[m])
    BY DEF ReadingsAgree
  <2>3. /\ leaseAnchor[c].at <= real
        /\ Reading - leaseAnchor[c].now <= real - leaseAnchor[c].at
    BY <1>1, <2>1, <2>2 DEF Known
  <2>4. Known(leaseAnchor[c])'
    BY <1>1, <2>3 DEF Known
  <2>5. \A m \in Calls : Read(m)' => Gained(leaseAnchor[c], call[m])'
    BY <1>5, <2>2, <2>3 DEF Gained
  <2> QED
    BY <2>4, <2>5
<1>10. gov'.at <= real'
  BY <1>1, <1>2
<1> QED
  BY <1>6, <1>7, <1>8, <1>9, <1>10 DEF ReadingsAgree, Leased

(* The steps by which a call's reading dates rows or leases.               *)
LEMMA ReadingsDated ==
  ASSUME TypeOK, ReadingsAgree, NEW k \in Calls, Read(k), UNCHANGED <<real, gov>>,
         \A m \in Calls : Read(m)' =>
             Read(m) /\ call'[m].now = call[m].now /\ call'[m].at = call[m].at,
         \A b \in pending' : anchor'[b].at # Past =>
             \/ /\ b \in pending /\ anchor'[b] = anchor[b]
                /\ row'[b].submitted = row[b].submitted
             \/ /\ anchor'[b] = [now |-> call[k].now, at |-> call[k].at]
                /\ row'[b].submitted = call[k].now,
         \A c \in Leased' : leaseAnchor'[c].at # Past =>
             \/ c \in Leased /\ leaseAnchor'[c] = leaseAnchor[c]
             \/ leaseAnchor'[c] = [now |-> call[k].now, at |-> call[k].at]
  PROVE  ReadingsAgree'
<1>1. gov'.at <= real' /\ (\A m \in Calls : Read(m)' => Known(call[m])')
  BY DEF ReadingsAgree, Known
<1>2. \A m, n \in Calls : Read(m)' /\ Read(n)' => Gained(call[m], call[n])'
  BY DEF ReadingsAgree, Gained
<1>3. Known(call[k]) /\ (\A m \in Calls : Read(m) => Gained(call[k], call[m]))
  BY DEF ReadingsAgree
<1>4. ASSUME NEW b \in pending', anchor'[b].at # Past
      PROVE  /\ anchor'[b].now = row'[b].submitted
             /\ Known(anchor[b])'
             /\ \A m \in Calls : Read(m)' => Gained(anchor[b], call[m])'
  <2>1. CASE /\ b \in pending /\ anchor'[b] = anchor[b]
             /\ row'[b].submitted = row[b].submitted
    BY <1>4, <2>1 DEF ReadingsAgree, Known, Gained
  <2>2. CASE /\ anchor'[b] = [now |-> call[k].now, at |-> call[k].at]
             /\ row'[b].submitted = call[k].now
    BY <1>3, <2>2 DEF Known, Gained
  <2> QED
    BY <1>4, <2>1, <2>2
<1>5. ASSUME NEW c \in Leased', leaseAnchor'[c].at # Past
      PROVE  /\ Known(leaseAnchor[c])'
             /\ \A m \in Calls : Read(m)' => Gained(leaseAnchor[c], call[m])'
  <2>1. CASE c \in Leased /\ leaseAnchor'[c] = leaseAnchor[c]
    BY <1>5, <2>1 DEF ReadingsAgree, Known, Gained
  <2>2. CASE leaseAnchor'[c] = [now |-> call[k].now, at |-> call[k].at]
    BY <1>3, <2>2 DEF Known, Gained
  <2> QED
    BY <1>5, <2>1, <2>2
<1> QED
  BY <1>1, <1>2, <1>4, <1>5 DEF ReadingsAgree

LEMMA ReadingsStep ==
  TypeOK /\ HoldInv /\ ReadingsAgree /\ [Next]_vars => ReadingsAgree'
<1> SUFFICES ASSUME TypeOK, HoldInv, ReadingsAgree, [Next]_vars
             PROVE  ReadingsAgree'
  OBVIOUS
<1> USE DEF clocks, holds, history
<1>1. real \in Int /\ gov.at \in Int
  BY DEF TypeOK
<1>2. CASE Tick \/ SetWall \/ ReplicaTold \/ UNCHANGED vars
  <2>1. \A k \in Calls : Read(k)' => Read(k) /\ call'[k] = call[k]
    BY <1>2 DEF Tick, SetWall, ReplicaTold, vars, Read
  <2>2. real' \in Int /\ real <= real'
    BY <1>1, <1>2 DEF Tick, SetWall, ReplicaTold, vars
  <2>3. UNCHANGED <<gov, pending, row, lease, anchor, leaseAnchor>>
    BY <1>2 DEF Tick, SetWall, ReplicaTold, vars
  <2> QED
    BY <1>1, <2>1, <2>2, <2>3, ReadingsKept
<1>3. CASE Restart
  <2>1. \A k \in Calls : ~ Read(k)'
    BY <1>3 DEF Restart, Read, NoCall
  <2>2. \A b \in Bundles : anchor'[b].at = Past
    BY <1>3 DEF Restart, TypeOK, Anchors
  <2>3. \A c \in Coins : leaseAnchor'[c].at = Past
    BY <1>3 DEF Restart, TypeOK, Anchors
  <2>4. gov'.at <= real' /\ pending' \subseteq Bundles
    BY <1>1, <1>3 DEF Restart, TypeOK
  <2> QED
    BY <2>1, <2>2, <2>3, <2>4 DEF ReadingsAgree, Leased
<1>4. ASSUME NEW id \in Leases, Release(id) PROVE ReadingsAgree'
  <2>1. \A c \in Leased' : c \in Leased /\ leaseAnchor'[c] = leaseAnchor[c]
    BY <1>4 DEF Release, Leased, NoLease, TypeOK
  <2>2. UNCHANGED <<real, gov, pending, row, anchor, call>>
    BY <1>4 DEF Release
  <2> QED
    BY <2>1, <2>2 DEF ReadingsAgree, Known, Gained, Read
<1>5. ASSUME NEW k \in Calls, CallStep(k) PROVE ReadingsAgree'
  <2>1. ASSUME NEW op \in {"select", "lease", "reset"}, Begin(k, op)
        PROVE  ReadingsAgree'
    <3>1. call'[k].now = Reading /\ call'[k].at = real
      BY <2>1 DEF Begin, TypeOK, NoCall
    <3>2. \A m \in Calls \ {k} : call'[m] = call[m]
      BY <2>1 DEF Begin, TypeOK
    <3> QED
      BY <2>1, <3>1, <3>2, ReadingsFresh DEF Begin
  <2>2. CASE Answered(k)
    <3>1. call'[k].now = Reading /\ call'[k].at = real
      BY <2>2 DEF Answered, TypeOK, CallStates
    <3>2. \A m \in Calls \ {k} : call'[m] = call[m]
      BY <2>2 DEF Answered, TypeOK
    <3> QED
      BY <2>2, <3>1, <3>2, ReadingsFresh DEF Answered
  <2>3. CASE \/ End(k) \/ ReadUnspent(k) \/ ReadReserved(k) \/ Reset(k)
             \/ \E b \in Bundles : PushBundle(k, b)
    <3>1. UNCHANGED <<real, gov, pending, row, lease, anchor, leaseAnchor>>
      BY <2>3 DEF End, ReadUnspent, ReadReserved, Reset, PushBundle
    <3>2. \A m \in Calls \ {k} : call'[m] = call[m]
      BY <2>3 DEF End, ReadUnspent, ReadReserved, Reset, PushBundle, TypeOK
    <3>3. Read(k)' => Read(k) /\ call'[k].now = call[k].now /\ call'[k].at = call[k].at
      <4>1. CASE End(k) \/ Reset(k) \/ \E b \in Bundles : PushBundle(k, b)
        <5>1. call'[k] = NoCall \/ call'[k].pc = "push"
          <6>1. CASE End(k) \/ Reset(k)
            BY <6>1 DEF End, Reset, TypeOK
          <6>2. CASE \E b \in Bundles : PushBundle(k, b)
            BY <6>2 DEF PushBundle, TypeOK, NoCall
          <6> QED
            BY <4>1, <6>1, <6>2
        <5> QED
          BY <5>1 DEF NoCall, Read
      <4>2. CASE ReadUnspent(k)
        BY <4>2 DEF ReadUnspent, TypeOK, CallStates, Read
      <4>3. CASE ReadReserved(k)
        BY <4>3 DEF ReadReserved, TypeOK, CallStates, Read
      <4> QED
        BY <2>3, <4>1, <4>2, <4>3
    <3>4. \A m \in Calls : Read(m)' =>
             Read(m) /\ call'[m].now = call[m].now /\ call'[m].at = call[m].at
      BY <3>2, <3>3 DEF Read
    <3> QED
      BY <1>1, <3>1, <3>4, ReadingsKept
  <2>4. CASE Prune(k)
    <3>1. \A m \in Calls : Read(m)' =>
             Read(m) /\ call'[m].now = call[m].now /\ call'[m].at = call[m].at
      BY <2>4 DEF Prune, TypeOK, CallStates, Read
    <3>2. ASSUME NEW b \in pending', anchor'[b].at # Past
          PROVE  \/ /\ b \in pending /\ anchor'[b] = anchor[b]
                    /\ row'[b].submitted = row[b].submitted
                 \/ /\ anchor'[b] = [now |-> call[k].now, at |-> call[k].at]
                    /\ row'[b].submitted = call[k].now
      BY <2>4, <3>2 DEF Prune, Repaired, TypeOK
    <3>3. ASSUME NEW c \in Leased', leaseAnchor'[c].at # Past
          PROVE  \/ c \in Leased /\ leaseAnchor'[c] = leaseAnchor[c]
                 \/ leaseAnchor'[c] = [now |-> call[k].now, at |-> call[k].at]
      <4>1. c \in Coins /\ lease'[c].id # Free
        BY <3>3 DEF Leased
      <4>2. lease[c].id # Free
        BY <2>4, <4>1 DEF Prune, PruneLease, RepairedLease, NoLease, TypeOK
      <4> QED
        BY <2>4, <4>1, <4>2 DEF Prune, Leased
    <3> QED
      BY <2>4, <3>1, <3>2, <3>3, ReadingsDated DEF Prune, Read
  <2>5. ASSUME NEW id \in Leases, NEW S \in SUBSET Coins \ {{}},
               NEW ttl \in 1 .. LeaseMax, ReserveCoins(k, id, S, ttl)
        PROVE  ReadingsAgree'
    <3>1. \A m \in Calls : Read(m)' =>
             Read(m) /\ call'[m].now = call[m].now /\ call'[m].at = call[m].at
      BY <2>5 DEF ReserveCoins, TypeOK, Read, NoCall
    <3>2. ASSUME NEW c \in Leased', leaseAnchor'[c].at # Past
          PROVE  \/ c \in Leased /\ leaseAnchor'[c] = leaseAnchor[c]
                 \/ leaseAnchor'[c] = [now |-> call[k].now, at |-> call[k].at]
      <4>1. c \in Coins /\ lease'[c].id # Free
        BY <3>2 DEF Leased
      <4> QED
        BY <2>5, <4>1 DEF ReserveCoins, Leased, NoLease
    <3> QED
      BY <2>5, <3>1, <3>2, ReadingsDated DEF ReserveCoins, Read
  <2>6. CASE ReserveSpend(k)
    <3>1. \A m \in Calls : Read(m)' =>
             Read(m) /\ call'[m].now = call[m].now /\ call'[m].at = call[m].at
      BY <2>6 DEF ReserveSpend, TypeOK, Read, NoCall
    <3>2. call[k].bundle \in Bundles
      BY <2>6 DEF ReserveSpend, HoldInv, CallShape
    <3>3. ASSUME NEW b \in pending', anchor'[b].at # Past
          PROVE  \/ /\ b \in pending /\ anchor'[b] = anchor[b]
                    /\ row'[b].submitted = row[b].submitted
                 \/ /\ anchor'[b] = [now |-> call[k].now, at |-> call[k].at]
                    /\ row'[b].submitted = call[k].now
      <4>1. b \in Bundles /\ (b \in pending \/ b = call[k].bundle)
        BY <2>6, <3>2 DEF ReserveSpend, TypeOK
      <4>2. CASE b \in pending
        BY <2>6, <3>2, <4>1, <4>2 DEF ReserveSpend, TypeOK, Rows
      <4>3. CASE b \notin pending
        BY <2>6, <3>2, <4>1, <4>3 DEF ReserveSpend, TypeOK, Rows
      <4> QED
        BY <4>2, <4>3
    <3>4. \A c \in Leased' : c \in Leased /\ leaseAnchor'[c] = leaseAnchor[c]
      BY <2>6 DEF ReserveSpend, Leased
    <3> QED
      BY <2>6, <3>1, <3>3, <3>4, ReadingsDated DEF ReserveSpend, Read
  <2> QED
    BY <1>5, <2>1, <2>2, <2>3, <2>4, <2>5, <2>6 DEF CallStep
<1> QED
  BY <1>2, <1>3, <1>4, <1>5 DEF Next

----------------------------------------------------------------------------
LEMMA Invariance == Spec => [](TypeOK /\ HoldInv /\ ReadingsAgree)
<1>1. Init => TypeOK /\ HoldInv /\ ReadingsAgree
  BY TypeInit, HoldInit, ReadingsInit
<1>2. TypeOK /\ HoldInv /\ ReadingsAgree /\ [Next]_vars
        => (TypeOK /\ HoldInv /\ ReadingsAgree)'
  BY TypeStep, HoldStep, ReadingsStep DEF HoldInv
<1> QED
  BY <1>1, <1>2, PTL DEF Spec

(* Every variable of the holds keeps its type.                             *)
THEOREM TypeCorrect == Spec => []TypeOK
  BY Invariance, PTL

(* No reservation reaches further than two caps less a lifetime beyond any *)
(* instant observed while it was held (prune_reservations, reserve_spend). *)
THEOREM HoldBounded == Spec => []HoldBound
<1>1. TypeOK /\ HoldInv => HoldBound
  BY HoldConstants DEF TypeOK, Rows, HoldInv, RowsBounded, HoldBound
<1> QED
  BY <1>1, Invariance, PTL

(* A hold found lapsed has really lasted the time it was given, however    *)
(* the wall clock was set since (ClockGovernor::observe_at).               *)
THEOREM LapsesInRealTime == Spec => []NotLapsedEarly
<1>1. TypeOK /\ HoldInv /\ ReadingsAgree => NotLapsedEarly
  <2> SUFFICES ASSUME TypeOK, HoldInv, ReadingsAgree, NEW k \in Calls,
                      call[k].pc \in {"prune", "lease", "reset"}
               PROVE
        /\ \A b \in pending :
              /\ anchor[b].at # Past /\ anchor[b].at < call[k].at
              /\ row[b].expires <= call[k].now
              => call[k].at - anchor[b].at >= TTL
        /\ \A c \in Leased :
              /\ leaseAnchor[c].at # Past /\ leaseAnchor[c].at < call[k].at
              /\ lease[c].expires <= call[k].now
              => call[k].at - leaseAnchor[c].at
                    >= lease[c].expires - leaseAnchor[c].now
    BY DEF NotLapsedEarly
  <2>1. call[k].now \in Int /\ call[k].at \in Int /\ Read(k)
    BY DEF TypeOK, CallStates, Read
  <2>2. ASSUME NEW b \in pending, anchor[b].at # Past, anchor[b].at < call[k].at,
               row[b].expires <= call[k].now
        PROVE  call[k].at - anchor[b].at >= TTL
    <3>1. /\ anchor[b].now \in Int /\ anchor[b].at \in Int
          /\ row[b].expires \in Int /\ row[b].submitted \in Int
      BY DEF TypeOK, Anchors, Rows, Past
    <3>2. call[k].now - anchor[b].now <= call[k].at - anchor[b].at
      BY <2>1, <2>2 DEF ReadingsAgree, Gained
    <3>3. anchor[b].now + TTL <= row[b].expires
      BY <2>2 DEF ReadingsAgree, HoldInv, RowsBounded
    <3> QED
      BY <2>1, <2>2, <3>1, <3>2, <3>3, HoldConstants
  <2>3. ASSUME NEW c \in Leased, leaseAnchor[c].at # Past,
               leaseAnchor[c].at < call[k].at, lease[c].expires <= call[k].now
        PROVE  call[k].at - leaseAnchor[c].at
                    >= lease[c].expires - leaseAnchor[c].now
    <3>1. /\ leaseAnchor[c].now \in Int /\ leaseAnchor[c].at \in Int
          /\ lease[c].expires \in Int
      BY DEF TypeOK, Anchors, LeaseRows, Past, Leased
    <3>2. call[k].now - leaseAnchor[c].now <= call[k].at - leaseAnchor[c].at
      BY <2>1, <2>3 DEF ReadingsAgree, Gained
    <3> QED
      BY <2>1, <2>3, <3>1, <3>2
  <2> QED
    BY <2>2, <2>3
<1> QED
  BY <1>1, Invariance, PTL

(* No claim outlives its bundle's row (the foreign key's cascade).         *)
THEOREM NoOrphanClaim == Spec => []ClaimsHaveRows
<1>1. HoldInv => ClaimsHaveRows
  BY DEF HoldInv
<1> QED
  BY <1>1, Invariance, PTL

----------------------------------------------------------------------------
(* The holds implement CoinLock.                                           *)
LEMMA LockInit == Init => Lock!Init
  BY DEF Init, Lock!Init, NoLease

LEMMA LockStep ==
  TypeOK /\ HoldInv /\ [Next]_vars => [Lock!Next]_Lock!locks
<1> SUFFICES ASSUME TypeOK, HoldInv, [Next]_vars
             PROVE  Lock!Next \/ UNCHANGED <<lease, claim>>
  BY DEF Lock!locks
<1> USE DEF clocks, holds, history
<1>1. ASSUME NEW id \in Leases, Release(id) PROVE Lock!Next
  <2>1. \A c \in Coins : lease'[c].id = IF lease[c].id = id THEN Free ELSE lease[c].id
    BY <1>1 DEF Release, NoLease
  <2>2. Lock!Release(id)
    BY <1>1, <2>1 DEF Release, Lock!Release
  <2> QED
    BY <2>2 DEF Lock!Next
<1>2. ASSUME NEW k \in Calls, Prune(k) PROVE Lock!Next
  <2>1. PICK B \in SUBSET Bundles, D \in SUBSET Coins :
             B = pending \ pending' /\ D = {c \in Coins : lease'[c].id = Free}
    BY DEF TypeOK
  <2>2. \A c \in Coins : claim'[c] = IF claim[c] \in B THEN Free ELSE claim[c]
    <3> SUFFICES ASSUME NEW c \in Coins
                 PROVE  claim'[c] = IF claim[c] \in B THEN Free ELSE claim[c]
      OBVIOUS
    <3>1. claim'[c] = IF claim[c] \in pending' THEN claim[c] ELSE Free
      BY <1>2 DEF Prune, ClaimsOf
    <3>2. claim[c] = Free \/ claim[c] \in pending
      BY DEF HoldInv, ClaimsHaveRows, Claimed
    <3> QED
      BY <2>1, <3>1, <3>2
  <2>3. \A c \in Coins : lease'[c].id = IF c \in D THEN Free ELSE lease[c].id
    BY <1>2, <2>1 DEF Prune, PruneLease, RepairedLease, NoLease, TypeOK, LeaseRows
  <2>4. claim' = [c \in Coins |-> claim'[c]]
    BY <1>2 DEF Prune, ClaimsOf
  <2>5. Lock!Lapse(B, D)
    BY <2>2, <2>3, <2>4 DEF Lock!Lapse
  <2> QED
    BY <2>5 DEF Lock!Next
<1>3. ASSUME NEW k \in Calls, NEW id \in Leases, NEW S \in SUBSET Coins \ {{}},
             NEW ttl \in 1 .. LeaseMax, ReserveCoins(k, id, S, ttl)
      PROVE  Lock!Next
  <2> PICK D \in SUBSET Coins : D = {c \in Coins : lease[c].expires <= call[k].now}
    OBVIOUS
  <2>1. \A c \in Coins : lease'[c].id = IF c \in S THEN id
                                       ELSE IF c \in D THEN Free ELSE lease[c].id
    BY <1>3 DEF ReserveCoins, NoLease
  <2>2. \A c \in Coins : lease[c].id # id
    BY <1>3 DEF ReserveCoins
  <2>3. \A c \in S : claim[c] = Free /\ (lease[c].id = Free \/ c \in D)
    <3>1. \A c \in Coins : lease[c].expires \in Int /\ call[k].now \in Int
      BY DEF TypeOK, LeaseRows, CallStates
    <3> QED
      BY <1>3, <3>1 DEF ReserveCoins, Clash, Claimed
  <2>4. Lock!Lease(id, S, D)
    BY <1>3, <2>1, <2>2, <2>3 DEF ReserveCoins, Lock!Lease
  <2> QED
    BY <2>4 DEF Lock!Next
<1>4. ASSUME NEW k \in Calls, ReserveSpend(k) PROVE Lock!Next
  <2>1. call[k].bundle \in Bundles
    BY <1>4 DEF ReserveSpend, HoldInv, CallShape
  <2>2. Lock!Claim(call[k].bundle)
    BY <1>4 DEF ReserveSpend, Lock!Claim
  <2> QED
    BY <2>1, <2>2 DEF Lock!Next
<1>5. ASSUME NEW k \in Calls, CallStep(k) PROVE Lock!Next \/ UNCHANGED <<lease, claim>>
  BY <1>2, <1>3, <1>4, <1>5 DEF CallStep, Begin, End, ReadUnspent, ReadReserved,
     Reset, PushBundle, Answered
<1> QED
  BY <1>1, <1>5 DEF Next, vars, Tick, SetWall, ReplicaTold, Restart

(* The clocks, deadlines and calls implement the lock that CoinLock states *)
(* (reserve_client_coins, reserve_spend, prune_reservations).              *)
THEOREM HoldsAreALock == Spec => ImplementsLock
<1> USE DEF ImplementsLock, Lock!Spec
<1> QED
  BY LockInit, LockStep, Invariance, PTL DEF Spec
============================================================================
