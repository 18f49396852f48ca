-------------------------- MODULE MirrorWakeProofs --------------------------
(***************************************************************************)
(* Proofs about MirrorWake, for any lengths of the quiet period, of the    *)
(* settling window and of the round, and any delay inside a pass.          *)
(***************************************************************************)
EXTENDS MirrorWake, TLAPS

(* An event that was heard and not yet taken starts a new burst, and once  *)
(* the burst's first wake is taken only its follow-up is owed.             *)
BurstInv ==
    /\ lastEvent # Never => wakes = 0
    /\ lastEvent = Never /\ followUp # Never => wakes <= 1
    /\ wakes <= 2

WakeInv == TypeOK /\ BurstInv /\ RoundIsCeiling

LEMMA WakeInvInit == Init => WakeInv
<1> SUFFICES ASSUME Init PROVE WakeInv
  OBVIOUS
<1>1. signal \in BOOLEAN /\ onDisk \in BOOLEAN /\ listed \in BOOLEAN
  BY Zenon DEF Init
<1>2. /\ now \in 0 .. MaxTime /\ lastEvent \in Never .. now /\ lastWake \in Never .. now
      /\ followUp \in Never .. (now + Settling) /\ entered \in 0 .. now /\ since \in Never .. now
      /\ wakes \in Nat /\ BurstInv /\ RoundIsCeiling
  BY WakeConstants DEF Init, BurstInv, RoundIsCeiling, Never
<1>3. pc \in {"waiting", "starting", "acting"} /\ kind \in {"round", "observing", "settling"}
  BY DEF Init
<1> QED
  BY <1>1, <1>2, <1>3 DEF WakeInv, TypeOK

(* The wait sleeps no longer than to the round's deadline.                 *)
LEMMA NextWakeBound ==
  ASSUME TypeOK
  PROVE  NextWake <= entered + Round
  BY WakeConstants DEF TypeOK, NextWake, Due, QuietAt, Earlier, Later, Never

LEMMA WakeInvStep == WakeInv /\ [Next]_vars => WakeInv'
<1> SUFFICES ASSUME WakeInv, [Next]_vars PROVE WakeInv'
  OBVIOUS
<1> USE WakeConstants DEF WakeInv, TypeOK, BurstInv, RoundIsCeiling, Never
<1>1. ASSUME NEW there \in BOOLEAN, FileEvent(there) PROVE WakeInv'
  <2>1. signal' \in BOOLEAN /\ onDisk' \in BOOLEAN
    BY <1>1, Zenon DEF FileEvent
  <2> QED
    BY <1>1, <2>1 DEF FileEvent, coalescer
<1>2. ASSUME HearEvent PROVE WakeInv'
  <2>1. signal' \in BOOLEAN
    BY <1>2, Zenon DEF HearEvent
  <2> QED
    BY <1>2, <2>1 DEF HearEvent
<1>3. ASSUME EventWake PROVE WakeInv'
  <2>1. lastEvent # -1 \/ followUp # -1
    BY <1>3 DEF EventWake, Due, QuietAt, Earlier
  <2>2. wakes' <= 2 /\ wakes' \in Nat /\ BurstInv'
    BY <1>3, <2>1 DEF EventWake, FollowUp
  <2> QED
    BY <1>3, <2>2 DEF EventWake, StartPass, FollowUp
<1>4. ASSUME RoundWake PROVE WakeInv'
  BY <1>4 DEF RoundWake, StartPass, coalescer
<1>5. ASSUME Observe PROVE WakeInv'
  BY <1>5 DEF Observe, coalescer
<1>6. ASSUME Wait PROVE WakeInv'
  BY <1>6 DEF Wait, coalescer
<1>7. ASSUME Tick PROVE WakeInv'
  <2>1. pc = "waiting" => now + 1 <= entered + Round
    BY <1>7, NextWakeBound DEF Tick, NextWake, Due, QuietAt, Earlier, Later
  <2> QED
    BY <1>7, <2>1 DEF Tick, coalescer
<1>8. ASSUME UNCHANGED vars PROVE WakeInv'
  BY <1>8 DEF vars, coalescer
<1> QED
  BY <1>1, <1>2, <1>3, <1>4, <1>5, <1>6, <1>7, <1>8 DEF Next

LEMMA WakeInvHolds == Spec => []WakeInv
  BY WakeInvInit, WakeInvStep, PTL DEF Spec

(* WakeCoalescer: its three instants and the pass keep their types.        *)
THEOREM WakeTypeCorrect == Spec => []TypeOK
  BY WakeInvHolds, PTL DEF WakeInv

(* take_due: a burst of file events, however long and however timed,       *)
(* causes at most two passes after its last event is heard.                *)
THEOREM BurstWakesTwice == Spec => []AtMostTwoWakes
<1>1. WakeInv => AtMostTwoWakes
  BY DEF WakeInv, BurstInv, AtMostTwoWakes
<1> QED
  BY <1>1, WakeInvHolds, PTL

(* wait_for_next_pass: no pattern of events moves a pass past the round.   *)
THEOREM RoundNeverPostponed == Spec => []RoundIsCeiling
  BY WakeInvHolds, PTL DEF WakeInv

(* due_at_ms: two passes that events cause are a settling window apart.    *)
THEOREM EventPassesSpaced == Spec => WakesSpaced
<1>1. ASSUME WakeInv, [Next]_vars
      PROVE  lastWake' # lastWake /\ lastWake # Never => lastWake' - lastWake >= Settling
  <2> SUFFICES ASSUME lastWake' # lastWake, lastWake # Never
               PROVE  lastWake' - lastWake >= Settling
    OBVIOUS
  <2>1. EventWake
    BY <1>1 DEF Next, FileEvent, HearEvent, RoundWake, StartPass, Observe, Wait, Tick, vars, coalescer
  <2>2. Due # Never /\ now >= Due /\ lastWake' = now
    BY <2>1 DEF EventWake
  <2> QED
    BY <1>1, <2>2, WakeConstants
       DEF WakeInv, TypeOK, Due, QuietAt, Earlier, Later, Never
<1> QED
  BY <1>1, WakeInvHolds, PTL DEF Spec, WakesSpaced

----------------------------------------------------------------------------
(* The settling pass.  A follow-up is owed one window after the observing  *)
(* wake.  As long as nothing was heard since and no event waits, the disk  *)
(* is as that wake listed it, and a capsule on it is stamped by the time   *)
(* the observing pass may take, or will be by that very pass.              *)
Owed == lastEvent = Never /\ followUp # Never /\ ~ signal

SettlingInv ==
    /\ followUp # Never => lastWake # Never /\ followUp = lastWake + Settling
    /\ pc # "waiting" => now <= entered + MaxDelay
    /\ Owed /\ pc = "starting" => listed = onDisk
    /\ Owed /\ onDisk =>
          \/ since # Never /\ since <= lastWake + MaxDelay
          \/ pc = "starting" /\ entered = lastWake
    /\ pc # "waiting" /\ kind = "settling" /\ listed =>
          since # Never /\ entered - since >= Settling - MaxDelay

LEMMA SettlingInit == Init => SettlingInv
  BY WakeConstants DEF Init, SettlingInv, Owed, Never

LEMMA SettlingStep == TypeOK /\ SettlingInv /\ [Next]_vars => SettlingInv'
<1> SUFFICES ASSUME TypeOK, SettlingInv, [Next]_vars PROVE SettlingInv'
  OBVIOUS
<1> USE WakeConstants DEF TypeOK, SettlingInv, Owed, Never
<1>1. ASSUME NEW there \in BOOLEAN, FileEvent(there) PROVE SettlingInv'
  BY <1>1 DEF FileEvent, coalescer
<1>2. ASSUME HearEvent PROVE SettlingInv'
  BY <1>2 DEF HearEvent
<1>3. ASSUME EventWake PROVE SettlingInv'
  <2>1. CASE lastEvent # Never
    <3>1. Owed' => listed' = onDisk'
      BY <1>3 DEF EventWake, StartPass
    <3> QED
      BY <1>3, <2>1, <3>1 DEF EventWake, StartPass, FollowUp
  <2>2. CASE lastEvent = Never /\ signal
    BY <1>3, <2>2 DEF EventWake, StartPass, FollowUp
  <2>3. CASE lastEvent = Never /\ ~ signal
    <3>1. followUp # Never /\ now >= lastWake + Settling
      BY <1>3, <2>3 DEF EventWake, Due, QuietAt, Earlier, Later
    <3>2. onDisk => since # Never /\ since <= lastWake + MaxDelay
      BY <1>3, <2>3, <3>1 DEF EventWake
    <3> QED
      BY <1>3, <2>3, <3>1, <3>2 DEF EventWake, StartPass, FollowUp
  <2> QED
    BY <2>1, <2>2, <2>3
<1>4. ASSUME RoundWake PROVE SettlingInv'
  <2>1. listed' = onDisk'
    BY <1>4 DEF RoundWake, StartPass
  <2> QED
    BY <1>4, <2>1 DEF RoundWake, StartPass, coalescer
<1>5. ASSUME Observe PROVE SettlingInv'
  BY <1>5 DEF Observe, coalescer
<1>6. ASSUME Wait PROVE SettlingInv'
  BY <1>6 DEF Wait, coalescer
<1>7. ASSUME Tick PROVE SettlingInv'
  BY <1>7 DEF Tick, coalescer
<1>8. ASSUME UNCHANGED vars PROVE SettlingInv'
  BY <1>8 DEF vars, coalescer
<1> QED
  BY <1>1, <1>2, <1>3, <1>4, <1>5, <1>6, <1>7, <1>8 DEF Next

(* events.rs, presence.rs: a settling pass that finds its capsule finds it *)
(* settled, less at most the time the observing pass took to read its own  *)
(* clock, for any pattern of events and rounds between the two.            *)
THEOREM SettlingPassActs == Spec => []SettledAfterBurst
<1>1. TypeOK /\ SettlingInv => SettledAfterBurst
  BY WakeConstants DEF TypeOK, SettlingInv, SettledAfterBurst, Never
<1> QED
  BY <1>1, SettlingInit, SettlingStep, WakeTypeCorrect, PTL DEF Spec
=============================================================================
