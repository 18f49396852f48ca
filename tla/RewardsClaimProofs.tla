------------------------- MODULE RewardsClaimProofs -------------------------
(***************************************************************************)
(* Proofs about the rewards-claim loop, for every set of launchers, every  *)
(* fee, budget, cadence and clock: first one cycle and its driver          *)
(* (RewardsClaim), then the order of the budget pass and its rotation over *)
(* many cycles (ClaimOrder, ClaimRotation), whose variables are its own.   *)
(***************************************************************************)
EXTENDS RewardsClaim, ClaimRotation, FiniteSetTheorems, TLAPS

USE DEF None

LEMMA IntervalsType == Intervals \subseteq Nat
  BY ClaimConstants DEF Intervals, RawCadence, AtLeast, AtMost

LEMMA EmptyEligible == /\ DOMAIN [l \in {} |-> 0] = {}
                       /\ [l \in {} |-> 0] \in [{} -> Nat]
  OBVIOUS

LEMMA InitType == Init => TypeOK
<1> SUFFICES ASSUME Init PROVE TypeOK
  OBVIOUS
<1>1. now \in Time /\ t \in Time /\ opened \in Time \cup {None} /\ paid \in Nat /\ lastDone \in Time \cup {None}
  BY ClaimConstants DEF Init, Time
<1>2. disk \in Files
  BY ClaimConstants DEF Init, DefaultFile, Files
<1>3. eligible \in [DOMAIN eligible -> Nat] /\ DOMAIN eligible \subseteq Launchers
  BY EmptyEligible DEF Init
<1>4. window \in [start : Time \cup {None}, spent : Nat, last : Time \cup {None}]
  BY DEF Init, NoWindow
<1>5. tally \in [submitted : SUBSET Launchers, deferred : SUBSET Launchers,
                 refused : SUBSET Launchers, faulted : SUBSET Launchers,
                 discovered : BOOLEAN]
  BY DEF Init, NoTally
<1>6. pending \in [launcher : Launchers \cup {None}, fee : Nat]
  BY DEF Init, NoClaim
<1> QED
  BY <1>1, <1>2, <1>3, <1>4, <1>5, <1>6 DEF Init, TypeOK

(* What a persisted file looks like. *)
LEMMA PersistType ==
  ASSUME NEW f \in Files, NEW w \in [start : Time \cup {None}, spent : Nat, last : Time \cup {None}],
         NEW g \in Persist(f, w)
  PROVE  g \in Files
  BY DEF Persist, Files

LEMMA LoadedType == ASSUME NEW f \in Files PROVE Loaded(f) \in Files
  BY ClaimConstants DEF Loaded, DefaultFile, Files

LEMMA ResetType == ResetCycle /\ TypeOK =>
    /\ t' \in Time /\ exhausted' \in BOOLEAN /\ todo' \subseteq Launchers
    /\ DOMAIN eligible' \subseteq Launchers /\ eligible' \in [DOMAIN eligible' -> Nat]
    /\ pending' \in [launcher : Launchers \cup {None}, fee : Nat]
    /\ tally' \in [submitted : SUBSET Launchers, deferred : SUBSET Launchers,
                   refused : SUBSET Launchers, faulted : SUBSET Launchers,
                   discovered : BOOLEAN]
    /\ fault' \in BOOLEAN
<1> SUFFICES ASSUME ResetCycle, TypeOK
             PROVE  /\ t' \in Time /\ exhausted' \in BOOLEAN /\ todo' \subseteq Launchers
                    /\ DOMAIN eligible' \subseteq Launchers
                    /\ eligible' \in [DOMAIN eligible' -> Nat]
                    /\ pending' \in [launcher : Launchers \cup {None}, fee : Nat]
                    /\ tally' \in [submitted : SUBSET Launchers, deferred : SUBSET Launchers,
                                   refused : SUBSET Launchers, faulted : SUBSET Launchers,
                                   discovered : BOOLEAN]
                    /\ fault' \in BOOLEAN
  OBVIOUS
<1>1. eligible' \in [DOMAIN eligible' -> Nat] /\ DOMAIN eligible' \subseteq Launchers
  BY EmptyEligible DEF ResetCycle
<1>2. tally' \in [submitted : SUBSET Launchers, deferred : SUBSET Launchers,
                 refused : SUBSET Launchers, faulted : SUBSET Launchers,
                 discovered : BOOLEAN]
  BY DEF ResetCycle, NoTally
<1>3. pending' \in [launcher : Launchers \cup {None}, fee : Nat]
  BY DEF ResetCycle, NoClaim
<1> QED
  BY <1>1, <1>2, <1>3 DEF ResetCycle, TypeOK

(* Every step preserves the types, whatever the operator does.             *)
LEMMA NextType == TypeOK /\ [Next]_vars => TypeOK'
<1> SUFFICES ASSUME TypeOK, [Next]_vars PROVE TypeOK'
  OBVIOUS
<1>1. CASE StartDriver
  BY <1>1, IntervalsType, LoadedType DEF StartDriver, TypeOK, Files, cycle, truth
<1>2. CASE RefuseToStart
  BY <1>2 DEF RefuseToStart, TypeOK, engine, cycle, truth
<1>3. CASE CycleOnCorruptState \/ CycleTooEarly
  BY <1>3, IntervalsType, ResetType
     DEF CycleOnCorruptState, CycleTooEarly, EndCycle, TypeOK, NoWindow, engine, truth
<1>4. CASE CycleInOpenWindow
  BY <1>4, ResetType DEF CycleInOpenWindow, TypeOK, Files, engine, truth
<1>5. CASE CycleRollsWindow
  <2>1. window' \in [start : Time \cup {None}, spent : Nat, last : Time \cup {None}]
    BY <1>5 DEF CycleRollsWindow, TypeOK, Files
  <2>2. disk' \in Files
    BY <1>5, <2>1, PersistType DEF CycleRollsWindow, TypeOK
  <2> QED
    BY <1>5, <2>1, <2>2, ResetType DEF CycleRollsWindow, NewWindow, TypeOK, engine
<1>6. CASE Discover \/ DiscoverFaults
  BY <1>6, ClaimConstants
     DEF Discover, DiscoverFaults, Candidates, TypeOK, engine, truth
<1>7. CASE DiscoverUnavailable \/ PreBudgetUnavailable \/ QuoteUnavailable
  BY <1>7, IntervalsType
     DEF DiscoverUnavailable, PreBudgetUnavailable, QuoteUnavailable, EndCycle, TypeOK,
         engine, cycle, truth
<1>8. CASE EvaluatePreBudget
  <2>1. PICK l \in todo, accrued \in Accruals :
           /\ todo' = todo \ {l}
           /\ tally' = tally \/ tally' = [tally EXCEPT !.refused = @ \cup {l}]
           /\ \/ eligible' = eligible
              \/ eligible' = [m \in DOMAIN eligible \cup {l} |->
                                 IF m = l THEN accrued ELSE eligible[m]]
    BY <1>8 DEF EvaluatePreBudget
  <2>2. DOMAIN eligible' \subseteq Launchers /\ eligible' \in [DOMAIN eligible' -> Nat]
    BY <2>1, ClaimConstants DEF TypeOK
  <2>3. tally' \in [submitted : SUBSET Launchers, deferred : SUBSET Launchers,
                   refused : SUBSET Launchers, faulted : SUBSET Launchers,
                   discovered : BOOLEAN]
    BY <2>1 DEF TypeOK
  <2> QED
    BY <1>8, <2>1, <2>2, <2>3 DEF EvaluatePreBudget, TypeOK, engine, truth
<1>9. CASE PreBudgetFault \/ QuoteFault
  <2>1. PICK l \in todo : /\ todo' = todo \ {l}
                         /\ tally' = [tally EXCEPT !.faulted = @ \cup {l}]
    BY <1>9 DEF PreBudgetFault, QuoteFault
  <2>2. tally' \in [submitted : SUBSET Launchers, deferred : SUBSET Launchers,
                   refused : SUBSET Launchers, faulted : SUBSET Launchers,
                   discovered : BOOLEAN]
    BY <2>1 DEF TypeOK
  <2> QED
    BY <1>9, <2>1, <2>2 DEF PreBudgetFault, QuoteFault, TypeOK, engine, truth
<1>10. CASE OrderForBudget \/ SkipFeeAboveCeiling
  BY <1>10 DEF OrderForBudget, SkipFeeAboveCeiling, TypeOK, engine, truth
<1>11. CASE SkipBudgetExhausted
  BY <1>11 DEF SkipBudgetExhausted, TypeOK, engine, truth
<1>12. CASE CommitFee
  <2>1. PICK l \in todo, fee \in Fees : todo' = todo \ {l} /\ Commit(l, fee)
    BY <1>12 DEF CommitFee
  <2>2. window' \in [start : Time \cup {None}, spent : Nat, last : Time \cup {None}]
    BY <2>1, ClaimConstants DEF Commit, TypeOK
  <2>3. disk' \in Files
    BY <2>1, <2>2, PersistType DEF Commit, TypeOK
  <2> QED
    BY <1>12, <2>1, <2>2, <2>3, ClaimConstants DEF CommitFee, Commit, TypeOK, engine, truth
<1>13. CASE Submitted
  <2>1. pending.launcher \in Launchers
    BY <1>13 DEF Submitted, TypeOK
  <2>2. tally' = [tally EXCEPT !.submitted = @ \cup {pending.launcher}]
    BY <1>13 DEF Submitted
  <2>3. tally' \in [submitted : SUBSET Launchers, deferred : SUBSET Launchers,
                   refused : SUBSET Launchers, faulted : SUBSET Launchers,
                   discovered : BOOLEAN]
    BY <2>1, <2>2 DEF TypeOK
  <2> QED
    BY <1>13, <2>3 DEF Submitted, TypeOK, NoClaim, engine
<1>14. CASE SubmissionRefused \/ SubmissionUnavailable
  <2>1. window' \in [start : Time \cup {None}, spent : Nat, last : Time \cup {None}]
    BY <1>14 DEF SubmissionRefused, SubmissionUnavailable, Uncommit, AtLeastZero, TypeOK
  <2>2. disk' \in Files
    BY <1>14, <2>1, PersistType DEF SubmissionRefused, SubmissionUnavailable, Uncommit, TypeOK
  <2>3. tally' \in [submitted : SUBSET Launchers, deferred : SUBSET Launchers,
                    refused : SUBSET Launchers, faulted : SUBSET Launchers,
                    discovered : BOOLEAN]
    <3>1. CASE SubmissionRefused
      <4>1. pending.launcher \in Launchers
        BY <3>1 DEF SubmissionRefused, TypeOK
      <4>2. tally' = [tally EXCEPT !.faulted = @ \cup {pending.launcher}]
        BY <3>1 DEF SubmissionRefused
      <4> QED
        BY <4>1, <4>2 DEF TypeOK
    <3>2. CASE SubmissionUnavailable
      BY <3>2 DEF SubmissionUnavailable, TypeOK
    <3> QED
      BY <1>14, <3>1, <3>2
  <2>4. CASE SubmissionRefused
    BY <2>1, <2>2, <2>3, <2>4 DEF SubmissionRefused, Uncommit, NoClaim, TypeOK, engine, truth
  <2>5. CASE SubmissionUnavailable
    BY <2>1, <2>2, <2>3, <2>5, IntervalsType
       DEF SubmissionUnavailable, Uncommit, EndCycle, NoClaim, TypeOK, engine, truth
  <2> QED
    BY <1>14, <2>4, <2>5
<1>15. CASE FinishCycle
  <2>1. window' \in [start : Time \cup {None}, spent : Nat, last : Time \cup {None}]
    BY <1>15 DEF FinishCycle, CompletionStamp, TypeOK
  <2>2. disk' \in Files
    BY <1>15, <2>1, PersistType DEF FinishCycle, TypeOK
  <2>3. ComputeState \in {"Faulted", "ClaimableButNotClaiming", "Nominal"}
    BY DEF ComputeState
  <2> QED
    BY <1>15, <2>1, <2>2, <2>3, IntervalsType DEF FinishCycle, EndCycle, TypeOK
<1>16. CASE Crash
  <2>1. eligible' \in [DOMAIN eligible' -> Nat] /\ DOMAIN eligible' \subseteq Launchers
    BY <1>16, EmptyEligible DEF Crash
  <2>2. tally' \in [submitted : SUBSET Launchers, deferred : SUBSET Launchers,
                   refused : SUBSET Launchers, faulted : SUBSET Launchers,
                   discovered : BOOLEAN]
    BY <1>16 DEF Crash, NoTally
  <2>3. t' \in Time
    BY <1>16, ClaimConstants DEF Crash, Time
  <2>4. paid' \in Nat
    BY <1>16 DEF Crash, TypeOK
  <2> QED
    BY <1>16, <2>1, <2>2, <2>3, <2>4 DEF Crash, TypeOK, NoWindow, NoClaim, engine
<1>17. CASE Tick \/ ClockSteppedBack
  BY <1>17, ClaimConstants DEF Tick, ClockSteppedBack, AtLeastZero, TypeOK, Time, engine, cycle, truth
<1>18. CASE OperatorReplacesFile
  BY <1>18, OperatorFilesTyped DEF OperatorReplacesFile, TypeOK, engine, cycle, truth
<1>19. CASE UNCHANGED vars
  BY <1>19 DEF TypeOK, vars, engine, cycle, truth
<1> QED
  BY <1>1, <1>2, <1>3, <1>4, <1>5, <1>6, <1>7, <1>8, <1>9, <1>10, <1>11, <1>12, <1>13,
     <1>14, <1>15, <1>16, <1>17, <1>18, <1>19
     DEF Next, Driver, BeginCycle, Discovery, Phase1, Phase2, Environment

(* Type correctness of the whole loop: in particular the fee ledger and    *)
(* the clocks never leave the naturals, whatever file is put in place.     *)
THEOREM TypeCorrect == Spec => []TypeOK
  BY InitType, NextType, PTL DEF Spec

----------------------------------------------------------------------------
(* The fee ledger. *)

(* Saves succeed, and what befalls the file leaves it unreadable: nobody   *)
(* rewrites its figures.                                                   *)
Undisturbed == (\A f \in OperatorFiles : f.garbled) /\ ~ SavesCanFail

Windows == [start : Time \cup {None}, spent : Nat, last : Time \cup {None}]

(* The file Persist leaves behind: damaged as it was, or with the window.  *)
LEMMA PersistWrites ==
  ASSUME Undisturbed, NEW f \in Files, ~ f.garbled => f.spent <= f.budget,
         NEW w \in Windows, NEW g \in Persist(f, w)
  PROVE  /\ g.garbled = f.garbled
         /\ ~ f.garbled => /\ g.budget = f.budget /\ g.start = w.start
                           /\ g.spent = w.spent /\ g.last = w.last
<1>1. CASE f.garbled
  BY <1>1 DEF Persist, Corrupt
<1>2. CASE ~ f.garbled
  <2>1. ~ Corrupt(f)
    BY <1>2 DEF Corrupt, Files
  <2>2. g = [f EXCEPT !.start = w.start, !.spent = w.spent, !.last = w.last]
    BY <2>1 DEF Undisturbed, Persist
  <2> QED
    BY <2>2 DEF Files
<1> QED
  BY <1>1, <1>2

LEMMA LedgerInit == Init => CycleInv /\ FileInv
  BY ClaimConstants DEF Init, CycleInv, FileInv, DefaultFile, GateHolds, InCycle, NoClaim

(* A window the engine takes for over is over.                             *)
LEMMA RolledIsOver == TypeOK /\ FileInv /\ CycleRollsWindow => opened' = now /\ paid' = 0
<1> SUFFICES ASSUME TypeOK, FileInv, CycleRollsWindow PROVE opened' = now /\ paid' = 0
  OBVIOUS
<1>1. FeeWindow \in Nat
  BY ClaimConstants DEF FeeWindow, RawCadence, AtLeast
<1>2. now \in Int /\ opened \in Int
  BY ClaimConstants DEF TypeOK, Time, None
<1>3. disk.start = opened
  BY DEF CycleRollsWindow, Corrupt, FileInv
<1>4. opened = None \/ now - opened >= FeeWindow
  BY <1>1, <1>2, <1>3 DEF CycleRollsWindow, WindowStillOpen
<1> QED
  BY <1>4 DEF CycleRollsWindow, NewWindow

(* A cycle only runs on a file that could be read when it began, so the    *)
(* budget it holds is the operator's.                                      *)
LEMMA CycleNext == TypeOK /\ CycleInv /\ FileInv /\ [Next]_vars => CycleInv'
<1> SUFFICES ASSUME TypeOK, CycleInv, FileInv, [Next]_vars PROVE CycleInv'
  OBVIOUS
<1> USE DEF GateHolds, InCycle
<1>1. CASE StartDriver \/ RefuseToStart
  BY <1>1 DEF StartDriver, RefuseToStart, CycleInv, engine, cycle, truth
<1>2. CASE CycleOnCorruptState \/ CycleTooEarly
  BY <1>2 DEF CycleOnCorruptState, CycleTooEarly, ResetCycle, EndCycle, CycleInv, NoClaim,
              engine, truth
<1>3. CASE CycleInOpenWindow
  BY <1>3 DEF CycleInOpenWindow, ResetCycle, CycleInv, FileInv, Awake, Corrupt, NoClaim,
              CadenceElapsed, TypeOK, Files, engine, truth
<1>4. CASE CycleRollsWindow
  BY <1>4, RolledIsOver, ClaimConstants
     DEF CycleRollsWindow, ResetCycle, CycleInv, FileInv, Awake, Corrupt, NoClaim,
         CadenceElapsed, engine
<1>5. CASE Discovery \/ Phase1
  BY <1>5 DEF Discovery, Discover, DiscoverFaults, DiscoverUnavailable,
              Phase1, EvaluatePreBudget, PreBudgetFault, PreBudgetUnavailable,
              OrderForBudget, EndCycle, CycleInv, engine, cycle, truth
<1>6. CASE QuoteFault \/ QuoteUnavailable \/ SkipFeeAboveCeiling \/ SkipBudgetExhausted
  BY <1>6 DEF QuoteFault, QuoteUnavailable, SkipFeeAboveCeiling, SkipBudgetExhausted,
              EndCycle, CycleInv, engine, cycle, truth
<1>7. CASE CommitFee
  <2>1. PICK l \in todo, fee \in Fees : ~ OverBudget(fee) /\ Commit(l, fee)
    BY <1>7 DEF CommitFee
  <2>2. window' = [window EXCEPT !.spent = @ + fee] /\ fee \in Nat
    BY <2>1, ClaimConstants DEF Commit
  <2>3. pending' = [launcher |-> l, fee |-> fee] /\ pending.fee = 0 /\ spent = window.spent
    BY <1>7, <2>1 DEF Commit, CommitFee, CycleInv, TypeOK
  <2>4. window'.spent = spent + fee /\ spent + fee <= InitBudget
    BY <1>7, <2>1, <2>2, <2>3 DEF CommitFee, CycleInv, OverBudget, TypeOK
  <2> QED
    BY <1>7, <2>2, <2>3, <2>4 DEF CommitFee, CycleInv, TypeOK, engine, truth
<1>8. CASE Submitted
  BY <1>8, ClaimConstants DEF Submitted, CycleInv, NoClaim, TypeOK, engine
<1>9. CASE SubmissionRefused \/ SubmissionUnavailable
  <2>1. window' = [window EXCEPT !.spent = spent] /\ pending'.fee = 0
    BY <1>9 DEF SubmissionRefused, SubmissionUnavailable, Uncommit, AtLeastZero, CycleInv,
                NoClaim, TypeOK
  <2>2. paid <= spent /\ spent <= InitBudget /\ window'.spent = spent
    BY <1>9, <2>1, ClaimConstants
       DEF SubmissionRefused, SubmissionUnavailable, CycleInv, TypeOK
  <2> QED
    BY <1>9, <2>1, <2>2
       DEF SubmissionRefused, SubmissionUnavailable, EndCycle, CycleInv, TypeOK, engine, truth
<1>10. CASE FinishCycle
  BY <1>10 DEF FinishCycle, EndCycle, CycleInv
<1>11. CASE Crash
  BY <1>11, ClaimConstants DEF Crash, CycleInv, NoClaim, TypeOK, engine
<1>12. CASE Tick \/ ClockSteppedBack \/ OperatorReplacesFile
  BY <1>12 DEF Tick, ClockSteppedBack, OperatorReplacesFile, CycleInv, engine, cycle, truth
<1>13. CASE UNCHANGED vars
  BY <1>13 DEF CycleInv, vars, engine, cycle, truth
<1> QED
  BY <1>1, <1>2, <1>3, <1>4, <1>5, <1>6, <1>7, <1>8, <1>9, <1>10, <1>11, <1>12, <1>13
     DEF Next, Driver, BeginCycle, Phase2, Environment

LEMMA FileNext ==
  Undisturbed /\ TypeOK /\ TypeOK' /\ CycleInv /\ CycleInv' /\ FileInv /\ [Next]_vars => FileInv'
<1> SUFFICES ASSUME Undisturbed, TypeOK, TypeOK', CycleInv, CycleInv', FileInv, [Next]_vars,
                    ~ disk'.garbled
             PROVE  FileInv'
  BY DEF FileInv
<1> USE DEF InCycle
<1>W. ASSUME NEW w \in Windows, disk' \in Persist(disk, w)
      PROVE  /\ ~ disk.garbled /\ disk'.budget = InitBudget
             /\ disk'.start = w.start /\ disk'.spent = w.spent /\ disk'.last = w.last
             /\ w = [start |-> disk'.start, spent |-> disk'.spent, last |-> disk'.last]
  <2>1. ~ disk.garbled => disk.spent <= disk.budget
    BY DEF FileInv, TypeOK, Files
  <2>2. /\ ~ disk.garbled /\ disk'.budget = disk.budget
        /\ disk'.start = w.start /\ disk'.spent = w.spent /\ disk'.last = w.last
    BY <1>W, <2>1, PersistWrites DEF TypeOK
  <2> QED
    BY <2>2 DEF FileInv, Windows
<1>1. CASE StartDriver
  BY <1>1 DEF StartDriver, FileInv, Loaded, Corrupt, TypeOK, Files, cycle, truth
<1>2. CASE RefuseToStart
  BY <1>2 DEF RefuseToStart, FileInv, engine, cycle, truth
<1>3. CASE CycleOnCorruptState \/ CycleTooEarly
  BY <1>3 DEF CycleOnCorruptState, CycleTooEarly, ResetCycle, EndCycle, FileInv, CycleInv,
              Awake, NoClaim, engine, truth
<1>4. CASE CycleInOpenWindow
  BY <1>4 DEF CycleInOpenWindow, ResetCycle, FileInv, CycleInv, Awake, NoClaim, engine, truth
<1>5. CASE CycleRollsWindow
  <2>1. window' \in Windows
    BY DEF TypeOK, Windows
  <2>2. window' = [start |-> now, spent |-> 0, last |-> disk.last] /\ disk' \in Persist(disk, window')
    BY <1>5 DEF CycleRollsWindow
  <2>3. ~ disk.garbled
    BY <1>W, <2>1, <2>2
  <2>4. opened' = now /\ paid' = 0
    BY <1>5, RolledIsOver
  <2> QED
    BY <1>5, <1>W, <2>1, <2>2, <2>3, <2>4, ClaimConstants
       DEF CycleRollsWindow, ResetCycle, FileInv, Awake, NoClaim, engine
<1>6. CASE Discovery \/ Phase1
  BY <1>6 DEF Discovery, Discover, DiscoverFaults, DiscoverUnavailable,
              Phase1, EvaluatePreBudget, PreBudgetFault, PreBudgetUnavailable,
              OrderForBudget, EndCycle, FileInv, engine, cycle, truth
<1>7. CASE QuoteFault \/ QuoteUnavailable \/ SkipFeeAboveCeiling \/ SkipBudgetExhausted
  BY <1>7 DEF QuoteFault, QuoteUnavailable, SkipFeeAboveCeiling, SkipBudgetExhausted,
              EndCycle, FileInv, engine, cycle, truth
<1>8. CASE CommitFee
  <2>1. window' \in Windows
    BY DEF TypeOK, Windows
  <2>2. /\ window'.start = window.start /\ window'.last = window.last
        /\ disk' \in Persist(disk, window')
    BY <1>8 DEF CommitFee, Commit, TypeOK
  <2>3. window'.spent <= InitBudget /\ paid' + pending'.fee <= window'.spent
    BY <1>8 DEF CommitFee, CycleInv
  <2> QED
    BY <1>8, <1>W, <2>1, <2>2, <2>3 DEF CommitFee, FileInv, engine, truth
<1>9. CASE Submitted
  BY <1>9 DEF Submitted, FileInv, NoClaim, TypeOK, Files, engine
<1>10. CASE SubmissionRefused \/ SubmissionUnavailable
  <2>1. window' \in Windows
    BY DEF TypeOK, Windows
  <2>2. /\ window' = [window EXCEPT !.spent = spent] /\ disk' \in Persist(disk, window')
        /\ pending'.fee = 0
    BY <1>10 DEF SubmissionRefused, SubmissionUnavailable, Uncommit, AtLeastZero, CycleInv,
                 NoClaim, TypeOK
  <2>3. /\ window'.start = window.start /\ window'.last = window.last
        /\ window'.spent = spent /\ paid <= spent /\ spent <= InitBudget
    BY <1>10, <2>2, ClaimConstants DEF SubmissionRefused, SubmissionUnavailable, CycleInv, TypeOK
  <2>4. CASE SubmissionRefused
    BY <1>W, <2>1, <2>2, <2>3, <2>4 DEF SubmissionRefused, FileInv, TypeOK, engine, truth
  <2>5. CASE SubmissionUnavailable
    BY <1>W, <2>1, <2>2, <2>3, <2>5
       DEF SubmissionUnavailable, EndCycle, FileInv, TypeOK, engine, truth
  <2> QED
    BY <1>10, <2>4, <2>5
<1>11. CASE FinishCycle
  <2>1. window' \in Windows
    BY DEF TypeOK, Windows
  <2>2. /\ window'.start = window.start /\ window'.last = t
        /\ window'.spent = window.spent /\ disk' \in Persist(disk, window')
    BY <1>11 DEF FinishCycle, CompletionStamp, TypeOK
  <2>3. pending.fee = 0 /\ paid + pending.fee <= window.spent /\ window.spent <= InitBudget
    BY <1>11 DEF FinishCycle, CycleInv
  <2> QED
    BY <1>11, <1>W, <2>1, <2>2, <2>3 DEF FinishCycle, EndCycle, FileInv
<1>12. CASE Crash
  BY <1>12 DEF Crash, FileInv, NoClaim, TypeOK, Files, engine
<1>13. CASE Tick \/ ClockSteppedBack
  BY <1>13 DEF Tick, ClockSteppedBack, FileInv, engine, cycle, truth
<1>14. CASE OperatorReplacesFile
  BY <1>14 DEF OperatorReplacesFile, Undisturbed
<1>15. CASE UNCHANGED vars
  BY <1>15 DEF FileInv, vars, engine, cycle, truth
<1> QED
  BY <1>1, <1>2, <1>3, <1>4, <1>5, <1>6, <1>7, <1>8, <1>9, <1>10, <1>11, <1>12, <1>13,
     <1>14, <1>15
     DEF Next, Driver, BeginCycle, Phase2, Environment

(* The two hold together: a readable file is in step with the cycle, and a *)
(* damaged one lets no further cycle begin.                                *)
LEMMA LedgerCorrect == Undisturbed => (Spec => [](CycleInv /\ FileInv))
<1> SUFFICES ASSUME Undisturbed PROVE Spec => [](CycleInv /\ FileInv)
  OBVIOUS
<1>1. Init => CycleInv /\ FileInv
  BY LedgerInit
<1>2. TypeOK /\ TypeOK' /\ CycleInv /\ FileInv /\ [Next]_vars => (CycleInv /\ FileInv)'
  BY CycleNext, FileNext
<1> QED
  BY <1>1, <1>2, TypeCorrect, PTL DEF Spec

(* Write-then-spend: as long as saves succeed and nobody rewrites the      *)
(* file's figures, every fee broadcast in the current window is counted in *)
(* the file, across any number of crashes.                                 *)
THEOREM WriteAhead == Undisturbed => (Spec => []LedgerCoversChain)
<1> SUFFICES ASSUME Undisturbed PROVE Spec => []LedgerCoversChain
  OBVIOUS
<1>1. FileInv => LedgerCoversChain
  BY DEF FileInv, LedgerCoversChain, Corrupt
<1> QED
  BY <1>1, LedgerCorrect, PTL

(* Under the same assumption the aggregate fee budget of a window holds:   *)
(* neither a restart loop inside one window nor a file damaged in the      *)
(* middle of a cycle can spend it twice.                                   *)
THEOREM BudgetHolds == Undisturbed => (Spec => []PaidWithinBudget)
<1> SUFFICES ASSUME Undisturbed PROVE Spec => []PaidWithinBudget
  OBVIOUS
<1>1. CycleInv => PaidWithinBudget
  BY DEF CycleInv, PaidWithinBudget
<1> QED
  BY <1>1, LedgerCorrect, PTL

(* And no process starts a cycle before the gate cadence has passed since  *)
(* the last completed one, whichever process completed it and however the  *)
(* clock was stepped.                                                      *)
THEOREM CadenceHolds == Undisturbed => (Spec => []GateHolds)
<1> SUFFICES ASSUME Undisturbed PROVE Spec => []GateHolds
  OBVIOUS
<1>1. CycleInv => GateHolds
  BY DEF CycleInv
<1> QED
  BY <1>1, LedgerCorrect, PTL

----------------------------------------------------------------------------
(* The order of the budget pass and the honesty of the status. *)

(* The next claim of a queue is worth at least as much as the rest of it.  *)
LEMMA NextIsDearest ==
  ASSUME TypeOK, NEW l \in todo, NextClaim(l), todo \subseteq DOMAIN eligible
  PROVE  \A m \in todo : eligible[l] >= eligible[m]
  BY DEF TypeOK, NextClaim, IsNextClaim, Precedes

LEMMA OrderInit == Init => OrderInv /\ StatusInv
  BY EmptyEligible DEF Init, OrderInv, StatusInv, DearestFirst, NominalIsHonest, NoTally

LEMMA OrderNext == TypeOK /\ OrderInv /\ [Next]_vars => OrderInv'
<1> SUFFICES ASSUME TypeOK, OrderInv, [Next]_vars PROVE OrderInv'
  OBVIOUS
<1> USE DEF DearestFirst
<1>1. CASE Driver
  BY <1>1 DEF Driver, StartDriver, RefuseToStart, OrderInv, cycle
<1>2. CASE BeginCycle
  <2>1. ResetCycle /\ pc' \in {"asleep", "discover"}
    BY <1>2 DEF BeginCycle, CycleOnCorruptState, CycleTooEarly, CycleInOpenWindow,
                CycleRollsWindow, EndCycle
  <2>2. DOMAIN eligible' = {} /\ tally'.submitted = {} /\ tally'.deferred = {}
    BY <2>1, EmptyEligible DEF ResetCycle, NoTally
  <2> QED
    BY <2>1, <2>2 DEF OrderInv
<1>3. CASE Discover \/ DiscoverFaults
  <2>1. /\ tally'.submitted = tally.submitted /\ tally'.deferred = tally.deferred
        /\ eligible' = eligible /\ pc' = "pre" /\ pc = "discover"
    BY <1>3 DEF Discover, DiscoverFaults, TypeOK
  <2> QED
    BY <2>1 DEF OrderInv
<1>4. CASE DiscoverUnavailable \/ PreBudgetUnavailable \/ QuoteUnavailable
  BY <1>4 DEF DiscoverUnavailable, PreBudgetUnavailable, QuoteUnavailable, EndCycle,
              OrderInv, cycle
<1>5. CASE EvaluatePreBudget \/ PreBudgetFault
  <2>1. /\ tally'.submitted = tally.submitted /\ tally'.deferred = tally.deferred
        /\ pc' = "pre" /\ pc = "pre"
    BY <1>5 DEF EvaluatePreBudget, PreBudgetFault, TypeOK
  <2> QED
    BY <2>1 DEF OrderInv
<1>6. CASE OrderForBudget
  BY <1>6 DEF OrderForBudget, OrderInv
<1>7. CASE QuoteFault \/ SkipFeeAboveCeiling
  <2>1. /\ tally'.submitted = tally.submitted /\ tally'.deferred = tally.deferred
        /\ pc' = "budget" /\ pc = "budget" /\ eligible' = eligible /\ exhausted' = exhausted
        /\ todo' \subseteq todo
    BY <1>7 DEF QuoteFault, SkipFeeAboveCeiling, TypeOK
  <2> QED
    BY <2>1 DEF OrderInv
<1>8. CASE SkipBudgetExhausted
  <2>1. PICK l \in todo : NextClaim(l) /\ todo' = todo \ {l}
                          /\ tally' = [tally EXCEPT !.deferred = @ \cup {l}]
    BY <1>8 DEF SkipBudgetExhausted
  <2>2. pc = "budget" /\ pc' = "budget" /\ exhausted' = TRUE /\ eligible' = eligible
    BY <1>8 DEF SkipBudgetExhausted
  <2>3. \A m \in todo : eligible[l] >= eligible[m]
    BY <2>1, <2>2, NextIsDearest DEF OrderInv
  <2>4. tally'.submitted = tally.submitted /\ tally'.deferred = tally.deferred \cup {l}
    BY <2>1 DEF TypeOK
  <2> QED
    BY <2>1, <2>2, <2>3, <2>4 DEF OrderInv
<1>9. CASE CommitFee
  <2>1. PICK l \in todo, fee \in Fees :
           NextClaim(l) /\ ~ OverBudget(fee) /\ todo' = todo \ {l} /\ Commit(l, fee)
    BY <1>9 DEF CommitFee
  <2>2. /\ pc = "budget" /\ pc' = "submit" /\ eligible' = eligible /\ tally' = tally
        /\ exhausted' = exhausted /\ pending'.launcher = l /\ ~ exhausted
    BY <1>9, <2>1 DEF CommitFee, Commit, OverBudget
  <2>3. \A m \in todo : eligible[l] >= eligible[m]
    BY <2>1, <2>2, NextIsDearest DEF OrderInv
  <2> QED
    BY <2>1, <2>2, <2>3 DEF OrderInv
<1>10. CASE Submitted
  <2>1. /\ tally'.submitted = tally.submitted \cup {pending.launcher}
        /\ tally'.deferred = tally.deferred
        /\ pc = "submit" /\ pc' = "budget" /\ eligible' = eligible /\ todo' = todo
    BY <1>10 DEF Submitted, TypeOK
  <2> QED
    BY <2>1 DEF OrderInv
<1>11. CASE SubmissionRefused \/ SubmissionUnavailable
  <2>1. /\ tally'.submitted = tally.submitted /\ tally'.deferred = tally.deferred
        /\ pc = "submit" /\ pc' \in {"budget", "asleep"} /\ eligible' = eligible
        /\ todo' = todo
    BY <1>11 DEF SubmissionRefused, SubmissionUnavailable, EndCycle, TypeOK
  <2> QED
    BY <2>1 DEF OrderInv
<1>12. CASE FinishCycle
  BY <1>12 DEF FinishCycle, EndCycle, OrderInv
<1>13. CASE Crash
  <2>1. DOMAIN eligible' = {} /\ tally'.submitted = {} /\ tally'.deferred = {} /\ pc' = "off"
    BY <1>13, EmptyEligible DEF Crash, NoTally
  <2> QED
    BY <2>1 DEF OrderInv
<1>14. CASE Tick \/ ClockSteppedBack \/ OperatorReplacesFile \/ UNCHANGED vars
  BY <1>14 DEF Tick, ClockSteppedBack, OperatorReplacesFile, OrderInv, vars, cycle
<1> QED
  BY <1>1, <1>2, <1>3, <1>4, <1>5, <1>6, <1>7, <1>8, <1>9, <1>10, <1>11, <1>12, <1>13,
     <1>14
     DEF Next, Discovery, Phase1, Phase2, Environment

(* A budget that runs out cuts off the cheapest claims, for every set of   *)
(* launchers, every fee and every file.                                    *)
THEOREM DearestServedFirst == Spec => []DearestFirst
<1>1. Init => OrderInv
  BY OrderInit
<1>2. TypeOK /\ OrderInv /\ [Next]_vars => OrderInv'
  BY OrderNext
<1>3. OrderInv => DearestFirst
  BY DEF OrderInv
<1> QED
  BY <1>1, <1>2, <1>3, TypeCorrect, PTL DEF Spec

(* A cycle that computes Nominal has submitted every claim it could.       *)
LEMMA NominalMeansAll ==
  ASSUME TypeOK, OrderInv, ComputeState = "Nominal"
  PROVE  ~ fault /\ tally.refused = {} /\ tally.submitted = DOMAIN eligible
<1>1. /\ ~ fault
      /\ ~ (Cardinality(tally.submitted)
              < Cardinality(DOMAIN eligible) + Cardinality(tally.refused))
  BY DEF ComputeState
<1>2. /\ IsFiniteSet(DOMAIN eligible) /\ IsFiniteSet(tally.refused)
      /\ tally.submitted \subseteq DOMAIN eligible
  BY FS_Subset, ClaimConstants DEF TypeOK, OrderInv
<1>3. /\ Cardinality(DOMAIN eligible) \in Nat /\ Cardinality(tally.refused) \in Nat
      /\ IsFiniteSet(tally.submitted) /\ Cardinality(tally.submitted) \in Nat
      /\ Cardinality(tally.submitted) <= Cardinality(DOMAIN eligible)
  BY <1>2, FS_Subset, FS_CardinalityType
<1>4. Cardinality(tally.refused) = 0 /\ Cardinality(tally.submitted) = Cardinality(DOMAIN eligible)
  BY <1>1, <1>3
<1> QED
  BY <1>1, <1>2, <1>4, FS_EmptySet, FS_Subset

LEMMA StatusNext == TypeOK /\ OrderInv /\ StatusInv /\ [Next]_vars => StatusInv'
<1> SUFFICES ASSUME TypeOK, OrderInv, StatusInv, [Next]_vars PROVE StatusInv'
  OBVIOUS
<1> USE DEF NominalIsHonest
<1>1. CASE Driver
  BY <1>1 DEF Driver, StartDriver, RefuseToStart, StatusInv, cycle
<1>2. CASE BeginCycle
  <2>1. /\ ResetCycle
        /\ \/ pc' = "discover"
           \/ pc' = "asleep" /\ status' # "Nominal"
    BY <1>2 DEF BeginCycle, CycleOnCorruptState, CycleTooEarly, CycleInOpenWindow,
                CycleRollsWindow, EndCycle
  <2>2. tally'.faulted = {}
    BY <2>1 DEF ResetCycle, NoTally
  <2> QED
    BY <2>1, <2>2 DEF StatusInv
<1>3. CASE Discover \/ DiscoverFaults
  <2>1. /\ tally'.faulted = tally.faulted /\ pc' = "pre"
        /\ ~ tally'.discovered => fault'
    BY <1>3 DEF Discover, DiscoverFaults, Candidates, TypeOK
  <2>2. tally.faulted # {} => fault'
    BY <1>3 DEF StatusInv, Discover, DiscoverFaults, Candidates, OrderInv
  <2> QED
    BY <2>1, <2>2 DEF StatusInv
<1>4. CASE DiscoverUnavailable \/ PreBudgetUnavailable \/ QuoteUnavailable
  BY <1>4 DEF DiscoverUnavailable, PreBudgetUnavailable, QuoteUnavailable, EndCycle,
              StatusInv, cycle
<1>5. CASE PreBudgetFault \/ QuoteFault \/ SubmissionRefused
  BY <1>5 DEF PreBudgetFault, QuoteFault, SubmissionRefused, StatusInv
<1>6. CASE EvaluatePreBudget \/ OrderForBudget \/ SkipFeeAboveCeiling \/ SkipBudgetExhausted
           \/ CommitFee \/ Submitted
  <2>1. /\ tally'.faulted = tally.faulted /\ tally'.discovered = tally.discovered
        /\ fault' = fault /\ pc \in {"pre", "budget", "submit"} /\ pc' # "asleep"
    BY <1>6 DEF EvaluatePreBudget, OrderForBudget, SkipFeeAboveCeiling,
                SkipBudgetExhausted, CommitFee, Submitted, TypeOK
  <2> QED
    BY <2>1 DEF StatusInv
<1>7. CASE SubmissionUnavailable
  BY <1>7 DEF SubmissionUnavailable, EndCycle, StatusInv
<1>8. CASE FinishCycle
  <2>1. /\ status' = ComputeState /\ tally' = tally /\ eligible' = eligible
        /\ fault' = fault /\ pc = "budget" /\ pc' = "asleep"
    BY <1>8 DEF FinishCycle, EndCycle
  <2>2. ComputeState = "Nominal" => /\ tally.discovered /\ tally.faulted = {}
                                    /\ tally.refused = {}
                                    /\ tally.submitted = DOMAIN eligible
    BY <2>1, NominalMeansAll DEF StatusInv
  <2> QED
    BY <2>1, <2>2 DEF StatusInv
<1>9. CASE Crash
  <2>1. tally'.faulted = {} /\ pc' = "off"
    BY <1>9 DEF Crash, NoTally
  <2> QED
    BY <2>1 DEF StatusInv
<1>10. CASE Tick \/ ClockSteppedBack \/ OperatorReplacesFile \/ UNCHANGED vars
  BY <1>10 DEF Tick, ClockSteppedBack, OperatorReplacesFile, StatusInv, vars, cycle
<1> QED
  BY <1>1, <1>2, <1>3, <1>4, <1>5, <1>6, <1>7, <1>8, <1>9, <1>10
     DEF Next, Discovery, Phase1, Phase2, Environment

(* The anti-silence promise of the status, for every set of launchers: no  *)
(* fault, refusal or missed claim hides behind Nominal.                    *)
THEOREM NominalHonest == Spec => []NominalIsHonest
<1>1. Init => OrderInv /\ StatusInv
  BY OrderInit
<1>2. TypeOK /\ OrderInv /\ StatusInv /\ [Next]_vars => OrderInv' /\ StatusInv'
  BY OrderNext, StatusNext
<1>3. StatusInv => NominalIsHonest
  BY DEF StatusInv
<1> QED
  BY <1>1, <1>2, <1>3, TypeCorrect, PTL DEF Spec

----------------------------------------------------------------------------
(* A corrupt file. *)

(* What persist_fee_window makes of a corrupt file is that file.           *)
LEMMA CorruptPersist ==
  ASSUME NEW w, NEW f \in Persist(disk, w), Corrupt(disk)
  PROVE  f = disk
BY DEF Persist

(* F8 of config.rs: whatever a cycle had in hand when the file was damaged *)
(* under it (a rolled window, a commit, a reversal, a completion stamp),   *)
(* the engine leaves the damaged file for the operator.                    *)
THEOREM CorruptFileLeft == Spec => CorruptFileKept
<1>1. ASSUME [Next]_vars, Corrupt(disk)
      PROVE  disk' \in OperatorFiles \cup {disk}
  <2>1. CASE Driver \/ BeginCycle
    BY <1>1, <2>1, CorruptPersist
       DEF Driver, StartDriver, RefuseToStart, BeginCycle, CycleOnCorruptState,
           CycleTooEarly, CycleInOpenWindow, CycleRollsWindow
  <2>2. CASE Discovery \/ Phase1
    BY <2>2 DEF Discovery, Phase1, Discover, DiscoverFaults, DiscoverUnavailable,
                EvaluatePreBudget, PreBudgetFault, PreBudgetUnavailable, OrderForBudget
  <2>3. CASE QuoteFault \/ QuoteUnavailable \/ SkipFeeAboveCeiling
             \/ SkipBudgetExhausted \/ Submitted
    BY <2>3 DEF QuoteFault, QuoteUnavailable, SkipFeeAboveCeiling,
                SkipBudgetExhausted, Submitted
  <2>4. CASE CommitFee \/ SubmissionRefused \/ SubmissionUnavailable \/ FinishCycle
    <3>1. \E w : disk' \in Persist(disk, w)
      BY <2>4 DEF CommitFee, Commit, SubmissionRefused, SubmissionUnavailable,
                  Uncommit, FinishCycle
    <3> QED
      BY <1>1, <3>1, CorruptPersist
  <2>5. CASE Environment \/ UNCHANGED vars
    BY <2>5 DEF Environment, Crash, Tick, ClockSteppedBack, OperatorReplacesFile, vars
  <2> QED
    BY <1>1, <2>1, <2>2, <2>3, <2>4, <2>5 DEF Next, Phase2
<1> QED
  BY <1>1, PTL DEF Spec, CorruptFileKept

----------------------------------------------------------------------------
(***************************************************************************)
(* The order of the budget pass and its rotation over many cycles          *)
(* (ClaimOrder, ClaimRotation), for any launchers, values and budgets.     *)
(* Ranks count a finite set; everything about them follows from the        *)
(* inclusion of one set of predecessors in another.                        *)
(***************************************************************************)

LEMMA ProperSubsetIsSmaller ==
  ASSUME NEW S, IsFiniteSet(S), NEW T \in SUBSET S, NEW x \in S \ T
  PROVE  /\ Cardinality(T) \in Nat /\ Cardinality(S) \in Nat
         /\ Cardinality(T) < Cardinality(S)
  BY FS_Subset, FS_CardinalityType

LEMMA RemainderBelowTwice ==
  ASSUME NEW n \in Nat \ {0}, NEW a \in Nat, a < n + n
  PROVE  a % n = IF a < n THEN a ELSE a - n
  OBVIOUS

LEMMA PositionInVector ==
  ASSUME NEW ids \in SUBSET Nat, IsFiniteSet(ids), NEW a \in ids
  PROVE  Position(ids, a) \in Nat /\ Position(ids, a) < Cardinality(ids)
<1>1. a \in ids \ {x \in ids : x < a}
  OBVIOUS
<1> QED
  BY <1>1, ProperSubsetIsSmaller DEF Position

LEMMA PositionIncreases ==
  ASSUME NEW ids \in SUBSET Nat, IsFiniteSet(ids), NEW a \in ids, NEW b \in ids, a < b
  PROVE  Position(ids, a) < Position(ids, b)
<1> DEFINE A == {x \in ids : x < a}
           B == {x \in ids : x < b}
<1>1. IsFiniteSet(B)
  BY FS_Subset
<1>2. A \in SUBSET B /\ a \in B \ A
  <2>1. a \in Nat /\ b \in Nat /\ \A x \in ids : x \in Nat
    OBVIOUS
  <2>2. \A x \in ids : x < a => x < b
    BY <2>1
  <2>3. a \in B /\ a \notin A
    BY <2>1
  <2> QED
    BY <2>2, <2>3
<1>3. Cardinality(A) < Cardinality(B)
  BY <1>1, <1>2, ProperSubsetIsSmaller
<1> QED
  BY <1>3 DEF Position

LEMMA CursorIndexInVector ==
  ASSUME NEW ids \in SUBSET Nat, IsFiniteSet(ids), ids # {}, NEW c
  PROVE  CursorIndex(ids, c) \in Nat /\ CursorIndex(ids, c) < Cardinality(ids)
<1>1. CASE c \in ids
  BY <1>1, PositionInVector DEF CursorIndex
<1>2. CASE c \notin ids
  <2>1. PICK a \in ids : TRUE
    OBVIOUS
  <2>2. Position(ids, a) \in Nat /\ Position(ids, a) < Cardinality(ids)
    BY PositionInVector
  <2>3. Cardinality(ids) \in Nat
    BY FS_CardinalityType
  <2> QED
    BY <1>2, <2>2, <2>3 DEF CursorIndex
<1> QED
  BY <1>1, <1>2

(* The rotated rank tells any two candidates apart, wherever the cursor.   *)
LEMMA RotationKeySeparates ==
  ASSUME NEW ids \in SUBSET Nat, IsFiniteSet(ids), NEW c, NEW a \in ids, NEW b \in ids, a # b
  PROVE  /\ RotationKey(ids, c, a) \in Nat /\ RotationKey(ids, c, b) \in Nat
         /\ RotationKey(ids, c, a) # RotationKey(ids, c, b)
<1> DEFINE n == Cardinality(ids)
           i == CursorIndex(ids, c)
           p == Position(ids, a)
           q == Position(ids, b)
<1>1. n \in Nat /\ p \in Nat /\ p < n /\ q \in Nat /\ q < n
  BY PositionInVector, FS_CardinalityType
<1>2. i \in Nat /\ i < n
  BY <1>1, CursorIndexInVector
<1>3. p # q
  <2>1. CASE a < b  BY <2>1, <1>1, PositionIncreases
  <2>2. CASE b < a  BY <2>2, <1>1, PositionIncreases
  <2> QED  BY <2>1, <2>2
<1>4. RotationKey(ids, c, a) = (p + n - i) % n /\ RotationKey(ids, c, b) = (q + n - i) % n
  BY <1>1 DEF RotationKey
<1> HIDE DEF n, i, p, q
<1>5. (p + n - i) % n = IF p + n - i < n THEN p + n - i ELSE p + n - i - n
  <2>1. PICK x \in Nat : x = p + n - i
    BY <1>1, <1>2
  <2>2. x < n + n /\ n \in Nat \ {0}
    BY <2>1, <1>1, <1>2
  <2>3. x % n = IF x < n THEN x ELSE x - n
    BY <2>2, RemainderBelowTwice
  <2> QED
    BY <2>1, <2>2, <2>3, <1>1, <1>2
<1>6. (q + n - i) % n = IF q + n - i < n THEN q + n - i ELSE q + n - i - n
  <2>1. PICK x \in Nat : x = q + n - i
    BY <1>1, <1>2
  <2>2. x < n + n /\ n \in Nat \ {0}
    BY <2>1, <1>1, <1>2
  <2>3. x % n = IF x < n THEN x ELSE x - n
    BY <2>2, RemainderBelowTwice
  <2> QED
    BY <2>1, <2>2, <2>3, <1>1, <1>2
<1> QED
  BY <1>1, <1>2, <1>3, <1>4, <1>5, <1>6

LEMMA RotationKeyType ==
  ASSUME NEW ids \in SUBSET Nat, IsFiniteSet(ids), NEW c, NEW a \in ids
  PROVE  RotationKey(ids, c, a) \in Int
<1>1. Cardinality(ids) \in Nat /\ Cardinality(ids) # 0
      /\ Position(ids, a) \in Nat /\ CursorIndex(ids, c) \in Nat
  <2>1. /\ Cardinality(ids) \in Nat
        /\ Position(ids, a) \in Nat /\ Position(ids, a) < Cardinality(ids)
        /\ CursorIndex(ids, c) \in Nat
    BY PositionInVector, CursorIndexInVector, FS_CardinalityType
  <2> QED
    BY <2>1
<1> QED
  BY <1>1 DEF RotationKey

(* order_for_budget is an order: whatever the values and wherever the      *)
(* cursor, of two candidates exactly one comes first, and who comes first  *)
(* does not depend on the third one they are compared with.                *)
THEOREM BudgetOrderIsTotal ==
  ASSUME NEW ids \in SUBSET Nat, IsFiniteSet(ids), NEW accrued \in [ids -> Nat], NEW c
  PROVE  /\ \A a, b \in ids : a # b =>
               (Precedes(accrued, c, a, b) \/ Precedes(accrued, c, b, a))
         /\ \A a, b \in ids : ~ (Precedes(accrued, c, a, b) /\ Precedes(accrued, c, b, a))
         /\ \A a, b, d \in ids :
               (Precedes(accrued, c, a, b) /\ Precedes(accrued, c, b, d))
                   => Precedes(accrued, c, a, d)
<1> DEFINE K(x) == RotationKey(ids, c, x)
<1>1. \A x \in ids : K(x) \in Int /\ accrued[x] \in Nat
  BY RotationKeyType
<1>2. \A x, y \in ids : x # y => K(x) # K(y)
  BY RotationKeySeparates
<1>3. \A x, y : Precedes(accrued, c, x, y) <=>
                (accrued[x] > accrued[y] \/ (accrued[x] = accrued[y] /\ K(x) < K(y)))
  BY DEF Precedes
<1> HIDE DEF K
<1> QED
  BY <1>1, <1>2, <1>3

Ahead(accrued, l) == {m \in DOMAIN accrued : Precedes(accrued, rotationCursor, m, l)}

LEMMA RankIncreases ==
  ASSUME NEW ids \in SUBSET Nat, IsFiniteSet(ids), NEW accrued \in [ids -> Nat],
         NEW l \in ids, NEW m \in ids, Precedes(accrued, rotationCursor, l, m)
  PROVE  Rank(accrued, l) < Rank(accrued, m)
<1>1. DOMAIN accrued = ids
  OBVIOUS
<1>2. IsFiniteSet(Ahead(accrued, m))
  BY <1>1, FS_Subset DEF Ahead
<1>3. Ahead(accrued, l) \in SUBSET Ahead(accrued, m)
  BY <1>1, BudgetOrderIsTotal DEF Ahead
<1>4. l \in Ahead(accrued, m) \ Ahead(accrued, l)
  BY <1>1, BudgetOrderIsTotal DEF Ahead
<1>5. Cardinality(Ahead(accrued, l)) < Cardinality(Ahead(accrued, m))
  BY <1>2, <1>3, <1>4, ProperSubsetIsSmaller
<1> QED
  BY <1>5 DEF Rank, Ahead

LEMMA RankType ==
  ASSUME NEW ids \in SUBSET Nat, IsFiniteSet(ids), NEW accrued \in [ids -> Nat], NEW l \in ids
  PROVE  Rank(accrued, l) \in 0 .. Cardinality(ids) - 1
<1>1. Ahead(accrued, l) \in SUBSET ids /\ l \in ids \ Ahead(accrued, l)
  BY BudgetOrderIsTotal DEF Ahead
<1>2. /\ Cardinality(Ahead(accrued, l)) \in Nat /\ Cardinality(ids) \in Nat
      /\ Cardinality(Ahead(accrued, l)) < Cardinality(ids)
  BY <1>1, ProperSubsetIsSmaller
<1> QED
  BY <1>2 DEF Rank, Ahead

(* Ranks are positions: no two candidates share one and none is left out.  *)
LEMMA RanksArePositions ==
  ASSUME NEW ids \in SUBSET Nat, IsFiniteSet(ids), NEW accrued \in [ids -> Nat]
  PROVE  /\ \A l, m \in ids : Rank(accrued, l) = Rank(accrued, m) => l = m
         /\ \A k \in 0 .. Cardinality(ids) - 1 : \E l \in ids : Rank(accrued, l) = k
<1> DEFINE n == Cardinality(ids)
           r == [l \in ids |-> Rank(accrued, l)]
<1>1. \A l \in ids : Rank(accrued, l) \in 0 .. n - 1
  BY RankType
<1>2. \A l, m \in ids : Rank(accrued, l) = Rank(accrued, m) => l = m
  <2> SUFFICES ASSUME NEW l \in ids, NEW m \in ids, l # m
               PROVE  Rank(accrued, l) # Rank(accrued, m)
    OBVIOUS
  <2>1. Precedes(accrued, rotationCursor, l, m) \/ Precedes(accrued, rotationCursor, m, l)
    BY BudgetOrderIsTotal
  <2>2. Rank(accrued, l) < Rank(accrued, m) \/ Rank(accrued, m) < Rank(accrued, l)
    BY <2>1, RankIncreases
  <2> QED
    BY <2>2, <1>1, FS_CardinalityType
<1>3. r \in Injection(ids, 0 .. n - 1)
  BY <1>1, <1>2 DEF Injection, IsInjective
<1>4. n \in Nat
  BY FS_CardinalityType
<1>5. IsFiniteSet(0 .. n - 1) /\ Cardinality(0 .. n - 1) = n
  BY <1>4, FS_Interval
<1>6. r \in Surjection(ids, 0 .. n - 1)
  BY <1>3, <1>5, FS_Injection
<1>7. \A k \in 0 .. n - 1 : \E l \in ids : Rank(accrued, l) = k
  BY <1>6 DEF Surjection
<1> QED
  BY <1>2, <1>7

LEMMA CandidatesTyped ==
  ASSUME NEW others \in Presences
  PROVE  /\ Tied \cup others \in SUBSET Nat /\ IsFiniteSet(Tied \cup others)
         /\ [l \in Tied \cup others |-> Accrued[l]] \in [Tied \cup others -> Nat]
  BY RotationConstants, FS_Union

(* What one cycle does with its budget (run_cycle, order_for_budget): it   *)
(* serves no more claims than the budget pays for, leaves no budget unused *)
(* while a claim waits, defers nothing dearer than what it serves, and     *)
(* when it defers, the cursor is left at the first claim it did not reach. *)
THEOREM CycleSpendsItsBudget ==
  ASSUME NEW others \in Presences, NEW paysFor \in Budgets, Cycle(others, paysFor)
  PROVE  LET all == Tied \cup others
             worth == [l \in all |-> Accrued[l]] IN
         /\ served' \subseteq all /\ IsFiniteSet(served')
         /\ Cardinality(served') <= paysFor
         /\ all \ served' # {} =>
               /\ Cardinality(served') = paysFor
               /\ rotationCursor' \in all \ served'
               /\ \A m \in (all \ served') \ {rotationCursor'} :
                     Precedes(worth, rotationCursor, rotationCursor', m)
         /\ \A l \in served', m \in all \ served' : Accrued[l] >= Accrued[m]
<1> DEFINE all == Tied \cup others
           acc == [l \in all |-> Accrued[l]]
           deferred == {l \in all : Rank(acc, l) >= paysFor}
<1>1. all \in SUBSET Nat /\ IsFiniteSet(all) /\ acc \in [all -> Nat] /\ DOMAIN acc = all
  BY CandidatesTyped
<1>2. paysFor \in Nat \ {0}
  BY RotationConstants
<1>3. /\ served' = all \ deferred
      /\ rotationCursor' = IF deferred = {} THEN rotationCursor
                           ELSE CHOOSE l \in deferred : Rank(acc, l) = paysFor
  BY <1>1 DEF Cycle
<1>4. \A l \in all : acc[l] = Accrued[l] /\ acc[l] \in Nat
  BY <1>1
<1>5. \A l \in all : Rank(acc, l) \in 0 .. Cardinality(all) - 1
  BY <1>1, RankType
<1> HIDE DEF acc
<1>n. Cardinality(all) \in Nat
  BY <1>1, FS_CardinalityType
<1>6. served' = {l \in all : Rank(acc, l) < paysFor} /\ all \ served' = deferred
  BY <1>2, <1>3, <1>5, <1>n
<1>7. IsFiniteSet(served')
  BY <1>1, <1>6, FS_Subset
<1>8. /\ \A l, m \in all : Rank(acc, l) = Rank(acc, m) => l = m
      /\ \A k \in 0 .. Cardinality(all) - 1 : \E l \in all : Rank(acc, l) = k
  BY <1>1, RanksArePositions
<1> DEFINE r == [l \in served' |-> Rank(acc, l)]
<1>9. r \in Injection(served', 0 .. paysFor - 1)
  <2>1. \A l \in served' : Rank(acc, l) \in 0 .. paysFor - 1
    BY <1>2, <1>5, <1>6, <1>n
  <2> QED
    BY <2>1, <1>6, <1>8 DEF Injection, IsInjective
<1>10. IsFiniteSet(0 .. paysFor - 1) /\ Cardinality(0 .. paysFor - 1) = paysFor
  BY <1>2, FS_Interval
<1>11. Cardinality(served') <= paysFor
  BY <1>9, <1>10, FS_Injection
<1>12. ASSUME deferred # {}
       PROVE  /\ Cardinality(served') = paysFor
              /\ rotationCursor' \in deferred /\ Rank(acc, rotationCursor') = paysFor
  <2>1. paysFor \in 0 .. Cardinality(all) - 1
    <3>1. PICK m \in deferred : TRUE
      BY <1>12
    <3>2. Rank(acc, m) >= paysFor /\ Rank(acc, m) \in 0 .. Cardinality(all) - 1
      BY <1>5
    <3> QED
      BY <3>2, <1>2, <1>n
  <2>2. r \in Surjection(served', 0 .. paysFor - 1)
    <3>1. \A k \in 0 .. paysFor - 1 : \E l \in served' : Rank(acc, l) = k
      BY <2>1, <1>2, <1>6, <1>8, <1>n
    <3> QED
      BY <3>1, <1>9 DEF Surjection, Injection
  <2>3. Cardinality(served') = paysFor
    BY <2>2, <1>9, <1>10, FS_Injection
  <2>4. \E l \in deferred : Rank(acc, l) = paysFor
    BY <2>1, <1>2, <1>8
  <2> QED
    BY <2>3, <2>4, <1>12, <1>3
<1>13. ASSUME deferred # {}, NEW m \in deferred \ {rotationCursor'}
       PROVE  Precedes(acc, rotationCursor, rotationCursor', m)
  <2>1. rotationCursor' \in all /\ m \in all /\ m # rotationCursor'
        /\ Rank(acc, m) >= Rank(acc, rotationCursor')
    BY <1>12, <1>13
  <2>2. Precedes(acc, rotationCursor, rotationCursor', m)
        \/ Precedes(acc, rotationCursor, m, rotationCursor')
    BY <2>1, <1>1, BudgetOrderIsTotal
  <2>3. Precedes(acc, rotationCursor, m, rotationCursor')
        => Rank(acc, m) < Rank(acc, rotationCursor')
    BY <2>1, <1>1, RankIncreases
  <2> QED
    BY <2>1, <2>2, <2>3, <1>5, <1>n
<1>14. ASSUME NEW l \in served', NEW m \in all \ served'
       PROVE  Accrued[l] >= Accrued[m]
  <2> SUFFICES ASSUME Accrued[m] > Accrued[l] PROVE FALSE
    BY <1>4, <1>6
  <2>1. Precedes(acc, rotationCursor, m, l)
    BY <1>4, <1>6 DEF Precedes
  <2>2. Rank(acc, m) < Rank(acc, l)
    BY <2>1, <1>1, <1>6, RankIncreases
  <2>3. Rank(acc, l) < paysFor /\ Rank(acc, m) >= paysFor
    BY <1>6
  <2> QED
    BY <2>2, <2>3, <1>2, <1>5, <1>6, <1>n
<1> QED
  BY <1>6, <1>7, <1>11, <1>12, <1>13, <1>14 DEF acc

(* Rotation lets no launcher displace a dearer one, over any number of     *)
(* cycles, for any launchers that come and go besides the tied tier.       *)
THEOREM RotationDefersNothingDearer == RotationSpec => []NoDustAhead
<1>1. RotationInit => NoDustAhead
  BY DEF RotationInit, NoDustAhead
<1>2. NoDustAhead /\ [RotationNext]_rotationVars => NoDustAhead'
  <2> SUFFICES ASSUME NoDustAhead, [RotationNext]_rotationVars PROVE NoDustAhead'
    OBVIOUS
  <2>1. CASE UNCHANGED rotationVars
    BY <2>1 DEF rotationVars, NoDustAhead
  <2>2. CASE RotationNext
    <3>1. PICK others \in Presences, paysFor \in Budgets : Cycle(others, paysFor)
      BY <2>2 DEF RotationNext
    <3>2. \A l \in served', m \in (Tied \cup others) \ served' : Accrued[l] >= Accrued[m]
      BY <3>1, CycleSpendsItsBudget
    <3> QED
      BY <3>2 DEF NoDustAhead
  <2> QED
    BY <2>1, <2>2
<1> QED
  BY <1>1, <1>2, PTL DEF RotationSpec
=============================================================================
