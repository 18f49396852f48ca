---------------------------- MODULE RewardsClaim ----------------------------
(***************************************************************************)
(* The peer-side rewards-claim loop of dig-node-service: the driver that   *)
(* sleeps and wakes (rewards_claim/driver.rs), the engine that runs one    *)
(* claim cycle (rewards_claim/engine.rs), and the preference file the two  *)
(* share with the operator (rewards_claim/config.rs).                      *)
(*                                                                         *)
(* A cycle is not atomic: every chain call is an await, the process may    *)
(* die at any of them, and the operator may replace the file under a       *)
(* running cycle.  Only disk survives a crash.  The fee window is          *)
(* committed to disk before a payout is submitted and reversed when the    *)
(* submission is refused; paid, opened and lastDone record what really     *)
(* happened and are not state of the program.                              *)
(***************************************************************************)
EXTENDS ClaimOrder

CONSTANTS
    Launchers,        \* distributor launcher ids, naturals
    Hints,            \* launcher ids the hint source offers ({} = NoHintSource)
    Accruals,         \* accrued amounts an entry slot may show
    Thresholds,       \* payout thresholds a distributor may curry
    Fees,             \* fees required_fee_mojos may quote
    MaxFee,           \* max_fee_mojos, the per-claim ceiling
    InitBudget,       \* max_cycle_fee_budget_mojos of the initial file
    DefaultBudget,    \* CLAIM_CYCLE_FEE_BUDGET_MOJOS_DEFAULT
    Cadence,          \* cadence_seconds of every file
    Jitter,           \* jitter_seconds, the largest draw
    CadenceFloor,     \* CLAIM_CADENCE_FLOOR_SECONDS
    ScheduleMax,      \* CLAIM_SCHEDULE_SECONDS_MAX
    OperatorFiles,    \* files an operator (or disk damage) may put in place
    SavesCanFail,     \* whether save_to may return an error
    ClockSteps,       \* whether the wall clock may be stepped back
    MaxTime           \* bound on the wall clock

ASSUME ClaimConstants ==
    /\ Launchers \subseteq Nat /\ IsFiniteSet(Launchers) /\ Hints \subseteq Launchers
    /\ Accruals \subseteq Nat /\ Thresholds \subseteq Nat /\ Fees \subseteq Nat
    /\ MaxFee \in Nat /\ InitBudget \in Nat /\ DefaultBudget \in Nat
    /\ Cadence \in Nat /\ Jitter \in Nat
    /\ CadenceFloor \in Nat \ {0} /\ ScheduleMax \in Nat \ {0}
    /\ SavesCanFail \in BOOLEAN /\ ClockSteps \in BOOLEAN /\ MaxTime \in Nat

(* RewardsClaimConfig as it lies in rewards-claim.json: garbled stands for *)
(* a file that cannot be read or parsed.  An absent file reads as the      *)
(* default, so it is the default record.                                   *)
Time == 0 .. MaxTime
Files == [garbled : BOOLEAN, enabled : BOOLEAN, budget : Nat, spent : Nat,
          start : Time \cup {None}, last : Time \cup {None},
          cursor : Launchers \cup {None}]

ASSUME OperatorFilesTyped == OperatorFiles \subseteq Files

VARIABLES
    now,           \* the wall clock
    timer,         \* what is left of the driver's sleep (monotonic)
    disk,          \* the preference file
    pc,            \* where the process is
    budget,        \* ClaimEngine.cycle_fee_budget_mojos
    cursor,        \* ClaimEngine.rotation_cursor
    t,             \* the now argument of the running cycle
    window,        \* run_cycle's FeeWindowState
    spent,         \* run_cycle's spent_this_cycle_mojos
    exhausted,     \* run_cycle's budget_exhausted
    todo,          \* candidates still to evaluate in the current phase
    eligible,      \* launcher -> accrued, the output of phase 1
    pending,       \* the submission awaited: [launcher, fee]
    tally,         \* this cycle's counters, as the sets they count
    fault,         \* ClaimStatus.fault_reported
    status,        \* ClaimStatus.state
    opened,        \* when the fee window really opened
    paid,          \* fees really broadcast since then
    lastDone       \* when a cycle last really ran to completion

engine == <<budget, cursor>>
cycle == <<t, window, spent, exhausted, todo, eligible, pending, tally, fault>>
truth == <<opened, paid, lastDone>>
vars == <<now, timer, disk, pc, engine, cycle, status, truth>>

InCycle == pc \in {"discover", "pre", "budget", "submit"}

----------------------------------------------------------------------------
(* The preference file. *)

(* load_from: unreadable, unparsable, or more spent than its own budget.   *)
Corrupt(f) == f.garbled \/ f.spent > f.budget

DefaultFile ==
    [garbled |-> FALSE, enabled |-> TRUE, budget |-> DefaultBudget, spent |-> 0,
     start |-> None, last |-> None, cursor |-> None]

(* What load_from hands out: poisoned() is the default with corrupt set.   *)
Loaded(f) == IF Corrupt(f) THEN DefaultFile ELSE f

(* Mutant: the window written over a file that has become corrupt.         *)
PersistBlindly(f, w) ==
    {[Loaded(f) EXCEPT !.start = w.start, !.spent = w.spent, !.last = w.last]}

(* persist_fee_window: read-modify-write of the three fee-window fields;   *)
(* refused on a corrupt file, and a failed save is only logged.            *)
Persist(f, w) ==
    IF Corrupt(f) THEN {f}
    ELSE {[f EXCEPT !.start = w.start, !.spent = w.spent, !.last = w.last]}
         \cup (IF SavesCanFail THEN {f} ELSE {})

(* ClaimCadences::from_raw: the gate is the cadence clamped to the longest *)
(* honoured schedule, the fee window is the raw cadence; both floored.     *)
AtLeast(a, b) == IF a < b THEN b ELSE a
AtMost(a, b) == IF a > b THEN b ELSE a
RawCadence == AtLeast(Cadence, CadenceFloor)
GateCadence == AtLeast(AtMost(RawCadence, ScheduleMax), CadenceFloor)
FeeWindow == AtLeast(RawCadence, CadenceFloor)

(* sanitized_schedule and next_interval_seconds: what the driver sleeps.   *)
Intervals == {AtMost(RawCadence, ScheduleMax) + j : j \in 0 .. AtMost(Jitter, ScheduleMax)}

NoWindow == [start |-> None, spent |-> 0, last |-> None]
NoTally == [submitted |-> {}, deferred |-> {}, refused |-> {}, faulted |-> {},
            discovered |-> FALSE]
NoClaim == [launcher |-> None, fee |-> 0]

Init ==
    /\ now = 0 /\ timer = 0
    /\ disk = [DefaultFile EXCEPT !.budget = InitBudget]
    /\ pc = "off"
    /\ budget = 0 /\ cursor = None
    /\ t = 0 /\ window = NoWindow /\ spent = 0 /\ exhausted = FALSE
    /\ todo = {} /\ eligible = [l \in {} |-> 0] /\ pending = NoClaim
    /\ tally = NoTally /\ fault = FALSE
    /\ status = "Idle"
    /\ opened = None /\ paid = 0 /\ lastDone = None

----------------------------------------------------------------------------
(* The driver. *)

(* spawn_claim_driver_from_config and run_claim_driver_in_with_clock: the  *)
(* file is read once, and budget and cursor are captured for the life of   *)
(* the process.  A corrupt file still spawns, on the default preferences.  *)
StartDriver ==
    /\ pc = "off" /\ Loaded(disk).enabled
    /\ budget' = Loaded(disk).budget
    /\ cursor' = Loaded(disk).cursor
    /\ timer' \in Intervals
    /\ pc' = "asleep"
    /\ status' = "Idle"
    /\ UNCHANGED <<now, disk, cycle, truth>>

(* The driver does not run: the file says disabled, or chain sync is off,  *)
(* or there is no operator wallet, chain source or broadcaster.  The last  *)
(* four are facts of other components, so a refusal is always possible.    *)
RefuseToStart ==
    /\ pc = "off"
    /\ pc' = "refused"
    /\ status' = "Idle"
    /\ UNCHANGED <<now, timer, disk, engine, cycle, truth>>

(* The tail of every way out of run_cycle: the driver records the status   *)
(* and sleeps again.                                                       *)
EndCycle(state) ==
    /\ status' = state
    /\ pc' = "asleep" /\ timer' \in Intervals

----------------------------------------------------------------------------
(* run_cycle: the reset, the persisted-state checks, the cadence gate and  *)
(* the roll of the fee window.                                             *)

Awake == pc = "asleep" /\ timer = 0

ResetCycle ==
    /\ t' = now /\ exhausted' = FALSE
    /\ todo' = {} /\ eligible' = [l \in {} |-> 0] /\ pending' = NoClaim
    /\ tally' = NoTally /\ fault' = FALSE

FutureDated(f) == f.last > now \/ f.start > now

CycleOnCorruptState ==
    /\ Awake
    /\ Corrupt(disk) \/ FutureDated(disk)
    /\ ResetCycle
    /\ window' = NoWindow /\ spent' = 0
    /\ EndCycle("PersistedStateCorrupt")
    /\ UNCHANGED <<now, disk, engine, truth>>

CadenceElapsed(f) == f.last = None \/ now - f.last >= GateCadence

CycleTooEarly ==
    /\ Awake
    /\ ~ Corrupt(disk) /\ ~ FutureDated(disk)
    /\ ~ CadenceElapsed(disk)
    /\ ResetCycle
    /\ window' = NoWindow /\ spent' = 0
    /\ EndCycle("CadenceNotElapsed")
    /\ UNCHANGED <<now, disk, engine, truth>>

(* Mutant: a window that is still open is taken for one that has ended.    *)
WindowNeverOpen(f) == FALSE

WindowStillOpen(f) == f.start # None /\ now - f.start < FeeWindow

CycleInOpenWindow ==
    /\ Awake
    /\ ~ Corrupt(disk) /\ ~ FutureDated(disk) /\ CadenceElapsed(disk)
    /\ WindowStillOpen(disk)
    /\ ResetCycle
    /\ window' = [start |-> disk.start, spent |-> disk.spent, last |-> disk.last]
    /\ spent' = disk.spent
    /\ pc' = "discover"
    /\ UNCHANGED <<now, timer, disk, engine, status, truth>>

(* A fee window is over when its time is, whatever the file says of it.    *)
NewWindow ==
    IF opened = None \/ now - opened >= FeeWindow
    THEN opened' = now /\ paid' = 0
    ELSE UNCHANGED <<opened, paid>>

CycleRollsWindow ==
    /\ Awake
    /\ ~ Corrupt(disk) /\ ~ FutureDated(disk) /\ CadenceElapsed(disk)
    /\ ~ WindowStillOpen(disk)
    /\ ResetCycle
    /\ window' = [start |-> now, spent |-> 0, last |-> disk.last]
    /\ disk' \in Persist(disk, window')
    /\ spent' = 0
    /\ NewWindow
    /\ pc' = "discover"
    /\ UNCHANGED <<now, timer, engine, status, lastDone>>

BeginCycle == CycleOnCorruptState \/ CycleTooEarly \/ CycleInOpenWindow \/ CycleRollsWindow

----------------------------------------------------------------------------
(* run_cycle: discovery.  A hint only adds a candidate that the chain      *)
(* confirms; an unreachable chain drops it silently, another error faults. *)

HintVerdicts == {"confirmed", "rejected", "unavailable", "fault"}

Candidates(found) ==
    \E verdict \in [Hints \ found -> HintVerdicts] :
        /\ todo' = found \cup {h \in Hints \ found : verdict[h] = "confirmed"}
        /\ fault' = (fault \/ ~ tally'.discovered \/ \E h \in Hints \ found : verdict[h] = "fault")

Discover ==
    /\ pc = "discover"
    /\ tally' = [tally EXCEPT !.discovered = TRUE]
    /\ \E found \in SUBSET Launchers : Candidates(found)
    /\ pc' = "pre"
    /\ UNCHANGED <<now, timer, disk, engine, t, window, spent, exhausted, eligible,
                   pending, status, truth>>

(* ClaimPortError::Other: the cycle goes on with an empty discovery.       *)
DiscoverFaults ==
    /\ pc = "discover"
    /\ tally' = tally
    /\ Candidates({})
    /\ pc' = "pre"
    /\ UNCHANGED <<now, timer, disk, engine, t, window, spent, exhausted, eligible,
                   pending, status, truth>>

DiscoverUnavailable ==
    /\ pc = "discover"
    /\ EndCycle("ChainSourceUnavailable")
    /\ UNCHANGED <<now, disk, engine, cycle, truth>>

----------------------------------------------------------------------------
(* Phase 1, evaluate_pre_budget: asset, entry slot, payout hash, threshold. *)
(* The code goes through the discovered launchers in byte order and then   *)
(* the confirmed hints; nothing a candidate decides here depends on the    *)
(* candidates before it, so one order stands for both.                     *)

NextCandidate(l) == l \in todo /\ \A m \in todo : l <= m

EvaluatePreBudget ==
    /\ pc = "pre"
    /\ \E l \in todo, isDig, hasEntry, ownHash \in BOOLEAN,
          accrued \in Accruals, threshold \in Thresholds :
          /\ NextCandidate(l)
          /\ todo' = todo \ {l}
          /\ tally' = IF isDig /\ hasEntry /\ ~ ownHash
                      THEN [tally EXCEPT !.refused = @ \cup {l}] ELSE tally
          /\ eligible' = IF isDig /\ hasEntry /\ ownHash /\ accrued >= threshold
                         THEN [m \in DOMAIN eligible \cup {l} |->
                                  IF m = l THEN accrued ELSE eligible[m]]
                         ELSE eligible
    /\ UNCHANGED <<now, timer, disk, pc, engine, t, window, spent, exhausted, pending,
                   fault, status, truth>>

(* Any of the three chain reads answers ClaimPortError::Other.             *)
PreBudgetFault ==
    /\ pc = "pre"
    /\ \E l \in todo :
          /\ NextCandidate(l)
          /\ todo' = todo \ {l}
          /\ tally' = [tally EXCEPT !.faulted = @ \cup {l}]
    /\ fault' = TRUE
    /\ UNCHANGED <<now, timer, disk, pc, engine, t, window, spent, exhausted, eligible,
                   pending, status, truth>>

PreBudgetUnavailable ==
    /\ pc = "pre" /\ todo # {}
    /\ EndCycle("ChainSourceUnavailable")
    /\ UNCHANGED <<now, disk, engine, cycle, truth>>

OrderForBudget ==
    /\ pc = "pre" /\ todo = {}
    /\ todo' = DOMAIN eligible
    /\ pc' = "budget"
    /\ UNCHANGED <<now, timer, disk, engine, t, window, spent, exhausted, eligible,
                   pending, tally, fault, status, truth>>

----------------------------------------------------------------------------
(* Phase 2, evaluate_budget_phase. *)

NextClaim(l) == IsNextClaim(eligible, cursor, todo, l)

QuoteFault ==
    /\ pc = "budget"
    /\ \E l \in todo :
          /\ NextClaim(l)
          /\ todo' = todo \ {l}
          /\ tally' = [tally EXCEPT !.faulted = @ \cup {l}]
    /\ fault' = TRUE
    /\ UNCHANGED <<now, timer, disk, pc, engine, t, window, spent, exhausted, eligible,
                   pending, status, truth>>

QuoteUnavailable ==
    /\ pc = "budget" /\ todo # {}
    /\ EndCycle("ChainSourceUnavailable")
    /\ UNCHANGED <<now, disk, engine, cycle, truth>>

SkipFeeAboveCeiling ==
    /\ pc = "budget"
    /\ \E l \in todo, fee \in Fees :
          /\ NextClaim(l)
          /\ fee > MaxFee
          /\ todo' = todo \ {l}
    /\ UNCHANGED <<now, timer, disk, pc, engine, t, window, spent, exhausted, eligible,
                   pending, tally, fault, status, truth>>

(* Mutant: a claim that fits is let through after one that did not fit.    *)
OverBudgetNotSticky(fee) == spent + fee > budget

OverBudget(fee) == exhausted \/ spent + fee > budget

SkipBudgetExhausted ==
    /\ pc = "budget"
    /\ \E l \in todo, fee \in Fees :
          /\ NextClaim(l)
          /\ fee <= MaxFee /\ OverBudget(fee)
          /\ todo' = todo \ {l}
          /\ tally' = [tally EXCEPT !.deferred = @ \cup {l}]
    /\ exhausted' = TRUE
    /\ UNCHANGED <<now, timer, disk, pc, engine, t, window, spent, eligible, pending,
                   fault, status, truth>>

(* Mutant: the fee is not written before the submission is awaited.        *)
CommitNothing(l, fee) ==
    /\ window' = [window EXCEPT !.spent = @ + fee]
    /\ disk' = disk
    /\ pending' = [launcher |-> l, fee |-> fee]

(* Write, then spend.                                                      *)
Commit(l, fee) ==
    /\ window' = [window EXCEPT !.spent = @ + fee]
    /\ disk' \in Persist(disk, window')
    /\ pending' = [launcher |-> l, fee |-> fee]

CommitFee ==
    /\ pc = "budget"
    /\ \E l \in todo, fee \in Fees :
          /\ NextClaim(l)
          /\ fee <= MaxFee /\ ~ OverBudget(fee)
          /\ todo' = todo \ {l}
          /\ Commit(l, fee)
    /\ pc' = "submit"
    /\ UNCHANGED <<now, timer, engine, t, spent, exhausted, eligible, tally, fault,
                   status, truth>>

(* submit_initiate_payout answers Ok: the fee has left.                    *)
Submitted ==
    /\ pc = "submit"
    /\ spent' = spent + pending.fee
    /\ paid' = paid + pending.fee
    /\ tally' = [tally EXCEPT !.submitted = @ \cup {pending.launcher}]
    /\ pending' = NoClaim
    /\ pc' = "budget"
    /\ UNCHANGED <<now, timer, disk, engine, t, window, exhausted, todo, eligible, fault,
                   status, opened, lastDone>>

AtLeastZero(n) == IF n < 0 THEN 0 ELSE n

(* uncommit_fee.                                                           *)
Uncommit ==
    /\ window' = [window EXCEPT !.spent = AtLeastZero(@ - pending.fee)]
    /\ disk' \in Persist(disk, window')
    /\ pending' = NoClaim

SubmissionRefused ==
    /\ pc = "submit"
    /\ Uncommit
    /\ fault' = TRUE
    /\ tally' = [tally EXCEPT !.faulted = @ \cup {pending.launcher}]
    /\ pc' = "budget"
    /\ UNCHANGED <<now, timer, engine, t, spent, exhausted, todo, eligible, status, truth>>

SubmissionUnavailable ==
    /\ pc = "submit"
    /\ Uncommit
    /\ EndCycle("ChainSourceUnavailable")
    /\ UNCHANGED <<now, engine, t, spent, exhausted, todo, eligible, tally, fault, truth>>

----------------------------------------------------------------------------
(* run_cycle: the completed cycle. *)

(* Mutant: the shortfall counts the claimable distributors only.           *)
ComputeStateIgnoresRefusals ==
    IF fault THEN "Faulted"
    ELSE IF Cardinality(tally.submitted) < Cardinality(DOMAIN eligible)
         THEN "ClaimableButNotClaiming"
         ELSE "Nominal"

(* ClaimStatus::compute_state on a cycle that reached the chain.           *)
ComputeState ==
    IF fault THEN "Faulted"
    ELSE IF Cardinality(tally.submitted) < Cardinality(DOMAIN eligible) + Cardinality(tally.refused)
         THEN "ClaimableButNotClaiming"
         ELSE "Nominal"

(* Mutant: the completion time is kept out of the file.                    *)
CompletionNotStamped == window

(* The window run_cycle persists on completion.                            *)
CompletionStamp == [window EXCEPT !.last = t]

FinishCycle ==
    /\ pc = "budget" /\ todo = {}
    /\ \/ tally.deferred = {} /\ cursor' = cursor
       \/ \E l \in tally.deferred :
             IsNextClaim(eligible, cursor, tally.deferred, l) /\ cursor' = l
    /\ window' = CompletionStamp
    /\ disk' \in Persist(disk, CompletionStamp)
    /\ lastDone' = t
    /\ EndCycle(ComputeState)
    /\ UNCHANGED <<now, budget, t, spent, exhausted, todo, eligible, pending, tally,
                   fault, opened, paid>>

----------------------------------------------------------------------------
(* The environment. *)

(* The process dies.  A payout it was awaiting may have been broadcast.    *)
(* engine keeps the values that died with the process: nothing reads them  *)
(* before StartDriver overwrites them.                                     *)
Crash ==
    /\ pc # "off"
    /\ pc' = "off"
    /\ paid' \in {paid, paid + pending.fee}
    /\ status' = "Idle"
    /\ timer' = 0 /\ t' = 0 /\ window' = NoWindow /\ spent' = 0 /\ exhausted' = FALSE
    /\ todo' = {} /\ eligible' = [l \in {} |-> 0] /\ pending' = NoClaim
    /\ tally' = NoTally /\ fault' = FALSE
    /\ UNCHANGED <<now, disk, engine, opened, lastDone>>

Tick ==
    /\ now < MaxTime
    /\ now' = now + 1
    /\ timer' = AtLeastZero(timer - 1)
    /\ UNCHANGED <<disk, pc, engine, cycle, status, truth>>

ClockSteppedBack ==
    /\ ClockSteps
    /\ now' \in 0 .. (now - 1)
    /\ UNCHANGED <<timer, disk, pc, engine, cycle, status, truth>>

(* The operator edits, removes or repairs the file, or the disk damages it. *)
OperatorReplacesFile ==
    /\ disk' \in OperatorFiles
    /\ UNCHANGED <<now, timer, pc, engine, cycle, status, truth>>

Discovery == Discover \/ DiscoverFaults \/ DiscoverUnavailable
Phase1 == EvaluatePreBudget \/ PreBudgetFault \/ PreBudgetUnavailable \/ OrderForBudget
Phase2 == \/ QuoteFault \/ QuoteUnavailable \/ SkipFeeAboveCeiling
          \/ SkipBudgetExhausted \/ CommitFee
          \/ Submitted \/ SubmissionRefused \/ SubmissionUnavailable
Driver == StartDriver \/ RefuseToStart
Environment == Crash \/ Tick \/ ClockSteppedBack \/ OperatorReplacesFile

Next == Driver \/ BeginCycle \/ Discovery \/ Phase1 \/ Phase2 \/ FinishCycle \/ Environment

Spec == Init /\ [][Next]_vars

----------------------------------------------------------------------------
(* Properties. *)

(* The types of the state; a window's clocks are wall-clock times or None. *)
TypeOK ==
    /\ now \in Time /\ timer \in Nat
    /\ disk \in Files
    /\ pc \in {"off", "refused", "asleep", "discover", "pre", "budget", "submit"}
    /\ budget \in Nat /\ cursor \in Launchers \cup {None}
    /\ t \in Time
    /\ window \in [start : Time \cup {None}, spent : Nat, last : Time \cup {None}]
    /\ spent \in Nat /\ exhausted \in BOOLEAN
    /\ todo \subseteq Launchers
    /\ DOMAIN eligible \subseteq Launchers /\ eligible \in [DOMAIN eligible -> Nat]
    /\ pending \in [launcher : Launchers \cup {None}, fee : Nat]
    /\ pc = "submit" => pending.launcher \in Launchers
    /\ tally \in [submitted : SUBSET Launchers, deferred : SUBSET Launchers,
                  refused : SUBSET Launchers, faulted : SUBSET Launchers,
                  discovered : BOOLEAN]
    /\ fault \in BOOLEAN
    /\ status \in {"Idle", "ChainSourceUnavailable", "PersistedStateCorrupt",
                   "CadenceNotElapsed", "Faulted", "ClaimableButNotClaiming", "Nominal"}
    /\ opened \in Time \cup {None} /\ paid \in Nat /\ lastDone \in Time \cup {None}

(* evaluate_budget_phase's "write-then-spend": whatever has been broadcast *)
(* in the current window, the submission being awaited included, is        *)
(* already counted in the file, so no crash can make a restart spend it    *)
(* again.  A file damaged meanwhile lets no cycle start.                   *)
LedgerCoversChain == ~ Corrupt(disk) => paid + pending.fee <= disk.spent

(* The fees broadcast in one window never exceed the configured aggregate  *)
(* budget, however often the process dies and is restarted in it, and      *)
(* wherever in a cycle the file is damaged.  When a window ends is told by *)
(* the clock, not by what the program remembers of it.                     *)
PaidWithinBudget == paid <= InitBudget

(* The cadence gate of run_cycle: no cycle runs before the gate cadence    *)
(* has elapsed since a cycle last ran to completion, also when another     *)
(* process ran that one or the clock was stepped back since.               *)
GateHolds == (InCycle /\ lastDone # None) => t - lastDone >= GateCadence

(* order_for_budget and the sticky budget_exhausted: a claim cut off by    *)
(* the budget is never worth more than one that the budget paid for.       *)
DearestFirst ==
    \A s \in tally.submitted, d \in tally.deferred : eligible[s] >= eligible[d]

(* compute_state's anti-silence promise: a node that reports Nominal has   *)
(* discovered, met no fault, refused nothing and claimed all it could.     *)
NominalIsHonest ==
    (status = "Nominal" /\ pc = "asleep") =>
        /\ tally.discovered
        /\ tally.faulted = {} /\ tally.refused = {}
        /\ tally.submitted = DOMAIN eligible

(* persist_fee_window (F8): the engine never overwrites a corrupt file;    *)
(* only the operator replaces it.                                          *)
CorruptFileKept == [][Corrupt(disk) => disk' \in OperatorFiles \cup {disk}]_vars

----------------------------------------------------------------------------
(* Inductive invariants. *)

(* The running cycle against the chain: its window counts what it and the  *)
(* processes before it have sent, and stays within the budget.             *)
CycleInv ==
    /\ paid <= InitBudget
    /\ pc # "submit" => pending.fee = 0
    /\ InCycle => /\ budget = InitBudget
                  /\ window.spent = spent + pending.fee
                  /\ paid + pending.fee <= window.spent /\ window.spent <= InitBudget
    /\ GateHolds

(* The file against both, for as long as it can be read: the engine's view *)
(* of the ledger is the file's own, and the file is ahead of the chain by  *)
(* what a process committed and lost in a crash.                           *)
FileInv ==
    ~ disk.garbled =>
        /\ disk.budget = InitBudget /\ disk.spent <= InitBudget
        /\ pc \notin {"off", "refused"} => budget = InitBudget
        /\ InCycle => window = [start |-> disk.start, spent |-> disk.spent, last |-> disk.last]
        /\ paid + pending.fee <= disk.spent
        /\ disk.start = opened /\ disk.last = lastDone

(* What phase 2 has decided so far: everything decided is worth at least   *)
(* as much as everything that waits, and the budget, once exhausted, pays  *)
(* for nothing more.                                                       *)
OrderInv ==
    /\ pc \in {"discover", "pre"} => tally.submitted = {} /\ tally.deferred = {}
    /\ pc \in {"discover"} => DOMAIN eligible = {}
    /\ tally.submitted \cup tally.deferred \subseteq DOMAIN eligible
    /\ pc \in {"budget", "submit"} =>
          /\ todo \subseteq DOMAIN eligible
          /\ \A x \in tally.submitted \cup tally.deferred, y \in todo : eligible[x] >= eligible[y]
          /\ tally.deferred # {} => exhausted
    /\ pc = "submit" =>
          /\ tally.deferred = {}
          /\ pending.launcher \in DOMAIN eligible
          /\ \A y \in todo : eligible[pending.launcher] >= eligible[y]
    /\ DearestFirst

(* The fault flag remembers every fault of the cycle.                      *)
StatusInv ==
    /\ tally.faulted # {} => fault
    /\ (pc \in {"pre", "budget", "submit"} /\ ~ tally.discovered) => fault
    /\ NominalIsHonest
=============================================================================
