----------------------------- MODULE MirrorWake -----------------------------
(***************************************************************************)
(* When a mirror pass runs: the round timer, the disk watcher and the      *)
(* WakeCoalescer that turns file events into passes (mirror/events.rs and  *)
(* wait_for_next_pass in server.rs), together with the stamp the presence  *)
(* tracker gives one capsule (mirror/presence.rs).                         *)
(*                                                                         *)
(* Time is counted in steps.  A task that is due runs at once; what takes  *)
(* time is the pass: the capsules are listed when it starts, and the clock *)
(* of the pass is read only after the balance, the daily address check and *)
(* the chain client have been waited for, up to MaxDelay later.            *)
(***************************************************************************)
EXTENDS Integers

CONSTANTS
    Quiet,      \* QUIET_PERIOD_MS
    Settling,   \* SETTLING_WINDOW_MS, also MIN_EVENT_PASS_INTERVAL_MS
    Round,      \* MIRROR_PASS_INTERVAL
    MaxDelay,   \* longest time from the start of a pass to its clock read
    MaxTime     \* bound on the clock

ASSUME WakeConstants ==
    /\ Quiet \in Nat \ {0} /\ Settling \in Nat \ {0} /\ Round \in Nat \ {0}
    /\ MaxDelay \in Nat /\ MaxTime \in Nat

VARIABLES
    now,
    lastEvent, followUp, lastWake,   \* the WakeCoalescer
    signal,     \* a file event nobody has heard: the Notify permit
    onDisk,     \* the capsule is in the cache
    pc,         \* "waiting", "starting" or "acting"
    entered,    \* when this wait, or this pass, began
    listed,     \* the capsule is in the listing of this pass
    since,      \* the tracker's stamp of the capsule, Never if not present
    kind,       \* what started this pass
    wakes       \* passes that file events caused since the last was heard

coalescer == <<lastEvent, followUp, lastWake>>
vars == <<now, coalescer, signal, onDisk, pc, entered, listed, since, kind, wakes>>

Never == -1

Init ==
    /\ now = 0 /\ lastEvent = Never /\ followUp = Never /\ lastWake = Never
    /\ signal = FALSE /\ onDisk = FALSE
    /\ pc = "waiting" /\ entered = 0 /\ listed = FALSE
    /\ since = Never /\ kind = "round" /\ wakes = 0

----------------------------------------------------------------------------
Earlier(a, b) == IF a = Never THEN b ELSE IF b = Never \/ a < b THEN a ELSE b
Later(a, b) == IF a > b THEN a ELSE b

QuietAt == IF lastEvent = Never THEN Never ELSE lastEvent + Quiet

(* Mutant: nothing keeps event passes apart.                               *)
DueUnfloored == Earlier(QuietAt, followUp)

(* due_at_ms: the quiet instant or the follow-up, no sooner than one       *)
(* settling window after the last wake.                                    *)
Due ==
    IF Earlier(QuietAt, followUp) = Never \/ lastWake = Never
    THEN Earlier(QuietAt, followUp)
    ELSE Later(Earlier(QuietAt, followUp), lastWake + Settling)

(* Mutant: an owed wake replaces the deadline.                             *)
NextWakeUncapped == IF Due = Never THEN entered + Round ELSE Due

(* The instant the wait sleeps until.                                      *)
NextWake == Earlier(Due, entered + Round)

(* Mutant: a settling wake schedules another.                              *)
FollowUpAlways(observing) == now + Settling

FollowUp(observing) == IF observing THEN now + Settling ELSE Never

----------------------------------------------------------------------------
(* Something changes under the cache directory.                            *)
FileEvent(there) ==
    /\ now < MaxTime
    /\ onDisk' = there /\ signal' = TRUE
    /\ UNCHANGED <<now, coalescer, pc, entered, listed, since, kind, wakes>>

(* record_event, when the wait hears the watcher.                          *)
HearEvent ==
    /\ pc = "waiting" /\ signal
    /\ signal' = FALSE /\ lastEvent' = now /\ wakes' = 0
    /\ UNCHANGED <<now, followUp, lastWake, onDisk, pc, entered, listed, since, kind>>

StartPass(k) ==
    /\ pc' = "starting" /\ entered' = now /\ listed' = onDisk /\ kind' = k
    /\ UNCHANGED <<now, signal, onDisk, since>>

(* take_due answers true.                                                  *)
EventWake ==
    /\ pc = "waiting" /\ Due # Never /\ now >= Due
    /\ lastEvent' = Never
    /\ followUp' = FollowUp(lastEvent # Never)
    /\ lastWake' = now
    /\ wakes' = wakes + 1
    /\ StartPass(IF lastEvent # Never \/ signal THEN "observing" ELSE "settling")

(* The round is over.                                                      *)
RoundWake ==
    /\ pc = "waiting" /\ now >= entered + Round
    /\ StartPass("round")
    /\ UNCHANGED <<coalescer, wakes>>

(* Mutant: every sighting is stamped anew.                                 *)
ObserveRestamps ==
    /\ pc = "starting"
    /\ since' = IF listed THEN now ELSE Never
    /\ pc' = "acting"
    /\ UNCHANGED <<now, coalescer, signal, onDisk, entered, listed, kind, wakes>>

(* The pass reads its clock and shows the listing to the tracker.          *)
Observe ==
    /\ pc = "starting"
    /\ since' = IF ~ listed THEN Never ELSE IF since = Never THEN now ELSE since
    /\ pc' = "acting"
    /\ UNCHANGED <<now, coalescer, signal, onDisk, entered, listed, kind, wakes>>

(* The pass ends and the next wait begins.                                 *)
Wait ==
    /\ pc = "acting"
    /\ pc' = "waiting" /\ entered' = now
    /\ UNCHANGED <<now, coalescer, signal, onDisk, listed, since, kind, wakes>>

(* Time passes unless something is due.                                    *)
Tick ==
    /\ now < MaxTime
    /\ pc = "waiting" => ~ signal /\ now < NextWake
    /\ pc # "waiting" => now < entered + MaxDelay
    /\ now' = now + 1
    /\ UNCHANGED <<coalescer, signal, onDisk, pc, entered, listed, since, kind, wakes>>

Next ==
    \/ \E there \in BOOLEAN : FileEvent(there)
    \/ HearEvent \/ EventWake \/ RoundWake \/ Observe \/ Wait \/ Tick

Spec == Init /\ [][Next]_vars

----------------------------------------------------------------------------
TypeOK ==
    /\ now \in 0 .. MaxTime
    /\ lastEvent \in Never .. now /\ lastWake \in Never .. now /\ followUp \in Never .. (now + Settling)
    /\ signal \in BOOLEAN /\ onDisk \in BOOLEAN /\ listed \in BOOLEAN
    /\ pc \in {"waiting", "starting", "acting"} /\ entered \in 0 .. now
    /\ since \in Never .. now /\ kind \in {"round", "observing", "settling"} /\ wakes \in Nat

(* Events cannot drive the pass rate: two passes they cause are never      *)
(* closer than a settling window (SPEC 25.5 rule 4), whatever arrives.     *)
WakesSpaced == [][lastWake' # lastWake /\ lastWake # Never => lastWake' - lastWake >= Settling]_vars

(* A burst causes at most two passes, however long nothing more happens    *)
(* (rule 3: the settling wake does not re-arm).                            *)
AtMostTwoWakes == wakes <= 2

(* An event never postpones a pass: the wait ends by the round deadline    *)
(* (rule 1).                                                               *)
RoundIsCeiling == pc = "waiting" => now <= entered + Round
(* The settling pass is the one that acts: when it reads its clock, a      *)
(* capsule that has stayed put since the observing pass has been seen for  *)
(* the whole settling window (events.rs: "the earliest instant the tracker *)
(* can act"), less at most the time the observing pass took to read its    *)
(* own clock.                                                              *)
SettledAfterBurst ==
    (pc = "acting" /\ kind = "settling" /\ listed) => now - since >= Settling - MaxDelay
=============================================================================
