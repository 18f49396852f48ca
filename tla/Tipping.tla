------------------------------ MODULE Tipping ------------------------------
(***************************************************************************)
(* The tipping engine of dig-wallet (sage/tipping.rs).  A tip is reserved  *)
(* in a ledger and the ledger is saved before the $DIG spend is broadcast; *)
(* what the broadcast answered is recorded afterwards.  Automatic tips are *)
(* limited to one per recipient and day and by caps, manual ones are not.  *)
(*                                                                         *)
(* Each request runs on its own and gives up the state mutex between       *)
(* reading the settings, resolving the store's owner, reserving, sending   *)
(* and recording, so requests, changes of settings and midnight interleave *)
(* at those points.  A save happens under the mutex.  The process may stop *)
(* anywhere; a request may be dropped at any point where it waits.         *)
(*                                                                         *)
(* A key is what a tip is limited by: a kind and a recipient.  The key Dev *)
(* is the treasury's daily tip, every other key a creator.                 *)
(***************************************************************************)
EXTENDS Integers, Sequences, FiniteSets, FiniteSetsExt

CONSTANTS
    Creators,     \* owners the stores of this instance resolve to
    Dev,          \* the treasury
    Requests,     \* concurrent tip requests
    Configs,      \* settings a caller may store
    Default,      \* TippingConfig::default, one of Configs
    MaxDay,       \* bound on the day
    MaxEntries,   \* bound on the reservations made
    SavesCanFail  \* write_json may return an error

Keys == Creators \cup {Dev}
Policies == [enabled : BOOLEAN, amount : Nat, siteCap : Nat]

(* over: the per-site amounts that replace creator.amount.  A policy in    *)
(* DailyBudget mode, which has no per-site cap, is one whose siteCap is    *)
(* never reached.                                                          *)
NoOverride == -1
TippingConfig ==
    [creator : Policies, dev : Policies, cap : Nat,
     over : [Creators -> Nat \cup {NoOverride}]]

ASSUME TippingConstants ==
    /\ Dev \notin Creators /\ MaxDay \in Nat \ {0} /\ MaxEntries \in Nat
    /\ SavesCanFail \in BOOLEAN
    /\ Default \in Configs /\ Configs \subseteq TippingConfig

VARIABLES
    today,
    config, configFile,   \* settings in memory, in tipping-config.json
    ledger, file,         \* entries in memory, in tip-ledger.json
    nextId, fileNextId,
    poisoned,             \* this process could not read its files
    request,              \* [Requests -> request in progress]
    sent,                 \* tips broadcast, in order: what money moved
    highCap               \* the largest daily cap ever in force

settings == <<config, configFile>>
books == <<ledger, file, nextId, fileNextId>>
vars == <<today, settings, books, poisoned, request, sent, highCap>>

NoRequest == [pc |-> "idle", trigger |-> "auto", key |-> Dev, amount |-> 0,
              siteCap |-> 0, cap |-> 0, day |-> 0, id |-> 0]

Init ==
    /\ today = 1
    /\ config = Default /\ configFile = Default
    /\ ledger = {} /\ file = {} /\ nextId = 0 /\ fileNextId = 0
    /\ poisoned = FALSE
    /\ request = [r \in Requests |-> NoRequest]
    /\ sent = <<>>
    /\ highCap = Default.cap

----------------------------------------------------------------------------
AutoEntries(day) == {e \in ledger : e.trigger = "auto" /\ e.day = day}

Total(E) == MapThenSumSet(LAMBDA e : e.amount, E)

(* Mutant: an entry whose broadcast failed may be tried again.             *)
ReservedUnlessFailed(key, day) ==
    \E e \in AutoEntries(day) : e.key = key /\ e.status # "failed"

AlreadyReserved(key, day) == \E e \in AutoEntries(day) : e.key = key

SiteSpent(key, day) == Total({e \in AutoEntries(day) : e.key = key})

(* Mutant: only confirmed tips count towards the daily cap.                *)
SpentConfirmed(day) == Total({e \in AutoEntries(day) : e.status = "confirmed"})

SpentToday(day) == Total(AutoEntries(day))

(* The checks of reserve_and_spend; a manual tip has none.                 *)
MayReserve(q) ==
    q.trigger = "auto" =>
        /\ ~ AlreadyReserved(q.key, q.day)
        /\ SiteSpent(q.key, q.day) + q.amount <= q.siteCap
        /\ SpentToday(q.day) + q.amount <= q.cap

Entry(q, id, status) ==
    [id |-> id, key |-> q.key, day |-> q.day, amount |-> q.amount,
     trigger |-> q.trigger, status |-> status]

(* What a reservation or a request says of the money it moves.             *)
Tip(x) == [id |-> x.id, key |-> x.key, day |-> x.day, amount |-> x.amount, trigger |-> x.trigger]

(* persist_ledger with the entries and the next id just put in memory.     *)
Saved == file' = ledger' /\ fileNextId' = nextId'

NotSaved == SavesCanFail /\ UNCHANGED <<file, fileNextId>>

Becomes(r, q) == request' = [request EXCEPT ![r] = q]

----------------------------------------------------------------------------
(* Requests.                                                               *)

(* auto_tip_for_store reads the policy, then waits for the owner.          *)
Consumed(r, k) ==
    /\ request[r].pc = "idle" /\ ~ poisoned /\ config.creator.enabled
    /\ Becomes(r, [NoRequest EXCEPT !.pc = "resolving", !.key = k,
                                    !.amount = config.creator.amount,
                                    !.siteCap = config.creator.siteCap, !.cap = config.cap])
    /\ UNCHANGED <<today, settings, books, poisoned, sent, highCap>>

(* dev_daily_tip has no owner to wait for and no per-site cap.             *)
DevTick(r) ==
    /\ request[r].pc = "idle" /\ ~ poisoned /\ config.dev.enabled
    /\ Becomes(r, [NoRequest EXCEPT !.pc = "priced", !.key = Dev, !.day = today,
                                    !.amount = config.dev.amount,
                                    !.siteCap = config.dev.amount, !.cap = config.cap])
    /\ UNCHANGED <<today, settings, books, poisoned, sent, highCap>>

Manual(r, k) ==
    /\ request[r].pc = "idle" /\ ~ poisoned
    /\ Becomes(r, [NoRequest EXCEPT !.pc = "resolving", !.key = k, !.trigger = "manual"])
    /\ UNCHANGED <<today, settings, books, poisoned, sent, highCap>>

Price(q) ==
    IF q.key \in Creators /\ config.over[q.key] # NoOverride THEN config.over[q.key]
    ELSE IF q.trigger = "manual" THEN config.creator.amount ELSE q.amount

(* The owner is known: the amount and the day of the tip are fixed.        *)
OwnerResolved(r) ==
    /\ request[r].pc = "resolving"
    /\ Becomes(r, [request[r] EXCEPT !.pc = "priced", !.day = today, !.amount = Price(request[r])])
    /\ UNCHANGED <<today, settings, books, poisoned, sent, highCap>>

(* The owner cannot be resolved, a check refuses the tip, or the caller    *)
(* went away: the request ends as it stands.                               *)
Abandoned(r) ==
    /\ request[r].pc # "idle"
    /\ Becomes(r, NoRequest)
    /\ UNCHANGED <<today, settings, books, poisoned, sent, highCap>>

(* Mutant: the tip is sent although the reservation could not be saved.    *)
ReserveAnyway(r) ==
    LET q == request[r] IN
    /\ q.pc = "priced" /\ MayReserve(q) /\ nextId < MaxEntries
    /\ ledger' = ledger \cup {Entry(q, nextId, "pending")} /\ nextId' = nextId + 1
    /\ Saved \/ NotSaved
    /\ Becomes(r, [q EXCEPT !.pc = "sending", !.id = nextId, !.siteCap = 0, !.cap = 0])
    /\ UNCHANGED <<today, settings, poisoned, sent, highCap>>

(* Check, reserve and save under one lock; a failed save ends the request  *)
(* and leaves the reservation in memory.                                   *)
Reserve(r) ==
    LET q == request[r] IN
    /\ q.pc = "priced" /\ MayReserve(q) /\ nextId < MaxEntries
    /\ ledger' = ledger \cup {Entry(q, nextId, "pending")} /\ nextId' = nextId + 1
    /\ \/ Saved /\ Becomes(r, [q EXCEPT !.pc = "sending", !.id = nextId, !.siteCap = 0, !.cap = 0])
       \/ NotSaved /\ Becomes(r, NoRequest)
    /\ UNCHANGED <<today, settings, poisoned, sent, highCap>>

(* send_dig_tip gets as far as the broadcast: the spend is out, and the    *)
(* answer is that it is, or an error.                                      *)
Broadcast(r) ==
    LET q == request[r] IN
    /\ q.pc = "sending"
    /\ sent' = Append(sent, Tip(q))
    /\ \E pc \in {"broadcast", "errored"} : Becomes(r, [q EXCEPT !.pc = pc])
    /\ UNCHANGED <<today, settings, books, poisoned, highCap>>

(* It does not: nothing could be selected, built or signed, or the         *)
(* broadcaster could not be reached.                                       *)
NotBroadcast(r) ==
    /\ request[r].pc = "sending"
    /\ \E pc \in {"refused", "errored"} : Becomes(r, [request[r] EXCEPT !.pc = pc])
    /\ UNCHANGED <<today, settings, books, poisoned, sent, highCap>>

(* spend_and_reconcile: a refused tip is taken back, an ambiguous one      *)
(* stays reserved.                                                         *)
Settled(q) ==
    LET others == {e \in ledger : e.id # q.id} IN
    CASE q.pc = "refused" -> {others}
      [] q.pc = "errored" -> {others \cup {Entry(q, q.id, "failed")}}
      [] q.pc = "broadcast" -> {others \cup {Entry(q, q.id, s)} : s \in {"pending", "confirmed"}}

Settle(r) ==
    /\ request[r].pc \in {"refused", "errored", "broadcast"}
    /\ ledger' \in Settled(request[r]) /\ nextId' = nextId
    /\ Saved \/ NotSaved
    /\ Becomes(r, NoRequest)
    /\ UNCHANGED <<today, settings, poisoned, sent, highCap>>

----------------------------------------------------------------------------
(* The rest of the process, and the world.                                 *)

SetConfig(c) ==
    /\ ~ poisoned
    /\ config' = c
    /\ configFile' = c \/ (SavesCanFail /\ UNCHANGED configFile)
    /\ highCap' = IF c.cap > highCap THEN c.cap ELSE highCap
    /\ UNCHANGED <<today, books, poisoned, request, sent>>

DisabledConfig ==
    [creator |-> [Default.creator EXCEPT !.enabled = FALSE],
     dev |-> [Default.dev EXCEPT !.enabled = FALSE],
     cap |-> Default.cap, over |-> Default.over]

(* The process stops, wherever it is, and TippingEngine::load runs again.  *)
(* Either file may be unreadable just then (locked, damaged); a process    *)
(* that met one does nothing more, and never writes over it.               *)
Restart(unreadable) ==
    /\ request' = [r \in Requests |-> NoRequest]
    /\ config' = IF "config" \in unreadable THEN DisabledConfig ELSE configFile
    /\ ledger' = IF "ledger" \in unreadable THEN {} ELSE file
    /\ nextId' = IF "ledger" \in unreadable THEN 0 ELSE fileNextId
    /\ poisoned' = (unreadable # {})
    /\ UNCHANGED <<today, configFile, file, fileNextId, sent, highCap>>

(* The wall clock crosses midnight, or is set back.                        *)
ClockMoves ==
    /\ today' \in {today - 1, today + 1} \cap (1 .. MaxDay)
    /\ UNCHANGED <<settings, books, poisoned, request, sent, highCap>>

Next ==
    \/ \E r \in Requests :
        \/ \E k \in Creators : Consumed(r, k) \/ Manual(r, k)
        \/ DevTick(r) \/ OwnerResolved(r) \/ Abandoned(r)
        \/ Reserve(r) \/ Broadcast(r) \/ NotBroadcast(r) \/ Settle(r)
    \/ \E c \in Configs : SetConfig(c)
    \/ \E unreadable \in SUBSET {"ledger", "config"} : Restart(unreadable)
    \/ ClockMoves

Spec == Init /\ [][Next]_vars

----------------------------------------------------------------------------
(* Properties.                                                             *)

Entries == [id : Nat, key : Keys, day : 1 .. MaxDay, amount : Nat,
            trigger : {"auto", "manual"}, status : {"pending", "confirmed", "failed"}]
Tips == [id : Nat, key : Keys, day : 1 .. MaxDay, amount : Nat, trigger : {"auto", "manual"}]

RequestsType ==
    [pc : {"idle", "resolving", "priced", "sending", "refused", "errored", "broadcast"},
     trigger : {"auto", "manual"}, key : Keys, amount : Nat, siteCap : Nat, cap : Nat,
     day : 0 .. MaxDay, id : Nat]

TypeOK ==
    /\ today \in 1 .. MaxDay
    /\ config \in TippingConfig /\ configFile \in TippingConfig
    /\ ledger \subseteq Entries /\ file \subseteq Entries
    /\ nextId \in Nat /\ fileNextId \in Nat
    /\ poisoned \in BOOLEAN
    /\ request \in [Requests -> RequestsType]
    /\ \A r \in Requests :
        request[r].pc \notin {"idle", "resolving"} => request[r].day \in 1 .. MaxDay
    /\ sent \in Seq(Tips)

(* No recipient gets two automatic tips for one day, whatever requests     *)
(* overlap, whichever saves fail and wherever the process stops: the       *)
(* reservation on disk outlives everything that may have moved money.      *)
AtMostOneAutoTip ==
    \A i, j \in DOMAIN sent :
        (i # j /\ sent[i].trigger = "auto" /\ sent[j].trigger = "auto")
            => <<sent[i].key, sent[i].day>> # <<sent[j].key, sent[j].day>>

(* What automatic tips move on one day never exceeds the largest daily cap *)
(* that was ever in force, over restarts and concurrent requests.          *)
DailyCapHolds ==
    \A d \in 1 .. MaxDay :
        LET autos == {i \in DOMAIN sent : sent[i].trigger = "auto" /\ sent[i].day = d}
        IN  MapThenSumSet(LAMBDA i : sent[i].amount, autos) <= highCap

(* Every tip that moved money, automatic or manual, is in the ledger file  *)
(* from before the broadcast on, and nothing takes it out again: what a    *)
(* crash, a failed save or an ambiguous answer leaves is an entry.         *)
SentIsRecorded ==
    \A i \in DOMAIN sent : \E e \in file : Tip(e) = sent[i]

============================================================================
