---------------------------- MODULE WalletProofs ----------------------------
(***************************************************************************)
(* Proofs about the wallet's two stores of its own: the tips it sends and  *)
(* their ledger (Tipping), and its replica of the chain (WalletSync).      *)
(*                                                                         *)
(* Tipping, for any recipients, number of overlapping requests, settings   *)
(* and bounds, with saves that may fail, files that may be unreadable at a *)
(* start and a process that may stop anywhere.                             *)
(*                                                                         *)
(* AtMostOneAutoTip says nothing of the ledgers, and is not inductive.     *)
(* What keeps it is the chain from a tip that was broadcast to its entry   *)
(* in the file (SentInFile), from the entry to the day's only one for that *)
(* recipient (OneEach), and back to the tip by an identifier no two tips   *)
(* share (IdsNotReused).  A request carries its own link of the chain      *)
(* while it waits for the broadcaster (InFlight).                          *)
(*                                                                         *)
(* DailyCapHolds is a bound on a sum.  A sum of natural numbers is counted *)
(* in units, one for each unit of each amount (Units), so that sums are    *)
(* added and compared as finite sets are.                                  *)
(*                                                                         *)
(* WalletSync, for any coins and bounds.  What a synced replica has, and   *)
(* what the baseline may pass, follow from an invariant in layers, each    *)
(* inductive given those before it (SyncInv, at the end):                  *)
(*   SyncTyped      heights stay within the chain;                         *)
(*   ValuesTrue     what is known of a coin is where it was born;          *)
(*   Joined         the frames pushed join, and join what was recorded;    *)
(*   Covered        a frame leaves out no coin between its ends;           *)
(*   CatchUpWhole   a catch-up has written what it has read;               *)
(*   Whole          a synced replica has what it should;                   *)
(*   ArrivalsWhole  the rows are there before the baseline passes them.    *)
(***************************************************************************)
EXTENDS Tipping, WalletSync, FiniteSetTheorems, TLAPS

InFlight == {"sending", "refused", "errored", "broadcast"}

Holds(S, t) == \E e \in S : Tip(e) = t

Numbered(S, n) == \A e \in S : e.id < n
UniqueIds(S) == \A e, f \in S : e.id = f.id => e = f
OneEach(S) ==
    \A e, f \in S : (e.trigger = "auto" /\ f.trigger = "auto" /\ e.key = f.key /\ e.day = f.day)
        => e = f

WellKept(S, n) == Numbered(S, n) /\ UniqueIds(S) /\ OneEach(S)

RequestsRecorded ==
    \A r \in Requests : request[r].pc \in InFlight =>
        Holds(ledger, Tip(request[r])) /\ Holds(file, Tip(request[r]))

RequestsApart ==
    \A r, s \in Requests :
        (r # s /\ request[r].pc \in InFlight /\ request[s].pc \in InFlight)
            => request[r].id # request[s].id

NotYetSent ==
    \A r \in Requests : request[r].pc \in {"sending", "refused"} =>
        \A i \in DOMAIN sent : sent[i].id # request[r].id

IdsNotReused == \A i, j \in DOMAIN sent : sent[i].id = sent[j].id => i = j

SentInLedger == ~ poisoned => \A i \in DOMAIN sent : Holds(ledger, sent[i])

PoisonedIsIdle == poisoned => \A r \in Requests : request[r].pc = "idle"

TipInv ==
    /\ WellKept(ledger, nextId) /\ WellKept(file, fileNextId)
    /\ RequestsRecorded /\ RequestsApart /\ NotYetSent
    /\ IdsNotReused /\ SentIsRecorded /\ SentInLedger
    /\ PoisonedIsIdle

----------------------------------------------------------------------------
(* Types.                                                                  *)

LEMMA NoRequestType == NoRequest \in RequestsType
  BY TippingConstants DEF NoRequest, RequestsType, Keys

LEMMA SettingsType == Default \in TippingConfig /\ DisabledConfig \in TippingConfig
  BY TippingConstants DEF DisabledConfig, TippingConfig, Policies

(* An entry made of a request that has its day is a ledger entry.          *)
LEMMA EntryType ==
  ASSUME NEW q \in RequestsType, q.day \in 1 .. MaxDay, NEW id \in Nat,
         NEW status \in {"pending", "confirmed", "failed"}
  PROVE  Entry(q, id, status) \in Entries /\ Tip(q) \in Tips
  BY DEF Entry, Entries, RequestsType, Tip, Tips

LEMMA EmptySeqType == <<>> \in Seq(Tips)
  OBVIOUS

LEMMA TypeInit == Init => TypeOK
<1> SUFFICES ASSUME Init PROVE TypeOK
  OBVIOUS
<1>1. request \in [Requests -> RequestsType]
  BY NoRequestType DEF Init
<1>2. \A r \in Requests : request[r].pc = "idle"
  BY DEF Init, NoRequest
<1>3. today \in 1 .. MaxDay
  BY TippingConstants DEF Init
<1> QED
  BY <1>1, <1>2, <1>3, SettingsType, EmptySeqType DEF Init, TypeOK

(* A request that gets a new state of the right type keeps the others'.    *)
LEMMA BecomesType ==
  ASSUME TypeOK, NEW r \in Requests, NEW q \in RequestsType, Becomes(r, q),
         q.pc \notin {"idle", "resolving"} => q.day \in 1 .. MaxDay
  PROVE  /\ request' \in [Requests -> RequestsType]
         /\ \A s \in Requests :
              request'[s].pc \notin {"idle", "resolving"} => request'[s].day \in 1 .. MaxDay
  BY DEF TypeOK, Becomes

LEMMA TypeStep == TypeOK /\ [Next]_vars => TypeOK'
<1> SUFFICES ASSUME TypeOK, [Next]_vars PROVE TypeOK'
  OBVIOUS
<1> USE TippingConstants
<1>0. NoRequest \in RequestsType /\ NoRequest.pc = "idle"
  BY NoRequestType DEF NoRequest
<1>1. ASSUME NEW r \in Requests, NEW k \in Creators, Consumed(r, k) PROVE TypeOK'
  <2> DEFINE q == [NoRequest EXCEPT !.pc = "resolving", !.key = k,
                                    !.amount = config.creator.amount,
                                    !.siteCap = config.creator.siteCap, !.cap = config.cap]
  <2>1. q \in RequestsType /\ q.pc = "resolving"
    BY <1>0 DEF TypeOK, RequestsType, TippingConfig, Policies, Keys
  <2>2. Becomes(r, q)
    BY <1>1 DEF Consumed
  <2> QED
    BY <1>1, <2>1, <2>2, BecomesType DEF Consumed, TypeOK, settings, books
<1>2. ASSUME NEW r \in Requests, NEW k \in Creators, Manual(r, k) PROVE TypeOK'
  <2> DEFINE q == [NoRequest EXCEPT !.pc = "resolving", !.key = k, !.trigger = "manual"]
  <2>1. q \in RequestsType /\ q.pc = "resolving"
    BY <1>0 DEF RequestsType, Keys
  <2>2. Becomes(r, q)
    BY <1>2 DEF Manual
  <2> QED
    BY <1>2, <2>1, <2>2, BecomesType DEF Manual, TypeOK, settings, books
<1>3. ASSUME NEW r \in Requests, DevTick(r) PROVE TypeOK'
  <2> DEFINE q == [NoRequest EXCEPT !.pc = "priced", !.key = Dev, !.day = today,
                                    !.amount = config.dev.amount,
                                    !.siteCap = config.dev.amount, !.cap = config.cap]
  <2>1. /\ today \in 1 .. MaxDay /\ today \in 0 .. MaxDay
        /\ config.dev.amount \in Nat /\ config.cap \in Nat
    BY DEF TypeOK, TippingConfig, Policies
  <2>1a. q \in RequestsType /\ q.day = today
    BY <1>0, <2>1 DEF RequestsType, Keys
  <2>2. Becomes(r, q)
    BY <1>3 DEF DevTick
  <2> QED
    BY <1>3, <2>1, <2>1a, <2>2, BecomesType DEF DevTick, TypeOK, settings, books
<1>4. ASSUME NEW r \in Requests, OwnerResolved(r) PROVE TypeOK'
  <2> DEFINE q == [request[r] EXCEPT !.pc = "priced", !.day = today,
                                     !.amount = Price(request[r])]
  <2>0. /\ request[r].amount \in Nat /\ config.creator.amount \in Nat
        /\ config.over \in [Creators -> Nat \cup {NoOverride}]
    BY DEF TypeOK, RequestsType, TippingConfig, Policies
  <2>1. Price(request[r]) \in Nat
    BY <2>0 DEF Price
  <2>2. today \in 1 .. MaxDay /\ today \in 0 .. MaxDay /\ request[r] \in RequestsType
    BY DEF TypeOK
  <2>2a. q \in RequestsType /\ q.day = today
    BY <2>1, <2>2 DEF RequestsType
  <2>3. Becomes(r, q)
    BY <1>4 DEF OwnerResolved
  <2> QED
    BY <1>4, <2>2, <2>2a, <2>3, BecomesType DEF OwnerResolved, TypeOK, settings, books
<1>5. ASSUME NEW r \in Requests, Abandoned(r) PROVE TypeOK'
  BY <1>0, <1>5, BecomesType DEF Abandoned, TypeOK, settings, books
<1>6. ASSUME NEW r \in Requests, Reserve(r) PROVE TypeOK'
  <2> DEFINE q == [request[r] EXCEPT !.pc = "sending", !.id = nextId, !.siteCap = 0, !.cap = 0]
  <2>1. q \in RequestsType /\ q.day \in 1 .. MaxDay
    BY <1>6 DEF Reserve, TypeOK, RequestsType
  <2>2. Entry(request[r], nextId, "pending") \in Entries
    BY <1>6, EntryType DEF Reserve, TypeOK
  <2>3. ledger' \subseteq Entries /\ nextId' \in Nat
    BY <1>6, <2>2 DEF Reserve, TypeOK
  <2>4. file' \subseteq Entries /\ fileNextId' \in Nat
    BY <1>6, <2>3 DEF Reserve, Saved, NotSaved, TypeOK
  <2>5. Becomes(r, q) \/ Becomes(r, NoRequest)
    BY <1>6 DEF Reserve
  <2>6. /\ request' \in [Requests -> RequestsType]
        /\ \A s \in Requests :
             request'[s].pc \notin {"idle", "resolving"} => request'[s].day \in 1 .. MaxDay
    BY <1>0, <2>1, <2>5, BecomesType
  <2> QED
    BY <1>6, <2>3, <2>4, <2>6 DEF Reserve, TypeOK, settings
<1>7. ASSUME NEW r \in Requests, Broadcast(r) PROVE TypeOK'
  <2>1. Tip(request[r]) \in Tips
    BY <1>7, EntryType DEF Broadcast, TypeOK
  <2>2. sent' \in Seq(Tips)
    BY <1>7, <2>1 DEF Broadcast, TypeOK
  <2>3. PICK pc \in {"broadcast", "errored"} : Becomes(r, [request[r] EXCEPT !.pc = pc])
    BY <1>7 DEF Broadcast
  <2>4. [request[r] EXCEPT !.pc = pc] \in RequestsType /\ request[r].day \in 1 .. MaxDay
    BY <1>7 DEF Broadcast, TypeOK, RequestsType
  <2>5. [request[r] EXCEPT !.pc = pc].day \in 1 .. MaxDay
    BY <2>4 DEF RequestsType, TypeOK
  <2> QED
    BY <1>7, <2>2, <2>3, <2>4, <2>5, BecomesType DEF Broadcast, TypeOK, settings, books
<1>8. ASSUME NEW r \in Requests, NotBroadcast(r) PROVE TypeOK'
  <2>3. PICK pc \in {"refused", "errored"} : Becomes(r, [request[r] EXCEPT !.pc = pc])
    BY <1>8 DEF NotBroadcast
  <2>4. [request[r] EXCEPT !.pc = pc] \in RequestsType /\ request[r].day \in 1 .. MaxDay
    BY <1>8 DEF NotBroadcast, TypeOK, RequestsType
  <2>5. [request[r] EXCEPT !.pc = pc].day \in 1 .. MaxDay
    BY <2>4 DEF RequestsType, TypeOK
  <2> QED
    BY <1>8, <2>3, <2>4, <2>5, BecomesType DEF NotBroadcast, TypeOK, settings, books
<1>9. ASSUME NEW r \in Requests, Settle(r) PROVE TypeOK'
  <2> DEFINE q == request[r]
  <2>1. q \in RequestsType /\ q.day \in 1 .. MaxDay /\ q.id \in Nat
    BY <1>9 DEF Settle, TypeOK, RequestsType
  <2>2. \A st \in {"pending", "confirmed", "failed"} : Entry(q, q.id, st) \in Entries
    BY <2>1, EntryType
  <2>3. ledger' \subseteq Entries /\ nextId' \in Nat
    BY <1>9, <2>2 DEF Settle, Settled, TypeOK
  <2>4. file' \subseteq Entries /\ fileNextId' \in Nat
    BY <1>9, <2>3 DEF Settle, Saved, NotSaved, TypeOK
  <2> QED
    BY <1>0, <1>9, <2>3, <2>4, BecomesType DEF Settle, TypeOK, settings
<1>10. ASSUME NEW c \in Configs, SetConfig(c) PROVE TypeOK'
  BY <1>10 DEF SetConfig, TypeOK, books
<1>11. ASSUME NEW unreadable \in SUBSET {"ledger", "config"}, Restart(unreadable) PROVE TypeOK'
  BY <1>0, <1>11, SettingsType DEF Restart, TypeOK
<1>12. ASSUME ClockMoves PROVE TypeOK'
  BY <1>12 DEF ClockMoves, TypeOK, settings, books
<1>13. ASSUME UNCHANGED vars PROVE TypeOK'
  BY <1>13 DEF vars, TypeOK, settings, books
<1> QED
  BY <1>1, <1>2, <1>3, <1>4, <1>5, <1>6, <1>7, <1>8, <1>9, <1>10, <1>11, <1>12, <1>13 DEF Next

(* TippingEngine: the settings, both copies of the ledger, the requests    *)
(* and the tips sent keep their types in every step.                       *)
THEOREM TippingTypeCorrect == Spec => []TypeOK
  BY TypeInit, TypeStep, PTL DEF Spec

----------------------------------------------------------------------------
(* The inductive invariant.                                                *)

LEMMA TipInvInit == Init => TipInv
  BY DEF Init, TipInv, WellKept, Numbered, UniqueIds, OneEach, RequestsRecorded, RequestsApart,
         NotYetSent, IdsNotReused, SentIsRecorded, SentInLedger, PoisonedIsIdle, NoRequest, InFlight

(* A step that leaves the books and the tips alone, and brings no request  *)
(* in flight, keeps the invariant.                                         *)
LEMMA QuietStep ==
  ASSUME TipInv, UNCHANGED <<books, sent, poisoned>>, PoisonedIsIdle',
         \A s \in Requests : request'[s] = request[s] \/ request'[s].pc \notin InFlight
  PROVE  TipInv'
<1>1. UNCHANGED <<ledger, file, nextId, fileNextId>>
  BY DEF books
<1>2. (WellKept(ledger, nextId) /\ WellKept(file, fileNextId))'
  BY <1>1 DEF TipInv, WellKept, Numbered, UniqueIds, OneEach
<1>3. RequestsRecorded' /\ RequestsApart'
  BY <1>1 DEF TipInv, RequestsRecorded, RequestsApart, Holds, Tip
<1>4. NotYetSent'
  BY DEF TipInv, NotYetSent, InFlight
<1>5. IdsNotReused' /\ SentIsRecorded' /\ SentInLedger'
  BY <1>1 DEF TipInv, IdsNotReused, SentIsRecorded, SentInLedger, Holds, Tip
<1> QED
  BY <1>2, <1>3, <1>4, <1>5 DEF TipInv

(* Reserving: the new entry has an identifier of its own, and the check    *)
(* under the lock found no other automatic entry for its recipient and day.*)
LEMMA ReserveWellKept ==
  ASSUME TypeOK, TipInv, NEW r \in Requests, Reserve(r)
  PROVE  WellKept(ledger', nextId') /\ WellKept(file', fileNextId')
<1> DEFINE q == request[r]
           new == Entry(q, nextId, "pending")
<1>1. new.id = nextId /\ new.key = q.key /\ new.day = q.day /\ new.trigger = q.trigger
  BY DEF Entry
<1>2. ledger' = ledger \cup {new} /\ nextId' = nextId + 1
  BY DEF Reserve
<1>3. nextId \in Nat /\ (\A e \in ledger : e.id \in Nat) /\ ledger \subseteq Entries
  BY DEF TypeOK, Entries
<1>4. Numbered(ledger, nextId) /\ UniqueIds(ledger) /\ OneEach(ledger)
  BY DEF TipInv, WellKept
<1>5. Numbered(ledger', nextId')
  BY <1>1, <1>2, <1>3, <1>4 DEF Numbered
<1>6. UniqueIds(ledger')
  <2>1. \A e \in ledger : e.id # new.id
    BY <1>1, <1>3, <1>4 DEF Numbered
  <2> QED
    BY <1>2, <1>4, <2>1 DEF UniqueIds
<1>7. OneEach(ledger')
  <2>1. ASSUME NEW e \in ledger, e.trigger = "auto", q.trigger = "auto", e.day = q.day
        PROVE  e.key # q.key
    <3>1. ~ AlreadyReserved(q.key, q.day)
      BY <2>1 DEF Reserve, MayReserve
    <3> QED
      BY <2>1, <3>1 DEF AlreadyReserved, AutoEntries
  <2> QED
    BY <1>1, <1>2, <1>4, <2>1 DEF OneEach
<1>8. \/ file' = ledger' /\ fileNextId' = nextId'
      \/ file' = file /\ fileNextId' = fileNextId
  BY DEF Reserve, Saved, NotSaved
<1> QED
  BY <1>5, <1>6, <1>7, <1>8 DEF WellKept, TipInv

LEMMA ReserveStep ==
  ASSUME TypeOK, TipInv, NEW r \in Requests, Reserve(r)
  PROVE  TipInv'
<1> DEFINE q == request[r]
           new == Entry(q, nextId, "pending")
           n == [q EXCEPT !.pc = "sending", !.id = nextId, !.siteCap = 0, !.cap = 0]
<1>1. /\ ledger' = ledger \cup {new} /\ sent' = sent /\ poisoned' = poisoned
      /\ q.pc = "priced" /\ q \in RequestsType
  BY DEF Reserve, TypeOK
<1>2. n.pc = "sending" /\ n.id = nextId /\ Tip(n) = Tip(new)
  BY <1>1 DEF RequestsType, Tip, Entry
<1>3. ~ poisoned
  BY <1>1 DEF TipInv, PoisonedIsIdle
<1>4. \A e \in ledger : e.id # nextId
  BY DEF TipInv, WellKept, Numbered, TypeOK, Entries
<1>5. \A i \in DOMAIN sent : sent[i].id # nextId
  <2> SUFFICES ASSUME NEW i \in DOMAIN sent PROVE sent[i].id # nextId
    OBVIOUS
  <2>1. PICK e \in ledger : Tip(e) = sent[i]
    BY <1>3 DEF TipInv, SentInLedger, Holds
  <2> QED
    BY <1>4, <2>1 DEF Tip
<1>6. \A s \in Requests : request[s].pc \in InFlight => request[s].id # nextId
  <2> SUFFICES ASSUME NEW s \in Requests, request[s].pc \in InFlight
               PROVE  request[s].id # nextId
    OBVIOUS
  <2>1. PICK e \in ledger : Tip(e) = Tip(request[s])
    BY DEF TipInv, RequestsRecorded, Holds
  <2> QED
    BY <1>4, <2>1 DEF Tip
<1>7. \A s \in Requests \ {r} : request'[s] = request[s]
  BY DEF Reserve, Becomes, TypeOK
<1>8. \/ /\ file' = ledger' /\ request'[r] = n
      \/ /\ file' = file /\ request'[r] = NoRequest
  BY DEF Reserve, Saved, NotSaved, Becomes, TypeOK
<1>9. NoRequest.pc \notin InFlight
  BY DEF NoRequest, InFlight
<1>10. RequestsRecorded'
  <2> SUFFICES ASSUME NEW s \in Requests, request'[s].pc \in InFlight
               PROVE  Holds(ledger', Tip(request'[s])) /\ Holds(file', Tip(request'[s]))
    BY DEF RequestsRecorded, Holds, Tip
  <2>1. CASE s = r
    <3>1. file' = ledger' /\ request'[r] = n
      BY <1>8, <1>9, <2>1
    <3>2. Holds(ledger', Tip(n))
      BY <1>1, <1>2 DEF Holds
    <3> QED
      BY <2>1, <3>1, <3>2
  <2>2. CASE s # r
    <3>1. Holds(ledger, Tip(request[s])) /\ Holds(file, Tip(request[s])) /\ request'[s] = request[s]
      BY <1>7, <2>2 DEF TipInv, RequestsRecorded
    <3> QED
      BY <1>1, <1>8, <3>1 DEF Holds
  <2> QED
    BY <2>1, <2>2
<1>11. RequestsApart'
  BY <1>2, <1>6, <1>7, <1>8, <1>9 DEF TipInv, RequestsApart
<1>12. NotYetSent'
  <2> SUFFICES ASSUME NEW s \in Requests, request'[s].pc \in {"sending", "refused"},
                      NEW i \in DOMAIN sent'
               PROVE  sent'[i].id # request'[s].id
    BY DEF NotYetSent
  <2>1. CASE s = r
    <3>1. request'[s].id = nextId
      BY <1>2, <1>8, <1>9, <2>1 DEF InFlight
    <3> QED
      BY <1>1, <1>5, <3>1
  <2>2. CASE s # r
    <3>1. request'[s] = request[s]
      BY <1>7, <2>2
    <3> QED
      BY <1>1, <3>1 DEF TipInv, NotYetSent
  <2> QED
    BY <2>1, <2>2
<1>13. IdsNotReused'
  BY <1>1 DEF TipInv, IdsNotReused
<1>14. SentIsRecorded' /\ SentInLedger'
  <2>1. \A i \in DOMAIN sent : Holds(ledger', sent[i])
    BY <1>1, <1>3 DEF TipInv, SentInLedger, Holds
  <2>2. \A i \in DOMAIN sent : Holds(file', sent[i])
    BY <1>8, <2>1 DEF TipInv, SentIsRecorded, Holds
  <2> QED
    BY <1>1, <2>1, <2>2 DEF SentIsRecorded, SentInLedger, Holds, Tip
<1>15. PoisonedIsIdle'
  BY <1>1, <1>3 DEF PoisonedIsIdle
<1>16. (WellKept(ledger, nextId) /\ WellKept(file, fileNextId))'
  BY ReserveWellKept DEF WellKept, Numbered, UniqueIds, OneEach
<1> QED
  BY <1>10, <1>11, <1>12, <1>13, <1>14, <1>15, <1>16 DEF TipInv

(* A request in flight that only learns its outcome keeps its entry and    *)
(* its identifier.                                                         *)
LEMMA OutcomeStep ==
  ASSUME TypeOK, TipInv, NEW r \in Requests, request[r].pc \in InFlight,
         NEW n, Tip(n) = Tip(request[r]), Becomes(r, n), UNCHANGED <<ledger, file>>
  PROVE  /\ request'[r] = n /\ n.id = request[r].id
         /\ \A s \in Requests \ {r} : request'[s] = request[s]
         /\ RequestsRecorded' /\ RequestsApart'
<1>2. request'[r] = n /\ \A s \in Requests \ {r} : request'[s] = request[s]
  BY DEF Becomes, TypeOK
<1>3. n.id = request[r].id
  BY DEF Tip
<1>4. ASSUME NEW s \in Requests, request'[s].pc \in InFlight
      PROVE  /\ Tip(request'[s]) = Tip(request[s]) /\ request'[s].id = request[s].id
             /\ request[s].pc \in InFlight
  BY <1>2, <1>3, <1>4
<1>5. RequestsRecorded'
  <2> SUFFICES ASSUME NEW s \in Requests, request'[s].pc \in InFlight
               PROVE  Holds(ledger', Tip(request'[s])) /\ Holds(file', Tip(request'[s]))
    BY DEF RequestsRecorded, Holds, Tip
  <2>1. Tip(request'[s]) = Tip(request[s]) /\ request[s].pc \in InFlight
    BY <1>4
  <2>2. Holds(ledger, Tip(request[s])) /\ Holds(file, Tip(request[s]))
    BY <2>1 DEF TipInv, RequestsRecorded
  <2> QED
    BY <2>1, <2>2
<1>6. RequestsApart'
  BY <1>4 DEF TipInv, RequestsApart
<1> QED
  BY <1>2, <1>3, <1>5, <1>6

(* The broadcast: the request's entry has been in both copies since it was *)
(* reserved, and no tip went out under its identifier before.              *)
LEMMA BroadcastStep ==
  ASSUME TypeOK, TipInv, NEW r \in Requests, Broadcast(r)
  PROVE  TipInv'
<1> DEFINE q == request[r]
<1>1. PICK pc \in {"broadcast", "errored"} : Becomes(r, [q EXCEPT !.pc = pc])
  BY DEF Broadcast
<1>2. q.pc = "sending" /\ q \in RequestsType /\ UNCHANGED <<ledger, file, nextId, fileNextId, poisoned>>
  BY DEF Broadcast, TypeOK, books
<1>3. q.pc \in InFlight /\ ~ poisoned
  BY <1>2 DEF InFlight, TipInv, PoisonedIsIdle
<1>4. PICK n : Becomes(r, n) /\ n.pc = pc /\ Tip(n) = Tip(q)
  <2>1. [q EXCEPT !.pc = pc].pc = pc /\ Tip([q EXCEPT !.pc = pc]) = Tip(q)
    BY <1>2 DEF RequestsType, Tip
  <2> QED
    BY <1>1, <2>1
<1>5. /\ request'[r] = n /\ n.id = q.id
      /\ \A s \in Requests \ {r} : request'[s] = request[s]
      /\ RequestsRecorded' /\ RequestsApart'
  BY <1>2, <1>3, <1>4, OutcomeStep
<1>6. /\ DOMAIN sent' = DOMAIN sent \cup {Len(sent) + 1}
      /\ sent'[Len(sent) + 1] = Tip(q)
      /\ Len(sent) + 1 \notin DOMAIN sent
      /\ \A i \in DOMAIN sent : sent'[i] = sent[i]
  <2>1. sent \in Seq(Tips) /\ Tip(q) \in Tips
    BY EntryType, <1>2 DEF TypeOK
  <2>2. sent' = Append(sent, Tip(q))
    BY DEF Broadcast
  <2> QED
    BY <2>1, <2>2
<1>7. \A i \in DOMAIN sent : sent[i].id # q.id
  BY <1>2 DEF TipInv, NotYetSent
<1>8. Tip(q).id = q.id
  BY DEF Tip
<1>9. (WellKept(ledger, nextId) /\ WellKept(file, fileNextId))'
  BY <1>2 DEF TipInv, WellKept, Numbered, UniqueIds, OneEach
<1>12. NotYetSent'
  <2> SUFFICES ASSUME NEW s \in Requests, request'[s].pc \in {"sending", "refused"},
                      NEW i \in DOMAIN sent'
               PROVE  sent'[i].id # request'[s].id
    BY DEF NotYetSent
  <2>1. s # r /\ request'[s] = request[s] /\ request[s].pc \in InFlight
    BY <1>4, <1>5 DEF InFlight
  <2>2. request[s].id # q.id
    BY <1>3, <2>1 DEF TipInv, RequestsApart
  <2> QED
    BY <1>6, <1>8, <2>1, <2>2 DEF TipInv, NotYetSent
<1>13. IdsNotReused'
  BY <1>6, <1>7, <1>8 DEF TipInv, IdsNotReused
<1>14. SentIsRecorded' /\ SentInLedger'
  <2>1. Holds(ledger, Tip(q)) /\ Holds(file, Tip(q))
    BY <1>3 DEF TipInv, RequestsRecorded
  <2>2. \A i \in DOMAIN sent' : Holds(ledger, sent'[i]) /\ Holds(file, sent'[i])
    BY <1>3, <1>6, <2>1 DEF TipInv, SentIsRecorded, SentInLedger, Holds
  <2> QED
    BY <1>2, <2>2 DEF SentIsRecorded, SentInLedger, Holds, Tip
<1>15. PoisonedIsIdle'
  BY <1>2, <1>3 DEF PoisonedIsIdle
<1> QED
  BY <1>5, <1>9, <1>12, <1>13, <1>14, <1>15 DEF TipInv

LEMMA NotBroadcastStep ==
  ASSUME TypeOK, TipInv, NEW r \in Requests, NotBroadcast(r)
  PROVE  TipInv'
<1> DEFINE q == request[r]
<1>1. PICK pc \in {"refused", "errored"} : Becomes(r, [q EXCEPT !.pc = pc])
  BY DEF NotBroadcast
<1>2. /\ q.pc = "sending" /\ q \in RequestsType
      /\ UNCHANGED <<ledger, file, nextId, fileNextId, poisoned, sent>>
  BY DEF NotBroadcast, TypeOK, books
<1>3. q.pc \in InFlight /\ ~ poisoned
  BY <1>2 DEF InFlight, TipInv, PoisonedIsIdle
<1>4. PICK n : Becomes(r, n) /\ n.pc = pc /\ Tip(n) = Tip(q)
  <2>1. [q EXCEPT !.pc = pc].pc = pc /\ Tip([q EXCEPT !.pc = pc]) = Tip(q)
    BY <1>2 DEF RequestsType, Tip
  <2> QED
    BY <1>1, <2>1
<1>5. /\ request'[r] = n /\ n.id = q.id
      /\ \A s \in Requests \ {r} : request'[s] = request[s]
      /\ RequestsRecorded' /\ RequestsApart'
  BY <1>2, <1>3, <1>4, OutcomeStep
<1>6. (WellKept(ledger, nextId) /\ WellKept(file, fileNextId))'
  BY <1>2 DEF TipInv, WellKept, Numbered, UniqueIds, OneEach
<1>8. NotYetSent'
  BY <1>2, <1>4, <1>5 DEF TipInv, NotYetSent
<1>9. IdsNotReused' /\ SentIsRecorded' /\ SentInLedger'
  BY <1>2 DEF TipInv, IdsNotReused, SentIsRecorded, SentInLedger, Holds, Tip
<1>10. PoisonedIsIdle'
  BY <1>2, <1>3 DEF PoisonedIsIdle
<1> QED
  BY <1>5, <1>6, <1>8, <1>9, <1>10 DEF TipInv

(* Recording the answer replaces the request's own entry by one that says  *)
(* the same of the money, or, when nothing was broadcast, removes it.      *)
LEMMA SettleStep ==
  ASSUME TypeOK, TipInv, NEW r \in Requests, Settle(r)
  PROVE  TipInv'
<1> DEFINE q == request[r]
           others == {e \in ledger : e.id # q.id}
<1>1. /\ q.pc \in {"refused", "errored", "broadcast"} /\ q \in RequestsType
      /\ UNCHANGED <<sent, poisoned, nextId>> /\ nextId \in Nat
  BY DEF Settle, TypeOK
<1>2. q.pc \in InFlight /\ ~ poisoned
  BY <1>1 DEF InFlight, TipInv, PoisonedIsIdle
<1>3. PICK old \in ledger : Tip(old) = Tip(q)
  BY <1>2 DEF TipInv, RequestsRecorded, Holds
<1>4. /\ \A e \in ledger : e.id = q.id => e = old
      /\ old.id = q.id /\ old.key = q.key /\ old.day = q.day /\ old.trigger = q.trigger
  BY <1>3 DEF Tip, TipInv, WellKept, UniqueIds
<1>5. \/ ledger' = others /\ q.pc = "refused"
      \/ \E status \in {"pending", "confirmed", "failed"} :
            ledger' = others \cup {Entry(q, q.id, status)}
  BY <1>1 DEF Settle, Settled
<1>6. \A status : /\ Tip(Entry(q, q.id, status)) = Tip(q)
                  /\ Entry(q, q.id, status).id = q.id
                  /\ Entry(q, q.id, status).key = q.key
                  /\ Entry(q, q.id, status).day = q.day
                  /\ Entry(q, q.id, status).trigger = q.trigger
  BY DEF Entry, Tip
<1>7. WellKept(ledger', nextId')
  <2>0. Numbered(ledger, nextId) /\ UniqueIds(ledger) /\ OneEach(ledger)
    BY DEF TipInv, WellKept
  <2>1. CASE ledger' = others
    BY <1>1, <2>0, <2>1 DEF WellKept, Numbered, UniqueIds, OneEach
  <2>2. ASSUME NEW status, ledger' = others \cup {Entry(q, q.id, status)}
        PROVE  WellKept(ledger', nextId')
    <3>1. Numbered(ledger', nextId') /\ UniqueIds(ledger')
      BY <1>1, <1>4, <1>6, <2>0, <2>2 DEF Numbered, UniqueIds
    <3>2. OneEach(ledger')
      BY <1>4, <1>6, <2>0, <2>2 DEF OneEach
    <3> QED
      BY <3>1, <3>2 DEF WellKept
  <2> QED
    BY <1>5, <2>1, <2>2
<1>8. \/ file' = ledger' /\ fileNextId' = nextId'
      \/ file' = file /\ fileNextId' = fileNextId
  BY DEF Settle, Saved, NotSaved
<1>9. (WellKept(ledger, nextId) /\ WellKept(file, fileNextId))'
  BY <1>7, <1>8 DEF TipInv, WellKept, Numbered, UniqueIds, OneEach
<1>10. request'[r] = NoRequest /\ \A s \in Requests \ {r} : request'[s] = request[s]
  BY DEF Settle, Becomes, TypeOK
<1>11. NoRequest.pc = "idle" /\ "idle" \notin InFlight
  BY DEF NoRequest, InFlight
<1>12. \A t : Holds(ledger, t) /\ t.id # q.id => Holds(ledger', t)
  BY <1>5 DEF Holds, Tip
<1>13. RequestsRecorded'
  <2> SUFFICES ASSUME NEW s \in Requests, request'[s].pc \in InFlight
               PROVE  Holds(ledger', Tip(request'[s])) /\ Holds(file', Tip(request'[s]))
    BY DEF RequestsRecorded, Holds, Tip
  <2>1. s # r /\ request'[s] = request[s]
    BY <1>10, <1>11
  <2>2. Tip(request[s]).id # q.id
    BY <1>2, <2>1 DEF TipInv, RequestsApart, Tip
  <2> QED
    BY <1>8, <1>12, <2>1, <2>2 DEF TipInv, RequestsRecorded
<1>14. RequestsApart' /\ NotYetSent'
  BY <1>1, <1>10, <1>11 DEF TipInv, RequestsApart, NotYetSent
<1>15. \A i \in DOMAIN sent : Holds(ledger', sent[i])
  <2> SUFFICES ASSUME NEW i \in DOMAIN sent PROVE Holds(ledger', sent[i])
    OBVIOUS
  <2>1. PICK e \in ledger : Tip(e) = sent[i]
    BY <1>2 DEF TipInv, SentInLedger, Holds
  <2>2. CASE sent[i].id # q.id
    BY <1>12, <2>1, <2>2 DEF Holds
  <2>3. CASE sent[i].id = q.id
    <3>1. e = old /\ sent[i] = Tip(q)
      BY <1>3, <1>4, <2>1, <2>3 DEF Tip
    <3>2. q.pc # "refused"
      BY <2>3 DEF TipInv, NotYetSent
    <3> QED
      BY <1>5, <1>6, <3>1, <3>2 DEF Holds
  <2> QED
    BY <2>2, <2>3
<1>16. SentIsRecorded' /\ SentInLedger'
  BY <1>1, <1>8, <1>15 DEF TipInv, SentIsRecorded, SentInLedger, Holds, Tip
<1>17. IdsNotReused' /\ PoisonedIsIdle'
  BY <1>1, <1>2 DEF TipInv, IdsNotReused, PoisonedIsIdle
<1> QED
  BY <1>9, <1>13, <1>14, <1>16, <1>17 DEF TipInv

(* A restart takes the ledger from the file, or refuses to work at all.    *)
LEMMA RestartStep ==
  ASSUME TypeOK, TipInv, NEW unreadable \in SUBSET {"ledger", "config"}, Restart(unreadable)
  PROVE  TipInv'
<1>1. \A r \in Requests : request'[r].pc = "idle"
  BY DEF Restart, NoRequest
<1>2. UNCHANGED <<file, fileNextId, sent>>
  BY DEF Restart
<1>3. \/ ledger' = file /\ nextId' = fileNextId
      \/ ledger' = {} /\ nextId' = 0 /\ poisoned'
  BY DEF Restart
<1>4. (WellKept(ledger, nextId) /\ WellKept(file, fileNextId))'
  BY <1>2, <1>3 DEF TipInv, WellKept, Numbered, UniqueIds, OneEach
<1>5. RequestsRecorded' /\ RequestsApart' /\ NotYetSent' /\ PoisonedIsIdle'
  BY <1>1 DEF RequestsRecorded, RequestsApart, NotYetSent, PoisonedIsIdle, InFlight
<1>6. IdsNotReused' /\ SentIsRecorded' /\ SentInLedger'
  BY <1>2, <1>3 DEF TipInv, IdsNotReused, SentIsRecorded, SentInLedger, Holds, Tip
<1> QED
  BY <1>4, <1>5, <1>6 DEF TipInv

LEMMA TipInvStep == TypeOK /\ TipInv /\ [Next]_vars => TipInv'
<1> SUFFICES ASSUME TypeOK, TipInv, [Next]_vars PROVE TipInv'
  OBVIOUS
<1>1. ASSUME NEW r \in Requests, NEW q, q.pc \notin InFlight, Becomes(r, q),
             UNCHANGED <<books, poisoned, sent>>, poisoned => q.pc = "idle"
      PROVE  TipInv'
  <2>1. request'[r] = q /\ \A s \in Requests \ {r} : request'[s] = request[s]
    BY <1>1 DEF Becomes, TypeOK
  <2>2. PoisonedIsIdle'
    BY <1>1, <2>1 DEF TipInv, PoisonedIsIdle
  <2> QED
    BY <1>1, <2>1, <2>2, QuietStep
<1>2. ASSUME NEW r \in Requests, NEW k \in Creators, Consumed(r, k) \/ Manual(r, k) PROVE TipInv'
  BY <1>1, <1>2 DEF Consumed, Manual, NoRequest, InFlight
<1>3. ASSUME NEW r \in Requests, DevTick(r) PROVE TipInv'
  BY <1>1, <1>3 DEF DevTick, NoRequest, InFlight
<1>4. ASSUME NEW r \in Requests, OwnerResolved(r) PROVE TipInv'
  <2> DEFINE q == [request[r] EXCEPT !.pc = "priced", !.day = today, !.amount = Price(request[r])]
  <2>1. q.pc = "priced" /\ request[r].pc = "resolving" /\ "priced" \notin InFlight
    BY <1>4 DEF OwnerResolved, TypeOK, RequestsType, InFlight
  <2>2. ~ poisoned
    BY <2>1 DEF TipInv, PoisonedIsIdle
  <2> QED
    BY <1>1, <1>4, <2>1, <2>2 DEF OwnerResolved
<1>5. ASSUME NEW r \in Requests, Abandoned(r) PROVE TipInv'
  BY <1>1, <1>5 DEF Abandoned, NoRequest, InFlight
<1>6. ASSUME UNCHANGED <<books, poisoned, sent, request>> PROVE TipInv'
  BY <1>6, QuietStep DEF TipInv, PoisonedIsIdle
<1>7. ASSUME NEW c \in Configs, SetConfig(c) PROVE TipInv'
  BY <1>6, <1>7 DEF SetConfig
<1>8. ASSUME ClockMoves PROVE TipInv'
  BY <1>6, <1>8 DEF ClockMoves
<1>9. ASSUME UNCHANGED vars PROVE TipInv'
  BY <1>6, <1>9 DEF vars
<1> QED
  BY <1>2, <1>3, <1>4, <1>5, <1>7, <1>8, <1>9, ReserveStep, BroadcastStep, NotBroadcastStep,
     SettleStep, RestartStep DEF Next

LEMMA TipInvHolds == Spec => []TipInv
  BY TypeInit, TypeStep, TipInvInit, TipInvStep, PTL DEF Spec

(* persist_ledger before send_dig_tip: whatever was broadcast, by an       *)
(* automatic or a manual tip, has its entry in tip-ledger.json ever after. *)
THEOREM SentTipsRecorded == Spec => []SentIsRecorded
<1>1. TipInv => SentIsRecorded
  BY DEF TipInv
<1> QED
  BY <1>1, TipInvHolds, PTL

(* The crash-safe idempotency of reserve_and_spend: no recipient gets two  *)
(* automatic tips for one day, for any number of overlapping requests,     *)
(* failed saves, unreadable files and restarts.                            *)
THEOREM NeverTippedTwice == Spec => []AtMostOneAutoTip
<1>1. TipInv => AtMostOneAutoTip
  <2> SUFFICES ASSUME TipInv, NEW i \in DOMAIN sent, NEW j \in DOMAIN sent, i # j,
                      sent[i].trigger = "auto", sent[j].trigger = "auto",
                      sent[i].key = sent[j].key, sent[i].day = sent[j].day
               PROVE  FALSE
    BY DEF AtMostOneAutoTip
  <2>1. PICK e \in file : Tip(e) = sent[i]
    BY DEF TipInv, SentIsRecorded
  <2>2. PICK f \in file : Tip(f) = sent[j]
    BY DEF TipInv, SentIsRecorded
  <2>3. e = f
    BY <2>1, <2>2 DEF Tip, TipInv, WellKept, OneEach
  <2> QED
    BY <2>1, <2>2, <2>3 DEF Tip, TipInv, IdsNotReused
<1> QED
  BY <1>1, TipInvHolds, PTL

----------------------------------------------------------------------------
(* Sums.                                                                   *)

Units(S, f) == {p \in S \X Nat : p[2] \in 1 .. f[p[1]]}
Weight(S, f) == Cardinality(Units(S, f))

(* A set of numbers that is not empty has a least one.                     *)
LEMMA LeastNumber ==
  ASSUME NEW T, T \subseteq Nat, T # {}
  PROVE  \E x \in T : \A y \in T : x <= y
<1>1. PICK R : R = OpToRel(<, Nat)
  OBVIOUS
<1>2. \E x \in T : \A y \in T : ~ (<<y, x>> \in R)
  BY <1>1, NatLessThanWellFounded, WFMin
<1>3. \A x, y \in Nat : y < x => <<y, x>> \in R
  BY <1>1 DEF OpToRel
<1>4. \A x, y \in Nat : ~ (y < x) => x <= y
  OBVIOUS
<1>5. \A x, y \in T : ~ (<<y, x>> \in R) => x <= y
  BY <1>3, <1>4, Zenon
<1> QED
  BY <1>2, <1>5, Zenon

LEMMA UnitsOfOne ==
  ASSUME NEW D, NEW x \in D, NEW f \in [D -> Nat]
  PROVE  /\ IsFiniteSet(Units({x}, f)) /\ Cardinality(Units({x}, f)) = f[x]
<1> DEFINE b == [k \in 1 .. f[x] |-> <<x, k>>]
<1>1. f[x] \in Nat
  OBVIOUS
<1>2. b \in Bijection(1 .. f[x], Units({x}, f))
  <2>1. \A k \in 1 .. f[x] : <<x, k>> \in Units({x}, f)
    BY <1>1 DEF Units
  <2>2. \A p \in Units({x}, f) : p[2] \in 1 .. f[x] /\ p = <<x, p[2]>>
    BY DEF Units
  <2>3. b \in [1 .. f[x] -> Units({x}, f)] /\ IsInjective(b)
    BY <2>1 DEF IsInjective
  <2>4. \A p \in Units({x}, f) : \E k \in 1 .. f[x] : b[k] = p
    BY <2>2
  <2> QED
    BY <2>3, <2>4 DEF Bijection, Injection, Surjection
<1>3. IsFiniteSet(1 .. f[x]) /\ Cardinality(1 .. f[x]) = f[x]
  BY <1>1, FS_Interval
<1>4. ExistsBijection(1 .. f[x], Units({x}, f))
  BY <1>2 DEF ExistsBijection
<1> QED
  BY <1>3, <1>4, FS_Bijection

LEMMA UnitsAdd ==
  ASSUME NEW D, NEW f \in [D -> Nat], NEW T \in SUBSET D, NEW x \in D \ T,
         IsFiniteSet(Units(T, f))
  PROVE  /\ IsFiniteSet(Units(T \cup {x}, f))
         /\ Weight(T \cup {x}, f) = Weight(T, f) + f[x]
<1>1. Units(T \cup {x}, f) = Units(T, f) \cup Units({x}, f)
  BY DEF Units
<1>2. Units(T, f) \cap Units({x}, f) = {}
  BY DEF Units
<1>3. IsFiniteSet(Units({x}, f)) /\ Cardinality(Units({x}, f)) = f[x] /\ f[x] \in Nat
  BY UnitsOfOne
<1>4. Cardinality(Units(T, f)) \in Nat
  BY FS_CardinalityType
<1>5. /\ IsFiniteSet(Units(T, f) \cup Units({x}, f))
      /\ Cardinality(Units(T, f) \cup Units({x}, f)) =
            Cardinality(Units(T, f)) + Cardinality(Units({x}, f))
              - Cardinality(Units(T, f) \cap Units({x}, f))
  BY <1>3, FS_Union
<1>6. Cardinality(Units(T, f) \cap Units({x}, f)) = 0
  BY <1>2, FS_EmptySet
<1>7. /\ IsFiniteSet(Units(T \cup {x}, f))
      /\ Weight(T \cup {x}, f) = Cardinality(Units(T, f) \cup Units({x}, f))
  BY <1>1, <1>5, Zenon DEF Weight
<1>8. Cardinality(Units(T, f) \cup Units({x}, f)) = Weight(T, f) + f[x]
  BY <1>3, <1>4, <1>5, <1>6 DEF Weight
<1> QED
  BY <1>7, <1>8

LEMMA UnitsFinite ==
  ASSUME NEW D, NEW f \in [D -> Nat], NEW T \in SUBSET D, IsFiniteSet(T)
  PROVE  IsFiniteSet(Units(T, f)) /\ Weight(T, f) \in Nat
<1> DEFINE U == {Units({x}, f) : x \in T}
<1>1. \A u \in U : IsFiniteSet(u)
  BY UnitsOfOne
<1>2. IsFiniteSet(U)
  <2>1. [x \in T |-> Units({x}, f)] \in Surjection(T, U)
    BY DEF Surjection
  <2> QED
    BY <2>1, FS_Surjection
<1>3. Units(T, f) = UNION U
  BY DEF Units
<1>4. IsFiniteSet(Units(T, f))
  <2> HIDE DEF U
  <2> QED
    BY <1>1, <1>2, <1>3, FS_UNION
<1> QED
  BY <1>4, FS_CardinalityType DEF Weight

(* Units that can be told apart in another set are no more than its own.   *)
LEMMA WeightInjected ==
  ASSUME NEW D, NEW f \in [D -> Nat], NEW S \in SUBSET D,
         NEW E, NEW g \in [E -> Nat], NEW T \in SUBSET E, IsFiniteSet(T),
         NEW h \in [S -> T], \A x, y \in S : h[x] = h[y] => x = y,
         \A x \in S : f[x] = g[h[x]]
  PROVE  Weight(S, f) <= Weight(T, g)
<1> DEFINE m == [p \in Units(S, f) |-> <<h[p[1]], p[2]>>]
<1>1. \A p \in Units(S, f) : p = <<p[1], p[2]>> /\ p[1] \in S /\ p[2] \in Nat
                             /\ p[2] \in 1 .. f[p[1]]
  BY DEF Units
<1>2. m \in [Units(S, f) -> Units(T, g)]
  <2> SUFFICES ASSUME NEW p \in Units(S, f) PROVE <<h[p[1]], p[2]>> \in Units(T, g)
    OBVIOUS
  <2>1. h[p[1]] \in T /\ p[2] \in Nat /\ p[2] \in 1 .. g[h[p[1]]]
    BY <1>1
  <2> QED
    BY <2>1 DEF Units
<1>3. IsInjective(m)
  <2> SUFFICES ASSUME NEW p \in Units(S, f), NEW q \in Units(S, f),
                      <<h[p[1]], p[2]>> = <<h[q[1]], q[2]>>
               PROVE  p = q
    BY DEF IsInjective
  <2>1. p[1] = q[1] /\ p[2] = q[2]
    BY <1>1
  <2> QED
    BY <1>1, <2>1
<1>4. m \in Injection(Units(S, f), Units(T, g))
  BY <1>2, <1>3 DEF Injection
<1>5. IsFiniteSet(Units(T, g))
  BY UnitsFinite
<1> QED
  BY <1>4, <1>5, FS_Injection DEF Weight

(* The recursion behind MapThenSumSet.                                     *)
Picked(s) == CHOOSE x \in s : TRUE
Adds(g, S, f) ==
    g = [s \in SUBSET S |-> IF s = {} THEN 0 ELSE f[Picked(s)] + g[s \ {Picked(s)}]]

(* The weights of the subsets satisfy it.                                  *)
LEMMA WeightAdds ==
  ASSUME NEW D, NEW f \in [D -> Nat], NEW S \in SUBSET D, IsFiniteSet(S)
  PROVE  Adds([s \in SUBSET S |-> Weight(s, f)], S, f)
<1> DEFINE g == [s \in SUBSET S |-> Weight(s, f)]
<1>1. ASSUME NEW s \in SUBSET S, s = {} PROVE Weight(s, f) = 0
  BY <1>1, FS_EmptySet DEF Weight, Units
<1>2. ASSUME NEW s \in SUBSET S, s # {}
      PROVE  Weight(s, f) = f[Picked(s)] + Weight(s \ {Picked(s)}, f)
  <2>1. Picked(s) \in s
    BY <1>2 DEF Picked
  <2>2. PICK x \in s : x = Picked(s)
    BY <2>1
  <2>3. PICK t : t = s \ {x}
    OBVIOUS
  <2>4. /\ t \in SUBSET S /\ t \in SUBSET D /\ x \in D \ t
        /\ f[x] \in Nat /\ t \cup {x} = s
    BY <2>3
  <2>5. IsFiniteSet(t)
    BY <2>4, FS_Subset
  <2>6. IsFiniteSet(Units(t, f)) /\ Weight(t, f) \in Nat
    BY <2>4, <2>5, UnitsFinite
  <2>7. Weight(t \cup {x}, f) = Weight(t, f) + f[x]
    BY <2>4, <2>6, UnitsAdd
  <2>8. Weight(s, f) = Weight(t, f) + f[x]
    BY <2>4, <2>7, Zenon
  <2> QED
    BY <2>2, <2>3, <2>4, <2>6, <2>8
<1> QED
  BY <1>1, <1>2 DEF Adds

(* Nothing else does: a smallest subset it goes wrong on would be empty.   *)
LEMMA AddsIsWeight ==
  ASSUME NEW D, NEW f \in [D -> Nat], NEW S \in SUBSET D, IsFiniteSet(S), NEW g, Adds(g, S, f)
  PROVE  g[S] = Weight(S, f)
<1> DEFINE Bad == {s \in SUBSET S : g[s] # Weight(s, f)}
           T == {Cardinality(s) : s \in Bad}
<1>1. \A s \in SUBSET S : IsFiniteSet(s) /\ Cardinality(s) \in Nat
  BY FS_Subset, FS_CardinalityType
<1>2. Bad = {}
  <2> SUFFICES ASSUME Bad # {} PROVE FALSE
    OBVIOUS
  <2>1. T \subseteq Nat /\ T # {}
    BY <1>1
  <2>2. PICK n \in T : \A m \in T : n <= m
    <3> HIDE DEF T
    <3> QED
      BY <2>1, LeastNumber
  <2>3. PICK s \in Bad : Cardinality(s) = n
    BY <2>2
  <2> DEFINE h == [u \in SUBSET S |-> Weight(u, f)]
  <2>4. Adds(h, S, f)
    BY WeightAdds
  <2>5. h[s] = IF s = {} THEN 0 ELSE f[Picked(s)] + h[s \ {Picked(s)}]
    BY <2>4 DEF Adds
  <2>6. g[s] = IF s = {} THEN 0 ELSE f[Picked(s)] + g[s \ {Picked(s)}]
    BY DEF Adds
  <2>7. s # {}
    BY <2>5, <2>6
  <2>8. Picked(s) \in s
    BY <2>7 DEF Picked
  <2>9. Cardinality(s \ {Picked(s)}) = n - 1
    BY <1>1, <2>3, <2>8, FS_RemoveElement
  <2>10. s \ {Picked(s)} \notin Bad
    <3>1. n \in Nat /\ ~ (n <= n - 1)
      BY <2>1, <2>2
    <3>2. n - 1 \notin T
      BY <2>2, <3>1
    <3> QED
      BY <2>9, <3>2
  <2> QED
    BY <2>5, <2>6, <2>7, <2>10
<1> QED
  BY <1>2

LEMMA SumIsWeight ==
  ASSUME NEW D, NEW f \in [D -> Nat], NEW S \in SUBSET D, IsFiniteSet(S),
         NEW g, g = CHOOSE h : Adds(h, S, f)
  PROVE  g[S] = Weight(S, f)
BY WeightAdds, AddsIsWeight

Amounts == [e \in Entries |-> e.amount]

(* Total, and the sum of the tips sent.                                    *)
LEMMA TotalIsWeight ==
  ASSUME NEW S \in SUBSET Entries, IsFiniteSet(S)
  PROVE  Total(S) = Weight(S, Amounts) /\ Total(S) \in Nat
<1>1. PICK g : g = CHOOSE h : Adds(h, S, Amounts)
  OBVIOUS
<1>2. \A h : Adds(h, S, Amounts) <=>
         h = [s \in SUBSET S |->
                IF s = {} THEN 0 ELSE Picked(s).amount + h[s \ {Picked(s)}]]
  BY DEF Adds, Picked, Amounts
<1>3. Total(S) = g[S]
  BY <1>1, <1>2 DEF Total, MapThenSumSet, MapThenFoldSet, Picked
<1>4. Amounts \in [Entries -> Nat]
  BY DEF Amounts, Entries
<1> QED
  BY <1>1, <1>3, <1>4, SumIsWeight, UnitsFinite

LEMMA SentIsWeight ==
  ASSUME NEW S \in SUBSET DOMAIN sent, IsFiniteSet(S),
         NEW f \in [DOMAIN sent -> Nat], f = [i \in DOMAIN sent |-> sent[i].amount]
  PROVE  MapThenSumSet(LAMBDA i : sent[i].amount, S) = Weight(S, f)
<1>1. PICK g : g = CHOOSE h : Adds(h, S, f)
  OBVIOUS
<1>2. \A h : Adds(h, S, f) <=>
         h = [s \in SUBSET S |->
                IF s = {} THEN 0 ELSE sent[Picked(s)].amount + h[s \ {Picked(s)}]]
  BY DEF Adds, Picked
<1>3. MapThenSumSet(LAMBDA i : sent[i].amount, S) = g[S]
  BY <1>1, <1>2 DEF MapThenSumSet, MapThenFoldSet, Picked
<1> QED
  BY <1>1, <1>3, SumIsWeight

----------------------------------------------------------------------------
(* The daily cap.                                                          *)

Autos(S, d) == {e \in S : e.trigger = "auto" /\ e.day = d}

Within(S, cap) == IsFiniteSet(S) /\ \A d \in 1 .. MaxDay : Total(Autos(S, d)) <= cap

(* Both copies of the ledger are within the largest cap, and so is every   *)
(* cap that a check may still be made with: of the settings, of their      *)
(* file, of the default a damaged file gives, and of a request that read   *)
(* its settings before they changed.                                       *)
CapInv ==
    /\ highCap \in Nat
    /\ Within(ledger, highCap) /\ Within(file, highCap)
    /\ \A c \in {config, configFile, Default} : c.cap <= highCap
    /\ \A r \in Requests : request[r].cap <= highCap

LEMMA AutosFinite ==
  ASSUME NEW S \in SUBSET Entries, IsFiniteSet(S), NEW d
  PROVE  Autos(S, d) \in SUBSET Entries /\ IsFiniteSet(Autos(S, d)) /\ Total(Autos(S, d)) \in Nat
<1>1. Autos(S, d) \in SUBSET Entries /\ Autos(S, d) \in SUBSET S
  BY DEF Autos
<1>2. IsFiniteSet(Autos(S, d))
  BY <1>1, FS_Subset
<1> QED
  BY <1>1, <1>2, TotalIsWeight

(* One more entry adds its amount to its day, if it is automatic.          *)
LEMMA TotalAdd ==
  ASSUME NEW S \in SUBSET Entries, IsFiniteSet(S), NEW x \in Entries \ S
  PROVE  Total(S \cup {x}) = Total(S) + x.amount
<1>1. Amounts \in [Entries -> Nat] /\ Amounts[x] = x.amount
  BY DEF Amounts, Entries
<1>2. IsFiniteSet(Units(S, Amounts))
  BY <1>1, UnitsFinite
<1>3. Weight(S \cup {x}, Amounts) = Weight(S, Amounts) + x.amount
  BY <1>1, <1>2, UnitsAdd
<1>4. IsFiniteSet(S \cup {x}) /\ S \cup {x} \in SUBSET Entries
  BY FS_AddElement
<1> QED
  BY <1>3, <1>4, TotalIsWeight

LEMMA ReserveWithin ==
  ASSUME TypeOK, TipInv, CapInv, NEW r \in Requests, Reserve(r)
  PROVE  Within(ledger', highCap)
<1> DEFINE q == request[r]
<1>1. PICK new \in Entries : new = Entry(q, nextId, "pending")
  BY EntryType DEF Reserve, TypeOK
<1>2. /\ ledger' = ledger \cup {new} /\ new \notin ledger
      /\ new.trigger = q.trigger /\ new.day = q.day /\ new.amount = q.amount
  BY <1>1 DEF Reserve, Entry, TipInv, WellKept, Numbered, TypeOK
<1>3. IsFiniteSet(ledger) /\ ledger \in SUBSET Entries
  BY DEF CapInv, Within, TypeOK
<1>4. IsFiniteSet(ledger')
  BY <1>2, <1>3, FS_AddElement
<1>5. ASSUME NEW d \in 1 .. MaxDay PROVE Total(Autos(ledger', d)) <= highCap
  <2>1. CASE q.trigger = "auto" /\ q.day = d
    <3>1. Autos(ledger', d) = Autos(ledger, d) \cup {new}
      BY <1>2, <2>1 DEF Autos
    <3>2. Autos(ledger, d) = AutoEntries(q.day) /\ new \in Entries \ Autos(ledger, d)
      BY <1>2, <2>1 DEF Autos, AutoEntries
    <3>3. Total(Autos(ledger, d) \cup {new}) = Total(Autos(ledger, d)) + q.amount
      BY <1>2, <1>3, <3>2, AutosFinite, TotalAdd
    <3>4. Total(AutoEntries(q.day)) + q.amount <= q.cap
      BY <2>1 DEF Reserve, MayReserve, SpentToday
    <3>5. Total(Autos(ledger, d)) \in Nat /\ q.amount \in Nat /\ q.cap \in Nat
          /\ q.cap <= highCap /\ highCap \in Nat
      BY <1>3, AutosFinite DEF CapInv, TypeOK, RequestsType
    <3>6. Total(Autos(ledger', d)) = Total(Autos(ledger, d)) + q.amount
      BY <3>1, <3>3, Zenon
    <3>7. Total(Autos(ledger, d)) + q.amount <= q.cap
      BY <3>2, <3>4, Zenon
    <3> QED
      BY <3>5, <3>6, <3>7
  <2>2. CASE ~ (q.trigger = "auto" /\ q.day = d)
    <3>1. Autos(ledger', d) = Autos(ledger, d)
      BY <1>2, <2>2 DEF Autos
    <3>2. Total(Autos(ledger, d)) <= highCap
      BY DEF CapInv, Within
    <3> QED
      BY <3>1, <3>2, Zenon
  <2> QED
    BY <2>1, <2>2
<1> QED
  BY <1>4, <1>5 DEF Within

(* Settling replaces an entry by one of the same amount, or takes it out.  *)
LEMMA SettleWithin ==
  ASSUME TypeOK, TypeOK', TipInv, CapInv, NEW r \in Requests, Settle(r)
  PROVE  Within(ledger', highCap)
<1> DEFINE q == request[r]
           others == {e \in ledger : e.id # q.id}
<1>1. PICK old \in ledger : Tip(old) = Tip(q)
  BY DEF Settle, InFlight, TipInv, RequestsRecorded, Holds
<1>2. \/ ledger' = others
      \/ \E status \in {"pending", "confirmed", "failed"} :
            ledger' = others \cup {Entry(q, q.id, status)}
  BY DEF Settle, Settled
<1>3. \A e \in ledger' : e \in others \/ Tip(e) = Tip(old)
  BY <1>1, <1>2 DEF Entry, Tip
<1>4. \A e, f \in ledger' : Tip(e) = Tip(f) => e = f
  BY <1>1, <1>2 DEF Entry, Tip, TipInv, WellKept, UniqueIds
<1>5. /\ IsFiniteSet(ledger) /\ ledger \in SUBSET Entries /\ ledger' \in SUBSET Entries
      /\ highCap \in Nat
  BY DEF CapInv, Within, TypeOK
<1>6. IsFiniteSet(ledger')
  <2>1. IsFiniteSet(others)
    BY <1>5, FS_Subset
  <2> QED
    BY <1>2, <2>1, FS_AddElement
<1>7. ASSUME NEW d \in 1 .. MaxDay PROVE Total(Autos(ledger', d)) <= highCap
  <2> DEFINE S == Autos(ledger', d)
             T == Autos(ledger, d)
             h == [e \in S |-> CHOOSE x \in T : Tip(x) = Tip(e)]
  <2>1. \A e \in S : \E x \in T : Tip(x) = Tip(e)
    BY <1>1, <1>3 DEF Autos, Tip
  <2>2. /\ h \in [S -> T] /\ \A e \in S : Tip(h[e]) = Tip(e)
    BY <2>1
  <2>3. S \in SUBSET Entries /\ T \in SUBSET Entries /\ S \in SUBSET ledger'
        /\ IsFiniteSet(S) /\ IsFiniteSet(T)
    BY <1>5, <1>6, AutosFinite DEF Autos
  <2>4. Amounts \in [Entries -> Nat] /\ \A x \in Entries : Amounts[x] = x.amount
    BY DEF Amounts, Entries
  <2> HIDE DEF S, T, h
  <2>5. \A x, y \in S : h[x] = h[y] => x = y
    BY <1>4, <2>2, <2>3
  <2>6. \A x \in S : Amounts[x] = Amounts[h[x]]
    BY <2>2, <2>3, <2>4 DEF Tip
  <2>7. Weight(S, Amounts) <= Weight(T, Amounts)
    BY <2>2, <2>3, <2>4, <2>5, <2>6, WeightInjected
  <2>8. Total(S) <= Total(T) /\ Total(S) \in Nat /\ Total(T) \in Nat
    BY <2>3, <2>7, TotalIsWeight
  <2>9. Total(T) <= highCap
    BY DEF CapInv, Within, T
  <2> QED
    BY <1>5, <2>8, <2>9 DEF S
<1> QED
  BY <1>6, <1>7 DEF Within

(* A cap that has only grown leaves room for what it had room for.         *)
LEMMA WithinMore ==
  ASSUME NEW S \in SUBSET Entries, NEW a \in Nat, NEW b \in Nat, a <= b, Within(S, a)
  PROVE  Within(S, b)
<1> SUFFICES ASSUME NEW d \in 1 .. MaxDay PROVE Total(Autos(S, d)) <= b
  BY DEF Within
<1>1. Total(Autos(S, d)) \in Nat
  BY AutosFinite DEF Within
<1> QED
  BY <1>1 DEF Within

LEMMA EmptyWithin == \A cap \in Nat : Within({}, cap)
<1>1. IsFiniteSet({}) /\ \A d : Autos({}, d) = {}
  BY FS_EmptySet DEF Autos
<1>2. Total({}) = 0
  <2>1. Units({}, Amounts) = {}
    BY DEF Units
  <2> QED
    BY <2>1, TotalIsWeight, FS_EmptySet DEF Weight
<1> QED
  BY <1>1, <1>2 DEF Within

LEMMA CapInit == Init => CapInv
<1> SUFFICES ASSUME Init PROVE CapInv
  OBVIOUS
<1>1. Default.cap \in Nat
  BY TippingConstants DEF TippingConfig
<1>2. highCap = Default.cap /\ config = Default /\ configFile = Default
      /\ ledger = {} /\ file = {}
  BY DEF Init
<1>3. \A r \in Requests : request[r].cap = 0
  BY DEF Init, NoRequest
<1> QED
  BY <1>1, <1>2, <1>3, EmptyWithin DEF CapInv

LEMMA CapStep == TypeOK /\ TypeOK' /\ TipInv /\ CapInv /\ [Next]_vars => CapInv'
<1> SUFFICES ASSUME TypeOK, TypeOK', TipInv, CapInv, [Next]_vars PROVE CapInv'
  OBVIOUS
<1>0. /\ highCap \in Nat /\ config.cap \in Nat /\ configFile.cap \in Nat /\ Default.cap \in Nat
      /\ config.cap <= highCap /\ configFile.cap <= highCap /\ Default.cap <= highCap
      /\ \A r \in Requests : request[r] \in RequestsType /\ request[r].cap <= highCap
      /\ NoRequest.cap = 0
  BY TippingConstants DEF CapInv, TypeOK, TippingConfig, NoRequest
<1>1. ASSUME NEW r \in Requests, NEW q, Becomes(r, q), q.cap \in Nat, q.cap <= highCap,
             UNCHANGED <<settings, books, highCap>>
      PROVE  CapInv'
  <2>1. request'[r] = q /\ \A s \in Requests \ {r} : request'[s] = request[s]
    BY <1>1 DEF Becomes, TypeOK
  <2>2. \A s \in Requests : request'[s].cap <= highCap'
    BY <1>0, <1>1, <2>1
  <2> QED
    BY <1>1, <2>2 DEF CapInv, Within, settings, books
<1>2. ASSUME NEW r \in Requests, NEW k \in Creators, Consumed(r, k) \/ Manual(r, k)
      PROVE  CapInv'
  <2>1. CASE Consumed(r, k)
    BY <1>0, <1>1, <2>1 DEF Consumed, NoRequest
  <2>2. CASE Manual(r, k)
    <3>1. PICK q : q = [NoRequest EXCEPT !.pc = "resolving", !.key = k, !.trigger = "manual"]
      OBVIOUS
    <3>2. q.cap = 0
      BY <3>1 DEF NoRequest
    <3>3. Becomes(r, q) /\ UNCHANGED <<settings, books, highCap>>
      BY <2>2, <3>1 DEF Manual
    <3> QED
      BY <1>0, <1>1, <3>2, <3>3
  <2> QED
    BY <1>2, <2>1, <2>2
<1>3. ASSUME NEW r \in Requests, DevTick(r) PROVE CapInv'
  BY <1>0, <1>1, <1>3 DEF DevTick, NoRequest
<1>4. ASSUME NEW r \in Requests, NEW q, Becomes(r, q), q.cap = request[r].cap,
             UNCHANGED <<settings, books, highCap>>
      PROVE  CapInv'
  BY <1>0, <1>1, <1>4 DEF RequestsType
<1>5. ASSUME NEW r \in Requests, OwnerResolved(r) PROVE CapInv'
  <2>1. [request[r] EXCEPT !.pc = "priced", !.day = today, !.amount = Price(request[r])].cap
           = request[r].cap
    BY <1>0 DEF RequestsType
  <2> QED
    BY <1>4, <1>5, <2>1 DEF OwnerResolved
<1>6. ASSUME NEW r \in Requests, Abandoned(r) PROVE CapInv'
  BY <1>0, <1>1, <1>6 DEF Abandoned
<1>7. ASSUME NEW r \in Requests, Broadcast(r) \/ NotBroadcast(r) PROVE CapInv'
  <2>1. PICK pc : Becomes(r, [request[r] EXCEPT !.pc = pc])
    BY <1>7 DEF Broadcast, NotBroadcast
  <2>2. [request[r] EXCEPT !.pc = pc].cap = request[r].cap
    BY <1>0 DEF RequestsType
  <2> QED
    BY <1>4, <1>7, <2>1, <2>2 DEF Broadcast, NotBroadcast
<1>8. ASSUME NEW r \in Requests, NEW q, Becomes(r, q), q.cap = 0, Within(ledger', highCap),
             file' = ledger' \/ file' = file, UNCHANGED <<settings, highCap>>
      PROVE  CapInv'
  <2>1. request'[r] = q /\ \A s \in Requests \ {r} : request'[s] = request[s]
    BY <1>8 DEF Becomes, TypeOK
  <2>2. \A s \in Requests : request'[s].cap <= highCap'
    BY <1>0, <1>8, <2>1
  <2>3. Within(file', highCap)
    BY <1>8 DEF CapInv
  <2> QED
    BY <1>8, <2>2, <2>3 DEF CapInv, settings
<1>9. ASSUME NEW r \in Requests, Reserve(r) PROVE CapInv'
  <2>1. [request[r] EXCEPT !.pc = "sending", !.id = nextId, !.siteCap = 0, !.cap = 0].cap = 0
    BY <1>0 DEF RequestsType
  <2>2. file' = ledger' \/ file' = file
    BY <1>9 DEF Reserve, Saved, NotSaved
  <2>3. \E q : Becomes(r, q) /\ q.cap = 0
    BY <1>0, <1>9, <2>1 DEF Reserve
  <2>4. Within(ledger', highCap) /\ UNCHANGED <<settings, highCap>>
    BY <1>9, ReserveWithin DEF Reserve
  <2> QED
    BY <1>8, <2>2, <2>3, <2>4
<1>10. ASSUME NEW r \in Requests, Settle(r) PROVE CapInv'
  <2>1. file' = ledger' \/ file' = file
    BY <1>10 DEF Settle, Saved, NotSaved
  <2>2. Within(ledger', highCap) /\ UNCHANGED <<settings, highCap>> /\ Becomes(r, NoRequest)
    BY <1>10, SettleWithin DEF Settle
  <2> QED
    BY <1>0, <1>8, <2>1, <2>2
<1>11. ASSUME NEW c \in Configs, SetConfig(c) PROVE CapInv'
  <2>1. c.cap \in Nat /\ UNCHANGED <<ledger, file, request>>
    BY <1>11, TippingConstants DEF SetConfig, books, TippingConfig
  <2>2. highCap' \in Nat /\ highCap <= highCap' /\ c.cap <= highCap'
    BY <1>0, <1>11, <2>1 DEF SetConfig
  <2>3. Within(ledger, highCap') /\ Within(file, highCap')
    BY <1>0, <2>2, WithinMore DEF CapInv, TypeOK
  <2>4. \A x \in {config', configFile', Default} : x.cap <= highCap'
    BY <1>0, <1>11, <2>2 DEF SetConfig
  <2>5. \A r \in Requests : request'[r].cap <= highCap'
    BY <1>0, <2>1, <2>2 DEF RequestsType
  <2> QED
    BY <2>1, <2>2, <2>3, <2>4, <2>5 DEF CapInv
<1>12. ASSUME NEW unreadable \in SUBSET {"ledger", "config"}, Restart(unreadable) PROVE CapInv'
  <2>1. /\ file' = file /\ configFile' = configFile /\ highCap' = highCap
        /\ ledger' = file \/ ledger' = {}
        /\ config' = configFile \/ config' = DisabledConfig
    BY <1>12 DEF Restart
  <2>2. DisabledConfig.cap = Default.cap
    BY DEF DisabledConfig
  <2>3. \A r \in Requests : request'[r].cap <= highCap'
    BY <1>0, <1>12, <2>1 DEF Restart
  <2>4. Within(ledger', highCap')
    BY <1>0, <2>1, EmptyWithin DEF CapInv
  <2> QED
    BY <1>0, <2>1, <2>2, <2>3, <2>4 DEF CapInv
<1>13. ASSUME ClockMoves \/ UNCHANGED vars PROVE CapInv'
  BY <1>13 DEF ClockMoves, vars, settings, books, CapInv, Within
<1> QED
  BY <1>2, <1>3, <1>5, <1>6, <1>7, <1>9, <1>10, <1>11, <1>12, <1>13 DEF Next

(* spent_today against daily_cap_total: what automatic tips move on one    *)
(* day stays within the largest daily cap ever in force, for any number of *)
(* requests that check and reserve at the same time, failed saves,         *)
(* unreadable files and restarts, because each tip sent has its own entry  *)
(* in the file, and the file is within that cap.                           *)
THEOREM DailyCapKept == Spec => []DailyCapHolds
<1>1. ASSUME TypeOK, TipInv, CapInv, NEW d \in 1 .. MaxDay,
             NEW S, S = {i \in DOMAIN sent : sent[i].trigger = "auto" /\ sent[i].day = d}
      PROVE  MapThenSumSet(LAMBDA i : sent[i].amount, S) <= highCap
  <2> DEFINE T == Autos(file, d)
             f == [i \in DOMAIN sent |-> sent[i].amount]
             h == [i \in S |-> CHOOSE e \in T : Tip(e) = sent[i]]
  <2>1. DOMAIN sent = 1 .. Len(sent) /\ Len(sent) \in Nat /\ f \in [DOMAIN sent -> Nat]
    <3>1. sent \in Seq(Tips)
      BY <1>1 DEF TypeOK
    <3>2. DOMAIN sent = 1 .. Len(sent) /\ Len(sent) \in Nat
          /\ \A i \in DOMAIN sent : sent[i] \in Tips
      BY <3>1
    <3> QED
      BY <3>2 DEF Tips
  <2>2. S \in SUBSET DOMAIN sent /\ IsFiniteSet(S)
    <3>1. IsFiniteSet(DOMAIN sent)
      BY <2>1, FS_Interval
    <3>2. S \in SUBSET DOMAIN sent
      BY <1>1
    <3> QED
      BY <3>1, <3>2, FS_Subset
  <2>3. \A i \in S : \E e \in T : Tip(e) = sent[i]
    BY <1>1 DEF TipInv, SentIsRecorded, Autos, Tip
  <2>4. h \in [S -> T] /\ \A i \in S : Tip(h[i]) = sent[i]
    BY <2>3
  <2>5. T \in SUBSET Entries /\ IsFiniteSet(T) /\ Total(T) \in Nat /\ Total(T) <= highCap
    BY <1>1, AutosFinite DEF CapInv, Within, TypeOK
  <2>6. Amounts \in [Entries -> Nat] /\ \A x \in Entries : Amounts[x] = x.amount
    BY DEF Amounts, Entries
  <2>7. \A i \in S : f[i] = sent[i].amount
    BY <2>2
  <2>8. MapThenSumSet(LAMBDA i : sent[i].amount, S) = Weight(S, f)
    BY <2>1, <2>2, SentIsWeight
  <2> HIDE DEF T, f, h
  <2>9. \A i, j \in S : h[i] = h[j] => i = j
    BY <1>1, <2>2, <2>4 DEF TipInv, IdsNotReused
  <2>10. \A i \in S : f[i] = Amounts[h[i]]
    <3> SUFFICES ASSUME NEW i \in S PROVE f[i] = Amounts[h[i]]
      OBVIOUS
    <3>1. h[i] \in Entries /\ Tip(h[i]) = sent[i] /\ Tip(h[i]).amount = h[i].amount
      BY <2>4, <2>5 DEF Tip
    <3> QED
      BY <2>6, <2>7, <3>1
  <2>11. Weight(S, f) <= Weight(T, Amounts)
    BY <2>1, <2>2, <2>4, <2>5, <2>6, <2>9, <2>10, WeightInjected
  <2>12. Weight(S, f) \in Nat /\ Weight(T, Amounts) = Total(T) /\ highCap \in Nat
    BY <1>1, <2>1, <2>2, <2>5, UnitsFinite, TotalIsWeight DEF CapInv
  <2>13. Weight(S, f) <= highCap
    BY <2>5, <2>11, <2>12
  <2> QED
    BY <2>8, <2>13, Zenon
<1>2. TypeOK /\ TipInv /\ CapInv => DailyCapHolds
  BY <1>1 DEF DailyCapHolds
<1> QED
  BY <1>2, TippingTypeCorrect, TipInvHolds, CapInit, CapStep, PTL DEF Spec

----------------------------------------------------------------------------
(* The wallet's replica of the chain.                                      *)

(* Where a session stands.                                                *)
InCatchUp == session.pc \in {"ask", "epoch", "write", "complete"}
InFrame == session.pc \in {"rollback", "clear", "items", "peak", "arrive"}

Steps == {"down", "ask", "epoch", "write", "complete", "follow",
          "rollback", "clear", "items", "peak", "arrive"}
RefreshSteps == {"idle", "fetch", "hints", "write", "latch", "arrive"}
Refreshes(h) ==
    [pc : RefreshSteps, epoch : Nat, got : [Coins -> 0 .. h], top : 0 .. h, lacks : BOOLEAN]

(* What a frame or an answer carries: some coins, with their heights.      *)
Items == UNION {[D -> Nat] : D \in SUBSET Coins}
Below(items, h) == \A c \in DOMAIN items : c \in Coins /\ items[c] \in 1 .. h
FrameBelow(f, h) == f.fork < f.height /\ f.height <= h /\ Below(f.items, h)

Sessions ==
    [pc : Steps, epoch : Int, upto : Nat, got : Items, finished : BOOLEAN,
     orphan : BOOLEAN, spent : 0 .. MaxReorg, fork : Nat, height : Nat]
Frames == [kind : {"coins", "peak"}, fork : Nat, height : Nat, items : Items]

(* What each variable is, with every height within the chain.              *)
ChainTyped ==
    /\ tip \in 1 .. MaxTip /\ born \in [Coins -> 0 .. tip]
    /\ known \subseteq Coins /\ passed \subseteq Coins /\ reborn \subseteq Coins
    /\ straddled \in BOOLEAN /\ onFaith \in BOOLEAN
    /\ count.sessions \in Nat /\ count.refreshes \in Nat /\ count.forks \in Nat
ReplicaTyped ==
    /\ rows \in [Coins -> 0 .. tip] /\ arrivals \subseteq Coins
    /\ state \in [peak : 0 .. tip, synced : BOOLEAN, epoch : 0 .. MaxResets,
                  baseline : -1 .. tip]
RefreshTyped == refresh \in Refreshes(tip)
SessionTyped ==
    /\ session \in Sessions
    /\ session.upto <= tip /\ session.fork <= tip /\ session.height <= tip
    /\ Below(session.got, tip)
WireTyped ==
    /\ peerTip \in 0 .. tip /\ frames \in Seq(Frames)
    /\ \A i \in DOMAIN frames : FrameBelow(frames[i], tip)

SyncTyped == ChainTyped /\ ReplicaTyped /\ RefreshTyped /\ SessionTyped /\ WireTyped

(* What is known of a coin no reorganisation moved is where it was born.   *)
Unmoved == OnChain \ reborn
HistoryTrue ==
    known \subseteq OnChain /\ passed \subseteq OnChain
TableTrue(t) == \A c \in Coins \ reborn : t[c] = Absent \/ t[c] = born[c]
ItemsTrue(items) == \A c \in DOMAIN items : c \in reborn \/ items[c] = born[c]
FramesTrue == \A i \in DOMAIN frames : ItemsTrue(frames[i].items)
ValuesTrue ==
    /\ HistoryTrue /\ TableTrue(rows) /\ TableTrue(refresh.got)
    /\ ItemsTrue(session.got) /\ FramesTrue

(* Where the session's own steps have brought the replica.                 *)
Base == IF InCatchUp THEN session.upto
        ELSE IF InFrame THEN session.height ELSE state.peak

(* The frames pushed join: none begins past the end of the one before it.  *)
QueueJoined ==
    /\ frames # <<>> => frames[Len(frames)].height = peerTip
    /\ \A i \in DOMAIN frames : frames[i].height <= peerTip
    /\ \A i \in DOMAIN frames : i > 1 => frames[i].fork <= frames[i - 1].height
BaseJoined ==
    session.finished =>
        IF frames = <<>> THEN peerTip <= Base ELSE frames[1].fork <= Base
Phases ==
    /\ session.pc = "down" => frames = <<>>
    /\ session.pc = "follow" \/ InFrame \/ session.pc = "complete" => session.finished
    /\ session.pc \in {"down", "ask"} => ~ session.finished
    /\ InCatchUp => session.upto <= peerTip
    /\ InFrame => session.fork < session.height
    /\ session.pc = "rollback" => session.fork <= state.peak
    /\ session.pc \in {"clear", "items", "peak"} => state.peak = session.fork
    /\ session.pc = "arrive" => state.peak = session.height
Joined == QueueJoined /\ BaseJoined /\ Phases

(* A frame tells of every unmoved coin born between its ends.  Only peaks  *)
(* pushed before the wallet was subscribed do not, and those say nothing   *)
(* of blocks past what the catch-up has read.                              *)
Covers(fork, height, items) ==
    \A c \in Unmoved : (fork < born[c] /\ born[c] <= height) => c \in DOMAIN items
FrameCovers(f) ==
    \A c \in Unmoved : (f.fork < born[c] /\ born[c] <= f.height)
        => f.kind # "peak" /\ c \in DOMAIN f.items
Behind(i) ==
    /\ ~ InFrame /\ frames[i].height <= Base
    /\ \A j \in 1 .. i : frames[j].kind = "peak"
Covered ==
    /\ ~ session.finished => \A i \in DOMAIN frames : frames[i].kind = "peak"
    /\ session.finished => \A i \in DOMAIN frames : FrameCovers(frames[i]) \/ Behind(i)
    /\ session.pc \in {"rollback", "clear", "items"} =>
          Covers(session.fork, session.height, session.got)

(* Up to where it has read, a catch-up no reset overtook has every unmoved *)
(* coin: in the answer it holds, or in the rows.                           *)
CatchUpWhole ==
    /\ session.epoch <= state.epoch
    /\ session.pc = "ask" /\ session.epoch = -1 => session.upto = 0
    /\ session.pc = "epoch" =>
          /\ session.epoch = -1
          /\ \A c \in Unmoved : born[c] <= session.upto => c \in DOMAIN session.got
    /\ session.pc \in {"write", "complete"} => session.epoch # -1
    /\ session.pc = "write" /\ session.epoch = state.epoch =>
          \A c \in Unmoved : born[c] <= session.upto =>
              rows[c] # Absent \/ c \in DOMAIN session.got
    /\ session.pc \in {"ask", "complete"} /\ session.epoch = state.epoch =>
          \A c \in Unmoved : born[c] <= session.upto => rows[c] # Absent

(* Synced, not on faith, or about to be by a refresh that lacked nothing   *)
(* and no reset overtook: the latch comes after the rows, so the rows must *)
(* be whole before it.                                                     *)
Latching(pc) == refresh.pc = pc /\ refresh.epoch = state.epoch /\ ~ refresh.lacks
Authoritative == (state.synced /\ ~ onFaith) \/ Latching("latch")

HasKnown(h) == \A c \in known \ reborn : born[c] <= h => rows[c] # Absent
Whole ==
    /\ refresh.epoch <= state.epoch
    /\ Authoritative => HasKnown(state.peak)
    /\ Authoritative /\ session.pc = "peak" => HasKnown(session.height)
    /\ Latching("write") => \A c \in known \ reborn : refresh.got[c] # Absent

(* The coins whose arrival must be announced, and what the rows and a      *)
(* refresh that no rollback overtook know of them.                         *)
Payments == OnChain \ (known \cup passed \cup reborn)
HasPayments(h) == \A c \in Payments : born[c] <= h => rows[c] # Absent
ReadWhole ==
    refresh.pc \in {"hints", "write"} =>
        \A c \in Payments : born[c] <= refresh.top => refresh.got[c] # Absent
ReadWritten ==
    refresh.pc \in {"latch", "arrive"} => HasPayments(refresh.top)
ArrivalsWhole ==
    /\ HasPayments(state.peak)
    /\ session.pc = "peak" => HasPayments(session.height)
    /\ ~ straddled => ReadWhole /\ ReadWritten /\ NoPaymentSkipped

LEMMA GreatestOf ==
  ASSUME NEW S, NEW h \in Int, S \subseteq Int, S # {}, \A x \in S : x <= h
  PROVE  Max(S) \in S /\ \A y \in S : y <= Max(S)
<1> DEFINE T == {h - x : x \in S}
<1>1. T \subseteq Nat /\ T # {}
  <2>1. \A x \in S : h - x \in Nat
    OBVIOUS
  <2> QED
    BY <2>1
<1>2. PICK t \in T : \A y \in T : t <= y
  BY <1>1, LeastNumber
<1>3. PICK m \in S : t = h - m
  BY <1>2
<1>4. \A y \in S : h - m <= h - y
  BY <1>2, <1>3
<1>5. \A y \in S : m \in Int /\ y \in Int /\ (h - m <= h - y => m >= y)
  OBVIOUS
<1>6. \E x \in S : \A y \in S : x >= y
  BY <1>3, <1>4, <1>5
<1>7. Max(S) \in S /\ \A y \in S : Max(S) >= y
  BY <1>6 DEF Max
<1> QED
  BY <1>7

LEMMA MaxOfTwo ==
  ASSUME NEW a \in Int, NEW b \in Int
  PROVE  Max({a, b}) = IF a <= b THEN b ELSE a
<1>1. CASE a <= b
  <2>1. Max({a, b}) \in {a, b} /\ \A y \in {a, b} : y <= Max({a, b})
    BY <1>1, GreatestOf
  <2> QED  BY <1>1, <2>1
<1>2. CASE b < a
  <2>1. Max({a, b}) \in {a, b} /\ \A y \in {a, b} : y <= Max({a, b})
    BY <1>2, GreatestOf
  <2> QED  BY <1>2, <2>1
<1> QED
  BY <1>1, <1>2

(* The greatest of a height and the heights of a table of coins.           *)
LEMMA MaxOfTable ==
  ASSUME NEW h \in Nat, NEW a \in 0 .. h, NEW f \in [Coins -> 0 .. h]
  PROVE  LET m == Max({a} \cup {f[c] : c \in Coins}) IN
         /\ m \in 0 .. h /\ a <= m /\ \A c \in Coins : f[c] <= m
         /\ m = a \/ \E c \in Coins : m = f[c]
<1> DEFINE S == {a} \cup {f[c] : c \in Coins}
<1>1. S \subseteq 0 .. h /\ S \subseteq Int /\ S # {} /\ \A x \in S : x <= h
  OBVIOUS
<1>2. Max(S) \in S /\ \A y \in S : y <= Max(S)
  <2> HIDE DEF S
  <2> h \in Int
    OBVIOUS
  <2> QED
    BY <1>1, GreatestOf
<1>3. Max(S) \in 0 .. h /\ a <= Max(S) /\ \A c \in Coins : f[c] <= Max(S)
  BY <1>1, <1>2
<1>4. Max(S) = a \/ \E c \in Coins : Max(S) = f[c]
  BY <1>2
<1> QED
  BY <1>3, <1>4

LEMMA AppendFacts ==
  ASSUME NEW X, NEW s \in Seq(X), NEW e \in X
  PROVE  /\ Append(s, e) \in Seq(X) /\ Append(s, e) # <<>>
         /\ Len(s) \in Nat /\ DOMAIN s = 1 .. Len(s)
         /\ Len(Append(s, e)) = Len(s) + 1 /\ DOMAIN Append(s, e) = 1 .. Len(s) + 1
         /\ \A i \in DOMAIN s : Append(s, e)[i] = s[i]
         /\ Append(s, e)[Len(s) + 1] = e
  OBVIOUS

LEMMA TailFacts ==
  ASSUME NEW X, NEW s \in Seq(X), s # <<>>
  PROVE  /\ Tail(s) \in Seq(X) /\ Head(s) = s[1] /\ Head(s) \in X
         /\ Len(s) \in Nat \ {0} /\ DOMAIN s = 1 .. Len(s) /\ 1 \in DOMAIN s
         /\ Len(Tail(s)) = Len(s) - 1 /\ DOMAIN Tail(s) = 1 .. Len(s) - 1
         /\ \A i \in DOMAIN Tail(s) : i + 1 \in DOMAIN s /\ Tail(s)[i] = s[i + 1]
         /\ Tail(s) = <<>> <=> Len(s) = 1
<1>1. /\ Head(s) = s[1] /\ Head(s) \in X /\ Tail(s) \in Seq(X)
      /\ Len(s) \in Nat \ {0} /\ DOMAIN s = 1 .. Len(s) /\ 1 \in DOMAIN s
  OBVIOUS
<1>2. Len(Tail(s)) = Len(s) - 1 /\ DOMAIN Tail(s) = 1 .. Len(s) - 1
  BY <1>1
<1>3. \A i \in DOMAIN Tail(s) : i + 1 \in DOMAIN s /\ Tail(s)[i] = s[i + 1]
  BY <1>1, <1>2
<1>4. Tail(s) = <<>> <=> Len(Tail(s)) = 0
  BY <1>1
<1> QED
  BY <1>1, <1>2, <1>3, <1>4

LEMMA EmptyFacts ==
  ASSUME NEW X
  PROVE  <<>> \in Seq(X) /\ DOMAIN <<>> = {} /\ Len(<<>>) = 0
  OBVIOUS

LEMMA ItemsTyped ==
  ASSUME NEW S \in SUBSET Coins, NEW at \in [Coins -> Nat]
  PROVE  /\ ItemsOf(S, at) \in Items /\ DOMAIN ItemsOf(S, at) = S
         /\ \A c \in S : ItemsOf(S, at)[c] = at[c]
<1>1. ItemsOf(S, at) \in [S -> Nat]
  BY DEF ItemsOf
<1> QED
  BY <1>1 DEF Items, ItemsOf

LEMMA NoItemsTyped == NoItems \in Items /\ DOMAIN NoItems = {}
<1>1. NoItems \in [{} -> Nat] /\ DOMAIN NoItems = {}
  BY DEF NoItems
<1>2. {} \in SUBSET Coins
  OBVIOUS
<1> QED
  BY <1>1, <1>2 DEF Items

LEMMA BelowGrows ==
  ASSUME NEW g, NEW h \in Nat, NEW k \in Nat, h <= k, Below(g, h)
  PROVE  Below(g, k)
  BY DEF Below

LEMMA NothingBelow == ASSUME NEW h PROVE Below(NoItems, h)
  BY NoItemsTyped DEF Below

LEMMA NoSessionTyped == NoSession \in Sessions /\ NoSession.got = NoItems
  BY NoItemsTyped, SyncConstants DEF NoSession, Sessions, Steps

LEMMA FollowingTyped ==
  ASSUME NEW n \in 0 .. MaxReorg
  PROVE  /\ Following \in Sessions /\ [Following EXCEPT !.spent = n] \in Sessions
         /\ Following.got = NoItems
<1>1. Following \in Sessions /\ Following.got = NoItems
  BY NoSessionTyped DEF Following, Sessions, Steps
<1> QED
  BY <1>1 DEF Sessions

LEMMA PushedTyped ==
  ASSUME NEW f \in Nat, NEW h \in Nat, NEW g \in Items, NEW b \in BOOLEAN
  PROVE  /\ Pushed(f, h, g, b) \in Frames
         /\ Pushed(f, h, g, b).fork = f /\ Pushed(f, h, g, b).height = h
         /\ Pushed(f, h, g, b).items = g
         /\ Pushed(f, h, g, b).kind = IF b THEN "coins" ELSE "peak"
  BY DEF Pushed, Frames

(* What a peer pushes for a block it has.                                  *)
LEMMA BlockFrameTyped ==
  ASSUME SyncTyped, NEW h \in 1 .. tip, NEW b \in BOOLEAN
  PROVE  LET S == IF b THEN Between(h - 1, h) ELSE {}
             f == BlockFrame(h, b) IN
         /\ f \in Frames /\ FrameBelow(f, tip)
         /\ f.fork = h - 1 /\ f.height = h
         /\ DOMAIN f.items = S /\ \A c \in S : f.items[c] = born[c]
         /\ f.kind = IF S # {} THEN "coins" ELSE "peak"
<1> DEFINE S == IF b THEN Between(h - 1, h) ELSE {}
           f == BlockFrame(h, b)
<1>1. born \in [Coins -> Nat] /\ h \in Nat /\ h - 1 \in Nat /\ tip \in Nat /\ h <= tip
  BY DEF SyncTyped, ChainTyped
<1>2. S \in SUBSET Coins /\ \A c \in S : born[c] \in 1 .. tip
  BY <1>1 DEF SyncTyped, ChainTyped, Between, OnChain, Absent
<1> HIDE DEF S
<1>3. /\ ItemsOf(S, born) \in Items /\ DOMAIN ItemsOf(S, born) = S
      /\ \A c \in S : ItemsOf(S, born)[c] = born[c]
  BY <1>1, <1>2, ItemsTyped
<1>4. f = Pushed(h - 1, h, ItemsOf(S, born), S # {})
  BY DEF BlockFrame, S
<1>5. /\ f \in Frames /\ f.fork = h - 1 /\ f.height = h /\ f.items = ItemsOf(S, born)
      /\ f.kind = IF S # {} THEN "coins" ELSE "peak"
  <2> DEFINE g == ItemsOf(S, born)
  <2> HIDE DEF g, f
  <2>1. CASE S = {}
    <3>1. f = [kind |-> "peak", fork |-> h - 1, height |-> h, items |-> g]
      BY <2>1, <1>4 DEF Pushed, g
    <3> QED
      BY <2>1, <3>1, <1>1, <1>3 DEF Frames, g
  <2>2. CASE S # {}
    <3>1. f = [kind |-> "coins", fork |-> h - 1, height |-> h, items |-> g]
      BY <2>2, <1>4 DEF Pushed, g
    <3> QED
      BY <2>2, <3>1, <1>1, <1>3 DEF Frames, g
  <2> QED
    BY <2>1, <2>2
<1>6. FrameBelow(f, tip)
  BY <1>1, <1>2, <1>3, <1>5 DEF FrameBelow, Below
<1> QED
  BY <1>3, <1>5, <1>6 DEF S

LEMMA UpsertTyped ==
  ASSUME SyncTyped, NEW g, Below(g, tip), Upsert(g)
  PROVE  /\ rows' \in [Coins -> 0 .. tip]
         /\ \A c \in Coins : rows'[c] = IF c \in DOMAIN g THEN g[c] ELSE rows[c]
  BY DEF SyncTyped, ReplicaTyped, ChainTyped, Below, Upsert

LEMMA RecordTyped ==
  ASSUME SyncTyped, NEW n \in 0 .. tip, RecordArrivals(n)
  PROVE  /\ arrivals' \subseteq Coins
         /\ state' = [state EXCEPT !.baseline =
                         IF state.baseline # NoBaseline /\ state.baseline <= n THEN n ELSE @]
         /\ state' \in [peak : 0 .. tip, synced : BOOLEAN, epoch : 0 .. MaxResets,
                        baseline : -1 .. tip]
<1>1. /\ state \in [peak : 0 .. tip, synced : BOOLEAN, epoch : 0 .. MaxResets,
                    baseline : -1 .. tip]
      /\ arrivals \subseteq Coins /\ tip \in Nat
  BY DEF SyncTyped, ChainTyped, ReplicaTyped
<1>2. CASE state.baseline = NoBaseline
  BY <1>1, <1>2 DEF RecordArrivals
<1>3. CASE state.baseline # NoBaseline
  <2>1. Max({state.baseline, n}) = IF state.baseline <= n THEN n ELSE state.baseline
    BY <1>1, MaxOfTwo
  <2>2. state' = [state EXCEPT !.baseline = Max({state.baseline, n})]
    BY <1>3 DEF RecordArrivals
  <2>3. state' = [state EXCEPT !.baseline = IF state.baseline <= n THEN n ELSE state.baseline]
    BY <2>1, <2>2
  <2>4. arrivals' \subseteq Coins
    BY <1>1, <1>3 DEF RecordArrivals
  <2>5. state' = [state EXCEPT !.baseline =
                         IF state.baseline # NoBaseline /\ state.baseline <= n THEN n ELSE @]
    BY <1>3, <2>3
  <2> QED
    BY <1>1, <2>3, <2>4, <2>5
<1> QED
  BY <1>2, <1>3

LEMMA NoSessionFields ==
  /\ NoSession.pc = "down" /\ NoSession.epoch = -1 /\ NoSession.upto = 0
  /\ NoSession.finished = FALSE /\ NoSession.spent = 0
  /\ NoSession.fork = 0 /\ NoSession.height = 0 /\ NoSession.orphan = FALSE
  BY DEF NoSession

LEMMA FollowingFields ==
  ASSUME NEW n, NEW s \in {Following, [Following EXCEPT !.spent = n]}
  PROVE  /\ s.pc = "follow" /\ s.epoch = -1 /\ s.upto = 0 /\ s.got = NoItems
         /\ s.finished = TRUE /\ s.fork = 0 /\ s.height = 0
  BY DEF Following, NoSession

LEMMA NoRefreshTyped ==
  ASSUME NEW h \in Nat
  PROVE  /\ NoRefresh \in Refreshes(h)
         /\ NoRefresh.pc = "idle" /\ NoRefresh.epoch = 0
         /\ NoRefresh.got = NothingRead /\ NothingRead \in [Coins -> 0 .. h]
         /\ \A c \in Coins : NothingRead[c] = Absent
  BY DEF NoRefresh, NothingRead, Refreshes, RefreshSteps, Absent

LEMMA InitTyped == SyncInit => SyncTyped
<1> SUFFICES ASSUME SyncInit PROVE SyncTyped
  OBVIOUS
<1>1. ChainTyped
  <2>1. tip = 1 /\ tip \in 1 .. MaxTip
    BY SyncConstants DEF SyncInit
  <2>2. born \in [Coins -> 0 .. tip]
    BY <2>1 DEF SyncInit, Absent
  <2> QED
    BY <2>1, <2>2 DEF SyncInit, ChainTyped
<1>2. ReplicaTyped
  BY SyncConstants DEF SyncInit, ReplicaTyped, Absent, NoBaseline
<1>3. RefreshTyped
  BY NoRefreshTyped DEF SyncInit, RefreshTyped
<1>4. SessionTyped
  BY NoSessionTyped, NoSessionFields, NothingBelow DEF SyncInit, SessionTyped
<1>5. WireTyped
  BY EmptyFacts DEF SyncInit, WireTyped
<1> QED
  BY <1>1, <1>2, <1>3, <1>4, <1>5 DEF SyncTyped

(* What the wallet holds stays within a chain that grew.                   *)
LEMMA TypedAboveGrows ==
  ASSUME SyncTyped, tip' = tip + 1, UNCHANGED <<refresh, replica>>
  PROVE  ReplicaTyped' /\ RefreshTyped'
<1>1. tip \in Nat /\ \A x \in 0 .. tip : x \in 0 .. tip' /\ \A y \in -1 .. tip : y \in -1 .. tip'
  BY DEF SyncTyped, ChainTyped
<1>2. rows' \in [Coins -> 0 .. tip'] /\ refresh'.got \in [Coins -> 0 .. tip']
  BY <1>1 DEF SyncTyped, ReplicaTyped, RefreshTyped, Refreshes, replica
<1>3. state' \in [peak : 0 .. tip', synced : BOOLEAN, epoch : 0 .. MaxResets,
                  baseline : -1 .. tip']
  BY <1>1 DEF SyncTyped, ReplicaTyped, replica
<1>4. refresh' \in Refreshes(tip')
  BY <1>1, <1>2 DEF SyncTyped, RefreshTyped, Refreshes
<1> QED
  BY <1>2, <1>3, <1>4 DEF SyncTyped, ReplicaTyped, RefreshTyped, replica

LEMMA FrameBelowGrows ==
  ASSUME NEW f \in Frames, NEW h \in Nat, NEW k \in Nat, h <= k, FrameBelow(f, h)
  PROVE  FrameBelow(f, k)
  BY BelowGrows DEF FrameBelow, Frames

LEMMA WireGrows ==
  ASSUME SyncTyped, tip' = tip + 1
  PROVE  \A i \in DOMAIN frames : frames[i] \in Frames /\ FrameBelow(frames[i], tip')
<1>1. tip \in Nat /\ tip' \in Nat /\ tip <= tip'
  BY DEF SyncTyped, ChainTyped
<1>2. \A i \in DOMAIN frames : frames[i] \in Frames /\ FrameBelow(frames[i], tip)
  BY DEF SyncTyped, WireTyped
<1> QED
  BY <1>1, <1>2, FrameBelowGrows

LEMMA AppendTyped ==
  ASSUME NEW h, NEW fs \in Seq(Frames), NEW f \in Frames, FrameBelow(f, h),
         \A i \in DOMAIN fs : FrameBelow(fs[i], h)
  PROVE  /\ Append(fs, f) \in Seq(Frames)
         /\ \A i \in DOMAIN Append(fs, f) : FrameBelow(Append(fs, f)[i], h)
  BY AppendFacts

LEMMA SessionGrows ==
  ASSUME SyncTyped, tip' = tip + 1, NEW s \in Sessions,
         s.upto = session.upto, s.fork = session.fork, s.height = session.height,
         s.got = session.got
  PROVE  s.upto <= tip' /\ s.fork <= tip' /\ s.height <= tip' /\ Below(s.got, tip')
<1>1. tip \in Nat /\ tip' \in Nat /\ tip <= tip'
  BY DEF SyncTyped, ChainTyped
<1>2. s.upto \in Nat /\ s.fork \in Nat /\ s.height \in Nat
  BY DEF Sessions
<1>3. Below(s.got, tip')
  BY <1>1, BelowGrows DEF SyncTyped, SessionTyped
<1> QED
  BY <1>1, <1>2, <1>3 DEF SyncTyped, SessionTyped

LEMMA MineTyped ==
  ASSUME SyncTyped, NEW S \in SUBSET (Coins \ OnChain), Mine(S)
  PROVE  SyncTyped'
<1>1. ChainTyped'
  <2>1. tip \in 1 .. MaxTip /\ tip' = tip + 1 /\ tip' \in 1 .. MaxTip
    BY SyncConstants DEF Mine, SyncTyped, ChainTyped
  <2>2. born' \in [Coins -> 0 .. tip']
    BY <2>1 DEF Mine, SyncTyped, ChainTyped
  <2> QED
    BY <2>1, <2>2 DEF Mine, SyncTyped, ChainTyped, ghosts
<1>2. ReplicaTyped' /\ RefreshTyped'
  BY TypedAboveGrows DEF Mine
<1>3. SessionTyped'
  BY SessionGrows DEF Mine, SyncTyped, SessionTyped
<1>4. WireTyped'
  <2>1. tip \in Nat /\ tip' = tip + 1 /\ UNCHANGED wire
    BY DEF Mine, SyncTyped, ChainTyped
  <2> QED
    BY <2>1, WireGrows DEF SyncTyped, WireTyped, wire
<1> QED
  BY <1>1, <1>2, <1>3, <1>4 DEF SyncTyped

LEMMA ReorganiseTyped ==
  ASSUME SyncTyped, NEW f \in 1 .. tip - 1,
         NEW S \in SUBSET {c \in Coins : born[c] > f \/ born[c] = Absent},
         NEW h \in f + 1 .. tip + 1, Reorganise(f, S, h)
  PROVE  SyncTyped'
<1> DEFINE moved == S \cup {c \in OnChain : born[c] > f}
           new == Pushed(f, tip', ItemsOf(S, born'), Subscribed /\ moved # {})
<1>1. /\ tip \in Nat /\ tip' = tip + 1 /\ tip' \in 1 .. MaxTip /\ f \in Nat /\ h \in 1 .. tip'
      /\ UNCHANGED <<refresh, replica>> /\ f <= tip'
  <2>1. /\ tip \in 1 .. MaxTip /\ tip' = tip + 1 /\ tip < MaxTip /\ MaxTip \in Nat
        /\ UNCHANGED <<refresh, replica>>
    BY SyncConstants DEF Reorganise, SyncTyped, ChainTyped
  <2>2. f \in Nat /\ f < tip /\ h \in Nat /\ f + 1 <= h /\ h <= tip + 1 /\ 1 <= f
    BY <2>1
  <2> QED
    BY <2>1, <2>2
<1>2. /\ born' \in [Coins -> 0 .. tip'] /\ born' \in [Coins -> Nat]
      /\ \A c \in S : c \in Coins /\ born'[c] = h
  BY <1>1 DEF Reorganise, SyncTyped, ChainTyped, Absent
<1>3. ChainTyped'
  BY <1>1, <1>2 DEF Reorganise, SyncTyped, ChainTyped, OnChain
<1>4. ReplicaTyped' /\ RefreshTyped'
  BY <1>1, TypedAboveGrows
<1>5. SessionTyped'
  <2>1. /\ session' \in Sessions /\ session'.upto = session.upto
        /\ session'.fork = session.fork /\ session'.height = session.height
        /\ session'.got = session.got
    BY DEF Reorganise, SyncTyped, SessionTyped, Sessions
  <2> QED
    BY <2>1, <1>1, SessionGrows DEF SessionTyped
<1>6. /\ ItemsOf(S, born') \in Items /\ DOMAIN ItemsOf(S, born') = S
      /\ \A c \in S : ItemsOf(S, born')[c] = h
  BY <1>2, ItemsTyped
<1>7. new \in Frames /\ new.fork = f /\ new.height = tip' /\ new.items = ItemsOf(S, born')
  <2> DEFINE g == ItemsOf(S, born')
  <2> HIDE DEF g
  <2>1. g \in Items /\ tip' \in Nat
    BY <1>1, <1>6 DEF g
  <2> QED
    BY <2>1, <1>1 DEF Pushed, Frames, g
<1>8. FrameBelow(new, tip')
  <2>1. f < tip' /\ tip' <= tip'
    BY <1>1
  <2> HIDE DEF new
  <2> QED
    BY <2>1, <1>1, <1>2, <1>6, <1>7 DEF FrameBelow, Below
<1>9. WireTyped'
  <2>1. peerTip' \in 0 .. tip'
    BY <1>1 DEF Reorganise, SyncTyped, WireTyped, wire
  <2>2. frames' = frames \/ frames' = Append(frames, new)
    BY DEF Reorganise, wire
  <2> HIDE DEF new
  <2>3. frames \in Seq(Frames) /\ \A i \in DOMAIN frames : FrameBelow(frames[i], tip')
    BY <1>1, WireGrows DEF SyncTyped, WireTyped
  <2>4. frames' \in Seq(Frames) /\ \A i \in DOMAIN frames' : FrameBelow(frames'[i], tip')
    BY <2>2, <2>3, <1>7, <1>8, AppendTyped
  <2> QED
    BY <2>1, <2>4 DEF WireTyped
<1> QED
  BY <1>3, <1>4, <1>5, <1>9 DEF SyncTyped

LEMMA TypedStays ==
  ASSUME SyncTyped, UNCHANGED chain
  PROVE  /\ UNCHANGED <<ghosts, count>> => ChainTyped'
         /\ UNCHANGED replica => ReplicaTyped'
         /\ UNCHANGED refresh => RefreshTyped'
         /\ UNCHANGED session => SessionTyped'
         /\ UNCHANGED wire => WireTyped'
  BY DEF SyncTyped, ChainTyped, ReplicaTyped, RefreshTyped, SessionTyped, WireTyped,
         chain, ghosts, replica, wire

LEMMA Dropped ==
  ASSUME SyncTyped, UNCHANGED chain, session' = NoSession, frames' = <<>>, peerTip' = 0
  PROVE  SessionTyped' /\ WireTyped'
<1>1. tip \in Nat /\ tip' = tip
  BY DEF SyncTyped, ChainTyped, chain
<1>2. SessionTyped'
  BY <1>1, NoSessionTyped, NoSessionFields, NothingBelow DEF SessionTyped
<1>3. WireTyped'
  BY <1>1, EmptyFacts DEF WireTyped
<1> QED
  BY <1>2, <1>3

LEMMA ConnectTyped == ASSUME SyncTyped, Connect PROVE SyncTyped'
<1>1. UNCHANGED <<chain, refresh, replica, ghosts>>
  BY DEF Connect
<1>2. tip' = tip /\ tip \in Nat
  BY <1>1 DEF chain, SyncTyped, ChainTyped
<1>3. ChainTyped'
  BY <1>1 DEF Connect, SyncTyped, ChainTyped, chain, ghosts
<1>4. SessionTyped'
  <2>1. /\ session' \in Sessions /\ session'.upto = 0 /\ session'.fork = 0
        /\ session'.height = 0 /\ session'.got = NoItems
    BY NoSessionTyped, NoSessionFields DEF Connect, Sessions, Steps
  <2> QED
    BY <2>1, <1>2, NothingBelow DEF SessionTyped
<1>5. WireTyped'
  BY <1>2, EmptyFacts DEF Connect, WireTyped
<1> QED
  BY <1>1, <1>3, <1>4, <1>5, TypedStays DEF SyncTyped

LEMMA HangupTyped == ASSUME SyncTyped, Hangup PROVE SyncTyped'
  BY Dropped, TypedStays DEF Hangup, SyncTyped

LEMMA PeerLearnsTyped == ASSUME SyncTyped, PeerLearns PROVE SyncTyped'
<1>1. UNCHANGED <<chain, session, refresh, replica, ghosts, count>>
  BY DEF PeerLearns
<1>2. peerTip \in 0 .. tip /\ tip' = tip /\ tip \in Nat /\ peerTip' \in 1 .. tip
      /\ Subscribed \in BOOLEAN
  BY <1>1 DEF PeerLearns, chain, SyncTyped, ChainTyped, WireTyped, SessionTyped,
              Sessions, Subscribed
<1>3. BlockFrame(peerTip', Subscribed) \in Frames /\ FrameBelow(BlockFrame(peerTip', Subscribed), tip)
  BY <1>2, BlockFrameTyped
<1>4. frames' \in Seq(Frames) /\ \A i \in DOMAIN frames' : FrameBelow(frames'[i], tip)
  BY <1>3, AppendTyped DEF PeerLearns, SyncTyped, WireTyped
<1> QED
  BY <1>1, <1>2, <1>4, TypedStays DEF SyncTyped, WireTyped

LEMMA AnswerTyped == ASSUME SyncTyped, NEW h, Answer(h) PROVE SyncTyped'
<1>1. UNCHANGED <<chain, peerTip, refresh, replica, ghosts, count>>
  BY DEF Answer
<1>2. /\ peerTip \in 0 .. tip /\ tip' = tip /\ tip \in Nat /\ session \in Sessions
      /\ session.upto \in Nat /\ h \in session.upto .. peerTip /\ h \in Nat /\ h <= tip
  BY <1>1 DEF Answer, chain, SyncTyped, ChainTyped, WireTyped, SessionTyped, Sessions
<1> DEFINE S == Between(session.upto, h)
           g == ItemsOf(S, born)
<1>3. S \in SUBSET Coins /\ \A c \in S : born[c] \in 1 .. tip
  BY <1>2 DEF Between, OnChain, SyncTyped, ChainTyped, Absent
<1>4. born \in [Coins -> Nat]
  BY <1>2 DEF SyncTyped, ChainTyped
<1>5. g \in Items /\ DOMAIN g = S /\ \A c \in S : g[c] = born[c]
  BY <1>3, <1>4, ItemsTyped
<1>6. Below(g, tip)
  BY <1>3, <1>5 DEF Below
<1> HIDE DEF g, S
<1>7. session' = [session EXCEPT !.got = g, !.upto = h, !.finished = (h = peerTip),
                     !.pc = IF session.epoch = -1 THEN "epoch" ELSE "write"]
  BY DEF Answer, g, S
<1>8. /\ session' \in Sessions /\ session'.upto = h /\ session'.fork = session.fork
      /\ session'.height = session.height /\ session'.got = g
  BY <1>2, <1>5, <1>7 DEF Sessions, Steps
<1>9. SessionTyped'
  BY <1>2, <1>6, <1>8 DEF SyncTyped, SessionTyped
<1>10. WireTyped'
  <2>1. CASE UNCHANGED frames
    BY <2>1, <1>1, TypedStays DEF wire
  <2>2. CASE h = peerTip /\ Between(h - 1, h) # {} /\ frames' = Append(frames, BlockFrame(h, TRUE))
    <3>1. h \in 1 .. tip
      <4>1. PICK c \in OnChain : born[c] <= h /\ h - 1 < born[c]
        BY <2>2 DEF Between
      <4> QED
        BY <4>1, <1>2 DEF OnChain, SyncTyped, ChainTyped, Absent
    <3>2. BlockFrame(h, TRUE) \in Frames /\ FrameBelow(BlockFrame(h, TRUE), tip)
      BY <3>1, BlockFrameTyped
    <3>3. frames' \in Seq(Frames) /\ \A i \in DOMAIN frames' : FrameBelow(frames'[i], tip)
      BY <2>2, <3>2, AppendTyped DEF SyncTyped, WireTyped
    <3> QED
      BY <3>3, <1>1, <1>2 DEF WireTyped
  <2> QED
    BY <2>1, <2>2 DEF Answer
<1> QED
  BY <1>1, <1>9, <1>10, TypedStays DEF SyncTyped

LEMMA ReadEpochTyped == ASSUME SyncTyped, ReadEpoch PROVE SyncTyped'
<1>1. /\ session' \in Sessions /\ session'.upto = session.upto
      /\ session'.fork = session.fork /\ session'.height = session.height
      /\ session'.got = session.got
  <2>1. state.epoch \in Int
    BY SyncConstants DEF SyncTyped, ReplicaTyped
  <2> QED
    BY <2>1 DEF ReadEpoch, SyncTyped, SessionTyped, Sessions, Steps
<1>2. SessionTyped'
  BY <1>1 DEF ReadEpoch, chain, SyncTyped, SessionTyped
<1> QED
  BY <1>2, TypedStays DEF ReadEpoch, SyncTyped

LEMMA GotNothing ==
  ASSUME SyncTyped, UNCHANGED chain, session' \in Sessions, session'.got = NoItems,
         session'.upto <= tip, session'.fork <= tip, session'.height <= tip
  PROVE  SessionTyped'
  BY NothingBelow DEF chain, SessionTyped

LEMMA WriteBatchTyped == ASSUME SyncTyped, WriteBatch PROVE SyncTyped'
<1>1. UNCHANGED <<chain, wire, refresh, state, arrivals, ghosts, count>> /\ tip' = tip
  BY DEF WriteBatch, chain
<1>2. ReplicaTyped'
  BY <1>1, UpsertTyped DEF WriteBatch, SyncTyped, SessionTyped, ReplicaTyped
<1>3. /\ session' \in Sessions /\ session'.upto = session.upto
      /\ session'.fork = session.fork /\ session'.height = session.height
      /\ session'.got = NoItems
  BY NoItemsTyped DEF WriteBatch, SyncTyped, SessionTyped, Sessions, Steps
<1>4. SessionTyped'
  BY <1>1, <1>3, GotNothing DEF SyncTyped, SessionTyped
<1> QED
  BY <1>1, <1>2, <1>4, TypedStays DEF SyncTyped

LEMMA CompleteTyped == ASSUME SyncTyped, Complete PROVE SyncTyped'
<1> DEFINE armed == Max({session.upto} \cup {rows[c] : c \in Coins})
<1>1. UNCHANGED <<chain, refresh, rows, arrivals, known, reborn, straddled, count>> /\ tip' = tip
  BY DEF Complete, chain
<1>2. tip \in Nat /\ session.upto \in 0 .. tip /\ rows \in [Coins -> 0 .. tip]
  BY DEF SyncTyped, ChainTyped, SessionTyped, Sessions, ReplicaTyped
<1>3. armed \in 0 .. tip
  BY <1>2, MaxOfTable
<1> HIDE DEF armed
<1>4. CASE SameEpoch(session.epoch)
  <2>1. /\ state' = [state EXCEPT !.peak = session.upto, !.synced = TRUE,
                 !.baseline = IF state.baseline = NoBaseline THEN armed ELSE state.baseline]
        /\ passed' = IF state.baseline = NoBaseline THEN passed \cup Between(0, armed) ELSE passed
        /\ session' = Following /\ onFaith' = FALSE /\ UNCHANGED wire
    BY <1>4 DEF Complete, armed
  <2>2. ChainTyped'
    BY <1>1, <2>1 DEF SyncTyped, ChainTyped, chain, Between, OnChain
  <2>3. ReplicaTyped'
    <3>1. state \in [peak : 0 .. tip, synced : BOOLEAN, epoch : 0 .. MaxResets,
                     baseline : -1 .. tip]
      BY DEF SyncTyped, ReplicaTyped
    <3>2. (IF state.baseline = NoBaseline THEN armed ELSE state.baseline) \in -1 .. tip
      BY <1>2, <1>3, <3>1
    <3>3. state' \in [peak : 0 .. tip, synced : BOOLEAN, epoch : 0 .. MaxResets,
                      baseline : -1 .. tip]
      BY <1>2, <2>1, <3>1, <3>2
    <3> QED
      BY <1>1, <1>2, <3>3 DEF SyncTyped, ReplicaTyped
  <2>4. SessionTyped'
    <3>0. 0 \in 0 .. MaxReorg
      BY SyncConstants
    <3>1. session' \in Sessions
      BY <2>1, <3>0, FollowingTyped
    <3>2. session'.got = NoItems /\ session'.upto = 0 /\ session'.fork = 0 /\ session'.height = 0
      BY <2>1, FollowingFields
    <3> QED
      BY <1>1, <1>2, <3>1, <3>2, GotNothing
  <2> QED
    BY <1>1, <2>1, <2>2, <2>3, <2>4, TypedStays DEF SyncTyped
<1>5. CASE ~ SameEpoch(session.epoch)
  <2>1. /\ session' = NoSession /\ frames' = <<>> /\ peerTip' = 0
        /\ UNCHANGED <<state, passed, onFaith>>
    BY <1>5 DEF Complete
  <2> QED
    BY <1>1, <2>1, Dropped, TypedStays DEF SyncTyped, ghosts, replica
<1> QED
  BY <1>4, <1>5

LEMMA TakePeakTyped == ASSUME SyncTyped, TakePeak PROVE SyncTyped'
<1>1. UNCHANGED <<chain, peerTip, session, refresh, rows, arrivals, ghosts, count>> /\ tip' = tip
  BY DEF TakePeak, chain
<1>2. /\ tip \in Nat /\ frames \in Seq(Frames) /\ frames # <<>> /\ state.peak \in 0 .. tip
      /\ \A i \in DOMAIN frames : FrameBelow(frames[i], tip)
  BY DEF TakePeak, SyncTyped, ChainTyped, WireTyped, ReplicaTyped
<1>3. Head(frames).height \in 0 .. tip
  <2>1. Head(frames) = frames[1] /\ 1 \in DOMAIN frames /\ Head(frames) \in Frames
    BY <1>2, TailFacts
  <2>2. frames[1].height \in Nat /\ frames[1].height <= tip
    BY <2>1, <1>2 DEF FrameBelow, Frames
  <2> QED
    BY <2>1, <2>2, <1>2
<1>4. Max({state.peak, Head(frames).height}) \in 0 .. tip
  BY <1>2, <1>3, MaxOfTwo
<1>5. ReplicaTyped'
  BY <1>1, <1>4 DEF TakePeak, SyncTyped, ReplicaTyped
<1>6. WireTyped'
  <2>1. frames' \in Seq(Frames) /\ \A i \in DOMAIN frames' : FrameBelow(frames'[i], tip)
    BY <1>2, TailFacts DEF TakePeak
  <2> QED
    BY <2>1, <1>1 DEF SyncTyped, WireTyped
<1> QED
  BY <1>1, <1>5, <1>6, TypedStays DEF SyncTyped

LEMMA HeadTyped ==
  ASSUME SyncTyped, frames # <<>>
  PROVE  /\ Head(frames) = frames[1] /\ Head(frames) \in Frames /\ FrameBelow(Head(frames), tip)
         /\ Tail(frames) \in Seq(Frames) /\ 1 \in DOMAIN frames
         /\ \A i \in DOMAIN Tail(frames) : FrameBelow(Tail(frames)[i], tip)
<1>1. frames \in Seq(Frames) /\ \A i \in DOMAIN frames : FrameBelow(frames[i], tip)
  BY DEF SyncTyped, WireTyped
<1> QED
  BY <1>1, TailFacts

LEMMA TakeFrameTyped == ASSUME SyncTyped, TakeFrame PROVE SyncTyped'
<1> DEFINE f == Head(frames)
           depth == Max({0, state.peak - f.fork})
           spent == session.spent + depth
<1>1. UNCHANGED <<chain, refresh, replica, ghosts, count>> /\ tip' = tip /\ frames # <<>>
  BY DEF TakeFrame, chain
<1>2. f \in Frames /\ FrameBelow(f, tip) /\ tip \in Nat
  BY <1>1, HeadTyped DEF SyncTyped, ChainTyped
<1>3. /\ f.fork \in Nat /\ f.height \in Nat /\ f.items \in Items
      /\ f.fork <= tip /\ f.height <= tip /\ Below(f.items, tip)
  BY <1>2 DEF Frames, FrameBelow
<1>4. CASE ~ Allowed(depth, spent)
  BY <1>1, <1>4, Dropped, TypedStays DEF TakeFrame, SyncTyped
<1>5. CASE Allowed(depth, spent)
  <2>1. depth \in Nat
    <3>1. state.peak \in Int /\ state.peak - f.fork \in Int
      BY <1>3 DEF SyncTyped, ReplicaTyped
    <3> QED
      BY <3>1, MaxOfTwo
  <2>2. spent \in 0 .. MaxReorg
    BY <1>5, <2>1, SyncConstants DEF Allowed, SyncTyped, SessionTyped, Sessions
  <2>3. /\ session' = [session EXCEPT
                  !.fork = f.fork, !.height = f.height, !.got = f.items, !.spent = spent,
                  !.pc = IF depth > 0 THEN "rollback"
                         ELSE IF f.height < state.peak THEN "clear" ELSE "items"]
        /\ frames' = Tail(frames) /\ UNCHANGED peerTip
    BY <1>5 DEF TakeFrame
  <2> HIDE DEF f, depth, spent
  <2>4. /\ session' \in Sessions /\ session'.upto = session.upto
        /\ session'.fork = f.fork /\ session'.height = f.height /\ session'.got = f.items
    BY <1>3, <2>2, <2>3 DEF SyncTyped, SessionTyped, Sessions, Steps
  <2>5. SessionTyped'
    BY <2>4, <1>1, <1>3 DEF SyncTyped, SessionTyped
  <2>6. WireTyped'
    BY <1>1, <2>3, HeadTyped DEF SyncTyped, WireTyped
  <2> QED
    BY <1>1, <2>5, <2>6, TypedStays DEF SyncTyped
<1> QED
  BY <1>4, <1>5

LEMMA StateTyped ==
  SyncTyped => /\ state \in [peak : 0 .. tip, synced : BOOLEAN, epoch : 0 .. MaxResets,
                             baseline : -1 .. tip]
               /\ tip \in Nat /\ rows \in [Coins -> 0 .. tip] /\ arrivals \subseteq Coins
  BY DEF SyncTyped, ReplicaTyped, ChainTyped

LEMMA GoesTyped ==
  ASSUME SyncTyped, UNCHANGED chain, NEW p \in Steps, Goes(p)
  PROVE  SessionTyped'
  BY DEF Goes, SyncTyped, SessionTyped, Sessions, chain

LEMMA RollbackTyped == ASSUME SyncTyped, Rollback PROVE SyncTyped'
<1>1. UNCHANGED <<chain, wire, refresh, known, passed, reborn, count>> /\ tip' = tip
  BY DEF Rollback, chain
<1>2. session.fork \in 0 .. tip
  BY StateTyped DEF SyncTyped, SessionTyped, Sessions
<1>3. BaselineAfter(session.fork) \in -1 .. tip
  BY <1>2, StateTyped DEF BaselineAfter
<1>4. state' \in [peak : 0 .. tip, synced : BOOLEAN, epoch : 0 .. MaxResets,
                  baseline : -1 .. tip]
  BY <1>2, <1>3, StateTyped DEF Rollback
<1>5. rows' \in [Coins -> 0 .. tip] /\ arrivals' \subseteq Coins
  BY StateTyped DEF Rollback, Absent
<1>6. ReplicaTyped'
  BY <1>1, <1>4, <1>5 DEF ReplicaTyped
<1>7. SessionTyped'
  BY <1>1, GoesTyped DEF Rollback, Steps
<1>8. ChainTyped'
  BY <1>1 DEF Rollback, SyncTyped, ChainTyped, chain
<1> QED
  BY <1>1, <1>6, <1>7, <1>8, TypedStays DEF SyncTyped

LEMMA ClearSyncedTyped == ASSUME SyncTyped, ClearSynced PROVE SyncTyped'
<1>1. /\ UNCHANGED <<chain, wire, refresh, rows, arrivals, known, passed, reborn, straddled, count>>
      /\ tip' = tip /\ onFaith' = FALSE
  BY DEF ClearSynced, chain
<1>2. ReplicaTyped'
  BY <1>1, StateTyped DEF ClearSynced, ReplicaTyped
<1>3. SessionTyped'
  BY <1>1, GoesTyped DEF ClearSynced, Steps
<1>4. ChainTyped'
  BY <1>1 DEF SyncTyped, ChainTyped, chain
<1> QED
  BY <1>1, <1>2, <1>3, <1>4, TypedStays DEF SyncTyped

LEMMA WriteItemsTyped == ASSUME SyncTyped, WriteItems PROVE SyncTyped'
<1>1. UNCHANGED <<chain, wire, refresh, state, arrivals, ghosts, count>> /\ tip' = tip
  BY DEF WriteItems, chain
<1>2. ReplicaTyped'
  BY <1>1, UpsertTyped DEF WriteItems, SyncTyped, SessionTyped, ReplicaTyped
<1>3. /\ session' \in Sessions /\ session'.upto = session.upto
      /\ session'.fork = session.fork /\ session'.height = session.height
      /\ session'.got = NoItems
  BY NoItemsTyped DEF WriteItems, SyncTyped, SessionTyped, Sessions, Steps
<1>4. SessionTyped'
  BY <1>1, <1>3, GotNothing DEF SyncTyped, SessionTyped
<1> QED
  BY <1>1, <1>2, <1>4, TypedStays DEF SyncTyped

LEMMA RecordPeakTyped == ASSUME SyncTyped, RecordPeak PROVE SyncTyped'
<1>1. UNCHANGED <<chain, wire, refresh, rows, arrivals, ghosts, count>> /\ tip' = tip
  BY DEF RecordPeak, chain
<1>2. session.height \in 0 .. tip
  BY StateTyped DEF SyncTyped, SessionTyped, Sessions
<1>3. ReplicaTyped'
  BY <1>1, <1>2, StateTyped DEF RecordPeak, ReplicaTyped
<1>4. SessionTyped'
  BY <1>1, GoesTyped DEF RecordPeak, Steps
<1> QED
  BY <1>1, <1>3, <1>4, TypedStays DEF SyncTyped

LEMMA FrameArrivalsTyped == ASSUME SyncTyped, FrameArrivals PROVE SyncTyped'
<1>1. /\ UNCHANGED <<chain, wire, refresh, rows, known, passed, reborn, straddled, onFaith, count>>
      /\ tip' = tip
  BY DEF FrameArrivals, chain
<1>2. session.height \in 0 .. tip /\ session.spent \in 0 .. MaxReorg
  BY StateTyped DEF SyncTyped, SessionTyped, Sessions
<1>3. /\ state' \in [peak : 0 .. tip, synced : BOOLEAN, epoch : 0 .. MaxResets,
                     baseline : -1 .. tip]
      /\ arrivals' \subseteq Coins
  <2>1. CASE RecordArrivals(session.height)
    BY <2>1, <1>2, RecordTyped
  <2>2. CASE UNCHANGED <<arrivals, state>>
    BY <2>2, StateTyped
  <2> QED
    BY <2>1, <2>2 DEF FrameArrivals
<1>4. ReplicaTyped'
  BY <1>1, <1>3, StateTyped DEF ReplicaTyped
<1>5. SessionTyped'
  <2>1. session' = [Following EXCEPT !.spent = session.spent]
    BY DEF FrameArrivals
  <2>2. session' \in Sessions
    BY <2>1, <1>2, FollowingTyped
  <2>3. session'.got = NoItems /\ session'.upto = 0 /\ session'.fork = 0 /\ session'.height = 0
    BY <2>1, FollowingFields
  <2> QED
    BY <1>1, <2>2, <2>3, GotNothing, StateTyped
<1> QED
  BY <1>1, <1>4, <1>5, TypedStays DEF SyncTyped, ghosts

LEMMA RefreshKinds ==
  SyncTyped => /\ refresh \in Refreshes(tip) /\ refresh.pc \in RefreshSteps
               /\ refresh.epoch \in Nat /\ refresh.got \in [Coins -> 0 .. tip]
               /\ refresh.top \in 0 .. tip /\ refresh.lacks \in BOOLEAN
  BY DEF SyncTyped, RefreshTyped, Refreshes

LEMMA RefreshBeginTyped == ASSUME SyncTyped, RefreshBegin PROVE SyncTyped'
<1>1. UNCHANGED <<chain, wire, session, replica, ghosts>> /\ tip' = tip
  BY DEF RefreshBegin, chain
<1>2. state.epoch \in Nat
  BY StateTyped, SyncConstants
<1>3. RefreshTyped'
  BY <1>1, <1>2, RefreshKinds DEF RefreshBegin, RefreshTyped, RefreshSteps, Refreshes
<1>4. ChainTyped'
  BY <1>1 DEF RefreshBegin, SyncTyped, ChainTyped, chain, ghosts
<1> QED
  BY <1>1, <1>3, <1>4, TypedStays DEF SyncTyped

(* The reads: what they leave the refresh with.                            *)
FirstRead(h) == [c \in Coins |-> IF born[c] <= h THEN born[c] ELSE Absent]
BothReads(S) == [c \in Coins |-> IF c \in S THEN born[c] ELSE refresh.got[c]]
TopOf(low, got) == Max({low} \cup {got[c] : c \in Coins})

LEMMA FirstReadIs ==
  ASSUME SyncTyped, NEW h \in 0 .. tip, RefreshFetch(h)
  PROVE  /\ refresh' = [refresh EXCEPT !.pc = "hints", !.got = FirstRead(h),
                                       !.top = TopOf(0, FirstRead(h))]
         /\ FirstRead(h) \in [Coins -> 0 .. tip] /\ TopOf(0, FirstRead(h)) \in 0 .. h
<1>1. tip \in Nat /\ born \in [Coins -> 0 .. tip]
  BY StateTyped DEF SyncTyped, ChainTyped
<1>2. FirstRead(h) \in [Coins -> 0 .. tip] /\ FirstRead(h) \in [Coins -> 0 .. h]
  BY <1>1 DEF FirstRead, Absent
<1>3. h \in Nat /\ 0 \in 0 .. h
  BY <1>1
<1>4. TopOf(0, FirstRead(h)) \in 0 .. h
  BY <1>2, <1>3, MaxOfTable DEF TopOf
<1> QED
  BY <1>2, <1>4 DEF RefreshFetch, FirstRead, TopOf

LEMMA RefreshFetchTyped ==
  ASSUME SyncTyped, NEW h \in 0 .. tip, RefreshFetch(h) PROVE SyncTyped'
<1>1. UNCHANGED <<chain, wire, session, replica, ghosts, count>> /\ tip' = tip
  BY DEF RefreshFetch, chain
<1>2. /\ FirstRead(h) \in [Coins -> 0 .. tip] /\ TopOf(0, FirstRead(h)) \in 0 .. tip
      /\ refresh' = [refresh EXCEPT !.pc = "hints", !.got = FirstRead(h),
                                    !.top = TopOf(0, FirstRead(h))]
  <2>1. TopOf(0, FirstRead(h)) \in 0 .. h /\ tip \in Nat
    BY FirstReadIs, StateTyped
  <2>2. TopOf(0, FirstRead(h)) \in 0 .. tip
    BY <2>1
  <2> QED
    BY <2>2, FirstReadIs
<1>3. RefreshTyped'
  BY <1>1, <1>2, RefreshKinds DEF RefreshTyped, RefreshSteps, Refreshes
<1> QED
  BY <1>1, <1>3, TypedStays DEF SyncTyped

LEMMA BothReadsAre ==
  ASSUME SyncTyped, NEW S \in SUBSET OnChain, RefreshHints(S)
  PROVE  /\ refresh.pc = "hints" /\ refresh'.pc = "write" /\ refresh'.epoch = refresh.epoch
         /\ refresh'.got = BothReads(S) /\ refresh'.top = TopOf(refresh.top, BothReads(S))
         /\ ~ refresh'.lacks => \A c \in known : refresh'.got[c] # Absent
         /\ BothReads(S) \in [Coins -> 0 .. tip] /\ refresh'.top \in 0 .. tip
         /\ refresh' \in Refreshes(tip)
         /\ passed' = passed \cup {c \in OnChain : /\ born[c] <= refresh'.top
                                                   /\ refresh'.got[c] = Absent}
         /\ \A c \in Coins : refresh'.got[c] = Absent \/ refresh'.got[c] = born[c]
                                 \/ refresh'.got[c] = refresh.got[c]
<1>1. tip \in Nat /\ born \in [Coins -> 0 .. tip] /\ refresh \in Refreshes(tip)
      /\ refresh.got \in [Coins -> 0 .. tip] /\ refresh.top \in 0 .. tip
  BY StateTyped, RefreshKinds DEF SyncTyped, ChainTyped
<1>2. BothReads(S) \in [Coins -> 0 .. tip]
  BY <1>1 DEF BothReads
<1>3. TopOf(refresh.top, BothReads(S)) \in 0 .. tip
  BY <1>1, <1>2, MaxOfTable DEF TopOf
<1> DEFINE l == \E c \in known : BothReads(S)[c] = Absent
<1>4. /\ refresh.pc = "hints"
      /\ refresh' = [refresh EXCEPT !.pc = "write", !.got = BothReads(S),
                        !.top = TopOf(refresh.top, BothReads(S)), !.lacks = l]
      /\ passed' = passed \cup {c \in OnChain : /\ born[c] <= TopOf(refresh.top, BothReads(S))
                                                /\ BothReads(S)[c] = Absent}
  BY DEF RefreshHints, BothReads, TopOf
<1>5. l \in BOOLEAN
  OBVIOUS
<1> HIDE DEF l
<1>6. /\ refresh'.pc = "write" /\ refresh'.epoch = refresh.epoch /\ refresh'.got = BothReads(S)
      /\ refresh'.top = TopOf(refresh.top, BothReads(S)) /\ refresh'.lacks = l
      /\ refresh' \in Refreshes(tip)
  BY <1>1, <1>2, <1>3, <1>4, <1>5 DEF Refreshes, RefreshSteps
<1>7. \A c \in Coins : BothReads(S)[c] = born[c] \/ BothReads(S)[c] = refresh.got[c]
  BY DEF BothReads
<1>8. ~ refresh'.lacks => \A c \in known : refresh'.got[c] # Absent
  BY <1>6 DEF l
<1> QED
  BY <1>2, <1>3, <1>4, <1>6, <1>7, <1>8

LEMMA RefreshHintsTyped ==
  ASSUME SyncTyped, NEW S \in SUBSET OnChain, RefreshHints(S) PROVE SyncTyped'
<1>1. /\ UNCHANGED <<chain, wire, session, replica, known, reborn, straddled, onFaith, count>>
      /\ tip' = tip
  BY DEF RefreshHints, chain
<1>2. RefreshTyped'
  BY <1>1, BothReadsAre DEF RefreshTyped
<1>3. passed' \subseteq Coins
  BY BothReadsAre DEF SyncTyped, ChainTyped, OnChain
<1>4. ChainTyped'
  BY <1>1, <1>3 DEF SyncTyped, ChainTyped, chain
<1> QED
  BY <1>1, <1>2, <1>4, TypedStays DEF SyncTyped

LEMMA FetchedItems ==
  ASSUME SyncTyped
  PROVE  /\ DOMAIN ItemsOf(Fetched, refresh.got) = Fetched
         /\ \A c \in Fetched : c \in Coins /\ ItemsOf(Fetched, refresh.got)[c] = refresh.got[c]
         /\ Below(ItemsOf(Fetched, refresh.got), tip)
<1>1. Fetched \in SUBSET Coins /\ tip \in Nat
  BY StateTyped DEF Fetched
<1>2. refresh.got \in [Coins -> 0 .. tip] /\ refresh.got \in [Coins -> Nat]
  BY <1>1, RefreshKinds
<1>3. \A c \in Fetched : refresh.got[c] \in 1 .. tip
  BY <1>1, <1>2 DEF Fetched, Absent
<1>4. /\ DOMAIN ItemsOf(Fetched, refresh.got) = Fetched
      /\ \A c \in Fetched : c \in Coins /\ ItemsOf(Fetched, refresh.got)[c] = refresh.got[c]
  BY <1>1, <1>2, ItemsTyped
<1> QED
  BY <1>3, <1>4 DEF Below

LEMMA RefreshWriteTyped == ASSUME SyncTyped, RefreshWrite PROVE SyncTyped'
<1>1. UNCHANGED <<chain, wire, session, state, arrivals, ghosts, count>> /\ tip' = tip
  BY DEF RefreshWrite, chain
<1>2. ReplicaTyped'
  BY <1>1, UpsertTyped, FetchedItems DEF RefreshWrite, SyncTyped, ReplicaTyped
<1>3. RefreshTyped'
  BY <1>1, RefreshKinds, NoRefreshTyped, StateTyped
     DEF RefreshWrite, RefreshTyped, RefreshSteps, Refreshes
<1> QED
  BY <1>1, <1>2, <1>3, TypedStays DEF SyncTyped

LEMMA RefreshLatchTyped == ASSUME SyncTyped, RefreshLatch PROVE SyncTyped'
<1>1. /\ UNCHANGED <<chain, wire, session, rows, arrivals, known, passed, reborn, straddled, count>>
      /\ tip' = tip
  BY DEF RefreshLatch, chain
<1>2. state' \in [peak : 0 .. tip, synced : BOOLEAN, epoch : 0 .. MaxResets,
                  baseline : -1 .. tip]
  <2>1. state' = [state EXCEPT !.synced = TRUE] \/ state' = state
    BY DEF RefreshLatch
  <2> QED
    BY <2>1, StateTyped
<1>3. ReplicaTyped'
  BY <1>1, <1>2, StateTyped DEF ReplicaTyped
<1>4. RefreshTyped'
  BY <1>1, RefreshKinds DEF RefreshLatch, RefreshTyped, RefreshSteps, Refreshes
<1>5. ChainTyped'
  <2>1. onFaith' \in BOOLEAN
    BY DEF RefreshLatch, SyncTyped, ChainTyped
  <2> QED
    BY <1>1, <2>1 DEF SyncTyped, ChainTyped, chain
<1> QED
  BY <1>1, <1>3, <1>4, <1>5, TypedStays DEF SyncTyped

(* How far a refresh moves the baseline.                                   *)
Through == Max({state.peak, refresh.top})

LEMMA ThroughTyped ==
  ASSUME SyncTyped
  PROVE  Through \in 0 .. tip /\ (Through = state.peak \/ Through = refresh.top)
<1>1. tip \in Nat /\ state.peak \in 0 .. tip /\ refresh.top \in 0 .. tip
  BY StateTyped, RefreshKinds
<1> QED
  BY <1>1, MaxOfTwo DEF Through

LEMMA RefreshArrivalsTyped == ASSUME SyncTyped, RefreshArrivals PROVE SyncTyped'
<1>1. /\ UNCHANGED <<chain, wire, session, rows, known, passed, reborn, straddled, onFaith, count>>
      /\ tip' = tip /\ RecordArrivals(Through)
  BY DEF RefreshArrivals, chain, Through
<1>2. Through \in 0 .. tip
  BY ThroughTyped
<1>3. ReplicaTyped'
  BY <1>1, <1>2, RecordTyped, StateTyped DEF ReplicaTyped
<1>4. RefreshTyped'
  BY <1>1, NoRefreshTyped, StateTyped DEF RefreshArrivals, RefreshTyped
<1> QED
  BY <1>1, <1>3, <1>4, TypedStays DEF SyncTyped, ghosts

LEMMA RefreshGoneTyped == ASSUME SyncTyped, RefreshGone PROVE SyncTyped'
<1>1. UNCHANGED <<chain, wire, session, replica, ghosts, count>> /\ tip' = tip
  BY DEF RefreshGone, chain
<1>2. RefreshTyped'
  BY <1>1, NoRefreshTyped, StateTyped DEF RefreshGone, RefreshTyped
<1> QED
  BY <1>1, <1>2, TypedStays DEF SyncTyped

LEMMA ResetTypedSync == ASSUME SyncTyped, Reset PROVE SyncTyped'
<1>1. UNCHANGED <<chain, wire, session, refresh, passed, reborn, straddled, count>> /\ tip' = tip
  BY DEF Reset, chain
<1>2. state' \in [peak : 0 .. tip, synced : BOOLEAN, epoch : 0 .. MaxResets,
                  baseline : -1 .. tip]
  <2>1. state.epoch + 1 \in 0 .. MaxResets
    BY StateTyped, SyncConstants DEF Reset
  <2> QED
    BY <2>1, StateTyped DEF Reset
<1>3. ReplicaTyped'
  BY <1>1, <1>2, StateTyped DEF Reset, ReplicaTyped, Absent
<1>4. ChainTyped'
  BY <1>1 DEF Reset, SyncTyped, ChainTyped, chain, OnChain
<1> QED
  BY <1>1, <1>3, <1>4, TypedStays DEF SyncTyped

LEMMA StutterTyped == ASSUME SyncTyped, UNCHANGED syncVars PROVE SyncTyped'
  BY TypedStays DEF SyncTyped, syncVars, ghosts

LEMMA StepTyped == ASSUME SyncTyped, [SyncNext]_syncVars PROVE SyncTyped'
  BY MineTyped, PeerLearnsTyped, ReorganiseTyped, ConnectTyped, HangupTyped, AnswerTyped,
     ReadEpochTyped, WriteBatchTyped, CompleteTyped, TakePeakTyped, TakeFrameTyped,
     RollbackTyped, ClearSyncedTyped, WriteItemsTyped, RecordPeakTyped, FrameArrivalsTyped,
     RefreshBeginTyped, RefreshFetchTyped, RefreshHintsTyped, RefreshWriteTyped,
     RefreshLatchTyped, RefreshArrivalsTyped, RefreshGoneTyped, ResetTypedSync, StutterTyped
     DEF SyncNext, CatchUp, Frame, Refresh

LEMMA AlwaysTyped == SyncSpec => []SyncTyped
  BY InitTyped, StepTyped, PTL DEF SyncSpec

LEMMA TypedIsTypeOK == SyncTyped => SyncTypeOK
<1> SUFFICES ASSUME SyncTyped PROVE SyncTypeOK
  OBVIOUS
<1>1. tip \in 1 .. MaxTip /\ MaxTip \in Nat /\ \A x \in 0 .. tip : x \in Heights
  BY SyncConstants DEF SyncTyped, ChainTyped, Heights
<1>2. tip \in Heights /\ born \in [Coins -> Heights] /\ rows \in [Coins -> Heights]
      /\ refresh.got \in [Coins -> Heights] /\ refresh.pc \in RefreshSteps
      /\ refresh.top \in Heights /\ refresh.lacks \in BOOLEAN
  BY <1>1, RefreshKinds DEF SyncTyped, ChainTyped, ReplicaTyped
<1>3. ASSUME NEW i \in DOMAIN frames
      PROVE  /\ frames[i].kind \in {"coins", "peak"}
             /\ frames[i].fork \in Heights /\ frames[i].height \in Heights
             /\ DOMAIN frames[i].items \subseteq Coins
  <2>1. frames[i] \in Frames /\ FrameBelow(frames[i], tip)
    BY DEF SyncTyped, WireTyped
  <2>2. frames[i].fork \in Nat /\ frames[i].height \in Nat /\ frames[i].kind \in {"coins", "peak"}
    BY <2>1 DEF Frames
  <2>3. frames[i].fork \in 0 .. tip /\ frames[i].height \in 0 .. tip
    BY <2>1, <2>2, <1>1 DEF FrameBelow
  <2> QED
    BY <2>1, <2>2, <2>3, <1>1 DEF FrameBelow, Below
<1>4. session.pc \in Steps /\ session.spent \in 0 .. MaxReorg
  BY DEF SyncTyped, SessionTyped, Sessions
<1>5. state \in [peak : Heights, synced : BOOLEAN, epoch : 0 .. MaxResets,
                 baseline : Heights \cup {NoBaseline}]
  <2>1. \A y \in -1 .. tip : y \in Heights \cup {NoBaseline}
    BY <1>1 DEF NoBaseline
  <2> QED
    BY <2>1, <1>1, StateTyped
<1> QED
  BY <1>2, <1>3, <1>4, <1>5
     DEF SyncTypeOK, Steps, RefreshSteps, SyncTyped, ChainTyped, WireTyped, ReplicaTyped

(* The replica, its session and its peers keep their types; heights stay   *)
(* within the chain, and a session, whatever its frames, rolls back no     *)
(* more in all than one reorganisation may (RollbackBudget::charge).       *)
THEOREM RollbacksBounded == SyncSpec => []SyncTypeOK
  BY AlwaysTyped, TypedIsTypeOK, PTL

----------------------------------------------------------------------------
(* How the chain moves under the wallet: a coin it had stays where it was, *)
(* unless a reorganisation moved it; a coin it had not is born at its end. *)

ChainMoves ==
    /\ tip' = tip + 1 /\ UNCHANGED <<refresh, replica, onFaith>>
    /\ session'.pc = session.pc /\ session'.epoch = session.epoch
    /\ session'.upto = session.upto /\ session'.got = session.got
    /\ session'.finished = session.finished
    /\ session'.fork = session.fork /\ session'.height = session.height
    /\ reborn \subseteq reborn' /\ known' \subseteq known /\ passed' \subseteq passed
    /\ known \subseteq known' \cup reborn' /\ passed \subseteq passed' \cup reborn'
    /\ \A c \in Coins \ reborn' :
          born'[c] = born[c] \/ (born[c] = Absent /\ born'[c] = tip')
    /\ \A c \in known' \cup passed' : c \in OnChain => born'[c] = born[c]

LEMMA MineMoves ==
  ASSUME SyncTyped, NEW S \in SUBSET (Coins \ OnChain), Mine(S)
  PROVE  ChainMoves
  BY DEF Mine, ChainMoves, ghosts, OnChain, SyncTyped, ChainTyped

LEMMA ReorganiseMoves ==
  ASSUME SyncTyped, NEW f \in 1 .. tip - 1,
         NEW S \in SUBSET {c \in Coins : born[c] > f \/ born[c] = Absent},
         NEW h \in f + 1 .. tip + 1, Reorganise(f, S, h)
  PROVE  ChainMoves /\ UNCHANGED straddled
<1> DEFINE moved == S \cup {c \in OnChain : born[c] > f}
<1>1. /\ tip' = tip + 1 /\ UNCHANGED <<refresh, replica, onFaith>>
      /\ reborn' = reborn \cup moved /\ known' = known \ moved /\ passed' = passed \ moved
      /\ born' = [c \in Coins |-> IF c \in S THEN h
                                  ELSE IF born[c] > f THEN Absent ELSE born[c]]
      /\ UNCHANGED straddled
  BY DEF Reorganise
<1>2. /\ session'.pc = session.pc /\ session'.epoch = session.epoch
      /\ session'.upto = session.upto /\ session'.got = session.got
      /\ session'.finished = session.finished
      /\ session'.fork = session.fork /\ session'.height = session.height
  BY DEF Reorganise, SyncTyped, SessionTyped, Sessions
<1>3. \A c \in Coins \ moved : born'[c] = born[c]
  BY <1>1 DEF OnChain, SyncTyped, ChainTyped, Absent
<1>4. known \subseteq Coins /\ passed \subseteq Coins
  BY DEF SyncTyped, ChainTyped
<1> HIDE DEF moved
<1> QED
  BY <1>1, <1>2, <1>3, <1>4 DEF ChainMoves

LEMMA UnmovedMoves ==
  ASSUME ChainMoves
  PROVE  \A c \in Unmoved' : \/ c \in Unmoved /\ born'[c] = born[c]
                             \/ c \in Coins \ reborn /\ born[c] = Absent /\ born'[c] = tip'
  BY DEF ChainMoves, Unmoved, OnChain

LEMMA PaymentsMove ==
  ASSUME ChainMoves
  PROVE  \A c \in Payments' : \/ c \in Payments /\ born'[c] = born[c]
                              \/ born'[c] = tip'
<1>1. \A c \in Payments' : c \in Unmoved' /\ c \notin known' \cup passed' \cup reborn'
  BY DEF Payments, Unmoved
<1>2. \A c \in Payments' : c \notin known \cup passed \cup reborn
  BY <1>1 DEF ChainMoves
<1> QED
  BY <1>1, <1>2, UnmovedMoves DEF Payments, Unmoved

LEMMA KnownMoves ==
  ASSUME ChainMoves, HistoryTrue
  PROVE  \A c \in known' \ reborn' : c \in known \ reborn /\ born'[c] = born[c]
  BY DEF ChainMoves, HistoryTrue

(* The rest of the steps leave the chain alone.                            *)
LEMMA UnmovedStays ==
  ASSUME UNCHANGED <<chain, reborn>>
  PROVE  /\ OnChain' = OnChain /\ Unmoved' = Unmoved
         /\ UNCHANGED <<known, passed>> => Payments' = Payments
  BY DEF chain, Unmoved, OnChain, Payments

LEMMA TableMoves ==
  ASSUME ChainMoves, NEW t, TableTrue(t)
  PROVE  \A c \in Coins \ reborn' : t[c] = Absent \/ t[c] = born'[c]
  BY DEF ChainMoves, TableTrue

LEMMA ItemsMove ==
  ASSUME ChainMoves, NEW g, NEW h \in Nat, Below(g, h), ItemsTrue(g)
  PROVE  \A c \in DOMAIN g : c \in reborn' \/ g[c] = born'[c]
  BY DEF ChainMoves, ItemsTrue, Below, Absent

LEMMA HistoryMoves ==
  ASSUME SyncTyped, ChainMoves, HistoryTrue
  PROVE  HistoryTrue'
<1>1. \A c \in known' \cup passed' : c \in OnChain /\ born'[c] = born[c]
  BY DEF ChainMoves, HistoryTrue
<1>2. state' = state /\ passed' \subseteq passed
  BY DEF ChainMoves, replica
<1> QED
  BY <1>1, <1>2 DEF HistoryTrue, OnChain

LEMMA ValuesMove ==
  ASSUME SyncTyped, ChainMoves, ValuesTrue
  PROVE  /\ HistoryTrue' /\ TableTrue(rows)' /\ TableTrue(refresh.got)'
         /\ ItemsTrue(session.got)'
         /\ \A i \in DOMAIN frames : \A c \in DOMAIN frames[i].items :
               c \in reborn' \/ frames[i].items[c] = born'[c]
<1>1. tip \in Nat /\ rows' = rows /\ refresh' = refresh /\ session'.got = session.got
  BY DEF SyncTyped, ChainTyped, ChainMoves, replica
<1>2. TableTrue(rows)' /\ TableTrue(refresh.got)'
  <2>1. TableTrue(rows) /\ TableTrue(refresh.got)
    BY DEF ValuesTrue
  <2>2. /\ \A c \in Coins \ reborn' : rows[c] = Absent \/ rows[c] = born'[c]
        /\ \A c \in Coins \ reborn' : refresh.got[c] = Absent \/ refresh.got[c] = born'[c]
    BY <2>1, TableMoves
  <2> QED
    BY <1>1, <2>2 DEF TableTrue
<1>3. ItemsTrue(session.got)'
  <2>1. Below(session.got, tip) /\ ItemsTrue(session.got)
    BY DEF ValuesTrue, SyncTyped, SessionTyped
  <2>2. \A c \in DOMAIN session.got : c \in reborn' \/ session.got[c] = born'[c]
    BY <1>1, <2>1, ItemsMove
  <2> QED
    BY <1>1, <2>2 DEF ItemsTrue
<1>4. ASSUME NEW i \in DOMAIN frames
      PROVE  \A c \in DOMAIN frames[i].items : c \in reborn' \/ frames[i].items[c] = born'[c]
  <2>1. Below(frames[i].items, tip) /\ ItemsTrue(frames[i].items)
    BY DEF ValuesTrue, FramesTrue, SyncTyped, WireTyped, FrameBelow
  <2> QED
    BY <1>1, <2>1, ItemsMove
<1> QED
  BY <1>2, <1>3, <1>4, HistoryMoves DEF ValuesTrue

LEMMA ValuesStay ==
  ASSUME ValuesTrue, UNCHANGED <<chain, reborn>>
  PROVE  /\ UNCHANGED <<known, passed, state>> => HistoryTrue'
         /\ UNCHANGED rows => TableTrue(rows)'
         /\ UNCHANGED refresh => TableTrue(refresh.got)'
         /\ (session'.got = session.got \/ session'.got = NoItems) => ItemsTrue(session.got)'
         /\ UNCHANGED frames => FramesTrue'
         /\ \A g : ItemsTrue(g) => \A c \in DOMAIN g : c \in reborn' \/ g[c] = born'[c]
<1>1. UNCHANGED <<known, passed, state>> => HistoryTrue'
  BY DEF ValuesTrue, HistoryTrue, OnChain, chain
<1>2. UNCHANGED rows => TableTrue(rows)'
  BY DEF ValuesTrue, TableTrue, chain
<1>3. UNCHANGED refresh => TableTrue(refresh.got)'
  BY DEF ValuesTrue, TableTrue, chain
<1>4. (session'.got = session.got \/ session'.got = NoItems) => ItemsTrue(session.got)'
  BY NoItemsTyped DEF ValuesTrue, ItemsTrue, chain
<1>5. UNCHANGED frames => FramesTrue'
  BY DEF ValuesTrue, FramesTrue, ItemsTrue, chain
<1>6. \A g : ItemsTrue(g) => \A c \in DOMAIN g : c \in reborn' \/ g[c] = born'[c]
  BY DEF ItemsTrue, chain
<1> QED
  BY <1>1, <1>2, <1>3, <1>4, <1>5, <1>6

(* A step that leaves the recorded coins and the history alone.            *)
LEMMA ValuesKept ==
  ASSUME ValuesTrue, UNCHANGED <<chain, reborn, known, passed, rows>>,
         state'.baseline = NoBaseline => state.baseline = NoBaseline,
         refresh'.got = refresh.got \/ refresh' = NoRefresh,
         session'.got = session.got \/ session'.got = NoItems,
         FramesTrue'
  PROVE  ValuesTrue'
<1>1. HistoryTrue'
  BY DEF ValuesTrue, HistoryTrue, OnChain, chain
<1>2. TableTrue(rows)' /\ ItemsTrue(session.got)'
  BY ValuesStay
<1>3. TableTrue(refresh.got)'
  BY NoRefreshTyped DEF ValuesTrue, TableTrue, chain
<1> QED
  BY <1>1, <1>2, <1>3 DEF ValuesTrue

LEMMA UpsertTrue ==
  ASSUME SyncTyped, ValuesTrue, UNCHANGED <<chain, reborn>>, NEW g, Below(g, tip),
         ItemsTrue(g), Upsert(g)
  PROVE  TableTrue(rows)'
<1>1. \A c \in Coins : rows'[c] = IF c \in DOMAIN g THEN g[c] ELSE rows[c]
  BY UpsertTyped
<1> QED
  BY <1>1 DEF ValuesTrue, TableTrue, ItemsTrue, chain

LEMMA AppendTrue ==
  ASSUME SyncTyped, ValuesTrue, NEW f \in Frames, ItemsTrue(f.items),
         UNCHANGED <<chain, reborn>>, frames' = Append(frames, f)
  PROVE  FramesTrue'
<1>1. \A i \in DOMAIN frames' : frames'[i] = f \/ (i \in DOMAIN frames /\ frames'[i] = frames[i])
  BY AppendFacts DEF SyncTyped, WireTyped
<1> QED
  BY <1>1 DEF ValuesTrue, FramesTrue, ItemsTrue, chain

LEMMA BlockFrameTrue ==
  ASSUME SyncTyped, NEW h \in 1 .. tip, NEW b \in BOOLEAN
  PROVE  ItemsTrue(BlockFrame(h, b).items)
  BY BlockFrameTyped DEF ItemsTrue

LEMMA TailTrue ==
  ASSUME SyncTyped, ValuesTrue, UNCHANGED <<chain, reborn>>, frames # <<>>,
         frames' = Tail(frames)
  PROVE  FramesTrue' /\ ItemsTrue(Head(frames).items)
<1>1. /\ \A i \in DOMAIN frames' : i + 1 \in DOMAIN frames /\ frames'[i] = frames[i + 1]
      /\ 1 \in DOMAIN frames /\ Head(frames) = frames[1]
  BY TailFacts DEF SyncTyped, WireTyped
<1> QED
  BY <1>1 DEF ValuesTrue, FramesTrue, ItemsTrue, chain

LEMMA EmptyTrue == ASSUME frames' = <<>> PROVE FramesTrue'
  BY EmptyFacts DEF FramesTrue

LEMMA InitValues == SyncInit => ValuesTrue
<1> SUFFICES ASSUME SyncInit PROVE ValuesTrue
  OBVIOUS
<1>1. HistoryTrue
  BY DEF SyncInit, HistoryTrue, OnChain
<1>2. TableTrue(rows) /\ TableTrue(refresh.got)
  BY NoRefreshTyped DEF SyncInit, TableTrue
<1>3. ItemsTrue(session.got) /\ FramesTrue
  BY NoSessionTyped, NoItemsTyped, EmptyFacts DEF SyncInit, ItemsTrue, FramesTrue
<1> QED
  BY <1>1, <1>2, <1>3 DEF ValuesTrue

LEMMA StepValues ==
  ASSUME SyncTyped, ValuesTrue, [SyncNext]_syncVars
  PROVE  ValuesTrue'
<1>1. ASSUME NEW S \in SUBSET (Coins \ OnChain), Mine(S) PROVE ValuesTrue'
  <2>1. ChainMoves /\ frames' = frames
    BY <1>1, MineMoves DEF Mine, wire
  <2>2. FramesTrue'
    BY <2>1, ValuesMove DEF FramesTrue, ItemsTrue
  <2> QED
    BY <2>1, <2>2, ValuesMove DEF ValuesTrue
<1>2. ASSUME NEW f \in 1 .. tip - 1,
             NEW S \in SUBSET {c \in Coins : born[c] > f \/ born[c] = Absent},
             NEW h \in f + 1 .. tip + 1, Reorganise(f, S, h)
      PROVE  ValuesTrue'
  <2>1. ChainMoves
    BY <1>2, ReorganiseMoves
  <2> DEFINE moved == S \cup {c \in OnChain : born[c] > f}
             new == Pushed(f, tip', ItemsOf(S, born'), Subscribed /\ moved # {})
  <2>2. S \subseteq reborn'
    BY <1>2 DEF Reorganise
  <2>3. DOMAIN new.items = S
    BY DEF Pushed, ItemsOf
  <2>4. frames' = frames \/ frames' = Append(frames, new)
    BY <1>2 DEF Reorganise, wire
  <2> HIDE DEF new
  <2>5. frames \in Seq(Frames) /\ frames' \in Seq(Frames)
    BY <1>2, ReorganiseTyped DEF SyncTyped, WireTyped
  <2>6. \A i \in DOMAIN frames' : frames'[i] = new \/ (i \in DOMAIN frames /\ frames'[i] = frames[i])
    BY <2>4, <2>5
  <2>7. FramesTrue'
    <3> SUFFICES ASSUME NEW i \in DOMAIN frames' PROVE ItemsTrue(frames[i].items)'
      BY DEF FramesTrue
    <3>1. CASE frames'[i] = new
      BY <3>1, <2>2, <2>3 DEF ItemsTrue
    <3>2. CASE i \in DOMAIN frames /\ frames'[i] = frames[i]
      BY <3>2, <2>1, ValuesMove DEF ItemsTrue
    <3> QED
      BY <3>1, <3>2, <2>6
  <2> QED
    BY <2>1, <2>7, ValuesMove DEF ValuesTrue
<1>3. CASE PeerLearns
  <2>1. UNCHANGED <<chain, reborn, known, passed, rows, state, refresh, session>>
    BY <1>3 DEF PeerLearns, ghosts, replica
  <2>2. peerTip' \in 1 .. tip /\ Subscribed \in BOOLEAN
    BY <1>3 DEF PeerLearns, SyncTyped, ChainTyped, WireTyped, SessionTyped, Sessions, Subscribed
  <2>3. BlockFrame(peerTip', Subscribed) \in Frames /\ ItemsTrue(BlockFrame(peerTip', Subscribed).items)
    BY <2>2, BlockFrameTyped, BlockFrameTrue
  <2>4. FramesTrue'
    BY <1>3, <2>1, <2>3, AppendTrue DEF PeerLearns
  <2> QED
    BY <2>1, <2>4, ValuesKept
<1>4. CASE Connect
  <2>1. UNCHANGED <<chain, reborn, known, passed, rows, state, refresh>> /\ frames' = <<>>
        /\ session'.got = NoItems
    BY <1>4, NoSessionTyped DEF Connect, ghosts, replica, Sessions
  <2> QED
    BY <2>1, EmptyTrue, ValuesKept
<1>5. CASE Hangup
  <2>1. UNCHANGED <<chain, reborn, known, passed, rows, state, refresh>> /\ frames' = <<>>
        /\ session'.got = NoItems
    BY <1>5, NoSessionTyped DEF Hangup, ghosts, replica
  <2> QED
    BY <2>1, EmptyTrue, ValuesKept
<1>6. ASSUME NEW h \in Heights, Answer(h) PROVE ValuesTrue'
  <2>1. UNCHANGED <<chain, reborn, known, passed, rows, state, refresh>>
    BY <1>6 DEF Answer, ghosts, replica
  <2> DEFINE g == ItemsOf(Between(session.upto, h), born)
  <2>2. session'.got = g
    BY <1>6 DEF Answer, SyncTyped, SessionTyped, Sessions
  <2>3. \A c \in DOMAIN g : g[c] = born[c]
    BY DEF ItemsOf
  <2>4. ItemsTrue(session.got)'
    BY <2>1, <2>2, <2>3 DEF ItemsTrue, chain
  <2>5. FramesTrue'
    <3>1. CASE UNCHANGED frames
      BY <3>1, <2>1, ValuesStay
    <3>2. CASE h = peerTip /\ Between(h - 1, h) # {} /\ frames' = Append(frames, BlockFrame(h, TRUE))
      <4>1. h \in 1 .. tip
        <5>1. PICK c \in OnChain : born[c] <= h /\ h - 1 < born[c]
          BY <3>2 DEF Between
        <5> QED
          BY <3>2, <5>1 DEF OnChain, SyncTyped, ChainTyped, WireTyped, Absent
      <4>2. BlockFrame(h, TRUE) \in Frames /\ ItemsTrue(BlockFrame(h, TRUE).items)
        BY <4>1, BlockFrameTyped, BlockFrameTrue
      <4> QED
        BY <3>2, <2>1, <4>2, AppendTrue
    <3> QED
      BY <1>6, <3>1, <3>2 DEF Answer
  <2> QED
    BY <2>1, <2>4, <2>5, ValuesStay DEF ValuesTrue
<1>7. CASE ReadEpoch
  <2>1. UNCHANGED <<chain, reborn, known, passed, rows, state, refresh, frames>>
        /\ session'.got = session.got
    BY <1>7 DEF ReadEpoch, ghosts, replica, wire, SyncTyped, SessionTyped, Sessions
  <2> QED
    BY <2>1, ValuesStay DEF ValuesTrue
<1>8. CASE WriteBatch \/ WriteItems
  <2>1. UNCHANGED <<chain, reborn, known, passed, state, refresh, frames>>
        /\ session'.got = NoItems /\ Upsert(session.got)
    BY <1>8 DEF WriteBatch, WriteItems, ghosts, wire, SyncTyped, SessionTyped, Sessions
  <2>2. TableTrue(rows)'
    BY <2>1, UpsertTrue DEF ValuesTrue, SyncTyped, SessionTyped
  <2> QED
    BY <2>1, <2>2, ValuesStay DEF ValuesTrue
<1>9. CASE Complete
  <2> DEFINE armed == Max({session.upto} \cup {rows[c] : c \in Coins})
  <2>1. UNCHANGED <<chain, refresh, rows, known, reborn>>
    BY <1>9 DEF Complete
  <2>2. CASE SameEpoch(session.epoch)
    <3>1. /\ state' = [state EXCEPT !.peak = session.upto, !.synced = TRUE,
                 !.baseline = IF state.baseline = NoBaseline THEN armed ELSE state.baseline]
          /\ passed' = IF state.baseline = NoBaseline THEN passed \cup Between(0, armed) ELSE passed
          /\ session' = Following /\ UNCHANGED wire
      BY <1>9, <2>2 DEF Complete
    <3>2. armed \in Nat
      <4>1. tip \in Nat /\ session.upto \in 0 .. tip /\ rows \in [Coins -> 0 .. tip]
        BY DEF SyncTyped, ChainTyped, SessionTyped, Sessions, ReplicaTyped
      <4>2. armed \in 0 .. tip
        BY <4>1, MaxOfTable
      <4> QED
        BY <4>1, <4>2
    <3> HIDE DEF armed
    <3>3. HistoryTrue'
      <4>1. state'.baseline # NoBaseline
        BY <3>1, <3>2, StateTyped DEF NoBaseline
      <4> QED
        BY <4>1, <2>1, <3>1 DEF ValuesTrue, HistoryTrue, Between, OnChain, chain
    <3>4. session'.got = NoItems /\ frames' = frames
      BY <3>1, FollowingFields DEF wire
    <3> QED
      BY <2>1, <3>3, <3>4, ValuesStay DEF ValuesTrue
  <2>3. CASE ~ SameEpoch(session.epoch)
    <3>1. UNCHANGED <<state, passed>> /\ session' = NoSession /\ frames' = <<>>
      BY <1>9, <2>3 DEF Complete
    <3> QED
      BY <2>1, <3>1, NoSessionTyped, EmptyTrue, ValuesKept
  <2> QED
    BY <2>2, <2>3
<1>10. CASE TakePeak
  <2>1. UNCHANGED <<chain, reborn, known, passed, rows, refresh, session>>
        /\ state'.baseline = state.baseline /\ frames # <<>> /\ frames' = Tail(frames)
    BY <1>10, StateTyped DEF TakePeak, ghosts
  <2> QED
    BY <2>1, TailTrue, ValuesKept
<1>11. CASE TakeFrame
  <2>1. UNCHANGED <<chain, reborn, known, passed, rows, refresh, state>> /\ frames # <<>>
    BY <1>11 DEF TakeFrame, ghosts, replica
  <2>2. \/ session'.got = NoItems /\ frames' = <<>>
        \/ session'.got = Head(frames).items /\ frames' = Tail(frames)
    BY <1>11, NoSessionTyped DEF TakeFrame, SyncTyped, SessionTyped, Sessions
  <2>3. CASE session'.got = NoItems /\ frames' = <<>>
    BY <2>1, <2>3, EmptyTrue, ValuesKept
  <2>4. CASE session'.got = Head(frames).items /\ frames' = Tail(frames)
    <3>1. FramesTrue' /\ ItemsTrue(Head(frames).items)
      BY <2>1, <2>4, TailTrue
    <3>2. ItemsTrue(session.got)'
      BY <2>1, <2>4, <3>1 DEF ItemsTrue, chain
    <3> QED
      BY <2>1, <3>1, <3>2, ValuesStay DEF ValuesTrue
  <2> QED
    BY <2>2, <2>3, <2>4
<1>12. CASE Rollback
  <2>1. UNCHANGED <<chain, reborn, known, passed, refresh, frames>>
        /\ session'.got = session.got
    BY <1>12 DEF Rollback, wire, Goes, SyncTyped, SessionTyped, Sessions
  <2>2. \A c \in Coins : rows'[c] = Absent \/ rows'[c] = rows[c]
    BY <1>12 DEF Rollback
  <2>3. TableTrue(rows)'
    BY <2>1, <2>2 DEF ValuesTrue, TableTrue, chain
  <2>4. state'.baseline = NoBaseline => state.baseline = NoBaseline
    BY <1>12, StateTyped DEF Rollback, BaselineAfter, NoBaseline, SyncTyped, SessionTyped, Sessions
  <2>5. HistoryTrue'
    BY <2>1, <2>4 DEF ValuesTrue, HistoryTrue, OnChain, chain
  <2> QED
    BY <2>1, <2>3, <2>5, ValuesStay DEF ValuesTrue
<1>13. CASE ClearSynced \/ RecordPeak
  <2>1. UNCHANGED <<chain, reborn, known, passed, rows, refresh, frames>>
        /\ session'.got = session.got /\ state'.baseline = state.baseline
    BY <1>13, StateTyped DEF ClearSynced, RecordPeak, wire, ghosts, Goes, SyncTyped, SessionTyped, Sessions
  <2> QED
    BY <2>1, ValuesStay, ValuesKept
<1>14. CASE FrameArrivals
  <2>1. UNCHANGED <<chain, reborn, known, passed, rows, refresh, frames>>
        /\ session'.got = NoItems
    BY <1>14, FollowingFields DEF FrameArrivals, wire
  <2>2. state'.baseline = NoBaseline => state.baseline = NoBaseline
    <3>1. session.height \in 0 .. tip
      BY StateTyped DEF SyncTyped, SessionTyped, Sessions
    <3>2. CASE RecordArrivals(session.height)
      BY <3>1, <3>2, RecordTyped, StateTyped DEF NoBaseline
    <3> QED
      BY <1>14, <3>2 DEF FrameArrivals
  <2> QED
    BY <2>1, <2>2, ValuesStay, ValuesKept
<1>15. CASE RefreshBegin \/ RefreshLatch
  <2>1. UNCHANGED <<chain, reborn, known, passed, rows, session, frames>>
        /\ refresh'.got = refresh.got /\ state'.baseline = state.baseline
    <3>1. CASE RefreshBegin
      BY <3>1, RefreshKinds DEF RefreshBegin, Refreshes, wire, ghosts, replica
    <3>2. CASE RefreshLatch
      BY <3>2, StateTyped, RefreshKinds DEF RefreshLatch, Refreshes, wire
    <3> QED
      BY <1>15, <3>1, <3>2
  <2> QED
    BY <2>1, ValuesStay, ValuesKept
<1>16. ASSUME NEW h \in 0 .. tip, RefreshFetch(h) PROVE ValuesTrue'
  <2>1. UNCHANGED <<chain, reborn, known, passed, rows, session, frames, state>>
        /\ refresh'.got = FirstRead(h)
    BY <1>16, FirstReadIs, RefreshKinds DEF RefreshFetch, Refreshes, wire, ghosts, replica
  <2>2. TableTrue(refresh.got)'
    BY <2>1 DEF TableTrue, FirstRead, chain
  <2> QED
    BY <2>1, <2>2, ValuesStay DEF ValuesTrue
<1>22. ASSUME NEW S \in SUBSET OnChain, RefreshHints(S) PROVE ValuesTrue'
  <2>1. UNCHANGED <<chain, reborn, known, rows, session, frames, state>>
    BY <1>22 DEF RefreshHints, wire, replica
  <2>2. TableTrue(refresh.got)'
    BY <1>22, <2>1, BothReadsAre DEF ValuesTrue, TableTrue, chain
  <2>3. HistoryTrue'
    BY <1>22, <2>1, BothReadsAre DEF ValuesTrue, HistoryTrue, OnChain, chain
  <2> QED
    BY <2>1, <2>2, <2>3, ValuesStay DEF ValuesTrue
<1>17. CASE RefreshWrite
  <2>1. UNCHANGED <<chain, reborn, known, passed, session, frames, state>>
        /\ refresh'.got = NothingRead /\ Upsert(ItemsOf(Fetched, refresh.got))
    BY <1>17, RefreshKinds DEF RefreshWrite, Refreshes, wire, ghosts
  <2>2. ItemsTrue(ItemsOf(Fetched, refresh.got))
    BY FetchedItems DEF ItemsTrue, ValuesTrue, TableTrue, Fetched
  <2>3. TableTrue(rows)'
    BY <2>1, <2>2, FetchedItems, UpsertTrue
  <2>4. TableTrue(refresh.got)'
    BY <2>1 DEF NothingRead, TableTrue
  <2> QED
    BY <2>1, <2>3, <2>4, ValuesStay DEF ValuesTrue
<1>18. CASE RefreshArrivals
  <2>1. UNCHANGED <<chain, reborn, known, passed, rows, session, frames>>
        /\ refresh' = NoRefresh /\ RecordArrivals(Through)
    BY <1>18 DEF RefreshArrivals, wire, Through
  <2>2. state'.baseline = NoBaseline => state.baseline = NoBaseline
    BY <2>1, ThroughTyped, RecordTyped, StateTyped DEF NoBaseline
  <2> QED
    BY <2>1, <2>2, ValuesStay, ValuesKept
<1>19. CASE RefreshGone
  <2>1. UNCHANGED <<chain, reborn, known, passed, rows, session, frames, state>>
        /\ refresh' = NoRefresh
    BY <1>19 DEF RefreshGone, wire, ghosts, replica
  <2> QED
    BY <2>1, ValuesStay, ValuesKept
<1>20. CASE Reset
  <2>1. UNCHANGED <<chain, reborn, passed, session, frames, refresh>>
        /\ known' = OnChain /\ rows' = [c \in Coins |-> Absent]
        /\ state'.baseline = state.baseline
    BY <1>20, StateTyped DEF Reset, wire
  <2>2. HistoryTrue'
    BY <2>1 DEF ValuesTrue, HistoryTrue, OnChain, chain
  <2>3. TableTrue(rows)'
    BY <2>1 DEF TableTrue
  <2> QED
    BY <2>1, <2>2, <2>3, ValuesStay DEF ValuesTrue
<1>21. CASE UNCHANGED syncVars
  <2>1. UNCHANGED <<chain, reborn, known, passed, rows, session, frames, state, refresh>>
    BY <1>21 DEF syncVars, ghosts, wire, replica
  <2> QED
    BY <2>1, ValuesStay DEF ValuesTrue
<1> QED
  BY <1>1, <1>2, <1>3, <1>4, <1>5, <1>6, <1>7, <1>8, <1>9, <1>10, <1>11, <1>12, <1>13,
     <1>14, <1>15, <1>16, <1>17, <1>18, <1>19, <1>20, <1>21, <1>22
     DEF SyncNext, CatchUp, Frame, Refresh

----------------------------------------------------------------------------
(* The frames of a session join up with what it has done.                  *)

LEMMA WireKinds ==
  SyncTyped => /\ frames \in Seq(Frames) /\ tip \in Nat /\ peerTip \in 0 .. tip /\ peerTip \in Nat
               /\ Len(frames) \in Nat /\ DOMAIN frames = 1 .. Len(frames)
               /\ \A i \in DOMAIN frames :
                     /\ frames[i].fork \in Nat /\ frames[i].height \in Nat
                     /\ frames[i].fork < frames[i].height
                     /\ frames[i].kind \in {"coins", "peak"}
<1> SUFFICES ASSUME SyncTyped
             PROVE  /\ frames \in Seq(Frames) /\ tip \in Nat /\ peerTip \in 0 .. tip
                    /\ \A i \in DOMAIN frames :
                          /\ frames[i].fork \in Nat /\ frames[i].height \in Nat
                          /\ frames[i].fork < frames[i].height
                          /\ frames[i].kind \in {"coins", "peak"}
  OBVIOUS
<1>1. /\ frames \in Seq(Frames) /\ tip \in Nat /\ peerTip \in 0 .. tip
      /\ \A i \in DOMAIN frames : frames[i] \in Frames /\ FrameBelow(frames[i], tip)
  BY DEF SyncTyped, WireTyped, ChainTyped
<1> QED
  BY <1>1 DEF FrameBelow, Frames

LEMMA SessionKinds ==
  SyncTyped => /\ session \in Sessions /\ session.pc \in Steps /\ session.epoch \in Int
               /\ session.upto \in Nat /\ session.fork \in Nat /\ session.height \in Nat
               /\ session.finished \in BOOLEAN
               /\ session.upto <= tip /\ session.fork <= tip /\ session.height <= tip
  BY DEF SyncTyped, SessionTyped, Sessions

LEMMA JoinedKept ==
  ASSUME Joined, UNCHANGED <<frames, peerTip>>, session'.pc = session.pc,
         session'.upto = session.upto, session'.finished = session.finished,
         session'.fork = session.fork, session'.height = session.height,
         state'.peak = state.peak
  PROVE  Joined' /\ Base' = Base
  BY DEF Joined, QueueJoined, BaseJoined, Phases, Base, InCatchUp, InFrame

LEMMA AppendJoined ==
  ASSUME SyncTyped, QueueJoined, NEW n \in Frames, frames' = Append(frames, n),
         n.fork <= peerTip, n.height = peerTip', peerTip <= peerTip', peerTip' \in Nat
  PROVE  /\ QueueJoined' /\ frames' # <<>>
         /\ frames = <<>> => frames'[1] = n
         /\ frames # <<>> => frames'[1] = frames[1]
<1> DEFINE k == Len(frames)
<1>1. /\ frames' # <<>> /\ k \in Nat /\ DOMAIN frames = 1 .. k
      /\ Len(frames') = k + 1 /\ DOMAIN frames' = 1 .. k + 1
      /\ \A i \in DOMAIN frames : frames'[i] = frames[i]
      /\ frames'[k + 1] = n
  BY WireKinds, AppendFacts
<1>2. \A i \in DOMAIN frames : frames[i].height \in Nat /\ frames[i].height <= peerTip
  BY WireKinds DEF QueueJoined
<1>3. peerTip \in Nat /\ n.fork \in Nat
  BY WireKinds DEF Frames
<1>4. frames = <<>> <=> k = 0
  BY WireKinds
<1> HIDE DEF k
<1>5. \A i \in DOMAIN frames' : frames'[i].height <= peerTip'
  BY <1>1, <1>2, <1>3
<1>6. ASSUME NEW i \in DOMAIN frames', i > 1
      PROVE  frames'[i].fork <= frames'[i - 1].height
  <2>1. CASE i = k + 1
    <3>1. i - 1 = k /\ k \in DOMAIN frames /\ frames # <<>>
      BY <2>1, <1>1, <1>4, <1>6
    <3>2. frames'[k] = frames[k] /\ frames[k].height = peerTip
      BY <3>1, <1>1 DEF QueueJoined, k
    <3> QED
      BY <2>1, <3>1, <3>2, <1>1
  <2>2. CASE i \in 1 .. k
    <3>1. i \in DOMAIN frames /\ i - 1 \in DOMAIN frames
      BY <2>2, <1>1, <1>6
    <3>2. frames[i].fork <= frames[i - 1].height
      BY <3>1, <1>6 DEF QueueJoined
    <3> QED
      BY <3>1, <3>2, <1>1
  <2>3. i \in 1 .. k + 1 /\ k \in Nat
    BY <1>1, <1>6
  <2>4. i = k + 1 \/ i \in 1 .. k
    BY <2>3
  <2> QED
    BY <2>1, <2>2, <2>4
<1>7. QueueJoined'
  BY <1>1, <1>5, <1>6 DEF QueueJoined
<1>8. frames = <<>> => frames'[1] = n
  BY <1>1, <1>4
<1>9. frames # <<>> => frames'[1] = frames[1]
  BY <1>1, <1>4
<1> QED
  BY <1>1, <1>7, <1>8, <1>9

LEMMA TailJoined ==
  ASSUME SyncTyped, QueueJoined, frames # <<>>, frames' = Tail(frames), peerTip' = peerTip
  PROVE  /\ QueueJoined'
         /\ frames' = <<>> => frames[1].height = peerTip
         /\ frames' # <<>> => frames'[1].fork <= frames[1].height
<1> DEFINE k == Len(frames)
<1>1. /\ k \in Nat \ {0} /\ DOMAIN frames = 1 .. k /\ 1 \in DOMAIN frames
      /\ Len(frames') = k - 1 /\ DOMAIN frames' = 1 .. k - 1
      /\ \A i \in DOMAIN frames' : i + 1 \in DOMAIN frames /\ frames'[i] = frames[i + 1]
      /\ frames' = <<>> <=> k = 1
  BY WireKinds, TailFacts
<1>2. frames[k].height = peerTip
  BY DEF QueueJoined
<1> HIDE DEF k
<1>3. \A i \in DOMAIN frames' : frames'[i].height <= peerTip'
  BY <1>1 DEF QueueJoined
<1>4. ASSUME NEW i \in DOMAIN frames', i > 1
      PROVE  frames'[i].fork <= frames'[i - 1].height
  <2>1. i + 1 \in DOMAIN frames /\ i + 1 > 1 /\ (i + 1) - 1 = i /\ i - 1 \in DOMAIN frames'
        /\ (i - 1) + 1 = i
    BY <1>1, <1>4
  <2>2. frames[i + 1].fork <= frames[i].height
    BY <2>1 DEF QueueJoined
  <2> QED
    BY <2>1, <2>2, <1>1
<1>5. frames' # <<>> => frames'[Len(frames')].height = peerTip'
  <2> SUFFICES ASSUME frames' # <<>> PROVE frames'[k - 1].height = peerTip
    BY <1>1
  <2>1. k - 1 \in DOMAIN frames' /\ (k - 1) + 1 = k
    BY <1>1
  <2> QED
    BY <2>1, <1>1, <1>2
<1>6. QueueJoined'
  BY <1>3, <1>4, <1>5 DEF QueueJoined
<1>7. frames' = <<>> => frames[1].height = peerTip
  BY <1>1, <1>2
<1>8. frames' # <<>> => frames'[1].fork <= frames[1].height
  <2> SUFFICES ASSUME frames' # <<>> PROVE frames'[1].fork <= frames[1].height
    OBVIOUS
  <2>1. 1 \in DOMAIN frames' /\ 2 \in DOMAIN frames /\ frames'[1] = frames[2] /\ 2 - 1 = 1
    BY <1>1
  <2> QED
    BY <2>1 DEF QueueJoined
<1> QED
  BY <1>6, <1>7, <1>8

LEMMA EmptyJoined ==
  ASSUME frames' = <<>>
  PROVE  QueueJoined'
  BY EmptyFacts DEF QueueJoined

LEMMA DroppedJoined ==
  ASSUME frames' = <<>>, session' = NoSession
  PROVE  Joined'
  BY EmptyJoined, NoSessionFields DEF Joined, BaseJoined, Phases, InCatchUp, InFrame

LEMMA InitJoined == SyncInit => Joined
  BY EmptyFacts, NoSessionFields
     DEF SyncInit, Joined, QueueJoined, BaseJoined, Phases, InCatchUp, InFrame

(* A frame that forks below what the replica has, or not past it.          *)
LEMMA TakenFrame ==
  ASSUME SyncTyped, TakeFrame, ~ (frames' = <<>> /\ session' = NoSession)
  PROVE  LET f == frames[1] IN
         /\ frames # <<>> /\ Head(frames) = f /\ 1 \in DOMAIN frames /\ f.kind = "coins"
         /\ session.pc = "follow" /\ frames' = Tail(frames) /\ peerTip' = peerTip
         /\ session'.fork = f.fork /\ session'.height = f.height /\ session'.got = f.items
         /\ session'.upto = session.upto /\ session'.finished = session.finished
         /\ session'.epoch = session.epoch
         /\ session'.pc \in {"rollback", "clear", "items"}
         /\ session'.pc # "rollback" => state.peak <= f.fork
<1> DEFINE f == Head(frames)
           depth == Max({0, state.peak - f.fork})
           spent == session.spent + depth
<1>1. frames # <<>> /\ f.kind = "coins" /\ session.pc = "follow"
  BY DEF TakeFrame
<1>2. f = frames[1] /\ 1 \in DOMAIN frames
  BY <1>1, HeadTyped
<1>3. Allowed(depth, spent)
  BY DEF TakeFrame
<1>4. /\ session' = [session EXCEPT
                !.fork = f.fork, !.height = f.height, !.got = f.items, !.spent = spent,
                !.pc = IF depth > 0 THEN "rollback"
                       ELSE IF f.height < state.peak THEN "clear" ELSE "items"]
      /\ frames' = Tail(frames) /\ UNCHANGED peerTip
  BY <1>3 DEF TakeFrame
<1>5. depth <= 0 => state.peak <= f.fork
  <2>1. state.peak \in Int /\ f.fork \in Int /\ state.peak - f.fork \in Int
    BY <1>2, WireKinds, StateTyped
  <2>2. depth = IF 0 <= state.peak - f.fork THEN state.peak - f.fork ELSE 0
    BY <2>1, MaxOfTwo
  <2> QED
    BY <2>1, <2>2
<1>6. depth \in Int
  <2>1. state.peak \in Int /\ f.fork \in Int /\ state.peak - f.fork \in Int
    BY <1>2, WireKinds, StateTyped
  <2> QED
    BY <2>1, MaxOfTwo
<1> HIDE DEF f, depth, spent
<1>7. /\ session'.fork = f.fork /\ session'.height = f.height /\ session'.got = f.items
      /\ session'.upto = session.upto /\ session'.finished = session.finished
      /\ session'.epoch = session.epoch
      /\ session'.pc = IF depth > 0 THEN "rollback"
                       ELSE IF f.height < state.peak THEN "clear" ELSE "items"
  BY <1>4, SessionKinds DEF Sessions
<1> QED
  BY <1>1, <1>2, <1>4, <1>5, <1>6, <1>7 DEF f

LEMMA StepJoined ==
  ASSUME SyncTyped, Joined, [SyncNext]_syncVars
  PROVE  Joined'
<1>t. SyncTyped'
  BY StepTyped
<1>1. ASSUME NEW S \in SUBSET (Coins \ OnChain), Mine(S) PROVE Joined'
  BY <1>1, JoinedKept DEF Mine, wire, replica
<1>2. ASSUME NEW f \in 1 .. tip - 1,
             NEW S \in SUBSET {c \in Coins : born[c] > f \/ born[c] = Absent},
             NEW h \in f + 1 .. tip + 1, Reorganise(f, S, h)
      PROVE  Joined'
  <2>1. ChainMoves /\ state' = state
    BY <1>2, ReorganiseMoves DEF ChainMoves, replica
  <2> DEFINE moved == S \cup {c \in OnChain : born[c] > f}
             n == Pushed(f, tip', ItemsOf(S, born'), Subscribed /\ moved # {})
  <2>2. CASE UNCHANGED wire
    BY <2>1, <2>2, JoinedKept DEF ChainMoves, wire
  <2>3. CASE Connected /\ peerTip > f /\ peerTip' = tip' /\ frames' = Append(frames, n)
    <3>1. n.fork = f /\ n.height = tip'
      BY DEF Pushed
    <3>2. n \in Frames
      <4>1. frames' \in Seq(Frames) /\ Len(frames) + 1 \in DOMAIN frames'
            /\ frames'[Len(frames) + 1] = n
        <5> HIDE DEF n
        <5> QED
          BY <1>t, <2>3, WireKinds DEF SyncTyped, WireTyped
      <4> QED
        BY <4>1
    <3> HIDE DEF n
    <3>3. n.fork <= peerTip /\ peerTip <= peerTip' /\ peerTip' \in Nat /\ n.height = peerTip'
      BY <2>1, <2>3, <3>1, WireKinds DEF ChainMoves
    <3>4. /\ QueueJoined' /\ frames' # <<>>
          /\ frames = <<>> => frames'[1] = n
          /\ frames # <<>> => frames'[1] = frames[1]
      BY <2>3, <3>2, <3>3, AppendJoined DEF Joined
    <3>5. Base' = Base
      BY <2>1 DEF ChainMoves, Base, InCatchUp, InFrame
    <3>6. Base \in Nat
      BY SessionKinds, StateTyped DEF Base
    <3>7. BaseJoined'
      BY <2>1, <3>3, <3>4, <3>5, <3>6, WireKinds, <1>t, <3>2 DEF Joined, BaseJoined, ChainMoves, Frames
    <3>8. Phases'
      BY <2>1, <2>3, <3>3, SessionKinds, WireKinds
         DEF Joined, Phases, ChainMoves, InCatchUp, InFrame, Connected
    <3> QED
      BY <3>4, <3>7, <3>8 DEF Joined
  <2> QED
    BY <1>2, <2>2, <2>3 DEF Reorganise
<1>3. CASE PeerLearns
  <2>1. /\ UNCHANGED <<session, state>> /\ peerTip < tip /\ peerTip' = peerTip + 1 /\ Connected
        /\ frames' = Append(frames, BlockFrame(peerTip', Subscribed))
    BY <1>3 DEF PeerLearns, replica
  <2> DEFINE n == BlockFrame(peerTip', Subscribed)
  <2>2. peerTip' \in 1 .. tip /\ Subscribed \in BOOLEAN /\ peerTip' \in Nat /\ peerTip \in Nat
    BY <2>1, WireKinds, SessionKinds DEF Subscribed
  <2>3. n \in Frames /\ n.fork = peerTip' - 1 /\ n.height = peerTip'
    BY <2>2, BlockFrameTyped
  <2> HIDE DEF n
  <2>4. n.fork = peerTip
    BY <2>1, <2>2, <2>3
  <2>5. /\ QueueJoined' /\ frames' # <<>>
        /\ frames = <<>> => frames'[1] = n
        /\ frames # <<>> => frames'[1] = frames[1]
    <3>1. frames' = Append(frames, n) /\ n.fork <= peerTip /\ peerTip <= peerTip'
      BY <2>1, <2>2, <2>4 DEF n
    <3> QED
      BY <2>2, <2>3, <3>1, AppendJoined DEF Joined
  <2>6. Base' = Base
    BY <2>1 DEF Base, InCatchUp, InFrame
  <2>7. BaseJoined'
    BY <2>1, <2>4, <2>5, <2>6 DEF Joined, BaseJoined
  <2>8. Phases'
    BY <2>1, <2>2, SessionKinds DEF Joined, Phases, InCatchUp, InFrame, Connected
  <2> QED
    BY <2>5, <2>7, <2>8 DEF Joined
<1>4. CASE Connect
  <2>1. frames' = <<>> /\ session'.pc = "ask" /\ session'.upto = 0 /\ session'.finished = FALSE
        /\ peerTip' \in Nat
    BY <1>4, NoSessionTyped, NoSessionFields, <1>t, WireKinds DEF Connect, Sessions
  <2> QED
    BY <2>1, EmptyJoined DEF Joined, BaseJoined, Phases, InCatchUp, InFrame
<1>5. CASE Hangup
  BY <1>5, DroppedJoined DEF Hangup
<1>6. ASSUME NEW h \in Heights, Answer(h) PROVE Joined'
  <2>1. /\ session'.upto = h /\ session'.finished = (h = peerTip)
        /\ session'.pc \in {"epoch", "write"} /\ peerTip' = peerTip
        /\ h \in session.upto .. peerTip
    BY <1>6, SessionKinds DEF Answer, Sessions
  <2>2. Base' = h /\ h \in Nat /\ h <= peerTip /\ peerTip \in Nat
    BY <2>1, SessionKinds, WireKinds DEF Base, InCatchUp
  <2>3. Phases'
    BY <2>1, <2>2 DEF Phases, InCatchUp, InFrame
  <2>4. CASE UNCHANGED frames
    <3>1. QueueJoined'
      BY <2>1, <2>4 DEF Joined, QueueJoined
    <3>2. BaseJoined'
      <4>1. ASSUME frames # <<>> PROVE frames[1].fork <= peerTip
        BY <4>1, WireKinds, HeadTyped DEF Joined, QueueJoined
      <4> QED
        BY <2>1, <2>2, <2>4, <4>1 DEF BaseJoined
    <3> QED
      BY <2>3, <3>1, <3>2 DEF Joined
  <2>5. CASE h = peerTip /\ Between(h - 1, h) # {} /\ frames' = Append(frames, BlockFrame(h, TRUE))
    <3> DEFINE n == BlockFrame(h, TRUE)
    <3>1. h \in 1 .. tip
      <4>1. PICK c \in OnChain : born[c] <= h /\ h - 1 < born[c]
        BY <2>5 DEF Between
      <4> QED
        BY <2>5, <4>1, WireKinds DEF OnChain, SyncTyped, ChainTyped, Absent
    <3>2. n \in Frames /\ n.fork = h - 1 /\ n.height = h
      BY <3>1, BlockFrameTyped
    <3>3. frames' = Append(frames, n)
      BY <2>5
    <3> HIDE DEF n
    <3>3a. n.fork <= peerTip /\ n.height = peerTip' /\ peerTip <= peerTip' /\ peerTip' \in Nat
      BY <2>1, <2>2, <2>5, <3>2
    <3>4. /\ QueueJoined' /\ frames' # <<>>
          /\ frames = <<>> => frames'[1] = n
          /\ frames # <<>> => frames'[1] = frames[1]
      BY <3>2, <3>3, <3>3a, AppendJoined DEF Joined
    <3>5. BaseJoined'
      <4>1. ASSUME frames # <<>> PROVE frames[1].fork <= peerTip
        BY <4>1, WireKinds, HeadTyped DEF Joined, QueueJoined
      <4> QED
        BY <2>2, <2>5, <3>3a, <3>4, <4>1 DEF BaseJoined
    <3> QED
      BY <2>3, <3>4, <3>5 DEF Joined
  <2> QED
    BY <1>6, <2>4, <2>5 DEF Answer
<1>7. CASE ReadEpoch \/ WriteBatch
  <2>1. /\ UNCHANGED <<frames, peerTip>> /\ session'.upto = session.upto
        /\ session'.finished = session.finished
        /\ session.pc \in {"epoch", "write"}
        /\ \/ session'.pc \in {"write"}
           \/ session'.pc = "complete" /\ session.finished
           \/ session'.pc = "ask" /\ ~ session.finished
    BY <1>7, SessionKinds DEF ReadEpoch, WriteBatch, wire, Sessions
  <2>2. Base' = Base
    BY <2>1 DEF Base, InCatchUp
  <2> QED
    BY <2>1, <2>2 DEF Joined, QueueJoined, BaseJoined, Phases, InCatchUp, InFrame
<1>8. CASE Complete
  <2>1. CASE SameEpoch(session.epoch)
    <3>1. /\ UNCHANGED <<frames, peerTip>> /\ session' = Following
          /\ state'.peak = session.upto /\ session.pc = "complete"
      BY <1>8, <2>1, StateTyped DEF Complete, wire
    <3>2. session'.pc = "follow" /\ session'.finished = TRUE
      BY <3>1, FollowingFields
    <3>3. Base' = Base /\ session.finished
      BY <3>1, <3>2 DEF Base, InCatchUp, InFrame, Joined, Phases
    <3> QED
      BY <3>1, <3>2, <3>3 DEF Joined, QueueJoined, BaseJoined, Phases, InCatchUp, InFrame
  <2>2. CASE ~ SameEpoch(session.epoch)
    BY <1>8, <2>2, DroppedJoined DEF Complete
  <2> QED
    BY <2>1, <2>2
<1>9. CASE TakePeak
  <2>1. /\ frames # <<>> /\ frames' = Tail(frames) /\ UNCHANGED <<peerTip, session>>
        /\ session.pc = "follow" /\ state'.peak = Max({state.peak, Head(frames).height})
    BY <1>9, StateTyped DEF TakePeak
  <2>2. /\ QueueJoined'
        /\ frames' = <<>> => frames[1].height = peerTip
        /\ frames' # <<>> => frames'[1].fork <= frames[1].height
    BY <2>1, TailJoined DEF Joined
  <2>3. Head(frames) = frames[1] /\ frames[1].height \in Nat /\ state.peak \in Nat
    BY <2>1, HeadTyped, WireKinds, StateTyped
  <2>4. state'.peak \in Nat /\ frames[1].height <= state'.peak
    BY <2>1, <2>3, MaxOfTwo
  <2>5. Base' = state'.peak
    BY <2>1 DEF Base, InCatchUp, InFrame
  <2>6. frames' # <<>> => frames'[1].fork \in Nat
    <3>1. frames' \in Seq(Frames)
      BY <1>t DEF SyncTyped, WireTyped
    <3>2. frames' # <<>> => frames'[1] \in Frames
      BY <3>1
    <3> QED
      BY <3>2 DEF Frames
  <2>7. BaseJoined'
    BY <2>2, <2>3, <2>4, <2>5, <2>6, WireKinds, <2>1 DEF BaseJoined
  <2>8. Phases'
    BY <2>1 DEF Joined, Phases, InCatchUp, InFrame
  <2> QED
    BY <2>2, <2>7, <2>8 DEF Joined
<1>10. CASE TakeFrame
  <2>1. CASE frames' = <<>> /\ session' = NoSession
    BY <2>1, DroppedJoined
  <2>2. CASE ~ (frames' = <<>> /\ session' = NoSession)
    <3>1. /\ frames # <<>> /\ 1 \in DOMAIN frames
          /\ session.pc = "follow" /\ frames' = Tail(frames) /\ peerTip' = peerTip
          /\ session'.fork = frames[1].fork /\ session'.height = frames[1].height
          /\ session'.finished = session.finished
          /\ session'.pc \in {"rollback", "clear", "items"}
          /\ session'.pc # "rollback" => state.peak <= frames[1].fork
          /\ state' = state
      BY <1>10, <2>2, TakenFrame DEF TakeFrame, replica
    <3>2. /\ QueueJoined'
          /\ frames' = <<>> => frames[1].height = peerTip
          /\ frames' # <<>> => frames'[1].fork <= frames[1].height
      BY <3>1, TailJoined DEF Joined
    <3>3. session.finished /\ frames[1].fork <= state.peak /\ Base' = frames[1].height
      BY <3>1 DEF Joined, BaseJoined, Phases, Base, InCatchUp, InFrame
    <3>4. /\ frames[1].fork \in Nat /\ frames[1].height \in Nat /\ state.peak \in Nat
          /\ frames[1].fork < frames[1].height
      BY <3>1, WireKinds, StateTyped
    <3>5. BaseJoined'
      BY <3>1, <3>2, <3>3, <3>4, WireKinds DEF BaseJoined
    <3>6. session'.pc # "rollback" => state'.peak = session'.fork
      BY <3>1, <3>3, <3>4
    <3>7. Phases'
      BY <3>1, <3>3, <3>4, <3>6 DEF Phases, InCatchUp, InFrame
    <3> QED
      BY <3>2, <3>5, <3>7 DEF Joined
  <2> QED
    BY <2>1, <2>2
<1>11. CASE Rollback \/ ClearSynced \/ WriteItems \/ RecordPeak
  <2>1. /\ UNCHANGED <<frames, peerTip>> /\ session'.finished = session.finished
        /\ session'.fork = session.fork /\ session'.height = session.height
        /\ \/ session.pc = "rollback" /\ session'.pc = "clear" /\ state'.peak = session.fork
           \/ session.pc = "clear" /\ session'.pc = "items" /\ state'.peak = state.peak
           \/ session.pc = "items" /\ session'.pc = "peak" /\ state'.peak = state.peak
           \/ session.pc = "peak" /\ session'.pc = "arrive" /\ state'.peak = session.height
    BY <1>11, SessionKinds, StateTyped
       DEF Rollback, ClearSynced, WriteItems, RecordPeak, wire, Goes, Sessions
  <2>2. Base' = Base
    BY <2>1 DEF Base, InCatchUp, InFrame
  <2> QED
    BY <2>1, <2>2 DEF Joined, QueueJoined, BaseJoined, Phases, InCatchUp, InFrame
<1>12. CASE FrameArrivals
  <2>1. /\ UNCHANGED <<frames, peerTip>> /\ session'.pc = "follow" /\ session'.finished = TRUE
        /\ session.pc = "arrive"
    BY <1>12, FollowingFields DEF FrameArrivals, wire
  <2>2. state'.peak = state.peak
    <3>1. session.height \in 0 .. tip
      BY SessionKinds, StateTyped
    <3>2. CASE RecordArrivals(session.height)
      BY <3>1, <3>2, RecordTyped, StateTyped
    <3> QED
      BY <1>12, <3>2 DEF FrameArrivals
  <2>3. Base' = Base /\ session.finished
    BY <2>1, <2>2 DEF Base, InCatchUp, InFrame, Joined, Phases
  <2> QED
    BY <2>1, <2>3 DEF Joined, QueueJoined, BaseJoined, Phases, InCatchUp, InFrame
<1>13. CASE Refresh \/ Reset \/ UNCHANGED syncVars
  <2>1. UNCHANGED <<frames, peerTip, session>>
    BY <1>13 DEF Refresh, RefreshBegin, RefreshFetch, RefreshHints, RefreshWrite, RefreshLatch,
                 RefreshArrivals, RefreshGone, Reset, syncVars, wire
  <2>2. state'.peak = state.peak
    <3>1. CASE RefreshArrivals
      BY <3>1, ThroughTyped, RecordTyped, StateTyped DEF RefreshArrivals, Through
    <3> QED
      BY <1>13, <3>1, StateTyped
         DEF Refresh, RefreshBegin, RefreshFetch, RefreshHints, RefreshWrite, RefreshLatch,
             RefreshGone, Reset, syncVars, replica
  <2> QED
    BY <2>1, <2>2, JoinedKept
<1> QED
  BY <1>1, <1>2, <1>3, <1>4, <1>5, <1>6, <1>7, <1>8, <1>9, <1>10, <1>11, <1>12, <1>13
     DEF SyncNext, CatchUp, Frame

----------------------------------------------------------------------------
(* The frames tell of every coin they should.                              *)

LEMMA UnmovedFacts ==
  SyncTyped => \A c \in Unmoved : c \in Coins /\ born[c] \in 1 .. tip /\ born[c] \in Nat
  BY DEF SyncTyped, ChainTyped, Unmoved, OnChain, Absent

LEMMA FrameCoversMoves ==
  ASSUME SyncTyped, ChainMoves, NEW f \in Frames, f.height <= tip, FrameCovers(f)
  PROVE  \A c \in Unmoved' : (f.fork < born'[c] /\ born'[c] <= f.height)
             => f.kind # "peak" /\ c \in DOMAIN f.items
<1>1. tip \in Nat /\ tip' = tip + 1 /\ f.height \in Nat
  BY DEF SyncTyped, ChainTyped, ChainMoves, Frames
<1> QED
  BY <1>1, UnmovedMoves DEF FrameCovers

LEMMA CoversMoves ==
  ASSUME SyncTyped, ChainMoves, NEW f \in Nat, NEW h \in Nat, h <= tip, NEW g, Covers(f, h, g)
  PROVE  \A c \in Unmoved' : (f < born'[c] /\ born'[c] <= h) => c \in DOMAIN g
<1>1. tip \in Nat /\ tip' = tip + 1
  BY DEF SyncTyped, ChainTyped, ChainMoves
<1> QED
  BY <1>1, UnmovedMoves DEF Covers

LEMMA BaseType == SyncTyped => Base \in Nat
  BY SessionKinds, StateTyped DEF Base

LEMMA BlockFrameCovers ==
  ASSUME SyncTyped, NEW h \in 1 .. tip
  PROVE  FrameCovers(BlockFrame(h, TRUE))
<1> DEFINE n == BlockFrame(h, TRUE)
           S == Between(h - 1, h)
<1>1. /\ n.fork = h - 1 /\ n.height = h /\ DOMAIN n.items = S
      /\ n.kind = IF S # {} THEN "coins" ELSE "peak"
  BY BlockFrameTyped
<1> HIDE DEF n
<1>2. \A c \in Unmoved : (h - 1 < born[c] /\ born[c] <= h) => c \in S
  BY DEF Unmoved, Between
<1> HIDE DEF S
<1>3. FrameCovers(n)
  BY <1>1, <1>2 DEF FrameCovers
<1> QED
  BY <1>3 DEF n

LEMMA BlockFrameQuiet ==
  ASSUME SyncTyped, NEW h \in 1 .. tip
  PROVE  BlockFrame(h, FALSE).kind = "peak"
  BY BlockFrameTyped

(* A step that leaves the chain, the queue and the place of the session.   *)
LEMMA QueueCoversStay ==
  ASSUME Covered, UNCHANGED <<chain, reborn, frames>>, session'.finished = session.finished,
         InFrame' <=> InFrame, Base' = Base
  PROVE  /\ ~ session'.finished => \A i \in DOMAIN frames' : frames'[i].kind = "peak"
         /\ session'.finished => \A i \in DOMAIN frames' : FrameCovers(frames[i])' \/ Behind(i)'
<1>1. ~ session'.finished => \A i \in DOMAIN frames' : frames'[i].kind = "peak"
  BY DEF Covered
<1>2. ASSUME session'.finished, NEW i \in DOMAIN frames'
      PROVE  FrameCovers(frames[i])' \/ Behind(i)'
  <2>1. FrameCovers(frames[i]) \/ Behind(i)
    BY <1>2 DEF Covered
  <2>2. CASE FrameCovers(frames[i])
    BY <2>2, UnmovedStays DEF FrameCovers, chain
  <2>3. CASE Behind(i)
    BY <2>3 DEF Behind
  <2> QED
    BY <2>1, <2>2, <2>3
<1> QED
  BY <1>1, <1>2

LEMMA CoveredStays ==
  ASSUME Covered, UNCHANGED <<chain, reborn, frames>>, session'.pc = session.pc,
         session'.upto = session.upto, session'.finished = session.finished,
         session'.fork = session.fork, session'.height = session.height,
         session'.got = session.got, state'.peak = state.peak
  PROVE  Covered'
<1>1. InFrame' <=> InFrame
  BY DEF InFrame
<1>2. Base' = Base
  BY DEF Base, InCatchUp, InFrame
<1>3. session'.pc \in {"rollback", "clear", "items"} =>
          Covers(session.fork, session.height, session.got)'
  BY UnmovedStays DEF Covered, Covers, chain
<1> QED
  BY <1>1, <1>2, <1>3, QueueCoversStay DEF Covered

LEMMA AppendCovered ==
  ASSUME SyncTyped, SyncTyped', NEW n \in Frames, frames' = Append(frames, n),
         session.finished => \A i \in DOMAIN frames :
             \/ \A c \in Unmoved' : (frames[i].fork < born'[c] /\ born'[c] <= frames[i].height)
                   => frames[i].kind # "peak" /\ c \in DOMAIN frames[i].items
             \/ Behind(i),
         ~ session.finished => \A i \in DOMAIN frames : frames[i].kind = "peak",
         session'.finished = session.finished, InFrame' <=> InFrame, Base' = Base,
         session.finished => \A c \in Unmoved' : (n.fork < born'[c] /\ born'[c] <= n.height)
             => n.kind # "peak" /\ c \in DOMAIN n.items,
         ~ session.finished => n.kind = "peak"
  PROVE  /\ ~ session'.finished => \A i \in DOMAIN frames' : frames'[i].kind = "peak"
         /\ session'.finished => \A i \in DOMAIN frames' : FrameCovers(frames[i])' \/ Behind(i)'
<1>1. /\ Len(frames) \in Nat /\ DOMAIN frames = 1 .. Len(frames)
      /\ DOMAIN frames' = 1 .. Len(frames) + 1
      /\ \A i \in DOMAIN frames : frames'[i] = frames[i]
      /\ frames'[Len(frames) + 1] = n
  BY WireKinds, AppendFacts
<1>2. ASSUME NEW i \in DOMAIN frames' PROVE i \in DOMAIN frames \/ i = Len(frames) + 1
  BY <1>1
<1>3. ~ session'.finished => \A i \in DOMAIN frames' : frames'[i].kind = "peak"
  BY <1>1, <1>2
<1>4. ASSUME session'.finished, NEW i \in DOMAIN frames'
      PROVE  FrameCovers(frames[i])' \/ Behind(i)'
  <2>1. CASE i = Len(frames) + 1
    BY <2>1, <1>1, <1>4 DEF FrameCovers
  <2>2. CASE i \in DOMAIN frames /\ Behind(i)
    <3>1. \A j \in 1 .. i : j \in DOMAIN frames
      BY <2>2, <1>1
    <3>2. \A j \in 1 .. i : frames'[j] = frames[j]
      BY <3>1, <1>1
    <3>3. frames'[i] = frames[i]
      BY <2>2, <1>1
    <3> QED
      BY <2>2, <3>2, <3>3 DEF Behind
  <2>3. CASE i \in DOMAIN frames /\ ~ Behind(i)
    BY <2>3, <1>1, <1>4 DEF FrameCovers
  <2> QED
    BY <2>1, <2>2, <2>3, <1>2
<1> QED
  BY <1>3, <1>4

LEMMA CoveredMoves ==
  ASSUME SyncTyped, ChainMoves, Covered
  PROVE  /\ session.finished => \A i \in DOMAIN frames :
             \/ \A c \in Unmoved' : (frames[i].fork < born'[c] /\ born'[c] <= frames[i].height)
                   => frames[i].kind # "peak" /\ c \in DOMAIN frames[i].items
             \/ Behind(i)
         /\ ~ session.finished => \A i \in DOMAIN frames : frames[i].kind = "peak"
         /\ session'.pc \in {"rollback", "clear", "items"} =>
                Covers(session.fork, session.height, session.got)'
         /\ InFrame' <=> InFrame
         /\ Base' = Base
<1>1. ASSUME session.finished, NEW i \in DOMAIN frames
      PROVE  \/ \A c \in Unmoved' : (frames[i].fork < born'[c] /\ born'[c] <= frames[i].height)
                   => frames[i].kind # "peak" /\ c \in DOMAIN frames[i].items
             \/ Behind(i)
  <2>1. frames[i] \in Frames /\ frames[i].height <= tip
    BY <1>1 DEF SyncTyped, WireTyped, FrameBelow
  <2> QED
    BY <1>1, <2>1, FrameCoversMoves DEF Covered
<1>2. ~ session.finished => \A i \in DOMAIN frames : frames[i].kind = "peak"
  BY DEF Covered
<1>3. ASSUME session'.pc \in {"rollback", "clear", "items"}
      PROVE  Covers(session.fork, session.height, session.got)'
  <2>1. Covers(session.fork, session.height, session.got)
    BY <1>3 DEF Covered, ChainMoves
  <2>2. \A c \in Unmoved' : (session.fork < born'[c] /\ born'[c] <= session.height)
            => c \in DOMAIN session.got
    BY <2>1, SessionKinds, CoversMoves
  <2> QED
    BY <2>2 DEF Covers, ChainMoves
<1>4. InFrame' <=> InFrame
  BY DEF InFrame, ChainMoves
<1>5. Base' = Base
  BY DEF Base, InFrame, InCatchUp, ChainMoves, replica
<1> QED
  BY <1>1, <1>2, <1>3, <1>4, <1>5

LEMMA MovedQueueCovered ==
  ASSUME SyncTyped, ChainMoves, Covered, frames' = frames
  PROVE  Covered'
<1>1. ~ session'.finished => \A i \in DOMAIN frames' : frames'[i].kind = "peak"
  BY CoveredMoves DEF ChainMoves
<1>2. ASSUME session'.finished, NEW i \in DOMAIN frames'
      PROVE  FrameCovers(frames[i])' \/ Behind(i)'
  <2>1. \/ \A c \in Unmoved' : (frames[i].fork < born'[c] /\ born'[c] <= frames[i].height)
              => frames[i].kind # "peak" /\ c \in DOMAIN frames[i].items
        \/ Behind(i)
    BY <1>2, CoveredMoves DEF ChainMoves
  <2>2. Behind(i) => Behind(i)'
    BY CoveredMoves DEF Behind
  <2> QED
    BY <2>1, <2>2 DEF FrameCovers
<1> QED
  BY <1>1, <1>2, CoveredMoves DEF Covered

(* Nothing that stayed where it was is above a fork.                       *)
LEMMA BelowTheFork ==
  ASSUME SyncTyped, NEW f \in 1 .. tip - 1,
         NEW S \in SUBSET {c \in Coins : born[c] > f \/ born[c] = Absent},
         NEW h \in f + 1 .. tip + 1, Reorganise(f, S, h)
  PROVE  \A c \in Unmoved' : ~ (f < born'[c])
<1> DEFINE moved == S \cup {c \in OnChain : born[c] > f}
<1>1. /\ reborn' = reborn \cup moved
      /\ born' = [c \in Coins |-> IF c \in S THEN h
                                  ELSE IF born[c] > f THEN Absent ELSE born[c]]
  BY DEF Reorganise
<1>2. \A c \in Unmoved' : c \in Coins /\ c \notin moved /\ born'[c] # Absent
  BY <1>1 DEF Unmoved, OnChain
<1>3. \A c \in Unmoved' : c \notin S /\ ~ (born[c] > f) /\ born'[c] = born[c]
  BY <1>1, <1>2
<1>4. \A c \in Unmoved' : born[c] \in Nat
  BY <1>2 DEF SyncTyped, ChainTyped
<1> QED
  BY <1>3, <1>4

LEMMA StepCovered ==
  ASSUME SyncTyped, Joined, Covered, [SyncNext]_syncVars
  PROVE  Covered'
<1>t. SyncTyped'
  BY StepTyped
<1>1. ASSUME NEW S \in SUBSET (Coins \ OnChain), Mine(S) PROVE Covered'
  BY <1>1, MineMoves, MovedQueueCovered DEF Mine, wire
<1>2. ASSUME NEW f \in 1 .. tip - 1,
             NEW S \in SUBSET {c \in Coins : born[c] > f \/ born[c] = Absent},
             NEW h \in f + 1 .. tip + 1, Reorganise(f, S, h)
      PROVE  Covered'
  <2>1. ChainMoves
    BY <1>2, ReorganiseMoves
  <2> DEFINE moved == S \cup {c \in OnChain : born[c] > f}
             n == Pushed(f, tip', ItemsOf(S, born'), Subscribed /\ moved # {})
  <2>2. CASE UNCHANGED wire
    BY <2>1, <2>2, MovedQueueCovered DEF wire
  <2>3. CASE frames' = Append(frames, n)
    <3>1. n.fork = f /\ (~ session.finished => n.kind = "peak")
      BY DEF Pushed, Subscribed
    <3>2. n \in Frames
      <4>1. frames' \in Seq(Frames) /\ Len(frames) + 1 \in DOMAIN frames'
            /\ frames'[Len(frames) + 1] = n
        <5> HIDE DEF n
        <5> QED
          BY <1>t, <2>3, WireKinds DEF SyncTyped, WireTyped
      <4> QED
        BY <4>1
    <3> HIDE DEF n
    <3>3. \A c \in Unmoved' : (n.fork < born'[c] /\ born'[c] <= n.height)
              => n.kind # "peak" /\ c \in DOMAIN n.items
      BY <1>2, <3>1, BelowTheFork
    <3>4. session'.finished = session.finished
      BY <2>1 DEF ChainMoves
    <3>5. /\ ~ session'.finished => \A i \in DOMAIN frames' : frames'[i].kind = "peak"
          /\ session'.finished => \A i \in DOMAIN frames' : FrameCovers(frames[i])' \/ Behind(i)'
      BY <1>t, <2>1, <2>3, <3>1, <3>2, <3>3, <3>4, CoveredMoves, AppendCovered
    <3> QED
      BY <2>1, <3>5, CoveredMoves DEF Covered
  <2> QED
    BY <1>2, <2>2, <2>3 DEF Reorganise
<1>3. CASE PeerLearns
  <2>1. /\ UNCHANGED <<chain, reborn, session, state>> /\ peerTip < tip /\ peerTip' = peerTip + 1
        /\ frames' = Append(frames, BlockFrame(peerTip', Subscribed))
    BY <1>3 DEF PeerLearns, replica, ghosts
  <2> DEFINE n == BlockFrame(peerTip', Subscribed)
  <2>2. peerTip' \in 1 .. tip /\ Subscribed \in BOOLEAN /\ Subscribed = session.finished
    BY <2>1, WireKinds, SessionKinds DEF Subscribed
  <2>3. n \in Frames
    BY <2>2, BlockFrameTyped
  <2>4. ~ session.finished => n.kind = "peak"
    BY <2>2, BlockFrameQuiet
  <2>5. session.finished => FrameCovers(n)
    BY <2>2, BlockFrameCovers
  <2>6. frames' = Append(frames, n)
    BY <2>1
  <2> HIDE DEF n
  <2>7. Unmoved' = Unmoved /\ born' = born
    BY <2>1, UnmovedStays DEF chain
  <2>8. /\ ~ session'.finished => \A i \in DOMAIN frames' : frames'[i].kind = "peak"
        /\ session'.finished => \A i \in DOMAIN frames' : FrameCovers(frames[i])' \/ Behind(i)'
    <3>1. session.finished => \A c \in Unmoved' : (n.fork < born'[c] /\ born'[c] <= n.height)
             => n.kind # "peak" /\ c \in DOMAIN n.items
      BY <2>5, <2>7 DEF FrameCovers
    <3>2. session.finished => \A i \in DOMAIN frames :
             \/ \A c \in Unmoved' : (frames[i].fork < born'[c] /\ born'[c] <= frames[i].height)
                   => frames[i].kind # "peak" /\ c \in DOMAIN frames[i].items
             \/ Behind(i)
      BY <2>7 DEF Covered, FrameCovers
    <3>3. ~ session.finished => \A i \in DOMAIN frames : frames[i].kind = "peak"
      BY DEF Covered
    <3>4. session'.finished = session.finished /\ (InFrame' <=> InFrame) /\ Base' = Base
      BY <2>1 DEF InFrame, InCatchUp, Base
    <3> QED
      BY <1>t, <2>3, <2>4, <2>6, <3>1, <3>2, <3>3, <3>4, AppendCovered
  <2>9. session'.pc \in {"rollback", "clear", "items"} =>
            Covers(session.fork, session.height, session.got)'
    BY <2>1, <2>7 DEF Covered, Covers
  <2> QED
    BY <2>8, <2>9 DEF Covered
<1>4. CASE Connect \/ Hangup
  <2>1. frames' = <<>> /\ session'.pc \notin {"rollback", "clear", "items"}
    BY <1>4, NoSessionTyped, NoSessionFields DEF Connect, Hangup, Sessions
  <2> QED
    BY <2>1, EmptyFacts DEF Covered
<1>5. ASSUME NEW h \in Heights, Answer(h) PROVE Covered'
  <2>1. /\ session'.upto = h /\ session'.finished = (h = peerTip)
        /\ session'.pc \in {"epoch", "write"} /\ session.pc = "ask"
        /\ UNCHANGED <<chain, reborn, peerTip>>
    BY <1>5, SessionKinds DEF Answer, Sessions, ghosts
  <2>2. Base' = h /\ ~ InFrame'
    BY <2>1 DEF Base, InCatchUp, InFrame
  <2>3. \A i \in DOMAIN frames : frames[i].kind = "peak" /\ frames[i].height <= peerTip
    BY <2>1 DEF Joined, Phases, QueueJoined, Covered
  <2>4. CASE UNCHANGED frames
    <3>1. ASSUME h = peerTip, NEW i \in DOMAIN frames' PROVE Behind(i)'
      BY <2>2, <2>3, <2>4, <3>1, WireKinds DEF Behind
    <3> QED
      BY <2>1, <2>3, <2>4, <3>1 DEF Covered
  <2>5. CASE h = peerTip /\ Between(h - 1, h) # {} /\ frames' = Append(frames, BlockFrame(h, TRUE))
    <3> DEFINE n == BlockFrame(h, TRUE)
    <3>1. h \in 1 .. tip
      <4>1. PICK c \in OnChain : born[c] <= h /\ h - 1 < born[c]
        BY <2>5 DEF Between
      <4> QED
        BY <2>5, <4>1, WireKinds DEF OnChain, SyncTyped, ChainTyped, Absent
    <3>2. n \in Frames /\ FrameCovers(n)
      BY <3>1, BlockFrameTyped, BlockFrameCovers
    <3>3. frames' = Append(frames, n)
      BY <2>5
    <3> HIDE DEF n
    <3>4. /\ Len(frames) \in Nat /\ DOMAIN frames = 1 .. Len(frames)
          /\ DOMAIN frames' = 1 .. Len(frames) + 1
          /\ \A i \in DOMAIN frames : frames'[i] = frames[i]
          /\ frames'[Len(frames) + 1] = n
      BY <3>2, <3>3, WireKinds, AppendFacts
    <3>5. ASSUME NEW i \in DOMAIN frames' PROVE FrameCovers(frames[i])' \/ Behind(i)'
      <4>1. CASE i = Len(frames) + 1
        <5>1. frames'[i] = n
          BY <4>1, <3>4
        <5> QED
          BY <5>1, <2>1, <3>2, UnmovedStays DEF FrameCovers, chain
      <4>2. CASE i \in 1 .. Len(frames)
        <5>1. i \in DOMAIN frames /\ \A j \in 1 .. i : j \in DOMAIN frames
          BY <4>2, <3>4
        <5>2. frames'[i].height <= h /\ \A j \in 1 .. i : frames'[j].kind = "peak"
          BY <5>1, <3>4, <2>3, <2>5
        <5> QED
          BY <5>2, <2>2 DEF Behind
      <4> QED
        BY <4>1, <4>2, <3>4
    <3> QED
      BY <2>1, <2>5, <3>5 DEF Covered
  <2> QED
    BY <1>5, <2>4, <2>5 DEF Answer
<1>6. CASE ReadEpoch \/ WriteBatch
  <2>1. /\ UNCHANGED <<frames, chain, reborn>> /\ session'.upto = session.upto
        /\ session'.finished = session.finished
        /\ session.pc \in {"epoch", "write"} /\ session'.pc \in {"write", "complete", "ask"}
    BY <1>6, SessionKinds DEF ReadEpoch, WriteBatch, wire, ghosts, Sessions
  <2>2. Base' = Base /\ ~ InFrame' /\ ~ InFrame
    BY <2>1 DEF Base, InCatchUp, InFrame
  <2>3. session'.pc \notin {"rollback", "clear", "items"}
    BY <2>1
  <2> QED
    BY <2>1, <2>2, <2>3, QueueCoversStay DEF Covered
<1>7. CASE Complete
  <2>1. CASE SameEpoch(session.epoch)
    <3>1. /\ UNCHANGED <<frames, chain, reborn>> /\ session' = Following
          /\ state'.peak = session.upto /\ session.pc = "complete"
      BY <1>7, <2>1, StateTyped DEF Complete, wire
    <3>2. session'.pc = "follow" /\ session'.finished = TRUE
      BY <3>1, FollowingFields
    <3>3. session'.finished = session.finished
      BY <3>1, <3>2, SessionKinds DEF Joined, Phases
    <3>4. Base' = Base /\ ~ InFrame' /\ ~ InFrame
      BY <3>1, <3>2 DEF Base, InCatchUp, InFrame
    <3> QED
      BY <3>1, <3>2, <3>3, <3>4, QueueCoversStay DEF Covered
  <2>2. CASE ~ SameEpoch(session.epoch)
    <3>1. frames' = <<>> /\ session' = NoSession
      BY <1>7, <2>2 DEF Complete
    <3> QED
      BY <3>1, EmptyFacts, NoSessionFields DEF Covered
  <2> QED
    BY <2>1, <2>2
<1>8. CASE TakePeak
  <2>1. /\ frames # <<>> /\ frames' = Tail(frames) /\ UNCHANGED <<chain, reborn, session>>
        /\ session.pc = "follow" /\ state'.peak = Max({state.peak, Head(frames).height})
    BY <1>8, StateTyped DEF TakePeak, ghosts
  <2>2. /\ \A i \in DOMAIN frames' : i + 1 \in DOMAIN frames /\ frames'[i] = frames[i + 1]
        /\ DOMAIN frames' = 1 .. Len(frames) - 1 /\ Len(frames) \in Nat
    BY <2>1, WireKinds, TailFacts
  <2>3. session.finished
    BY <2>1 DEF Joined, Phases
  <2>4. Base = state.peak /\ Base' = state'.peak /\ ~ InFrame /\ ~ InFrame'
    BY <2>1 DEF Base, InCatchUp, InFrame
  <2>5. state.peak \in Nat /\ state'.peak \in Nat /\ state.peak <= state'.peak
    <3>1. state.peak \in Nat /\ Head(frames).height \in Nat
      BY <2>1, HeadTyped, WireKinds, StateTyped
    <3> QED
      BY <2>1, <3>1, MaxOfTwo
  <2>6. ASSUME NEW i \in DOMAIN frames' PROVE FrameCovers(frames[i])' \/ Behind(i)'
    <3>1. i + 1 \in DOMAIN frames /\ frames'[i] = frames[i + 1]
      BY <2>2
    <3>2. FrameCovers(frames[i + 1]) \/ Behind(i + 1)
      BY <2>3, <3>1 DEF Covered
    <3>3. CASE FrameCovers(frames[i + 1])
      BY <3>1, <3>3, <2>1, UnmovedStays DEF FrameCovers, chain
    <3>4. CASE Behind(i + 1)
      <4>1. \A j \in 1 .. i : j \in DOMAIN frames' /\ j + 1 \in 1 .. i + 1
        BY <2>2
      <4>2. \A j \in 1 .. i : frames'[j].kind = "peak"
        BY <3>4, <4>1, <2>2 DEF Behind
      <4>3. frames'[i].height <= Base'
        BY <3>1, <3>4, <2>4, <2>5, WireKinds DEF Behind
      <4> QED
        BY <4>2, <4>3, <2>4 DEF Behind
    <3> QED
      BY <3>2, <3>3, <3>4
  <2> QED
    BY <2>1, <2>3, <2>6 DEF Covered
<1>9. CASE TakeFrame
  <2>1. CASE frames' = <<>> /\ session' = NoSession
    BY <2>1, EmptyFacts, NoSessionFields DEF Covered
  <2>2. CASE ~ (frames' = <<>> /\ session' = NoSession)
    <3>1. /\ frames # <<>> /\ 1 \in DOMAIN frames /\ frames[1].kind = "coins"
          /\ session.pc = "follow" /\ frames' = Tail(frames)
          /\ session'.fork = frames[1].fork /\ session'.height = frames[1].height
          /\ session'.got = frames[1].items
          /\ session'.finished = session.finished
          /\ session'.pc \in {"rollback", "clear", "items"}
          /\ UNCHANGED <<chain, reborn>>
      BY <1>9, <2>2, TakenFrame DEF TakeFrame, ghosts
    <3>2. session.finished
      BY <3>1 DEF Joined, Phases
    <3>3. \A i \in DOMAIN frames : FrameCovers(frames[i])
      <4> SUFFICES ASSUME NEW i \in DOMAIN frames, Behind(i) PROVE FALSE
        BY <3>2 DEF Covered
      <4>1. 1 \in 1 .. i
        BY WireKinds
      <4> QED
        BY <4>1, <3>1 DEF Behind
    <3>4. \A i \in DOMAIN frames' : i + 1 \in DOMAIN frames /\ frames'[i] = frames[i + 1]
      BY <3>1, WireKinds, TailFacts
    <3>5. \A i \in DOMAIN frames' : FrameCovers(frames[i])'
      BY <3>1, <3>3, <3>4, UnmovedStays DEF FrameCovers, chain
    <3>6. Covers(session.fork, session.height, session.got)'
      <4>1. FrameCovers(frames[1])
        BY <3>1, <3>3
      <4> QED
        BY <4>1, <3>1, UnmovedStays DEF FrameCovers, Covers, chain
    <3> QED
      BY <3>1, <3>2, <3>5, <3>6 DEF Covered
  <2> QED
    BY <2>1, <2>2
<1>10. CASE Rollback \/ ClearSynced \/ WriteItems \/ RecordPeak
  <2>1. /\ UNCHANGED <<frames, chain, reborn>> /\ session'.finished = session.finished
        /\ session'.fork = session.fork /\ session'.height = session.height
        /\ \/ session.pc = "rollback" /\ session'.pc = "clear" /\ session'.got = session.got
           \/ session.pc = "clear" /\ session'.pc = "items" /\ session'.got = session.got
           \/ session.pc = "items" /\ session'.pc = "peak"
           \/ session.pc = "peak" /\ session'.pc = "arrive"
    BY <1>10, SessionKinds
       DEF Rollback, ClearSynced, WriteItems, RecordPeak, wire, ghosts, Goes, Sessions
  <2>2. Base' = Base /\ InFrame /\ InFrame'
    BY <2>1 DEF Base, InCatchUp, InFrame
  <2>3. session'.pc \in {"rollback", "clear", "items"} =>
            Covers(session.fork, session.height, session.got)'
    BY <2>1, UnmovedStays DEF Covered, Covers, chain
  <2> QED
    BY <2>1, <2>2, <2>3, QueueCoversStay DEF Covered
<1>11. CASE FrameArrivals
  <2>1. /\ UNCHANGED <<frames, chain, reborn>> /\ session'.pc = "follow"
        /\ session'.finished = TRUE /\ session.pc = "arrive"
    BY <1>11, FollowingFields DEF FrameArrivals, wire
  <2>2. InFrame /\ session.finished
    BY <2>1 DEF InFrame, Joined, Phases
  <2>3. \A i \in DOMAIN frames : FrameCovers(frames[i])
    BY <2>2 DEF Covered, Behind
  <2>4. \A i \in DOMAIN frames' : FrameCovers(frames[i])'
    BY <2>1, <2>3, UnmovedStays DEF FrameCovers, chain
  <2> QED
    BY <2>1, <2>4 DEF Covered
<1>12. CASE Refresh \/ Reset \/ UNCHANGED syncVars
  <2>1. UNCHANGED <<frames, chain, reborn, session>>
    BY <1>12 DEF Refresh, RefreshBegin, RefreshFetch, RefreshHints, RefreshWrite, RefreshLatch,
                 RefreshArrivals, RefreshGone, Reset, syncVars, wire, ghosts
  <2>2. state'.peak = state.peak
    <3>1. CASE RefreshArrivals
      BY <3>1, ThroughTyped, RecordTyped, StateTyped DEF RefreshArrivals, Through
    <3> QED
      BY <1>12, <3>1, StateTyped
         DEF Refresh, RefreshBegin, RefreshFetch, RefreshHints, RefreshWrite, RefreshLatch,
             RefreshGone, Reset, syncVars, replica
  <2> QED
    BY <2>1, <2>2, CoveredStays
<1> QED
  BY <1>1, <1>2, <1>3, <1>4, <1>5, <1>6, <1>7, <1>8, <1>9, <1>10, <1>11, <1>12
     DEF SyncNext, CatchUp, Frame

LEMMA InitCovered == SyncInit => Covered
  BY EmptyFacts, NoSessionFields DEF SyncInit, Covered

----------------------------------------------------------------------------
(* What a catch-up has read is written by the time it completes, unless a  *)
(* reset came between.                                                     *)

(* A step that leaves the catch-up where it is, and drops no row.          *)
LEMMA CatchUpKept ==
  ASSUME SyncTyped, CatchUpWhole, session'.pc = session.pc, session'.epoch = session.epoch,
         session'.upto = session.upto, session'.got = session.got,
         state'.epoch = state.epoch,
         \A c \in Unmoved' : born'[c] <= session.upto => c \in Unmoved /\ born'[c] = born[c],
         \A c \in Coins : rows[c] # Absent => rows'[c] # Absent
  PROVE  CatchUpWhole'
<1>1. \A c \in Unmoved : c \in Coins
  BY DEF Unmoved, OnChain
<1>2. session'.pc = "epoch" =>
         \A c \in Unmoved' : born'[c] <= session'.upto => c \in DOMAIN session'.got
  BY DEF CatchUpWhole
<1>3. session'.pc = "write" /\ session'.epoch = state'.epoch =>
         \A c \in Unmoved' : born'[c] <= session'.upto =>
             rows'[c] # Absent \/ c \in DOMAIN session'.got
  BY <1>1 DEF CatchUpWhole
<1>4. session'.pc \in {"ask", "complete"} /\ session'.epoch = state'.epoch =>
         \A c \in Unmoved' : born'[c] <= session'.upto => rows'[c] # Absent
  BY <1>1 DEF CatchUpWhole
<1> QED
  BY <1>2, <1>3, <1>4 DEF CatchUpWhole

(* A session that is not catching up.                                      *)
LEMMA CatchUpOver ==
  ASSUME session'.pc \notin {"ask", "epoch", "write", "complete"},
         session'.epoch <= state'.epoch
  PROVE  CatchUpWhole'
  BY DEF CatchUpWhole

LEMMA CatchUpMoves ==
  ASSUME SyncTyped, ChainMoves, CatchUpWhole
  PROVE  CatchUpWhole'
<1>1. \A c \in Unmoved' : born'[c] <= session.upto => c \in Unmoved /\ born'[c] = born[c]
  <2>1. tip \in Nat /\ tip' = tip + 1 /\ session.upto \in Nat /\ session.upto <= tip
    BY SessionKinds, StateTyped DEF ChainMoves
  <2> QED
    BY <2>1, UnmovedMoves
<1> QED
  BY <1>1, CatchUpKept DEF ChainMoves, replica

LEMMA InitCatchUp == SyncInit => CatchUpWhole
  BY NoSessionFields DEF SyncInit, CatchUpWhole

LEMMA AnswerWhole ==
  ASSUME SyncTyped, CatchUpWhole, NEW h \in Heights, Answer(h)
  PROVE  CatchUpWhole'
<1> DEFINE g == Between(session.upto, h)
<1>1. /\ session.pc = "ask" /\ session'.upto = h /\ session'.epoch = session.epoch
      /\ session'.pc = (IF session.epoch = -1 THEN "epoch" ELSE "write")
      /\ session'.got = ItemsOf(g, born) /\ DOMAIN session'.got = g
      /\ UNCHANGED <<chain, reborn, state, rows>>
  <2>1. DOMAIN ItemsOf(g, born) = g
    BY DEF ItemsOf
  <2> QED
    BY <2>1, SessionKinds DEF Answer, Sessions, ghosts, replica
<1> HIDE DEF g
<1>2. Unmoved' = Unmoved /\ born' = born
  BY <1>1, UnmovedStays DEF chain
<1>3. \A c \in Unmoved : born[c] \in Nat /\ born[c] >= 1
          /\ (session.upto < born[c] /\ born[c] <= h => c \in g)
  BY UnmovedFacts DEF g, Unmoved, Between
<1>4. session.upto \in Nat
  BY SessionKinds
<1>5. CASE session.epoch = -1
  <2>1. session.upto = 0
    BY <1>1, <1>5 DEF CatchUpWhole
  <2>2. \A c \in Unmoved' : born'[c] <= session'.upto => c \in DOMAIN session'.got
    BY <1>1, <1>2, <1>3, <2>1
  <2> QED
    BY <1>1, <1>5, <2>2 DEF CatchUpWhole
<1>6. CASE session.epoch # -1
  <2>1. session.epoch = state.epoch =>
            \A c \in Unmoved : born[c] <= session.upto => rows[c] # Absent
    BY <1>1 DEF CatchUpWhole
  <2>2. session'.epoch = state'.epoch =>
            \A c \in Unmoved' : born'[c] <= session'.upto =>
                rows'[c] # Absent \/ c \in DOMAIN session'.got
    BY <1>1, <1>2, <1>3, <1>4, <2>1
  <2> QED
    BY <1>1, <1>6, <2>2 DEF CatchUpWhole
<1> QED
  BY <1>5, <1>6

LEMMA StepCatchUp ==
  ASSUME SyncTyped, CatchUpWhole, [SyncNext]_syncVars
  PROVE  CatchUpWhole'
<1>e. session.epoch \in Int /\ state.epoch \in Nat /\ session.epoch <= state.epoch
  BY SessionKinds, StateTyped, SyncConstants DEF CatchUpWhole
<1>1. ASSUME NEW S \in SUBSET (Coins \ OnChain), Mine(S) PROVE CatchUpWhole'
  BY <1>1, MineMoves, CatchUpMoves
<1>2. ASSUME NEW f \in 1 .. tip - 1,
             NEW S \in SUBSET {c \in Coins : born[c] > f \/ born[c] = Absent},
             NEW h \in f + 1 .. tip + 1, Reorganise(f, S, h)
      PROVE  CatchUpWhole'
  BY <1>2, ReorganiseMoves, CatchUpMoves
<1>3. CASE PeerLearns
  <2>1. UNCHANGED <<chain, reborn, session, state, rows>>
    BY <1>3 DEF PeerLearns, replica, ghosts
  <2> QED
    BY <2>1, UnmovedStays, CatchUpKept DEF chain
<1>4. CASE Connect
  <2>1. session'.pc = "ask" /\ session'.epoch = -1 /\ session'.upto = 0 /\ UNCHANGED state
    BY <1>4, NoSessionTyped, NoSessionFields DEF Connect, replica, Sessions
  <2> QED
    BY <2>1, <1>e DEF CatchUpWhole
<1>5. CASE Hangup
  <2>1. session'.pc = "down" /\ session'.epoch = -1 /\ UNCHANGED state
    BY <1>5, NoSessionFields DEF Hangup, replica
  <2> QED
    BY <2>1, <1>e, CatchUpOver
<1>6. ASSUME NEW h \in Heights, Answer(h) PROVE CatchUpWhole'
  BY <1>6, AnswerWhole
<1>7. CASE ReadEpoch
  <2>1. /\ session.pc = "epoch" /\ session'.pc = "write" /\ session'.epoch = state.epoch
        /\ session'.upto = session.upto /\ session'.got = session.got
        /\ UNCHANGED <<chain, reborn, state, rows>>
    BY <1>7, SessionKinds DEF ReadEpoch, Sessions, ghosts, replica
  <2>2. Unmoved' = Unmoved /\ born' = born
    BY <2>1, UnmovedStays DEF chain
  <2>3. \A c \in Unmoved' : born'[c] <= session'.upto => c \in DOMAIN session'.got
    BY <2>1, <2>2 DEF CatchUpWhole
  <2> QED
    BY <2>1, <2>3, <1>e DEF CatchUpWhole
<1>8. CASE WriteBatch
  <2>1. /\ session.pc = "write" /\ session'.pc \in {"ask", "complete"}
        /\ session'.epoch = session.epoch /\ session'.upto = session.upto
        /\ Upsert(session.got) /\ UNCHANGED <<chain, reborn, state>>
    BY <1>8, SessionKinds DEF WriteBatch, Sessions, ghosts
  <2>2. Unmoved' = Unmoved /\ born' = born
    BY <2>1, UnmovedStays DEF chain
  <2>3. \A c \in Coins : rows[c] # Absent \/ c \in DOMAIN session.got => rows'[c] # Absent
    BY <2>1, UpsertTyped DEF SyncTyped, SessionTyped, Below, Absent
  <2>4. session'.epoch = state'.epoch =>
            \A c \in Unmoved' : born'[c] <= session'.upto => rows'[c] # Absent
    BY <2>1, <2>2, <2>3, UnmovedFacts DEF CatchUpWhole
  <2>5. session'.epoch # -1
    BY <2>1 DEF CatchUpWhole
  <2> QED
    BY <2>1, <2>4, <2>5, <1>e DEF CatchUpWhole
<1>9. CASE Complete
  <2>1. /\ session'.pc \notin {"ask", "epoch", "write", "complete"} /\ session'.epoch = -1
    BY <1>9, FollowingFields, NoSessionFields DEF Complete
  <2>2. state'.epoch = state.epoch
    BY <1>9, StateTyped DEF Complete
  <2> QED
    BY <2>1, <2>2, <1>e, CatchUpOver
<1>10. CASE TakePeak \/ Rollback \/ ClearSynced \/ WriteItems \/ RecordPeak
  <2>1. /\ session'.pc \notin {"ask", "epoch", "write", "complete"}
        /\ session'.epoch = session.epoch
    BY <1>10, SessionKinds
       DEF TakePeak, Rollback, ClearSynced, WriteItems, RecordPeak, Goes, Sessions
  <2>2. state'.epoch = state.epoch
    BY <1>10, StateTyped DEF TakePeak, Rollback, ClearSynced, WriteItems, RecordPeak
  <2> QED
    BY <2>1, <2>2, <1>e, CatchUpOver
<1>11. CASE TakeFrame
  <2>1. UNCHANGED state
    BY <1>11 DEF TakeFrame, replica
  <2>2. CASE frames' = <<>> /\ session' = NoSession
    BY <2>1, <2>2, <1>e, NoSessionFields, CatchUpOver
  <2>3. CASE ~ (frames' = <<>> /\ session' = NoSession)
    <3>1. session'.pc \in {"rollback", "clear", "items"} /\ session'.epoch = session.epoch
      BY <1>11, <2>3, TakenFrame
    <3> QED
      BY <2>1, <3>1, <1>e, CatchUpOver
  <2> QED
    BY <2>2, <2>3
<1>12. CASE FrameArrivals
  <2>1. session'.pc = "follow" /\ session'.epoch = -1
    BY <1>12, FollowingFields DEF FrameArrivals
  <2>2. state'.epoch = state.epoch
    <3>1. session.height \in 0 .. tip
      BY SessionKinds, StateTyped
    <3> QED
      BY <1>12, <3>1, RecordTyped, StateTyped DEF FrameArrivals
  <2> QED
    BY <2>1, <2>2, <1>e, CatchUpOver
<1>13. CASE RefreshBegin \/ (\E h \in 0 .. tip : RefreshFetch(h))
               \/ (\E S \in SUBSET OnChain : RefreshHints(S))
               \/ RefreshLatch \/ RefreshArrivals \/ RefreshGone
            \/ UNCHANGED syncVars
  <2>1. UNCHANGED <<chain, reborn, session, rows>>
    BY <1>13 DEF RefreshBegin, RefreshFetch, RefreshHints, RefreshLatch, RefreshArrivals,
                 RefreshGone, syncVars, replica, ghosts
  <2>2. state'.epoch = state.epoch
    <3>1. CASE RefreshArrivals
      BY <3>1, ThroughTyped, RecordTyped, StateTyped DEF RefreshArrivals, Through
    <3> QED
      BY <1>13, <3>1, StateTyped
         DEF RefreshBegin, RefreshFetch, RefreshHints, RefreshLatch, RefreshGone, syncVars, replica
  <2> QED
    BY <2>1, <2>2, UnmovedStays, CatchUpKept DEF chain
<1>14. CASE RefreshWrite
  <2>1. UNCHANGED <<chain, reborn, session, state>> /\ Upsert(ItemsOf(Fetched, refresh.got))
    BY <1>14 DEF RefreshWrite, ghosts
  <2>2. \A c \in Coins : rows[c] # Absent => rows'[c] # Absent
    BY <2>1, FetchedItems, UpsertTyped DEF Fetched
  <2> QED
    BY <2>1, <2>2, UnmovedStays, CatchUpKept DEF chain
<1>15. CASE Reset
  <2>1. UNCHANGED <<chain, reborn, session>> /\ state'.epoch = state.epoch + 1
    BY <1>15, StateTyped DEF Reset
  <2>2. session'.epoch < state'.epoch
    BY <2>1, <1>e
  <2>3. Unmoved' = Unmoved /\ born' = born
    BY <2>1, UnmovedStays DEF chain
  <2>4. session'.epoch # state'.epoch /\ session'.epoch <= state'.epoch
    BY <2>1, <2>2, <1>e
  <2> QED
    BY <2>1, <2>3, <2>4 DEF CatchUpWhole
<1> QED
  BY <1>1, <1>2, <1>3, <1>4, <1>5, <1>6, <1>7, <1>8, <1>9, <1>10, <1>11, <1>12, <1>13,
     <1>14, <1>15
     DEF SyncNext, CatchUp, Frame, Refresh

----------------------------------------------------------------------------
(* A replica that is called synced, or is about to be, misses no coin that *)
(* was on the chain when it was last emptied.                              *)

LEMMA KnownUnmoved ==
  ASSUME HistoryTrue
  PROVE  \A c \in known \ reborn : c \in Unmoved
  BY DEF HistoryTrue, Unmoved

(* A step that drops no such row and claims no more than before.           *)
LEMMA WholeKept ==
  ASSUME Whole, Authoritative' => Authoritative,
         refresh'.epoch <= state'.epoch, state'.peak = state.peak,
         session'.pc = "peak" => session.pc = "peak" /\ session'.height = session.height,
         \A c \in known' \ reborn' : /\ c \in known \ reborn /\ born'[c] = born[c]
                                     /\ rows[c] # Absent => rows'[c] # Absent,
         Latching("write")' => Latching("write") /\ refresh'.got = refresh.got
  PROVE  Whole'
<1>1. Authoritative' => HasKnown(state.peak)'
  BY DEF Whole, HasKnown
<1>2. Authoritative' /\ session'.pc = "peak" => HasKnown(session.height)'
  BY DEF Whole, HasKnown
<1>3. Latching("write")' => \A c \in known' \ reborn' : refresh'.got[c] # Absent
  BY DEF Whole
<1> QED
  BY <1>1, <1>2, <1>3 DEF Whole

LEMMA WholeMoves ==
  ASSUME ChainMoves, HistoryTrue, Whole
  PROVE  Whole'
<1>1. /\ UNCHANGED <<rows, state, refresh, onFaith>>
      /\ session'.pc = session.pc /\ session'.height = session.height
  BY DEF ChainMoves, replica
<1>2. /\ Authoritative' = Authoritative
      /\ Latching("write")' = Latching("write")
  BY <1>1 DEF Authoritative, Latching
<1>3. refresh'.epoch <= state'.epoch
  BY <1>1 DEF Whole
<1> QED
  BY <1>1, <1>2, <1>3, KnownMoves, WholeKept

(* What a peak alone says: nothing came between its ends.                  *)
LEMMA PeakCovers ==
  ASSUME SyncTyped, Joined, Covered, TakePeak
  PROVE  /\ state'.peak \in Nat /\ state.peak <= state'.peak
         /\ \A c \in Unmoved : born[c] <= state'.peak => born[c] <= state.peak
<1> DEFINE f == frames[1]
<1>1. /\ frames # <<>> /\ Head(frames) = f /\ 1 \in DOMAIN frames
      /\ f.kind = "peak" /\ session.pc = "follow"
      /\ f.fork \in Nat /\ f.height \in Nat /\ state.peak \in Nat
      /\ state' = [state EXCEPT !.peak = Max({state.peak, Head(frames).height})]
  BY HeadTyped, WireKinds, StateTyped DEF TakePeak
<1>2. state'.peak = IF state.peak <= f.height THEN f.height ELSE state.peak
  BY <1>1, MaxOfTwo, StateTyped
<1>3. session.finished /\ Base = state.peak
  BY <1>1 DEF Joined, Phases, Base, InCatchUp, InFrame
<1>4. f.fork <= state.peak
  BY <1>1, <1>3 DEF Joined, BaseJoined
<1>5. FrameCovers(f) \/ f.height <= state.peak
  BY <1>1, <1>3 DEF Covered, Behind
<1> HIDE DEF f
<1>6. ASSUME NEW c \in Unmoved, born[c] <= state'.peak PROVE born[c] <= state.peak
  <2>1. born[c] \in Nat
    BY UnmovedFacts
  <2>2. CASE f.height <= state.peak
    BY <2>1, <2>2, <1>1, <1>2, <1>6
  <2>3. CASE FrameCovers(f) /\ state.peak < f.height
    <3>1. ~ (f.fork < born[c] /\ born[c] <= f.height)
      BY <2>3, <1>1 DEF FrameCovers
    <3> QED
      BY <2>1, <2>3, <3>1, <1>1, <1>2, <1>4, <1>6
  <2>4. state.peak < f.height \/ f.height <= state.peak
    BY <1>1
  <2> QED
    BY <2>2, <2>3, <2>4, <1>5
<1>7. f.height \in Nat /\ state.peak \in Nat
  BY <1>1
<1>8. state'.peak \in Nat /\ state.peak <= state'.peak
  BY <1>2, <1>7
<1> QED
  BY <1>6, <1>8

(* The rows a rollback keeps.                                              *)
LEMMA RollbackKeeps ==
  ASSUME SyncTyped, ValuesTrue, Joined, Rollback
  PROVE  /\ state'.peak = session.fork /\ state'.peak \in Nat /\ state'.peak <= state.peak
         /\ state'.epoch = state.epoch /\ state'.synced = state.synced
         /\ \A c \in Unmoved : born[c] <= session.fork /\ rows[c] # Absent => rows'[c] = rows[c]
<1>1. /\ state'.peak = session.fork
      /\ state'.epoch = state.epoch /\ state'.synced = state.synced
  BY StateTyped DEF Rollback
<1>2. session.fork \in Nat /\ session.fork <= state.peak
  BY SessionKinds DEF Rollback, Joined, Phases
<1>3. ASSUME NEW c \in Unmoved, born[c] <= session.fork, rows[c] # Absent
      PROVE  rows'[c] = rows[c]
  <2>1. c \in Coins /\ born[c] \in Nat /\ rows[c] = born[c]
    BY <1>3, UnmovedFacts DEF ValuesTrue, TableTrue, Unmoved
  <2>2. ~ (rows[c] > session.fork)
    BY <2>1, <1>2, <1>3
  <2> QED
    BY <2>1, <2>2 DEF Rollback
<1> QED
  BY <1>1, <1>2, <1>3

(* The frame's items bring the replica from its fork to its height.        *)
LEMMA ItemsBring ==
  ASSUME SyncTyped, Joined, Covered, WriteItems
  PROVE  /\ session'.height = session.height /\ session'.pc = "peak"
         /\ \A c \in Coins : rows[c] # Absent => rows'[c] # Absent
         /\ \A c \in Unmoved : born[c] <= session.height /\ ~ (born[c] <= state.peak)
               => rows'[c] # Absent
<1>1. /\ session.pc = "items" /\ session'.height = session.height /\ session'.pc = "peak"
      /\ Upsert(session.got)
  BY SessionKinds DEF WriteItems, Sessions
<1>2. \A c \in Coins : rows[c] # Absent \/ c \in DOMAIN session.got => rows'[c] # Absent
  BY <1>1, UpsertTyped DEF SyncTyped, SessionTyped, Below, Absent
<1>3. state.peak = session.fork /\ Covers(session.fork, session.height, session.got)
  BY <1>1 DEF Joined, Phases, Covered
<1>4. ASSUME NEW c \in Unmoved, born[c] <= session.height, ~ (born[c] <= state.peak)
      PROVE  rows'[c] # Absent
  <2>1. c \in Coins /\ born[c] \in Nat /\ session.fork \in Nat
    BY UnmovedFacts, SessionKinds
  <2> QED
    BY <2>1, <1>2, <1>3, <1>4 DEF Covers
<1> QED
  BY <1>1, <1>2, <1>4

LEMMA InitWhole == SyncInit => Whole
  BY NoRefreshTyped, NoSessionFields DEF SyncInit, Whole, Authoritative, Latching

LEMMA StepWhole ==
  ASSUME SyncTyped, ValuesTrue, Joined, Covered, CatchUpWhole, Whole, [SyncNext]_syncVars
  PROVE  Whole'
<1>e. /\ refresh.epoch \in Nat /\ state.epoch \in Nat /\ refresh.epoch <= state.epoch
      /\ state.peak \in Nat
  BY RefreshKinds, StateTyped, SyncConstants DEF Whole
<1>h. HistoryTrue /\ \A c \in known \ reborn : c \in Unmoved /\ c \in Coins
  BY KnownUnmoved DEF ValuesTrue, Unmoved, OnChain
<1>1. ASSUME NEW S \in SUBSET (Coins \ OnChain), Mine(S) PROVE Whole'
  BY <1>1, <1>h, MineMoves, WholeMoves
<1>2. ASSUME NEW f \in 1 .. tip - 1,
             NEW S \in SUBSET {c \in Coins : born[c] > f \/ born[c] = Absent},
             NEW h \in f + 1 .. tip + 1, Reorganise(f, S, h)
      PROVE  Whole'
  BY <1>2, <1>h, ReorganiseMoves, WholeMoves
<1>3. CASE \/ PeerLearns \/ Connect \/ Hangup \/ (\E h \in Heights : Answer(h)) \/ ReadEpoch
           \/ UNCHANGED syncVars
  <2>1. UNCHANGED <<chain, known, reborn, rows, state, refresh, onFaith>>
    BY <1>3 DEF PeerLearns, Connect, Hangup, Answer, ReadEpoch, syncVars, replica, ghosts
  <2>2. session'.pc = "peak" => session.pc = "peak" /\ session'.height = session.height
    BY <1>3, SessionKinds, NoSessionTyped, NoSessionFields
       DEF PeerLearns, Connect, Hangup, Answer, ReadEpoch, syncVars, Sessions
  <2> QED
    BY <2>1, <2>2, <1>e, WholeKept DEF Authoritative, Latching, chain
<1>4. CASE WriteBatch
  <2>1. /\ UNCHANGED <<chain, known, reborn, state, refresh, onFaith>> /\ Upsert(session.got)
        /\ session'.pc # "peak"
    BY <1>4, SessionKinds DEF WriteBatch, Sessions, ghosts
  <2>2. \A c \in Coins : rows[c] # Absent => rows'[c] # Absent
    BY <2>1, UpsertTyped DEF SyncTyped, SessionTyped, Below, Absent
  <2> QED
    BY <2>1, <2>2, <1>e, <1>h, WholeKept DEF Authoritative, Latching, chain
<1>5. CASE Complete
  <2>1. UNCHANGED <<chain, known, reborn, rows, refresh>> /\ session.pc = "complete"
    BY <1>5 DEF Complete
  <2>2. session'.pc # "peak"
    BY <1>5, FollowingFields, NoSessionFields DEF Complete
  <2>3. CASE SameEpoch(session.epoch)
    <3>1. state'.peak = session.upto /\ state'.epoch = state.epoch
      BY <1>5, <2>3, StateTyped DEF Complete
    <3>2. \A c \in Unmoved : born[c] <= session.upto => rows[c] # Absent
      BY <2>1, <2>3 DEF CatchUpWhole, SameEpoch
    <3>3. HasKnown(state.peak)'
      BY <2>1, <3>1, <3>2, <1>h DEF HasKnown, chain
    <3> QED
      BY <2>1, <2>2, <3>1, <3>3, <1>e DEF Whole, Latching
  <2>4. CASE ~ SameEpoch(session.epoch)
    <3>1. UNCHANGED <<state, onFaith>>
      BY <1>5, <2>4 DEF Complete
    <3> QED
      BY <2>1, <2>2, <3>1, <1>e, WholeKept DEF Authoritative, Latching, chain
  <2> QED
    BY <2>3, <2>4
<1>6. CASE TakePeak
  <2>1. /\ UNCHANGED <<chain, known, reborn, rows, refresh, session, onFaith>>
        /\ session.pc = "follow"
        /\ state'.epoch = state.epoch /\ state'.synced = state.synced
    BY <1>6, StateTyped DEF TakePeak, ghosts
  <2>2. Authoritative' = Authoritative
    BY <2>1 DEF Authoritative, Latching
  <2>3. Authoritative => HasKnown(state.peak)
    BY DEF Whole
  <2>4. Authoritative' => HasKnown(state.peak)'
    BY <2>1, <2>2, <2>3, <1>6, <1>h, PeakCovers DEF HasKnown, chain
  <2> QED
    BY <2>1, <2>4 DEF Whole, Latching
<1>7. CASE TakeFrame
  <2>1. UNCHANGED <<chain, known, reborn, rows, state, refresh, onFaith>>
    BY <1>7 DEF TakeFrame, replica, ghosts
  <2>2. session'.pc # "peak"
    <3>1. CASE frames' = <<>> /\ session' = NoSession
      BY <3>1, NoSessionFields
    <3>2. CASE ~ (frames' = <<>> /\ session' = NoSession)
      BY <3>2, <1>7, TakenFrame
    <3> QED
      BY <3>1, <3>2
  <2> QED
    BY <2>1, <2>2, <1>e, WholeKept DEF Authoritative, Latching, chain
<1>8. CASE Rollback
  <2>1. UNCHANGED <<chain, known, reborn, refresh, onFaith>> /\ session'.pc = "clear"
    BY <1>8, SessionKinds DEF Rollback, Goes, Sessions
  <2>2. Authoritative' = Authoritative /\ state'.epoch = state.epoch
    BY <2>1, <1>8, RollbackKeeps DEF Authoritative, Latching
  <2>3. Authoritative => HasKnown(state.peak)
    BY DEF Whole
  <2>4. \A c \in Unmoved : born[c] \in Nat
    BY UnmovedFacts
  <2>5. /\ state'.peak = session.fork /\ state'.peak \in Nat /\ state'.peak <= state.peak
        /\ \A c \in Unmoved : born[c] <= session.fork /\ rows[c] # Absent => rows'[c] = rows[c]
    BY <1>8, RollbackKeeps
  <2>6. \A c \in Unmoved : born[c] <= state'.peak => born[c] <= state.peak
    BY <2>4, <2>5, <1>e
  <2>7. Authoritative' => HasKnown(state.peak)'
    BY <2>1, <2>2, <2>3, <2>5, <2>6, <1>h DEF HasKnown, chain
  <2> QED
    BY <2>1, <2>2, <2>7 DEF Whole, Latching
<1>9. CASE ClearSynced
  <2>1. /\ UNCHANGED <<chain, known, reborn, rows, refresh>> /\ session'.pc = "items"
        /\ state'.synced = FALSE /\ state'.epoch = state.epoch /\ state'.peak = state.peak
    BY <1>9, SessionKinds, StateTyped DEF ClearSynced, Goes, Sessions, ghosts
  <2> QED
    BY <2>1, <1>e, WholeKept DEF Authoritative, Latching, chain
<1>10. CASE WriteItems
  <2>1. UNCHANGED <<chain, known, reborn, state, refresh, onFaith>>
    BY <1>10 DEF WriteItems, ghosts
  <2>2. Authoritative' = Authoritative
    BY <2>1 DEF Authoritative, Latching
  <2>3. /\ session'.height = session.height /\ session'.pc = "peak"
        /\ \A c \in Coins : rows[c] # Absent => rows'[c] # Absent
        /\ \A c \in Unmoved : born[c] <= session.height /\ ~ (born[c] <= state.peak)
              => rows'[c] # Absent
    BY <1>10, ItemsBring
  <2>4. Authoritative => HasKnown(state.peak)
    BY DEF Whole
  <2>5. Authoritative' => HasKnown(state.peak)' /\ HasKnown(session.height)'
    BY <2>1, <2>2, <2>3, <2>4, <1>h DEF HasKnown, chain
  <2> QED
    BY <2>1, <2>5 DEF Whole, Latching
<1>11. CASE RecordPeak
  <2>1. /\ UNCHANGED <<chain, known, reborn, rows, refresh, onFaith>> /\ session.pc = "peak"
        /\ session'.pc = "arrive" /\ state'.peak = session.height
        /\ state'.synced = state.synced /\ state'.epoch = state.epoch
    BY <1>11, SessionKinds, StateTyped DEF RecordPeak, Goes, Sessions, ghosts
  <2>2. Authoritative' => HasKnown(state.peak)'
    BY <2>1 DEF Whole, Authoritative, Latching, HasKnown, chain
  <2> QED
    BY <2>1, <2>2 DEF Whole, Latching
<1>12. CASE FrameArrivals
  <2>1. UNCHANGED <<chain, known, reborn, rows, refresh, onFaith>> /\ session'.pc = "follow"
    BY <1>12, FollowingFields DEF FrameArrivals
  <2>2. state'.epoch = state.epoch /\ state'.synced = state.synced /\ state'.peak = state.peak
    <3>1. session.height \in 0 .. tip
      BY SessionKinds, StateTyped
    <3> QED
      BY <1>12, <3>1, RecordTyped, StateTyped DEF FrameArrivals
  <2> QED
    BY <2>1, <2>2, <1>e, WholeKept DEF Authoritative, Latching, chain
<1>13. CASE RefreshBegin
  <2>1. /\ UNCHANGED <<chain, known, reborn, rows, state, session, onFaith>>
        /\ refresh'.pc = "fetch" /\ refresh'.epoch = state.epoch
    BY <1>13, RefreshKinds DEF RefreshBegin, Refreshes, replica, ghosts
  <2> QED
    BY <2>1, <1>e, WholeKept DEF Authoritative, Latching, chain
<1>14. ASSUME NEW h \in 0 .. tip, RefreshFetch(h) PROVE Whole'
  <2>1. /\ UNCHANGED <<chain, known, reborn, rows, state, session, onFaith>>
        /\ refresh'.pc = "hints" /\ refresh'.epoch = refresh.epoch
    BY <1>14, FirstReadIs, RefreshKinds DEF RefreshFetch, Refreshes, replica, ghosts
  <2> QED
    BY <2>1, <1>e, WholeKept DEF Authoritative, Latching, chain
<1>19. ASSUME NEW S \in SUBSET OnChain, RefreshHints(S) PROVE Whole'
  <2>1. /\ UNCHANGED <<chain, known, reborn, rows, state, session, onFaith>>
        /\ refresh'.pc = "write" /\ refresh'.epoch = refresh.epoch
        /\ ~ refresh'.lacks => \A c \in known : refresh'.got[c] # Absent
    BY <1>19, BothReadsAre DEF RefreshHints, replica
  <2>2. Authoritative' => Authoritative
    BY <2>1 DEF Authoritative, Latching
  <2>3. Latching("write")' => \A c \in known' \ reborn' : refresh'.got[c] # Absent
    BY <2>1 DEF Latching
  <2>4. Authoritative' => HasKnown(state.peak)'
    BY <2>1, <2>2 DEF Whole, HasKnown, chain
  <2>5. Authoritative' /\ session'.pc = "peak" => HasKnown(session.height)'
    BY <2>1, <2>2 DEF Whole, HasKnown, chain
  <2> QED
    BY <2>1, <2>3, <2>4, <2>5, <1>e DEF Whole
<1>15. CASE RefreshWrite
  <2>1. /\ UNCHANGED <<chain, known, reborn, state, session, onFaith>> /\ refresh.pc = "write"
        /\ refresh'.pc = "latch" /\ refresh'.epoch = refresh.epoch
        /\ refresh'.lacks = refresh.lacks
        /\ Upsert(ItemsOf(Fetched, refresh.got))
    BY <1>15, RefreshKinds DEF RefreshWrite, Refreshes, ghosts
  <2>2. \A c \in Coins : rows[c] # Absent \/ refresh.got[c] # Absent => rows'[c] # Absent
    BY <2>1, FetchedItems, UpsertTyped DEF Fetched
  <2>3. CASE Latching("write")
    <3>1. \A c \in known' \ reborn' : rows'[c] # Absent
      BY <2>1, <2>2, <2>3, <1>h DEF Whole
    <3> QED
      BY <2>1, <3>1, <1>e DEF Whole, HasKnown, Latching
  <2>4. CASE ~ Latching("write")
    <3>1. (Authoritative' => Authoritative) /\ ~ Latching("write")'
      BY <2>1, <2>4 DEF Authoritative, Latching
    <3> QED
      BY <2>1, <2>2, <3>1, <1>e, <1>h, WholeKept DEF chain
  <2> QED
    BY <2>3, <2>4
<1>16. CASE RefreshLatch
  <2>1. /\ UNCHANGED <<chain, known, reborn, rows, session>> /\ refresh.pc = "latch"
        /\ refresh'.pc = "arrive" /\ refresh'.epoch = 0
        /\ state'.peak = state.peak /\ state'.epoch = state.epoch
    BY <1>16, RefreshKinds, StateTyped DEF RefreshLatch, Refreshes
  <2>2. state'.synced /\ ~ onFaith' => (state.synced /\ ~ onFaith) \/ Latching("latch")
    BY <1>16, StateTyped DEF RefreshLatch, SameEpoch, Latching, SyncTyped, ChainTyped
  <2>3. (Authoritative' => Authoritative) /\ ~ Latching("write")'
    BY <2>1, <2>2 DEF Authoritative, Latching
  <2> QED
    BY <2>1, <2>3, <1>e, WholeKept DEF chain
<1>17. CASE RefreshArrivals \/ RefreshGone
  <2>1. /\ UNCHANGED <<chain, known, reborn, rows, session, onFaith>> /\ refresh' = NoRefresh
    BY <1>17 DEF RefreshArrivals, RefreshGone, replica, ghosts
  <2>2. refresh'.pc = "idle" /\ refresh'.epoch = 0
    BY <2>1, NoRefreshTyped
  <2>3. state'.epoch = state.epoch /\ state'.synced = state.synced /\ state'.peak = state.peak
    <3>1. CASE RefreshArrivals
      BY <3>1, ThroughTyped, RecordTyped, StateTyped DEF RefreshArrivals, Through
    <3> QED
      BY <1>17, <3>1 DEF RefreshGone, replica
  <2> QED
    BY <2>1, <2>2, <2>3, <1>e, WholeKept DEF Authoritative, Latching, chain
<1>18. CASE Reset
  <2>1. UNCHANGED refresh /\ state'.synced = FALSE /\ state'.epoch = state.epoch + 1
    BY <1>18, StateTyped DEF Reset
  <2>2. refresh'.epoch <= state'.epoch /\ refresh'.epoch # state'.epoch
    BY <2>1, <1>e
  <2>3. ~ Authoritative' /\ ~ Latching("write")'
    BY <2>1, <2>2 DEF Authoritative, Latching
  <2> QED
    BY <2>2, <2>3 DEF Whole
<1> QED
  BY <1>1, <1>2, <1>3, <1>4, <1>5, <1>6, <1>7, <1>8, <1>9, <1>10, <1>11, <1>12, <1>13,
     <1>14, <1>15, <1>16, <1>17, <1>18, <1>19
     DEF SyncNext, CatchUp, Frame, Refresh

----------------------------------------------------------------------------
(* The baseline passes no payment by.                                      *)

LEMMA PaymentFacts ==
  ASSUME SyncTyped, ValuesTrue
  PROVE  \A c \in Payments : /\ c \in Unmoved /\ c \in Coins /\ born[c] \in Nat /\ born[c] >= 1
                             /\ rows[c] = Absent \/ rows[c] = born[c]
<1>1. \A c \in Payments : c \in Unmoved /\ c \in Coins \ reborn
  BY DEF Payments, Unmoved, OnChain
<1> QED
  BY <1>1, UnmovedFacts DEF ValuesTrue, TableTrue

LEMMA NothingSkipped ==
  NoPaymentSkipped <=>
      (state.baseline # NoBaseline =>
          \A c \in Payments : born[c] <= state.baseline => c \in arrivals)
  BY DEF NoPaymentSkipped, Payments

(* A step that leaves the chain and the baseline, and drops no row.        *)
LEMMA ArrivalsKept ==
  ASSUME ArrivalsWhole, UNCHANGED <<chain, known, passed, reborn, arrivals>>,
         straddled' = straddled, state'.peak = state.peak, state'.baseline = state.baseline,
         session'.pc = "peak" => session.pc = "peak" /\ session'.height = session.height,
         refresh'.pc \in {"hints", "write", "latch", "arrive"} => refresh'.top = refresh.top,
         refresh'.pc \in {"hints", "write"} =>
             refresh.pc \in {"hints", "write"} /\ refresh'.got = refresh.got,
         refresh'.pc \in {"latch", "arrive"} => refresh.pc \in {"latch", "arrive"},
         \A c \in Coins : rows[c] # Absent => rows'[c] # Absent
  PROVE  ArrivalsWhole'
<1>1. Unmoved' = Unmoved /\ Payments' = Payments /\ born' = born
  BY UnmovedStays DEF chain
<1>2. \A c \in Payments : c \in Coins
  BY DEF Payments, OnChain
<1>3. HasPayments(state.peak)' /\ (session'.pc = "peak" => HasPayments(session.height)')
  BY <1>1, <1>2 DEF ArrivalsWhole, HasPayments
<1>4. ASSUME ~ straddled' PROVE ReadWhole'
  BY <1>1, <1>4 DEF ArrivalsWhole, ReadWhole
<1>5. ASSUME ~ straddled' PROVE ReadWritten'
  BY <1>1, <1>2, <1>5 DEF ArrivalsWhole, ReadWritten, HasPayments
<1>6. ASSUME ~ straddled' PROVE NoPaymentSkipped'
  BY <1>1, <1>6 DEF ArrivalsWhole, NoPaymentSkipped, OnChain, Payments
<1> QED
  BY <1>3, <1>4, <1>5, <1>6 DEF ArrivalsWhole

LEMMA ArrivalsMove ==
  ASSUME SyncTyped, ValuesTrue, ChainMoves, ArrivalsWhole, ~ straddled' => ~ straddled
  PROVE  ArrivalsWhole'
<1>1. /\ UNCHANGED <<rows, state, arrivals, refresh>>
      /\ session'.pc = session.pc /\ session'.height = session.height /\ tip' = tip + 1
  BY DEF ChainMoves, replica
<1>2. /\ tip \in Nat /\ state.peak \in 0 .. tip /\ state.baseline \in -1 .. tip
      /\ session.height \in Nat /\ session.height <= tip
      /\ refresh.top \in 0 .. tip
  BY StateTyped, SessionKinds, RefreshKinds
<1>3. ASSUME NEW n \in Int, n <= tip, NEW c \in Payments', born'[c] <= n
      PROVE  c \in Payments /\ born'[c] = born[c]
  <2>1. born'[c] # tip'
    BY <1>1, <1>2, <1>3
  <2> QED
    BY <2>1, PaymentsMove
<1>4. HasPayments(state.peak)'
  <2>1. state.peak \in Int /\ state.peak <= tip
    BY <1>2
  <2> QED
    BY <1>1, <1>3, <2>1 DEF ArrivalsWhole, HasPayments
<1>5. session'.pc = "peak" => HasPayments(session.height)'
  <2>1. session.height \in Int /\ session.height <= tip
    BY <1>2
  <2> QED
    BY <1>1, <1>3, <2>1 DEF ArrivalsWhole, HasPayments
<1>t. refresh.top \in Int /\ refresh.top <= tip
  BY <1>2
<1>6. ASSUME ~ straddled' PROVE ReadWhole'
  BY <1>1, <1>3, <1>6, <1>t DEF ArrivalsWhole, ReadWhole
<1>7. ASSUME ~ straddled' PROVE ReadWritten'
  BY <1>1, <1>3, <1>7, <1>t DEF ArrivalsWhole, ReadWritten, HasPayments
<1>8. ASSUME ~ straddled' PROVE NoPaymentSkipped'
  <2> SUFFICES ASSUME state.baseline # NoBaseline, NEW c \in Payments', born'[c] <= state.baseline
               PROVE  c \in arrivals
    BY <1>1 DEF NoPaymentSkipped, Payments
  <2>1. state.baseline \in Int /\ state.baseline <= tip
    BY <1>2
  <2>2. c \in Payments /\ born[c] <= state.baseline
    BY <1>3, <2>1
  <2> QED
    BY <1>8, <2>2, NothingSkipped DEF ArrivalsWhole
<1> QED
  BY <1>4, <1>5, <1>6, <1>7, <1>8 DEF ArrivalsWhole

(* What is recorded through a height up to which the rows are whole.       *)
LEMMA RecordsAll ==
  ASSUME SyncTyped, ValuesTrue, UNCHANGED <<chain, known, passed, reborn>>,
         NEW n \in 0 .. tip, RecordArrivals(n), NoPaymentSkipped,
         \A c \in Payments : born[c] <= n => rows[c] # Absent
  PROVE  NoPaymentSkipped' /\ state'.peak = state.peak
<1>1. Payments' = Payments /\ born' = born
  BY UnmovedStays DEF chain
<1>2. state'.peak = state.peak
  BY RecordTyped, StateTyped
<1>3. CASE state.baseline = NoBaseline
  <2>1. UNCHANGED <<arrivals, state>>
    BY <1>3 DEF RecordArrivals
  <2> QED
    BY <1>1, <1>2, <2>1, NothingSkipped DEF NoPaymentSkipped, Payments
<1>4. CASE state.baseline # NoBaseline
  <2>1. /\ arrivals' = arrivals \cup
               ({c \in Coins : rows[c] > state.baseline /\ rows[c] # Absent} \ arrivals)
    BY <1>4 DEF RecordArrivals
  <2>2. state'.baseline = (IF state.baseline <= n THEN n ELSE state.baseline)
    BY <1>4, RecordTyped, StateTyped
  <2>3. state.baseline \in Int
    BY StateTyped
  <2>4. ASSUME NEW c \in Payments, born[c] <= state'.baseline PROVE c \in arrivals'
    <3>1. c \in Coins /\ born[c] \in Nat /\ (rows[c] = Absent \/ rows[c] = born[c])
      BY PaymentFacts
    <3>2. CASE born[c] <= state.baseline
      BY <3>2, <1>4, <2>1, NothingSkipped
    <3>3. CASE ~ (born[c] <= state.baseline)
      <4>1. born[c] <= n
        BY <3>3, <2>2, <2>4
      <4>2. rows[c] # Absent /\ rows[c] = born[c] /\ rows[c] > state.baseline
        BY <3>1, <3>3, <4>1, <2>3
      <4> QED
        BY <3>1, <4>2, <2>1
    <3> QED
      BY <3>2, <3>3
  <2> QED
    BY <1>1, <1>2, <2>4 DEF NoPaymentSkipped, Payments
<1> QED
  BY <1>2, <1>3, <1>4

LEMMA InitArrivals == SyncInit => ArrivalsWhole
<1> SUFFICES ASSUME SyncInit PROVE ArrivalsWhole
  OBVIOUS
<1>1. Payments = {}
  BY DEF SyncInit, Payments, OnChain
<1>2. session.pc = "down" /\ refresh.pc = "idle" /\ state.baseline = NoBaseline
  BY NoSessionFields, NoRefreshTyped DEF SyncInit
<1> QED
  BY <1>1, <1>2 DEF ArrivalsWhole, HasPayments, ReadWhole, ReadWritten, NoPaymentSkipped

LEMMA StepArrivals ==
  ASSUME SyncTyped, ValuesTrue, Joined, Covered, CatchUpWhole, ArrivalsWhole,
         [SyncNext]_syncVars
  PROVE  ArrivalsWhole'
<1>p. \A c \in Payments : /\ c \in Unmoved /\ c \in Coins /\ born[c] \in Nat /\ born[c] >= 1
                          /\ rows[c] = Absent \/ rows[c] = born[c]
  BY PaymentFacts
<1>1. ASSUME NEW S \in SUBSET (Coins \ OnChain), Mine(S) PROVE ArrivalsWhole'
  BY <1>1, MineMoves, ArrivalsMove DEF Mine, ghosts
<1>2. ASSUME NEW f \in 1 .. tip - 1,
             NEW S \in SUBSET {c \in Coins : born[c] > f \/ born[c] = Absent},
             NEW h \in f + 1 .. tip + 1, Reorganise(f, S, h)
      PROVE  ArrivalsWhole'
  BY <1>2, ReorganiseMoves, ArrivalsMove
<1>3. CASE \/ PeerLearns \/ Connect \/ Hangup \/ (\E h \in Heights : Answer(h)) \/ ReadEpoch
           \/ UNCHANGED syncVars
  <2>1. UNCHANGED <<chain, known, passed, reborn, straddled, rows, state, arrivals, refresh>>
    BY <1>3 DEF PeerLearns, Connect, Hangup, Answer, ReadEpoch, syncVars, replica, ghosts
  <2>2. session'.pc = "peak" => session.pc = "peak" /\ session'.height = session.height
    BY <1>3, SessionKinds, NoSessionTyped, NoSessionFields
       DEF PeerLearns, Connect, Hangup, Answer, ReadEpoch, syncVars, Sessions
  <2> QED
    BY <2>1, <2>2, ArrivalsKept
<1>4. CASE WriteBatch
  <2>1. /\ UNCHANGED <<chain, known, passed, reborn, straddled, state, arrivals, refresh>>
        /\ Upsert(session.got) /\ session'.pc # "peak"
    BY <1>4, SessionKinds DEF WriteBatch, Sessions, ghosts
  <2>2. \A c \in Coins : rows[c] # Absent => rows'[c] # Absent
    BY <2>1, UpsertTyped DEF SyncTyped, SessionTyped, Below, Absent
  <2> QED
    BY <2>1, <2>2, ArrivalsKept
<1>5. CASE Complete
  <2> DEFINE armed == Max({session.upto} \cup {rows[c] : c \in Coins})
  <2>1. /\ UNCHANGED <<chain, known, reborn, rows, arrivals, refresh, straddled>>
        /\ session.pc = "complete"
    BY <1>5 DEF Complete
  <2>2. session'.pc # "peak"
    BY <1>5, FollowingFields, NoSessionFields DEF Complete
  <2>3. CASE SameEpoch(session.epoch)
    <3>1. /\ state' = [state EXCEPT !.peak = session.upto, !.synced = TRUE,
                 !.baseline = IF state.baseline = NoBaseline THEN armed ELSE state.baseline]
          /\ passed' = IF state.baseline = NoBaseline THEN passed \cup Between(0, armed) ELSE passed
      BY <1>5, <2>3 DEF Complete
    <3> HIDE DEF armed
    <3>2. /\ state'.peak = session.upto
          /\ state'.baseline = IF state.baseline = NoBaseline THEN armed ELSE state.baseline
      BY <3>1, StateTyped
    <3>3. Unmoved' = Unmoved /\ OnChain' = OnChain /\ born' = born
      BY <2>1, UnmovedStays DEF chain
    <3>4. \A c \in Payments' : c \in Payments
      <4>1. passed \subseteq passed'
        BY <3>1
      <4> QED
        BY <4>1, <2>1, <3>3 DEF Payments
    <3>5. HasPayments(state.peak)'
      <4>1. \A c \in Unmoved : born[c] <= session.upto => rows[c] # Absent
        BY <2>1, <2>3 DEF CatchUpWhole, SameEpoch
      <4> QED
        BY <4>1, <2>1, <3>2, <3>3, <3>4, <1>p DEF HasPayments
    <3>6. ASSUME ~ straddled' PROVE ReadWhole'
      BY <3>6, <2>1, <3>3, <3>4 DEF ReadWhole, ArrivalsWhole
    <3>7. ASSUME ~ straddled' PROVE ReadWritten'
      BY <3>7, <2>1, <3>3, <3>4 DEF ReadWritten, HasPayments, ArrivalsWhole
    <3>8. ASSUME ~ straddled' PROVE NoPaymentSkipped'
      <4> SUFFICES ASSUME NEW c \in Payments', born[c] <= state'.baseline PROVE c \in arrivals
        BY <2>1, <3>3 DEF NoPaymentSkipped, Payments
      <4>1. CASE state.baseline = NoBaseline
        <5>1. c \in OnChain /\ 0 < born[c] /\ born[c] <= armed /\ c \notin passed'
          <6>1. c \in OnChain /\ c \notin passed'
            BY <3>3 DEF Payments
          <6>2. born[c] \in Nat /\ born[c] >= 1
            BY <3>4, <1>p
          <6> QED
            BY <4>1, <6>1, <6>2, <3>2
        <5>2. passed' = passed \cup Between(0, armed)
          BY <4>1, <3>1
        <5> QED
          BY <5>1, <5>2 DEF Between
      <4>2. CASE state.baseline # NoBaseline
        BY <3>8, <4>2, <2>1, <3>2, <3>4, NothingSkipped DEF ArrivalsWhole
      <4> QED
        BY <4>1, <4>2
    <3> QED
      BY <2>2, <3>5, <3>6, <3>7, <3>8 DEF ArrivalsWhole
  <2>4. CASE ~ SameEpoch(session.epoch)
    <3>1. UNCHANGED <<state, passed>>
      BY <1>5, <2>4 DEF Complete
    <3> QED
      BY <2>1, <2>2, <3>1, ArrivalsKept
  <2> QED
    BY <2>3, <2>4
<1>6. CASE TakePeak
  <2>1. /\ UNCHANGED <<chain, known, passed, reborn, straddled, rows, arrivals, refresh, session>>
        /\ session.pc = "follow" /\ state'.baseline = state.baseline
    BY <1>6, StateTyped DEF TakePeak, ghosts
  <2>2. Unmoved' = Unmoved /\ Payments' = Payments /\ OnChain' = OnChain /\ born' = born
    BY <2>1, UnmovedStays DEF chain
  <2>3. HasPayments(state.peak)'
    BY <2>1, <2>2, <1>6, <1>p, PeakCovers DEF HasPayments, ArrivalsWhole
  <2>4. ~ straddled' => ReadWhole' /\ ReadWritten' /\ NoPaymentSkipped'
    BY <2>1, <2>2 DEF ArrivalsWhole, ReadWhole, ReadWritten, HasPayments, NoPaymentSkipped
  <2> QED
    BY <2>1, <2>3, <2>4 DEF ArrivalsWhole
<1>7. CASE TakeFrame
  <2>1. UNCHANGED <<chain, known, passed, reborn, straddled, rows, state, arrivals, refresh>>
    BY <1>7 DEF TakeFrame, replica, ghosts
  <2>2. session'.pc # "peak"
    <3>1. CASE frames' = <<>> /\ session' = NoSession
      BY <3>1, NoSessionFields
    <3>2. CASE ~ (frames' = <<>> /\ session' = NoSession)
      BY <3>2, <1>7, TakenFrame
    <3> QED
      BY <3>1, <3>2
  <2> QED
    BY <2>1, <2>2, ArrivalsKept
<1>8. CASE Rollback
  <2>1. /\ UNCHANGED <<chain, known, passed, reborn, refresh>> /\ session'.pc = "clear"
        /\ straddled' = (straddled \/ refresh.pc # "idle")
        /\ arrivals' = arrivals \ {c \in Coins : rows[c] > session.fork}
        /\ state'.baseline = IF state.baseline > session.fork THEN session.fork ELSE state.baseline
    BY <1>8, SessionKinds, StateTyped DEF Rollback, Goes, Sessions, BaselineAfter
  <2>2. Payments' = Payments /\ born' = born
    BY <2>1, UnmovedStays DEF chain
  <2>3. /\ state'.peak = session.fork /\ state'.peak \in Nat /\ state'.peak <= state.peak
        /\ \A c \in Unmoved : born[c] <= session.fork /\ rows[c] # Absent => rows'[c] = rows[c]
    BY <1>8, RollbackKeeps
  <2>4. state.peak \in Nat /\ state.baseline \in Int /\ session.fork \in Nat
    BY StateTyped, SessionKinds
  <2>5. \A c \in Payments : born[c] <= state'.peak => born[c] <= state.peak
    BY <2>3, <2>4, <1>p
  <2>6. HasPayments(state.peak)'
    BY <2>2, <2>3, <2>5, <1>p DEF HasPayments, ArrivalsWhole
  <2>7. ASSUME ~ straddled' PROVE ReadWhole' /\ ReadWritten'
    BY <2>1, <2>7 DEF ReadWhole, ReadWritten
  <2>8. ASSUME ~ straddled' PROVE NoPaymentSkipped'
    <3> SUFFICES ASSUME state'.baseline # NoBaseline, NEW c \in Payments, born[c] <= state'.baseline
                 PROVE  c \in arrivals'
      BY <2>2 DEF NoPaymentSkipped, Payments
    <3>1. /\ born[c] \in Nat /\ (rows[c] = Absent \/ rows[c] = born[c])
      BY <1>p
    <3>2. state.baseline # NoBaseline /\ born[c] <= state.baseline
      BY <3>1, <2>1, <2>4 DEF NoBaseline
    <3>3. born[c] <= session.fork
      BY <3>1, <2>1, <2>4
    <3>4. ~ (rows[c] > session.fork)
      BY <3>1, <3>3, <2>4 DEF Absent
    <3>5. c \in arrivals
      BY <2>1, <2>8, <3>2, NothingSkipped DEF ArrivalsWhole
    <3> QED
      BY <3>4, <3>5, <2>1
  <2> QED
    BY <2>1, <2>6, <2>7, <2>8 DEF ArrivalsWhole
<1>9. CASE ClearSynced
  <2>1. /\ UNCHANGED <<chain, known, passed, reborn, straddled, rows, arrivals, refresh>>
        /\ session'.pc = "items"
        /\ state'.baseline = state.baseline /\ state'.peak = state.peak
    BY <1>9, SessionKinds, StateTyped DEF ClearSynced, Goes, Sessions, ghosts
  <2> QED
    BY <2>1, ArrivalsKept
<1>10. CASE WriteItems
  <2>1. UNCHANGED <<chain, known, passed, reborn, straddled, state, arrivals, refresh>>
    BY <1>10 DEF WriteItems, ghosts
  <2>2. Unmoved' = Unmoved /\ Payments' = Payments /\ OnChain' = OnChain /\ born' = born
    BY <2>1, UnmovedStays DEF chain
  <2>3. /\ session'.height = session.height /\ session'.pc = "peak"
        /\ \A c \in Coins : rows[c] # Absent => rows'[c] # Absent
        /\ \A c \in Unmoved : born[c] <= session.height /\ ~ (born[c] <= state.peak)
              => rows'[c] # Absent
    BY <1>10, ItemsBring
  <2>4. HasPayments(state.peak)' /\ HasPayments(session.height)'
    BY <2>1, <2>2, <2>3, <1>p DEF HasPayments, ArrivalsWhole
  <2>5. ~ straddled' => ReadWhole' /\ NoPaymentSkipped'
    BY <2>1, <2>2 DEF ArrivalsWhole, ReadWhole, NoPaymentSkipped
  <2>6. ~ straddled' => ReadWritten'
    BY <2>1, <2>2, <2>3, <1>p DEF ArrivalsWhole, ReadWritten, HasPayments
  <2> QED
    BY <2>4, <2>5, <2>6 DEF ArrivalsWhole
<1>11. CASE RecordPeak
  <2>1. /\ UNCHANGED <<chain, known, passed, reborn, straddled, rows, arrivals, refresh>>
        /\ session.pc = "peak" /\ session'.pc = "arrive"
        /\ state'.peak = session.height /\ state'.baseline = state.baseline
    BY <1>11, SessionKinds, StateTyped DEF RecordPeak, Goes, Sessions, ghosts
  <2>2. Unmoved' = Unmoved /\ Payments' = Payments /\ OnChain' = OnChain /\ born' = born
    BY <2>1, UnmovedStays DEF chain
  <2>3. HasPayments(state.peak)'
    BY <2>1, <2>2 DEF HasPayments, ArrivalsWhole
  <2>4. ~ straddled' => ReadWhole' /\ ReadWritten' /\ NoPaymentSkipped'
    BY <2>1, <2>2 DEF ArrivalsWhole, ReadWhole, ReadWritten, HasPayments, NoPaymentSkipped
  <2> QED
    BY <2>1, <2>3, <2>4 DEF ArrivalsWhole
<1>12. CASE FrameArrivals
  <2>1. /\ UNCHANGED <<chain, known, passed, reborn, straddled, rows, refresh>>
        /\ session.pc = "arrive" /\ session'.pc = "follow"
        /\ RecordArrivals(session.height) \/ UNCHANGED <<arrivals, state>>
    BY <1>12, FollowingFields DEF FrameArrivals
  <2>2. CASE UNCHANGED <<arrivals, state>>
    BY <2>1, <2>2, ArrivalsKept
  <2>3. CASE RecordArrivals(session.height)
    <3>1. session.height \in 0 .. tip /\ state.peak = session.height
      BY <2>1, SessionKinds, StateTyped DEF Joined, Phases
    <3>2. \A c \in Payments : born[c] <= session.height => rows[c] # Absent
      BY <3>1 DEF ArrivalsWhole, HasPayments
    <3>3. state'.peak = state.peak
      BY <2>3, <3>1, RecordTyped, StateTyped
    <3>4. Unmoved' = Unmoved /\ Payments' = Payments /\ born' = born
      BY <2>1, UnmovedStays DEF chain
    <3>5. HasPayments(state.peak)'
      BY <2>1, <3>3, <3>4 DEF HasPayments, ArrivalsWhole
    <3>6. ~ straddled' => ReadWhole' /\ ReadWritten'
      BY <2>1, <3>4 DEF ArrivalsWhole, ReadWhole, ReadWritten, HasPayments
    <3>7. ~ straddled' => NoPaymentSkipped'
      BY <2>1, <2>3, <3>1, <3>2, RecordsAll DEF ArrivalsWhole
    <3> QED
      BY <2>1, <3>5, <3>6, <3>7 DEF ArrivalsWhole
  <2> QED
    BY <2>1, <2>2, <2>3
<1>13. CASE RefreshBegin \/ RefreshGone
  <2>1. /\ UNCHANGED <<chain, known, passed, reborn, straddled, rows, state, arrivals, session>>
        /\ refresh'.pc \in {"fetch", "idle"}
    BY <1>13, RefreshKinds, NoRefreshTyped DEF RefreshBegin, RefreshGone, Refreshes, replica, ghosts
  <2> QED
    BY <2>1, ArrivalsKept
<1>14. ASSUME NEW h \in 0 .. tip, RefreshFetch(h) PROVE ArrivalsWhole'
  <2>1. /\ UNCHANGED <<chain, known, passed, reborn, straddled, rows, state, arrivals, session>>
        /\ refresh'.pc = "hints" /\ refresh'.got = FirstRead(h) /\ refresh'.top \in 0 .. h
    BY <1>14, FirstReadIs, RefreshKinds DEF RefreshFetch, Refreshes, replica, ghosts
  <2>2. Unmoved' = Unmoved /\ Payments' = Payments /\ OnChain' = OnChain /\ born' = born
    BY <2>1, UnmovedStays DEF chain
  <2>3. HasPayments(state.peak)' /\ (session'.pc = "peak" => HasPayments(session.height)')
    BY <2>1, <2>2 DEF HasPayments, ArrivalsWhole
  <2>4. ReadWhole'
    <3> SUFFICES ASSUME NEW c \in Payments, born[c] <= refresh'.top
                 PROVE  refresh'.got[c] # Absent
      BY <2>2 DEF ReadWhole
    <3>1. c \in Coins /\ born[c] \in Nat /\ born[c] >= 1 /\ tip \in Nat
      BY <1>p, StateTyped
    <3>2. born[c] <= h
      BY <2>1, <3>1
    <3> QED
      BY <2>1, <3>1, <3>2 DEF FirstRead, Absent
  <2>5. ~ straddled' => ReadWritten' /\ NoPaymentSkipped'
    BY <2>1, <2>2 DEF ArrivalsWhole, ReadWritten, NoPaymentSkipped
  <2> QED
    BY <2>3, <2>4, <2>5 DEF ArrivalsWhole
<1>19. ASSUME NEW S \in SUBSET OnChain, RefreshHints(S) PROVE ArrivalsWhole'
  <2>1. /\ UNCHANGED <<chain, known, reborn, straddled, rows, state, arrivals, session>>
        /\ refresh'.pc = "write" /\ passed \subseteq passed'
        /\ \A c \in OnChain \ passed' : born[c] <= refresh'.top => refresh'.got[c] # Absent
    BY <1>19, BothReadsAre DEF RefreshHints, replica
  <2>2. OnChain' = OnChain /\ born' = born
    BY <2>1 DEF OnChain, chain
  <2>3. \A c \in Payments' : c \in Payments /\ c \in OnChain \ passed'
    BY <2>1, <2>2 DEF Payments
  <2>4. HasPayments(state.peak)' /\ (session'.pc = "peak" => HasPayments(session.height)')
    BY <2>1, <2>2, <2>3 DEF HasPayments, ArrivalsWhole
  <2>5. ReadWhole' /\ ReadWritten'
    BY <2>1, <2>2, <2>3 DEF ReadWhole, ReadWritten
  <2>6. ~ straddled' => NoPaymentSkipped'
    BY <2>1, <2>2, <2>3 DEF ArrivalsWhole, NoPaymentSkipped, Payments
  <2> QED
    BY <2>4, <2>5, <2>6 DEF ArrivalsWhole
<1>15. CASE RefreshWrite
  <2>1. /\ UNCHANGED <<chain, known, passed, reborn, straddled, state, arrivals, session>>
        /\ refresh.pc = "write" /\ refresh'.pc = "latch" /\ refresh'.top = refresh.top
        /\ Upsert(ItemsOf(Fetched, refresh.got))
    BY <1>15, RefreshKinds DEF RefreshWrite, Refreshes, ghosts
  <2>2. \A c \in Coins : rows[c] # Absent \/ refresh.got[c] # Absent => rows'[c] # Absent
    BY <2>1, FetchedItems, UpsertTyped DEF Fetched
  <2>3. Unmoved' = Unmoved /\ Payments' = Payments /\ OnChain' = OnChain /\ born' = born
    BY <2>1, UnmovedStays DEF chain
  <2>4. HasPayments(state.peak)' /\ (session'.pc = "peak" => HasPayments(session.height)')
    BY <2>1, <2>2, <2>3, <1>p DEF HasPayments, ArrivalsWhole
  <2>5. ~ straddled' => ReadWhole' /\ NoPaymentSkipped'
    BY <2>1, <2>3 DEF ArrivalsWhole, ReadWhole, NoPaymentSkipped
  <2>6. ~ straddled' => ReadWritten'
    BY <2>1, <2>2, <2>3, <1>p DEF ArrivalsWhole, ReadWhole, ReadWritten, HasPayments
  <2> QED
    BY <2>4, <2>5, <2>6 DEF ArrivalsWhole
<1>16. CASE RefreshLatch
  <2>1. /\ UNCHANGED <<chain, known, passed, reborn, straddled, rows, arrivals, session>>
        /\ refresh.pc = "latch" /\ refresh'.pc = "arrive" /\ refresh'.top = refresh.top
        /\ state'.peak = state.peak /\ state'.baseline = state.baseline
    BY <1>16, RefreshKinds, StateTyped DEF RefreshLatch, Refreshes
  <2> QED
    BY <2>1, ArrivalsKept
<1>17. CASE RefreshArrivals
  <2>1. /\ UNCHANGED <<chain, known, passed, reborn, straddled, rows, session>>
        /\ refresh.pc = "arrive" /\ refresh'.pc = "idle" /\ RecordArrivals(Through)
    BY <1>17, NoRefreshTyped DEF RefreshArrivals, Through
  <2>2. Through \in 0 .. tip /\ (Through = state.peak \/ Through = refresh.top)
    BY ThroughTyped
  <2>3. state'.peak = state.peak
    BY <2>1, <2>2, RecordTyped, StateTyped
  <2>4. Unmoved' = Unmoved /\ Payments' = Payments /\ born' = born
    BY <2>1, UnmovedStays DEF chain
  <2>5. HasPayments(state.peak)' /\ (session'.pc = "peak" => HasPayments(session.height)')
    BY <2>1, <2>3, <2>4 DEF HasPayments, ArrivalsWhole
  <2>6. ReadWhole' /\ ReadWritten'
    BY <2>1 DEF ReadWhole, ReadWritten
  <2>7. ASSUME ~ straddled' PROVE NoPaymentSkipped'
    <3>1. NoPaymentSkipped /\ HasPayments(state.peak) /\ HasPayments(refresh.top)
      BY <2>1, <2>7 DEF ArrivalsWhole, ReadWritten
    <3>2. \A c \in Payments : born[c] <= Through => rows[c] # Absent
      BY <2>2, <3>1 DEF HasPayments
    <3> QED
      BY <2>1, <2>2, <3>1, <3>2, RecordsAll
  <2> QED
    BY <2>5, <2>6, <2>7 DEF ArrivalsWhole
<1>18. CASE Reset
  <2>1. /\ UNCHANGED <<chain, reborn, refresh, session>> /\ known' = OnChain
        /\ straddled' = straddled
    BY <1>18 DEF Reset
  <2>2. Unmoved' = Unmoved /\ OnChain' = OnChain /\ born' = born
    BY <2>1, UnmovedStays DEF chain
  <2>3. Payments' = {}
    BY <2>1, <2>2 DEF Payments
  <2>4. ReadWhole'
    BY <2>3 DEF ReadWhole
  <2> QED
    BY <2>3, <2>4 DEF ArrivalsWhole, HasPayments, ReadWritten, NoPaymentSkipped, Payments
<1> QED
  BY <1>1, <1>2, <1>3, <1>4, <1>5, <1>6, <1>7, <1>8, <1>9, <1>10, <1>11, <1>12, <1>13,
     <1>14, <1>15, <1>16, <1>17, <1>18, <1>19
     DEF SyncNext, CatchUp, Frame, Refresh

----------------------------------------------------------------------------
(* The whole, inductive in this order: each part's step rests on the ones  *)
(* before it.                                                              *)
SyncInv ==
    /\ SyncTyped /\ ValuesTrue /\ Joined /\ Covered /\ CatchUpWhole
    /\ Whole /\ ArrivalsWhole

LEMMA SyncInvariant == SyncSpec => []SyncInv
<1>1. SyncInit => SyncInv
  BY InitTyped, InitValues, InitJoined, InitCovered, InitCatchUp, InitWhole, InitArrivals
     DEF SyncInv
<1>2. ASSUME SyncInv, [SyncNext]_syncVars PROVE SyncInv'
  <2>1. SyncTyped /\ ValuesTrue /\ Joined /\ Covered /\ CatchUpWhole /\ Whole /\ ArrivalsWhole
    BY <1>2 DEF SyncInv
  <2>2. SyncTyped' /\ ValuesTrue' /\ Joined' /\ Covered'
    BY <1>2, <2>1, StepTyped, StepValues, StepJoined, StepCovered
  <2>3. CatchUpWhole' /\ Whole' /\ ArrivalsWhole'
    BY <1>2, <2>1, StepCatchUp, StepWhole, StepArrivals
  <2> QED
    BY <2>2, <2>3 DEF SyncInv
<1> QED
  BY <1>1, <1>2, PTL DEF SyncSpec

(* A replica that calls itself synced has every coin that was on the chain *)
(* when it was last emptied and was not reorganised since, up to the peak  *)
(* it records, whatever resets, rollbacks and ends of sessions came        *)
(* between the steps of its writers, unless the refresh that marked it had *)
(* an oracle whose answer lacked one of them                               *)
(* (complete_catch_up_unless_reset, latch_synced_over_unless_reset,        *)
(* handle_coin_state_update).                                              *)
THEOREM SyncedMissesNoCoin == SyncSpec => []AuthoritativeIsWhole
<1>1. SyncInv => AuthoritativeIsWhole
  BY DEF SyncInv, Whole, Authoritative, HasKnown, AuthoritativeIsWhole
<1> QED
  BY <1>1, SyncInvariant, PTL

(* The baseline passes no payment by: unless a refresh carried what it had *)
(* read across a rollback, every payment on the chain at or below the      *)
(* baseline was announced, but for the ones that came between the two      *)
(* reads of a refresh and were in neither, below one that was in the       *)
(* second (record_arrivals, rollback_above, refresh_tracked_coins).        *)
THEOREM NoArrivalLost == SyncSpec => []ArrivalNotLost
<1>1. SyncInv => ArrivalNotLost
  BY DEF SyncInv, ArrivalsWhole, ArrivalNotLost
<1> QED
  BY <1>1, SyncInvariant, PTL
=============================================================================
