----------------------------- MODULE CoinHolds -----------------------------
(***************************************************************************)
(* The holds of dig-wallet on coins that a spend is about to use, or has   *)
(* used and the chain has not yet confirmed (sage/rpc.rs, sage/db.rs).     *)
(* There are two kinds.  A bundle the node pushes is written to            *)
(* pending_transactions and claims its input coins in coin_reservations; a *)
(* client that is building a spend leases coins for a while in             *)
(* client_coin_reservations.  A held coin is not selected for a new spend. *)
(*                                                                         *)
(* Every operation reads a clock and then runs one or two database         *)
(* transactions.  The clock is the wall clock held back by a governor that *)
(* lets it gain no more than the monotonic clock does; the governor starts *)
(* again from the wall clock when the process restarts.  The wall clock is *)
(* set by the environment, forwards and backwards.  Calls interleave       *)
(* between the reading and each transaction, and any of them may be        *)
(* dropped there.                                                          *)
(*                                                                         *)
(* The chain is external: a pushed bundle may or may not be in a mempool,  *)
(* and the replica is told of spent coins by its peers at any time.        *)
(***************************************************************************)
EXTENDS Integers, FiniteSets

CONSTANTS
    Coins,
    Bundles,    \* spend bundles, by their name
    Inputs,     \* [Bundles -> SUBSET Coins], the coins a bundle spends
    Leases,     \* identities of client reservations
    Calls,      \* operations in progress at a time
    Free,       \* no bundle, no lease
    TTL,        \* RESERVATION_TTL_MS
    CAP,        \* MAX_RESERVATION_HOLD_MS
    LeaseMax,   \* CLIENT_RESERVATION_MAX_TTL_MS
    MaxReal,    \* bound on monotonic time
    MaxWall,    \* bound on the wall clock
    MaxUpsets,  \* bound on what happens from outside: restarts, settings
                \* of the wall clock, news of spent coins
    MaxCalls    \* bound on the operations begun

ASSUME HoldConstants ==
    /\ Inputs \in [Bundles -> SUBSET Coins]
    /\ Free \notin Bundles /\ Free \notin Leases
    /\ TTL \in Nat \ {0} /\ CAP \in Nat /\ TTL <= CAP
    /\ LeaseMax \in Nat \ {0} /\ LeaseMax <= CAP
    /\ MaxReal \in Nat /\ MaxWall \in Nat
    /\ MaxUpsets \in Nat /\ MaxCalls \in Nat

VARIABLES
    real, wall,     \* the monotonic clock and the wall clock
    upsets,         \* restarts, settings of the wall clock and news so far
    begun,          \* operations so far
    gov,            \* ClockGovernor: the last reading and when it was taken
    pending,        \* the bundles of pending_transactions
    row,            \* [Bundles -> submitted_at and expires_at]
    claim,          \* coin_reservations, [Coins -> the bundle or Free]
    lease,          \* client_coin_reservations, [Coins -> id and expires]
    spent,          \* coins the replica records as spent
    call,           \* [Calls -> the operation in progress]
    anchor,         \* history: the reading that dates a bundle's row, and
                    \* when it was taken (Past: by an earlier process)
    leaseAnchor,    \* history: the same for a coin's lease
    floor           \* history: the lowest reading a row was pruned with

clocks == <<real, wall, upsets, gov>>
holds == <<pending, row, claim, lease>>
history == <<anchor, leaseAnchor, floor>>
vars == <<clocks, begun, holds, spent, call, history>>

Past == -1
NoRow == [submitted |-> 0, expires |-> 0]
NoLease == [id |-> Free, expires |-> 0]
NoAnchor == [now |-> 0, at |-> Past]
NoCall == [pc |-> "idle", op |-> "none", now |-> 0, at |-> 0,
           bundle |-> Free, coins |-> {}]

Init ==
    /\ real = 0 /\ wall \in 0 .. MaxWall /\ upsets = 0 /\ begun = 0
    /\ gov = [ms |-> wall, at |-> 0]
    /\ pending = {} /\ row = [b \in Bundles |-> NoRow]
    /\ claim = [c \in Coins |-> Free]
    /\ lease = [c \in Coins |-> NoLease]
    /\ spent = {}
    /\ call = [k \in Calls |-> NoCall]
    /\ anchor = [b \in Bundles |-> NoAnchor]
    /\ leaseAnchor = [c \in Coins |-> NoAnchor]
    /\ floor = [b \in Bundles |-> 0]

----------------------------------------------------------------------------
(* The clock.                                                              *)
Lesser(a, b) == IF a <= b THEN a ELSE b
Greater(a, b) == IF a >= b THEN a ELSE b

(* Mutant: the wall clock as it is.                                        *)
WallReading == wall

Reading == Lesser(wall, gov.ms + (real - gov.at))

ReadClock == gov' = [ms |-> Reading, at |-> real]

Tick ==
    /\ real < MaxReal /\ wall < MaxWall
    /\ real' = real + 1 /\ wall' = wall + 1
    /\ UNCHANGED <<begun, upsets, gov, holds, spent, call, history>>

(* The environment sets the wall clock.                                    *)
SetWall ==
    /\ upsets < MaxUpsets /\ upsets' = upsets + 1
    /\ wall' \in 0 .. MaxWall
    /\ UNCHANGED <<begun, real, gov, holds, spent, call, history>>

----------------------------------------------------------------------------
(* What the database holds.                                                *)
Claimed == {c \in Coins : claim[c] # Free}
Leased == {c \in Coins : lease[c].id # Free}
Held == Claimed \cup Leased

Settled(b) == \E c \in spent : claim[c] = b

(* prune_reservations.  A deadline further away than any hold can reach    *)
(* was written under a clock that has since gone back: the row is anchored *)
(* again, as if the bundle were pushed now, and a lease gets its longest   *)
(* life.  Then what has lapsed, or was settled, is deleted; deleting a row *)
(* deletes its claims.                                                     *)
Repaired(r, now) ==
    IF r.expires > now + CAP
    THEN [submitted |-> now, expires |-> now + TTL] ELSE r

RepairedLease(l, now) ==
    IF l.id # Free /\ l.expires > now + CAP
    THEN [l EXCEPT !.expires = now + LeaseMax] ELSE l

Survives(b, now) == Repaired(row[b], now).expires > now /\ ~ Settled(b)

PruneLease(c, now) ==
    LET l == RepairedLease(lease[c], now)
    IN  IF l.expires <= now \/ c \in spent THEN NoLease ELSE l

(* Mutant: the row goes, its claims stay.                                  *)
ClaimsKept(keep) == claim

(* coin_reservations after its ON DELETE CASCADE.                          *)
ClaimsOf(keep) ==
    [c \in Coins |-> IF claim[c] \in keep THEN claim[c] ELSE Free]

Prune(k) ==
    LET now == call[k].now
        read == [now |-> now, at |-> call[k].at]
    IN
    /\ call[k].pc = "prune"
    /\ pending' = {b \in pending : Survives(b, now)}
    /\ row' = [b \in Bundles |->
                  IF b \in pending' THEN Repaired(row[b], now) ELSE NoRow]
    /\ claim' = ClaimsOf(pending')
    /\ lease' = [c \in Coins |-> PruneLease(c, now)]
    /\ anchor' = [b \in Bundles |->
                     IF b \notin pending' THEN NoAnchor
                     ELSE IF row[b].expires > now + CAP THEN read
                     ELSE anchor[b]]
    /\ leaseAnchor' = [c \in Coins |->
                     IF lease'[c].id = Free THEN NoAnchor
                     ELSE IF lease[c].expires > now + CAP THEN read
                     ELSE leaseAnchor[c]]
    /\ floor' = [b \in Bundles |->
                    IF b \in pending' THEN Lesser(floor[b], now) ELSE 0]
    /\ call' = [call EXCEPT ![k].pc = call[k].op]
    /\ UNCHANGED <<begun, clocks, spent>>

----------------------------------------------------------------------------
(* The operations.  Each reads the clock and prunes with that reading; a   *)
(* lease and a reset then use the same reading again.                      *)
Begin(k, op) ==
    /\ call[k].pc = "idle" /\ begun < MaxCalls /\ begun' = begun + 1
    /\ ReadClock
    /\ call' = [call EXCEPT ![k] =
                   [NoCall EXCEPT !.pc = "prune", !.op = op,
                                  !.now = Reading, !.at = real]]
    /\ UNCHANGED <<real, wall, upsets, holds, spent, history>>

(* A call ends: answered, refused, failed, or dropped by its caller.       *)
End(k) ==
    /\ call[k].pc # "idle"
    /\ call' = [call EXCEPT ![k] = NoCall]
    /\ UNCHANGED <<begun, clocks, holds, spent, history>>

(* unreserved_unspent_coins: the unspent coins, and by a second query the  *)
(* reserved ones to leave out.                                             *)
ReadUnspent(k) ==
    /\ call[k].pc = "select"
    /\ call' = [call EXCEPT ![k] =
                   [@ EXCEPT !.pc = "filter", !.coins = Coins \ spent]]
    /\ UNCHANGED <<begun, clocks, holds, spent, history>>

ReadReserved(k) ==
    /\ call[k].pc = "filter"
    /\ call' = [call EXCEPT ![k] =
                   [@ EXCEPT !.pc = "built", !.coins = call[k].coins \ Held]]
    /\ UNCHANGED <<begun, clocks, holds, spent, history>>

(* Mutant: coins claimed by a pushed bundle may be leased.                 *)
ClashWithLeases(S, now) ==
    \E c \in S : lease[c].id # Free /\ lease[c].expires > now

(* reserve_client_coins after its own deletion of lapsed leases.           *)
Clash(S, now) ==
    \E c \in S : c \in Claimed
               \/ (lease[c].id # Free /\ lease[c].expires > now)

ReserveCoins(k, id, S, ttl) ==
    LET now == call[k].now IN
    /\ call[k].pc = "lease" /\ id \notin {lease[c].id : c \in Coins}
    /\ ~ Clash(S, now)
    /\ lease' = [c \in Coins |->
                   IF c \in S THEN [id |-> id, expires |-> now + ttl]
                   ELSE IF lease[c].expires <= now THEN NoLease
                   ELSE lease[c]]
    /\ leaseAnchor' = [c \in Coins |->
                   IF c \in S THEN [now |-> now, at |-> call[k].at]
                   ELSE IF lease'[c].id = Free THEN NoAnchor
                   ELSE leaseAnchor[c]]
    /\ call' = [call EXCEPT ![k] = NoCall]
    /\ UNCHANGED <<begun, clocks, pending, row, claim, spent, anchor, floor>>

(* release_client_reservation: the whole reservation, at any time.         *)
Release(id) ==
    /\ id \in {lease[c].id : c \in Coins}
    /\ lease' = [c \in Coins |->
                   IF lease[c].id = id THEN NoLease ELSE lease[c]]
    /\ leaseAnchor' = [c \in Coins |->
                   IF lease[c].id = id THEN NoAnchor ELSE leaseAnchor[c]]
    /\ UNCHANGED <<begun, clocks, pending, row, claim, spent, call, anchor, floor>>

(* reset_coin_db: refused under a hold that has not lapsed; otherwise the  *)
(* cached coins go, with what was known of their spending.                 *)
Reset(k) ==
    LET now == call[k].now IN
    /\ call[k].pc = "reset"
    /\ \A b \in pending : row[b].expires <= now
    /\ \A c \in Leased : lease[c].expires <= now
    /\ spent' = {}
    /\ call' = [call EXCEPT ![k] = NoCall]
    /\ UNCHANGED <<begun, clocks, holds, history>>

(* push_signed_bundle.  The bundle is handed to the network; unless it is  *)
(* refused for what it is, its inputs are reserved, by a clock read after  *)
(* the answer.  A refusal, and a reservation that cannot be written, end   *)
(* the call.                                                               *)
PushBundle(k, b) ==
    /\ call[k].pc = "idle" /\ begun < MaxCalls /\ begun' = begun + 1
    /\ call' = [call EXCEPT ![k] =
                   [NoCall EXCEPT !.pc = "push", !.bundle = b]]
    /\ UNCHANGED <<clocks, holds, spent, history>>

Answered(k) ==
    /\ call[k].pc = "push"
    /\ ReadClock
    /\ call' = [call EXCEPT ![k] =
                   [@ EXCEPT !.pc = "reserve", !.now = Reading, !.at = real]]
    /\ UNCHANGED <<begun, real, wall, upsets, holds, spent, history>>

(* Mutant: a re-push extends the hold from the present instant, uncapped.  *)
UncappedDeadline(r, now) == Greater(r.expires, now + TTL)

RepushDeadline(r, now) ==
    Greater(r.expires, Lesser(now + TTL, r.submitted + CAP))

(* reserve_spend: a new row, or a later deadline for the row there is; the *)
(* coins no other row has claimed.                                         *)
ReserveSpend(k) ==
    LET now == call[k].now
        b == call[k].bundle
        read == [now |-> now, at |-> call[k].at] IN
    /\ call[k].pc = "reserve"
    /\ pending' = pending \cup {b}
    /\ row' = [row EXCEPT ![b] =
                 IF b \in pending
                 THEN [@ EXCEPT !.expires = RepushDeadline(row[b], now)]
                 ELSE [submitted |-> now, expires |-> now + TTL]]
    /\ claim' = [c \in Coins |->
                   IF c \in Inputs[b] /\ claim[c] = Free THEN b ELSE claim[c]]
    /\ anchor' = IF b \in pending THEN anchor
                 ELSE [anchor EXCEPT ![b] = read]
    /\ floor' = IF b \in pending THEN floor ELSE [floor EXCEPT ![b] = now]
    /\ call' = [call EXCEPT ![k] = NoCall]
    /\ UNCHANGED <<begun, clocks, lease, spent, leaseAnchor>>

(* A peer's frame: coins are spent, or a reorganisation unspends them.     *)
ReplicaTold ==
    /\ upsets < MaxUpsets /\ upsets' = upsets + 1
    /\ spent' \in SUBSET Coins /\ spent' # spent
    /\ UNCHANGED <<real, wall, gov, begun, holds, call, history>>

(* The process stops and starts: calls are gone, the governor starts again *)
(* from the wall clock, the database stays.                                *)
Restart ==
    /\ upsets < MaxUpsets /\ upsets' = upsets + 1
    /\ gov' = [ms |-> wall, at |-> real]
    /\ call' = [k \in Calls |-> NoCall]
    /\ anchor' = [b \in Bundles |-> [anchor[b] EXCEPT !.at = Past]]
    /\ leaseAnchor' = [c \in Coins |-> [leaseAnchor[c] EXCEPT !.at = Past]]
    /\ UNCHANGED <<begun, real, wall, holds, spent, floor>>

CallStep(k) ==
    \/ \E op \in {"select", "lease", "reset"} : Begin(k, op)
    \/ Prune(k) \/ End(k)
    \/ ReadUnspent(k) \/ ReadReserved(k)
    \/ \E id \in Leases, S \in SUBSET Coins \ {{}}, ttl \in 1 .. LeaseMax :
           ReserveCoins(k, id, S, ttl)
    \/ Reset(k)
    \/ \E b \in Bundles : PushBundle(k, b)
    \/ Answered(k) \/ ReserveSpend(k)

Next ==
    \/ Tick \/ SetWall \/ ReplicaTold \/ Restart
    \/ \E id \in Leases : Release(id)
    \/ \E k \in Calls : CallStep(k)

Spec == Init /\ [][Next]_vars

----------------------------------------------------------------------------
(* Properties.                                                             *)
Rows == [submitted : Int, expires : Int]
LeaseRows == [id : Leases \cup {Free}, expires : Int]
Anchors == [now : Int, at : Nat \cup {Past}]
CallStates ==
    [pc : {"idle", "prune", "select", "lease", "reset", "filter", "built",
           "push", "reserve"},
     op : {"none", "select", "lease", "reset"},
     now : Int, at : Nat, bundle : Bundles \cup {Free},
     coins : SUBSET Coins]

(* Every variable keeps its type.                                          *)
TypeOK ==
    /\ real \in Nat /\ wall \in Nat /\ upsets \in Nat /\ begun \in Nat
    /\ gov \in [ms : Int, at : Nat]
    /\ pending \subseteq Bundles
    /\ row \in [Bundles -> Rows]
    /\ claim \in [Coins -> Bundles \cup {Free}]
    /\ lease \in [Coins -> LeaseRows]
    /\ spent \subseteq Coins
    /\ call \in [Calls -> CallStates]
    /\ anchor \in [Bundles -> Anchors]
    /\ leaseAnchor \in [Coins -> Anchors]
    /\ floor \in [Bundles -> Int]

(* The residual bound of the total-hold cap.  However often a bundle is    *)
(* pushed again, and however the wall clock is set, no reservation reaches *)
(* further than two caps less one lifetime beyond any instant the node     *)
(* observed while it held it (prune_reservations, reserve_spend).          *)
HoldBound ==
    \A b \in pending : row[b].expires <= floor[b] + 2 * CAP - TTL

(* A forward step of the wall clock releases nothing early: when a call    *)
(* that read the clock after a hold was dated finds the hold lapsed, the   *)
(* monotonic clock has really run for the time the hold was given, one     *)
(* lifetime for a pushed bundle (ClockGovernor::observe_at).               *)
NotLapsedEarly ==
    \A k \in Calls : call[k].pc \in {"prune", "lease", "reset"} =>
        /\ \A b \in pending :
              /\ anchor[b].at # Past /\ anchor[b].at < call[k].at
              /\ row[b].expires <= call[k].now
              => call[k].at - anchor[b].at >= TTL
        /\ \A c \in Leased :
              /\ leaseAnchor[c].at # Past /\ leaseAnchor[c].at < call[k].at
              /\ lease[c].expires <= call[k].now
              => call[k].at - leaseAnchor[c].at
                    >= lease[c].expires - leaseAnchor[c].now

(* No claim outlives its bundle's row, so none stays that no later prune   *)
(* would release, and a claim is on a coin the bundle spends               *)
(* (prune_reservations, coin_reservations' foreign key).                   *)
ClaimsHaveRows ==
    \A c \in Claimed : claim[c] \in pending /\ c \in Inputs[claim[c]]

(* The holds are an implementation of CoinLock: a lease is never granted   *)
(* over a coin a pushed bundle claims, a claim never passes straight from  *)
(* one bundle to another, and a bundle gives up its claims together        *)
(* (reserve_client_coins, reserve_spend, prune_reservations).              *)
Lock == INSTANCE CoinLock WITH
            leasedTo <- [c \in Coins |-> lease[c].id],
            claimedBy <- claim

ImplementsLock == Lock!Spec
============================================================================
