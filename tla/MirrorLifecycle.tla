-------------------------- MODULE MirrorLifecycle --------------------------
(***************************************************************************)
(* The mirror-collateral lifecycle of dig-node-service (mirror/*.rs) and   *)
(* the spend audit record it reads and writes (spend_audit.rs).  A pass    *)
(* looks at the capsules on disk, at the mirror coins on chain and at the  *)
(* audit record, then reclaims what is no longer owed and creates what is  *)
(* missing, one signed and broadcast spend at a time.                      *)
(*                                                                         *)
(* One task runs the passes, but disk, chain, mempool and clock move       *)
(* between any two of its steps, a broadcast can end either way, a line of *)
(* the audit file may fail to be written while the spend goes on, and the  *)
(* process can be killed anywhere: what a pass knows of its own spends is  *)
(* the newest revision of each record in an append-only file.              *)
(*                                                                         *)
(* A coin is named by its lineage, as its hash is: a wallet coin is <<w>>, *)
(* the mirror coin made from f for bond b in epoch e is f \o <<b, e>> and  *)
(* what reclaiming c pays out is c \o <<0>>.  Every funding coin is worth  *)
(* one mirror coin, so a URL reconcile pays for all it names.  The         *)
(* owned-coin scan is complete when it answers, so recheck_missing_bonds   *)
(* finds nothing to add to it.  What addresses the node observes, and the  *)
(* alerts of a pass, are not in this module.  A line cut between its last  *)
(* byte and its newline reads until the next line runs into it; here a cut *)
(* line never reads.                                                       *)
(***************************************************************************)
EXTENDS Integers, Sequences, FiniteSets, Functions

CONSTANTS
    Bonds,       \* capsules (store, root), ordered as the code sorts them
    Wallet,      \* the $DIG coins the operator starts with
    Window,      \* SETTLING_WINDOW_MS
    Reserve,     \* FUNDING_RESERVATION_WINDOW_MS
    Modes,       \* what the settings and the requirement allow a pass
    Faults,      \* subset of {"kill", "tear", "write", "broadcast", "sign"}
    MaxFaults,   \* bound on the faults suffered
    MaxSpends,   \* bound on the spends begun
    MaxEpoch,    \* bound on the epoch
    MaxTime      \* bound on the clock

ASSUME MirrorConstants ==
    /\ Bonds \subseteq Nat \ {0} /\ IsFiniteSet(Bonds)
    /\ IsFiniteSet(Wallet)
    /\ Window \in Nat /\ Reserve \in Nat
    /\ Modes \subseteq {"normal", "disabled", "deferred", "reconcile"}
    /\ Faults \subseteq {"kill", "tear", "write", "broadcast", "sign"}
    /\ MaxFaults \in Nat /\ MaxSpends \in Nat /\ MaxEpoch \in Nat /\ MaxTime \in Nat

VARIABLES
    now, epoch,
    disk,       \* capsules held on disk
    seen,       \* PresenceTracker.seen: bond -> [present, since]
    unspent,    \* the operator's unspent coins
    minted,     \* every coin a block has created
    mempool,    \* spends some full node holds
    spends,     \* every spend begun: [op, input, bond, epoch, at]
    ledger,     \* the fold of the audit file: spend -> newest record
    torn,       \* whether a line of the file was cut short
    reconciled, \* last_auto_reconcile_epoch
    faults,     \* how many faults there were, for the bound
    pass,       \* the pass in progress
    acked,      \* spend -> when the node began recording its submission
    unrecorded, \* submissions of which no line left a trace in the file
    steady      \* bond -> since when every look of this process has shown it

chain == <<unspent, minted, mempool>>
audit == <<ledger, torn>>
sent == <<acked, unrecorded>>
vars == <<now, epoch, disk, seen, chain, spends, audit, reconciled, faults, pass, sent, steady>>

----------------------------------------------------------------------------
(* Coins.                                                                  *)

None == <<>>
IsMirror(c) == Len(c) > 1 /\ c[Len(c)] # 0
BondOf(c) == c[Len(c) - 1]
EpochOf(c) == c[Len(c)]

(* The coin a spend creates: reclaimed_coin_id for a reclaim; a create's   *)
(* is not derived by the node, only found on chain.                        *)
Output(s) ==
    spends[s].input \o (IF spends[s].op = "create"
                        THEN <<spends[s].bond, spends[s].epoch>> ELSE <<0>>)

Mirrors == {c \in unspent : IsMirror(c)}
FundingCoins == {c \in unspent : ~ IsMirror(c)}

----------------------------------------------------------------------------
(* The audit record.                                                       *)

Record(status, funding, intended) ==
    [status |-> status, funding |-> funding, intended |-> intended, updated |-> now]

(* What may become of a line: a write that fails may have got nowhere, or  *)
(* part of the way.                                                        *)
Outcomes == {"written"} \cup (IF "write" \in Faults THEN {"nothing", "partly"} ELSE {})

(* Whether something went wrong, within the bound.                         *)
Fault(wrong) ==
    /\ wrong => faults < MaxFaults
    /\ faults' = IF wrong THEN faults + 1 ELSE faults

(* SpendLog::append.  A line written after one that was cut short runs     *)
(* into it, and neither parses.  The callers log an error and go on.       *)
Append1(s, rec, how) ==
    /\ ledger' = IF how # "written" \/ torn = "tail" THEN ledger
                 ELSE [i \in DOMAIN ledger \cup {s} |-> IF i = s THEN rec ELSE ledger[i]]
    /\ torn' = CASE how = "partly" -> "tail"
                 [] how = "written" /\ torn = "tail" -> "middle"
                 [] OTHER -> torn

(* Mutant: a spend that failed to be signed counts as possibly sent.       *)
AnyFailureOpen(r) == r.status \notin {"pending", "confirmed"}

(* may_have_reached_the_network.                                           *)
MayHaveReached(r) == r.status \in {"submitted", "unresolved", "failed_broadcast"}

IsTerminal(r) == r.status \in {"confirmed", "failed_signing"}

(* reserves_funding_at.                                                    *)
ReservesFunding(r, at) == ~ IsTerminal(r) /\ at - r.updated < Reserve

CommittedCoins ==
    {ledger[s].funding : s \in {t \in DOMAIN ledger : ReservesFunding(ledger[t], now)}} \ {None}

(* committed_funding_coin_ids: unknown as soon as one line is unreadable.  *)
Commitments ==
    [known |-> torn = "whole", coins |-> IF torn = "whole" THEN CommittedCoins ELSE {}]

----------------------------------------------------------------------------
(* PresenceTracker::observe, shown the listing the pass brings.            *)

Observed(d) == [present |-> d, since |-> now]

SeenNow ==
    [b \in DOMAIN seen \cup pass.held |->
        IF b \in pass.held
        THEN IF b \in DOMAIN seen /\ seen[b].present THEN seen[b] ELSE Observed(TRUE)
        ELSE IF seen[b].present THEN Observed(FALSE) ELSE seen[b]]

Settled == {b \in DOMAIN SeenNow : SeenNow[b].present /\ now - SeenNow[b].since >= Window}

Remembered == {b \in DOMAIN SeenNow : SeenNow[b].present \/ now - SeenNow[b].since < Window}

----------------------------------------------------------------------------
(* resolve_landed_spends.                                                  *)

SameBond(c, d) == BondOf(c) = BondOf(d) /\ EpochOf(c) = EpochOf(d)

(* The scan lists its coins in no particular order; the code takes the     *)
(* first that fits a bond.                                                 *)
Firsts ==
    {F \in SUBSET Mirrors : \A c \in Mirrors : Cardinality({f \in F : SameBond(c, f)}) = 1}

Attributed == {ledger[s].intended : s \in {t \in DOMAIN ledger : ledger[t].status = "confirmed"}}

(* The coins a record claims: the one it names, or one of its bond.        *)
Claimed(s, F) ==
    IF ledger[s].intended # None THEN {ledger[s].intended}
    ELSE {f \in F : BondOf(f) = spends[s].bond /\ EpochOf(f) = spends[s].epoch}

Claimants(c, F) == {s \in DOMAIN ledger : MayHaveReached(ledger[s]) /\ c \in Claimed(s, F)}

(* Mutant: the first of several claimants gets the coin.                   *)
ResolvableFirstClaimant(F) ==
    {p \in (DOMAIN ledger) \X minted :
        p[1] \in Claimants(p[2], F) /\ p[2] \notin Attributed /\ torn = "whole"}

(* A coin with one claimant, confirmed for no other, that is on chain.     *)
Resolvable(F) ==
    {p \in (DOMAIN ledger) \X minted :
        Claimants(p[2], F) = {p[1]} /\ p[2] \notin Attributed /\ torn = "whole"}

Resolved(R) ==
    [s \in DOMAIN ledger |->
        IF \E p \in R : p[1] = s
        THEN Record("confirmed", ledger[s].funding, (CHOOSE p \in R : p[1] = s)[2])
        ELSE ledger[s]]

(* What the lines that could not be written leave of the file: of two that *)
(* follow each other the second may run into the first.                    *)
TornBy(lost) ==
    {torn} \cup (IF "write" \in Faults
                 THEN (IF lost # {} THEN {"tail"} ELSE {}) \cup
                      (IF Cardinality(lost) > 1 THEN {"middle"} ELSE {})
                 ELSE {})

----------------------------------------------------------------------------
(* plan and decide, over the coins of the scan.                            *)

(* in_flight_creates: create or reclaim, a record says only its bond.      *)
InFlight(led) ==
    {spends[s].bond : s \in {t \in DOMAIN led :
        led[t].status \in {"pending", "submitted"} /\ spends[t].epoch = pass.epoch}}

Desired == IF pass.mode = "disabled" THEN {} ELSE pass.held

ToReclaim ==
    {c \in Mirrors : \/ EpochOf(c) < pass.epoch
                     \/ EpochOf(c) = pass.epoch /\ BondOf(c) \notin Desired}

(* reconcile_in_flight: an earlier URL reconcile may not have ended.       *)
ReconcileInFlight(led) ==
    \E s \in DOMAIN led : spends[s].op = "reconcile" /\ ReservesFunding(led[s], pass.at)

(* stale_set: what URLs a coin declares is not modelled, so any coins of   *)
(* held capsules for the current epoch may be stale.                       *)
MayBeStale == {c \in Mirrors : EpochOf(c) = pass.epoch /\ BondOf(c) \in pass.held}

(* reconcile::decide: the coins a pass is directed to take back so that    *)
(* their bonds can be made again with the URLs of today.                   *)
Directives(led) ==
    IF pass.mode = "reconcile" /\ ~ ReconcileInFlight(led) THEN SUBSET MayBeStale ELSE {{}}

CoveredBonds == {BondOf(c) : c \in {d \in Mirrors : EpochOf(d) = pass.epoch}}

Missing(led) == (Desired \ CoveredBonds) \ InFlight(led)

(* split_by_funds: the first that the balance pays for.                    *)
Affordable(B) == {b \in B : Cardinality({d \in B : d < b}) < pass.balance}

ToCreate(led) == IF pass.mode \in {"normal", "reconcile"} THEN Affordable(Missing(led)) ELSE {}

----------------------------------------------------------------------------
Idle == [pc |-> "idle", at |-> 0, mode |-> "normal", epoch |-> 0, held |-> {}, balance |-> 0,
         committed |-> [known |-> TRUE, coins |-> {}],
         reclaims |-> {}, stale |-> {}, creates |-> {}, spend |-> 0, accepted |-> FALSE]

Init ==
    /\ now = 0 /\ epoch = 1 /\ disk = {}
    /\ seen = [b \in {} |-> [present |-> FALSE, since |-> 0]]
    /\ unspent = {<<w>> : w \in Wallet} /\ minted = {} /\ mempool = {}
    /\ spends = <<>>
    /\ ledger = [s \in {} |-> Record("pending", None, None)] /\ torn = "whole"
    /\ reconciled = 0 /\ faults = 0 /\ pass = Idle
    /\ acked = [s \in {} |-> 0] /\ unrecorded = {}
    /\ steady = [b \in {} |-> 0]

----------------------------------------------------------------------------
(* The pass.                                                               *)

(* The round begins: the epoch, the disk, the balance and the commitments  *)
(* are read.  The settings are read too, and chosen below.                 *)
StartPass ==
    /\ pass.pc = "idle" /\ Len(spends) < MaxSpends
    /\ pass' = [Idle EXCEPT !.pc = "listed", !.epoch = epoch, !.held = disk,
                            !.balance = Cardinality(FundingCoins), !.committed = Commitments]
    /\ UNCHANGED <<now, epoch, disk, seen, chain, spends, audit, reconciled, faults, sent, steady>>

(* There is a chain source: the pass reads its clock and shows the listing *)
(* to the presence tracker.  In mode reconcile the daily check has found   *)
(* its address stable, and no URL reconcile was accepted in this epoch.    *)
ObservePass(m) ==
    /\ pass.pc = "listed"
    /\ m = "reconcile" => reconciled # pass.epoch
    /\ seen' = Restrict(SeenNow, Remembered)
    /\ pass' = [pass EXCEPT !.pc = "observed", !.at = now, !.mode = m, !.held = Settled]
    /\ steady' = [b \in pass.held |-> IF b \in DOMAIN steady THEN steady[b] ELSE now]
    /\ UNCHANGED <<now, epoch, disk, chain, spends, audit, reconciled, faults, sent>>

(* Mutant: a pass that fails takes the presence tracker with it.           *)
AbortForgetsPresence ==
    /\ pass.pc \in {"listed", "observed"}
    /\ pass' = Idle
    /\ seen' = [b \in {} |-> [present |-> FALSE, since |-> 0]]
    /\ UNCHANGED <<now, epoch, disk, chain, spends, audit, reconciled, faults, sent, steady>>

(* There is no chain source, or the scan was incomplete or failed: the     *)
(* pass decides nothing.                                                   *)
AbortPass ==
    /\ pass.pc \in {"listed", "observed"}
    /\ pass' = Idle
    /\ UNCHANGED <<now, epoch, disk, seen, chain, spends, audit, reconciled, faults, sent, steady>>

(* The scan answers; landed spends are resolved, unless the chain cannot   *)
(* be asked about them or their lines not written; the pass decides, and   *)
(* keeps nothing of what it decided from.                                  *)
Decide ==
    /\ pass.pc = "observed"
    /\ \E F \in Firsts : \E R \in SUBSET Resolvable(F) : \E D \in Directives(Resolved(R)) :
        /\ ledger' = Resolved(R)
        /\ torn' \in TornBy(Resolvable(F) \ R) /\ Fault(R # Resolvable(F))
        /\ pass' = [Idle EXCEPT !.pc = "acting", !.epoch = pass.epoch,
                                !.committed = pass.committed,
                                !.reclaims = ToReclaim \cup D, !.stale = D,
                                !.creates = ToCreate(Resolved(R))]
    /\ UNCHANGED <<now, epoch, disk, seen, chain, spends, reconciled, sent, steady>>

(* signer.sign records the intent before anything is signed.               *)
Begin(op, coin, b, e) ==
    /\ Len(spends) < MaxSpends
    /\ spends' = Append(spends, [op |-> op, input |-> coin, bond |-> b, epoch |-> e, at |-> now])
    /\ \E how \in Outcomes :
          Append1(Len(spends) + 1, Record("pending", None, None), how) /\ Fault(how # "written")
    /\ UNCHANGED <<now, epoch, disk, seen, chain, reconciled, sent, steady>>

(* Reclaims run first, each one whatever became of the others.             *)
BeginReclaim(c) ==
    /\ pass.pc = "acting" /\ c \in pass.reclaims
    /\ Begin(IF c \in pass.stale THEN "reconcile" ELSE "reclaim", c, BondOf(c), EpochOf(c))
    /\ pass' = [pass EXCEPT !.pc = "begun", !.spend = Len(spends) + 1, !.reclaims = @ \ {c}]

NextCreate == CHOOSE b \in pass.creates : \A d \in pass.creates : b <= d

(* Mutant: the coins other bundles are using are offered again.            *)
SelectAny == FundingCoins

(* select_operator_dig_cats: unspent and not committed elsewhere.          *)
Selectable == FundingCoins \ pass.committed.coins

BeginCreate(c) ==
    /\ pass.pc = "acting" /\ pass.reclaims = {} /\ pass.creates # {}
    /\ pass.committed.known /\ c \in Selectable
    /\ Begin("create", c, NextCreate, pass.epoch)
    /\ pass' = [pass EXCEPT !.pc = "begun", !.spend = Len(spends) + 1,
                            !.creates = @ \ {NextCreate}]

(* No coin can be selected: the remaining creates wait for another pass.   *)
StopCreates ==
    /\ pass.pc = "acting" /\ pass.reclaims = {} /\ pass.creates # {}
    /\ ~ pass.committed.known \/ Selectable = {}
    /\ pass' = [pass EXCEPT !.creates = {}]
    /\ UNCHANGED <<now, epoch, disk, seen, chain, spends, audit, reconciled, faults, sent, steady>>

(* The report of the pass says whether a URL reconcile was accepted.       *)
EndPass ==
    /\ pass.pc = "acting"
    /\ (pass.reclaims = {} /\ pass.creates = {}) \/ Len(spends) = MaxSpends
    /\ pass' = Idle
    /\ reconciled' = IF pass.accepted THEN pass.epoch ELSE reconciled
    /\ UNCHANGED <<now, epoch, disk, seen, chain, spends, audit, faults, sent, steady>>

(* A failed create ends the creates of the pass; a failed reclaim does not *)
(* end anything.                                                           *)
AfterFailure ==
    [pass EXCEPT !.pc = "acting",
                 !.creates = IF spends[pass.spend].op = "create" THEN {} ELSE @]

SigningFails ==
    /\ pass.pc = "begun" /\ "sign" \in Faults /\ Fault(TRUE)
    /\ \E how \in Outcomes : Append1(pass.spend, Record("failed_signing", None, None), how)
    /\ pass' = AfterFailure
    /\ UNCHANGED <<now, epoch, disk, seen, chain, spends, reconciled, sent, steady>>

BroadcastAccepted ==
    /\ pass.pc = "begun" /\ spends[pass.spend].input \in unspent
    /\ mempool' = mempool \cup {pass.spend}
    /\ pass' = [pass EXCEPT !.pc = "accepted"]
    /\ UNCHANGED <<now, epoch, disk, seen, unspent, minted, spends, audit, reconciled, faults, sent,
                    steady>>

(* The broadcast answers an error, though a full node may have the spend.  *)
BroadcastFails ==
    /\ pass.pc = "begun"
    /\ "broadcast" \in Faults \/ spends[pass.spend].input \notin unspent
    /\ Fault(spends[pass.spend].input \in unspent)
    /\ mempool' \in {mempool} \cup (IF spends[pass.spend].input \in unspent
                                    THEN {mempool \cup {pass.spend}} ELSE {})
    /\ pass' = [pass EXCEPT !.pc = "refused"]
    /\ UNCHANGED <<now, epoch, disk, seen, unspent, minted, spends, audit, reconciled, sent, steady>>

RecordFailure ==
    /\ pass.pc = "refused"
    /\ \E how \in Outcomes :
          Append1(pass.spend, Record("failed_broadcast", None, None), how) /\ Fault(how # "written")
    /\ pass' = AfterFailure
    /\ UNCHANGED <<now, epoch, disk, seen, chain, spends, reconciled, sent, steady>>

(* What a submission names as its target: a reclaim derives it, a create   *)
(* does not.                                                               *)
Intended(s) == IF spends[s].op = "create" THEN None ELSE Output(s)

(* Mutant: the coins of a submission are remembered from the next pass on. *)
CommittedUntouched == pass.committed

(* An accepted spend commits its coins for the rest of this pass.          *)
CommittedNow ==
    [pass.committed EXCEPT !.coins =
        IF pass.committed.known THEN @ \cup {spends[pass.spend].input} ELSE @]

Submission(status) == Record(status, spends[pass.spend].input, Intended(pass.spend))

RecordSubmission ==
    /\ pass.pc = "accepted"
    /\ \E how \in Outcomes :
        /\ Append1(pass.spend, Submission("submitted"), how) /\ Fault(how # "written")
        /\ unrecorded' = IF how = "nothing" THEN unrecorded \cup {pass.spend} ELSE unrecorded
    /\ acked' = [s \in DOMAIN acked \cup {pass.spend} |->
                    IF s = pass.spend THEN now ELSE acked[s]]
    /\ pass' = [pass EXCEPT !.pc = "submitted", !.committed = CommittedNow,
                            !.accepted = @ \/ spends[pass.spend].op = "reconcile"]
    /\ UNCHANGED <<now, epoch, disk, seen, chain, spends, reconciled, steady>>

(* The RecordedSpend goes out of scope unsettled: Drop records that its    *)
(* outcome is not known, with the coins its snapshot carries.              *)
DropRecorded ==
    /\ pass.pc = "submitted"
    /\ \E how \in Outcomes :
        /\ Append1(pass.spend, Submission("unresolved"), how) /\ Fault(how # "written")
        /\ unrecorded' = IF how = "nothing" THEN unrecorded ELSE unrecorded \ {pass.spend}
    /\ pass' = [pass EXCEPT !.pc = "acting"]
    /\ UNCHANGED <<now, epoch, disk, seen, chain, spends, reconciled, acked, steady>>

(* The process dies and starts again.  Nothing in memory survives, Drop    *)
(* does not run, and a line being appended may be cut short: one that      *)
(* confirms or intends a spend, or one about the spend in hand.            *)
Killed ==
    /\ "kill" \in Faults /\ (pass.pc # "idle" \/ DOMAIN seen # {}) /\ Fault(TRUE)
    /\ seen' = [b \in {} |-> [present |-> FALSE, since |-> 0]]
    /\ pass' = Idle
    /\ steady' = [b \in {} |-> 0]
    /\ UNCHANGED <<now, epoch, disk, chain, spends, ledger, reconciled, unrecorded>>
    /\ \/ UNCHANGED <<torn, acked>>
       \/ /\ "tear" \in Faults /\ pass.pc \notin {"idle", "listed"}
          /\ torn' = "tail"
          /\ acked' = IF pass.pc = "accepted"
                      THEN [s \in DOMAIN acked \cup {pass.spend} |->
                               IF s = pass.spend THEN now ELSE acked[s]]
                      ELSE acked

----------------------------------------------------------------------------
(* The world.  A pass reads the disk and the epoch once, as it starts, so  *)
(* what changes there during a pass is as good as changing after it.       *)

Included(s) ==
    /\ s \in mempool /\ spends[s].input \in unspent
    /\ unspent' = (unspent \ {spends[s].input}) \cup {Output(s)}
    /\ minted' = minted \cup {Output(s)}
    /\ mempool' = {t \in mempool : spends[t].input # spends[s].input}
    /\ UNCHANGED <<now, epoch, disk, seen, spends, audit, reconciled, faults, pass, sent, steady>>

Evicted(s) ==
    /\ s \in mempool
    /\ mempool' = mempool \ {s}
    /\ UNCHANGED <<now, epoch, disk, seen, unspent, minted, spends, audit, reconciled, faults, pass,
                    sent, steady>>

CapsuleLands(b) ==
    /\ b \notin disk /\ pass.pc = "idle"
    /\ disk' = disk \cup {b}
    /\ UNCHANGED <<now, epoch, seen, chain, spends, audit, reconciled, faults, pass, sent, steady>>

CapsuleGoes(b) ==
    /\ b \in disk /\ pass.pc = "idle"
    /\ disk' = disk \ {b}
    /\ UNCHANGED <<now, epoch, seen, chain, spends, audit, reconciled, faults, pass, sent, steady>>

Tick ==
    /\ now < MaxTime
    /\ now' = now + 1
    /\ UNCHANGED <<epoch, disk, seen, chain, spends, audit, reconciled, faults, pass, sent, steady>>

Rollover ==
    /\ epoch < MaxEpoch /\ pass.pc = "idle"
    /\ epoch' = epoch + 1
    /\ UNCHANGED <<now, disk, seen, chain, spends, audit, reconciled, faults, pass, sent, steady>>

Next ==
    \/ StartPass \/ \E m \in Modes : ObservePass(m)
    \/ AbortPass \/ Decide \/ StopCreates \/ EndPass
    \/ \E c \in Mirrors \cup pass.reclaims : BeginReclaim(c)
    \/ \E c \in FundingCoins : BeginCreate(c)
    \/ SigningFails \/ BroadcastAccepted \/ BroadcastFails
    \/ RecordFailure \/ RecordSubmission \/ DropRecorded \/ Killed
    \/ \E s \in mempool : Included(s) \/ Evicted(s)
    \/ \E b \in Bonds : CapsuleLands(b) \/ CapsuleGoes(b)
    \/ Tick \/ Rollover

Spec == Init /\ [][Next]_vars

----------------------------------------------------------------------------
(* Properties.                                                             *)

Spends == DOMAIN spends

(* A confirmation is never invented and never shared: a create's record    *)
(* that says confirmed names a coin a block really made for that bond and  *)
(* epoch, and no coin is confirmed by two records (resolve.rs: at most one *)
(* of several claimants created a coin, so none of them gets it).          *)
AttributionSound ==
    \A s \in DOMAIN ledger : ledger[s].status = "confirmed" =>
        /\ ledger[s].intended \in minted
        /\ spends[s].op = "create" =>
              BondOf(ledger[s].intended) = spends[s].bond /\ EpochOf(ledger[s].intended) = spends[s].epoch
        /\ \A t \in DOMAIN ledger \ {s} :
              ledger[t].status = "confirmed" => ledger[t].intended # ledger[s].intended

(* A coin whose submission this node has begun to record is not offered to *)
(* another create before the reservation lapses, whatever pass or process  *)
(* selects it, however much of the audit file survived and whichever of    *)
(* its lines failed, unless the record came to be confirmed.  It takes one *)
(* trace: when neither the submission nor what Drop writes left a byte,    *)
(* the reservation ends with the pass (SpendJournal::submitted says so).   *)
FundingNotDoubleCommitted ==
    \A s \in DOMAIN acked \ unrecorded, t \in Spends :
        (/\ s < t /\ spends[t].op = "create" /\ spends[t].at - acked[s] < Reserve
         /\ s \in DOMAIN ledger => ledger[s].status # "confirmed")
            => spends[t].input # spends[s].input

(* The audit file implements SpendRecord, through kills, lines that fail   *)
(* or are cut, and broadcasts whose fate is not known: an entry is revised *)
(* only forward, only resolve_landed_spends confirms one, and only a spend *)
(* whose bundle may have reached the network; a terminal entry is a        *)
(* history, not a mutable claim (spend_audit.rs).                          *)
Audit == INSTANCE SpendRecord WITH
             Numbers <- 1 .. MaxSpends,
             NoCoin <- None,
             entry <- [s \in DOMAIN ledger |->
                          [status |-> ledger[s].status,
                           coin |-> IF ledger[s].status = "confirmed"
                                    THEN ledger[s].intended ELSE None]],
             onChain <- minted

ImplementsRecord == Audit!Spec

(* Collateral of the current epoch is only taken back when its capsule is  *)
(* gone, mirroring is off, or a URL reconcile directs this pass to it: a   *)
(* capsule that every pass which came to look has shown to this process    *)
(* for the settling window keeps its coin, however many passes found no    *)
(* chain source or an incomplete scan.                                     *)
HeldCopyNotReclaimed ==
    [][\A c \in pass.reclaims' \ pass.reclaims :
          (/\ EpochOf(c) = pass.epoch /\ pass.mode # "disabled"
           /\ c \notin pass.stale' /\ BondOf(c) \in DOMAIN steady)
             => pass.at - steady[BondOf(c)] < Window]_vars
============================================================================
