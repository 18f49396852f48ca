# A verification of dig-node

TLA+ models of the parts of dig-node that decide about money, credentials,
collateral and what the node holds and answers for, the TLC runs that check them on
small instances, and TLAPS proofs of what matters most for every instance. Paths below
are relative to `src/`.

## 1. The system

dig-node is a peer-to-peer node for content ("capsules": signed, content-addressed
archives of a store's generation) that settles on the Chia chain. One process holds

* the **peer side** (`crates/dig-node-core`): the peer pool, the DHT and peer
  exchange, lookup and download of content with redirects and forwarded asks, the
  capsule cache, re-sharing, subscriptions with gap filling, profile
  synchronisation, the reward prover;
* the **service** (`crates/dig-node-service`): HTTP and control servers, pairing of
  controllers, the mirror-collateral lifecycle, the spend audit record, the
  rewards-claim loop, installation and updates;
* the **wallet** (`crates/dig-wallet`): coin database, synchronisation over peers
  with a fallback, read quorum, spends, tipping.

Every long-lived task is a tokio task. State is shared behind mutexes that are given
up across awaits, and persisted in small JSON files (written whole, by rename), one
append-only JSON-lines file (the spend audit) and SQLite. The process may be
stopped at any time; nothing else coordinates its tasks.

### Components, their state and what makes them hard

| component | state | operations | what is hard about it |
|---|---|---|---|
| rewards-claim loop (`rewards_claim/`) | preference file with the fee window and the last completion; in memory budget, rotation cursor, cycle counters | sleep, gate, discover, evaluate, quote, commit, submit, uncommit, complete | crash between commit and answer; saves that fail; file edited under a cycle; budget and cadence across processes; fairness of the rotation |
| controller pairing (`pairing.rs`) | pending map behind a mutex, `paired-tokens.json` | request, poll, list, approve, revoke | read-modify-write of the file with and without the mutex; expiry and the cap against a token that waits |
| mirror lifecycle (`mirror/`) | presence tracker, the pass in progress | scan, resolve, plan, reclaim, create | mempool and blocks move under a pass; broadcasts of unknown fate; kills; what a restart knows |
| spend audit (`spend_audit.rs`) | append-only records, folded by id | begin, submitted, failed, drop, resolve, reserve funding | lines torn or not written while the spend goes on, records left behind by a kill, double use of funding coins, attribution of coins |
| mirror wakes (`mirror/events.rs`, `server.rs`) | coalescer, round timer, watcher signal | hear an event, wake, wait | storms of events against the round; the settling window against the clock |
| tipping (`dig-wallet/.../tipping.rs`) | settings and ledger, each with a file | auto, daily and manual tip, set settings, load | overlapping requests, crash around the broadcast, ambiguous errors, midnight, stale settings |
| holder search (`download.rs`, `forwarded_ask.rs`, `holder_cache.rs`) | record of asks walked, permits, holder cache | answer an availability question, walk the DHT, put the question to peers, merge | loops and diamonds in the peer graph, hop and time budgets, silent peers, claims of absence from half a search |
| capsule cache and advertisement (`lib.rs`, `capsule_store.rs`, `module_reshare.rs`, `holdings.rs`, `dht.rs`) | capsule files, relay markers beside them, `cache_lock`, the advertised inventory | land by four routes, sweep, remove, reconcile | two files per capsule, routes with and without the lock, listings applied late |
| coin reservations (`rpc.rs`, `db.rs`, `custody.rs`) | pending bundles with deadlines, claims of coins, client leases, a governed clock | push, reserve, lease, release, select, reset, prune | a wall clock that is set, restarts, re-pushes, calls between two transactions |
| wallet synchronisation (`sync.rs`, `db.rs`) | coin rows, peak, synced flag, reset epoch, arrival baseline, arrivals | catch-up, frames, rollback, refresh, reset | three writers without a common lock, reorganisations, sessions that end anywhere |
| reward prover | entries, scores, pending commits | challenge, score, commit | challenges answered late, cycles that overlap |

Interaction: file events wake mirror passes; a pass reads the cache, the chain and the
audit record and writes the audit record; audit reservations limit which coins later
spends may select; the control server's gate reads the pairing file on every request;
consumption of content triggers automatic tips, which spend through the wallet. Landing
and eviction of capsules change what is advertised, and what is advertised is what
other nodes' holder searches find. The read path lands capsules for strangers too, so a
marker says whose a capsule is: mirror collateral is staked on the node's own only.

The parts the project does not model are listed with reasons in `PROJECT.json`
(`components`, status `not_modelled`) and in section 7.

## 2. Modules

| module | models | composed with |
|---|---|---|
| `ClaimOrder` | `order_for_budget`: who is served next, as an order instead of a sort | |
| `RewardsClaim` | one driver process after another, and every await of a claim cycle | `ClaimOrder` |
| `ClaimRotation` | the budget rotation over unboundedly many cycles | `ClaimOrder` |
| `Pairing` | pending pairings and the token file | |
| `SpendRecord` | the promise of the audit record: the life of each entry, no passes, clocks or files | |
| `MirrorLifecycle` | a pass, the audit record, mempool and chain | refines `SpendRecord` |
| `MirrorWake` | when passes run, and the clock they read | |
| `Tipping` | tip requests, ledger, settings | |
| `CoinLock` | the promise of the reservations: one lease and one claim per coin, no clocks | |
| `CoinHolds` | both kinds of reservation, their clock, calls in progress | refines `CoinLock` |
| `WalletSync` | the replica of the chain, its session, refresh and reset | |
| `AskNetwork` | one question for holders through a network of nodes | |
| `CapsuleCache` | capsules and markers on disk, the lock, the advertisement | |
| `RewardsClaimProofs` | theorems | `RewardsClaim`, `ClaimRotation` |
| `WalletProofs` | theorems | `Tipping`, `WalletSync` |
| `PairingProofs`, `MirrorWakeProofs`, `CoinHoldsProofs`, `MirrorLifecycleProofs`, `AskNetworkProofs`, `CapsuleCacheProofs` | theorems | the module they are about |
| `MC...` | constants for TLC | the module they instantiate |

An action is what the code does without giving up control: between two awaits, or
under one lock. The guard is the code's condition, the disjuncts its ways out.
Definitions that model a line range are listed with it in `PROJECT.json` (`map`);
definitions whose comment begins with "Mutant:" are plausible bugs, used only to
show that a property can fail.

**RewardsClaim.** `pc` is where the process is: off, asleep, in discovery, in either
phase, or awaiting a submission. `disk` is `rewards-claim.json`, whose `garbled` field
stands for a file that does not parse; `window`, `spent`, `exhausted`, `tally` and
`fault` are the locals of `run_cycle`. `paid` and `lastDone` are not program state: they
record what was really broadcast and when a cycle was really completed, which is what
the properties are about. `Persist` is a set of outcomes, because a failed save is only
logged. Accrued amounts, thresholds and fees are small numbers; hashes are gone.

**ClaimRotation.** One step is one completed cycle; launchers outside the tied tier come
and go as the constant `Presences` allows.

**Pairing.** A pairing, its token and the id that revokes it are one identifier: all
three are fresh random values. `approve` is two actions, load and save, with the mutex
held between them (`approving`), `revoke` is two actions without it.

**MirrorLifecycle.** Coins are named by their lineage, which is what a coin's hash is for:
equality of coins is equality of histories. `ledger` is the fold of the audit file,
`torn` whether a line was cut short; an append after a torn tail is lost with it. Every append
may fail, wholly or part of the way (`Outcomes`), and the caller goes on, as
`RecordedSpend::write` and `SpendJournal::begin` do: the record the file shows is then older than
what happened. `mempool`, `unspent` and `minted` are the chain. A round is `StartPass` (the disk,
the balance and the commitments are read), `ObservePass` (a chain source was found, the clock is
read and the presence tracker shown the listing) and `Decide` (the scan answered); `AbortPass`
leaves after either of the first two. A spend is one record in `spends`: a create, a reclaim, or
the reclaim of a coin whose URLs are stale (`reconcile`), which a pass with a stable address may
be directed to once an epoch (`reconciled`) when none is in flight. Which coins are stale depends
on what addresses the node observes, so any coins of held capsules may be. `acked`,
`unrecorded` and `steady` are history, for the properties.
`Audit` maps the fold to `SpendRecord`: an entry is its status and, once confirmed, its coin.

**MirrorWake.** Time is counted in steps, and a task that is due runs before time moves.
`MaxDelay` is how long a pass may take from waking to reading its clock.

**Tipping.** A request goes from resolving (settings read) to priced (owner known, day
fixed) to sending (reserved and saved) to one of three answers, and each arrow is one
lock acquisition of the code. `sent` is the list of spends that were broadcast. An
unreadable file is met only by `load`, so unreadability is a parameter of `Restart`.

**CoinHolds.** A call is a reading of the clock and then one database transaction per
action. `pending` and `row` are `pending_transactions`, `claim` is `coin_reservations`
with its foreign key, `lease` is `client_coin_reservations`. `gov` is the
`ClockGovernor`: a reading gains no more than the monotonic clock `real` has gained since
the last one. `anchor`, `leaseAnchor` and `floor` are history: which reading dated a hold,
and the lowest reading it survived. The node's own pushes and clients' leases are
the two ways to hold a coin, and `Lock` maps the pair of tables to `CoinLock`.

**WalletSync.** A coin is one payment from outside; `born` is the chain, `rows` what the
replica has. The session is a program counter through catch-up (ask, epoch, write,
complete) and through each frame (rollback, clear, items, peak, arrive), every stop being
an await between two transactions. The refresh reads its oracle twice, by address and by hint
(`RefreshFetch`, `RefreshHints`), and the chain goes on between the two. Peers and oracle are
honest but may be behind: the first answer is that of any prefix of the chain, the empty one
included, and as it is open which payments carry a hint, the second has any of the coins on
chain. `known`, `passed`, `reborn`, `straddled` and `onFaith` are history, and name what the
properties leave out. A refresh is `straddled` when the session rolled the replica back under
it, not by the fork itself. A payment is `passed` when the baseline was armed over it, or when
the second read of a refresh shows a coin as high and neither read has the payment. The mark of
a replica is `onFaith` while it stands on a refresh whose two answers lacked a coin of `known`.

**AskNetwork.** A run of the handler is named by the path that led to it, so one node may
have several runs at once, and a run goes on when its asker has given up. Time is
not counted: an asker may give up at any moment, which includes every schedule of
deadlines. `AskSeenSet::claim` is two steps, as its two critical sections are.

**CapsuleCache.** Each access to the disk is an action. `Begin` says which routes there
are and what each checks before it starts; `Landed`, `NotLanded` and `Swept` say where
each goes on. `crossed`, `unnoticed`, `overtaken` and `cut` are history: the cases in which
the code itself lets the disk, the markers or the advertisement drift for a while. The
listings in flight carry the order they were taken in (`earlier`): one that is in flight when
a later one is applied is `late`, and `overtaken` records that a late one was applied.

## 3. Runs

| run | question | outcome |
|---|---|---|
| `claim_cycle` | do ledger, budget, cadence, order and status survive crashes at every await, clock steps and a file damaged under a running cycle, and is that file left as it is? | holds, 3.1 million states |
| `claim_rotation` | is every launcher of a tied tier served again and again? | yes, whatever cheaper ones do |
| `pairing` | tokens, cap, expiry, one-time delivery with serial admin calls; is a minted token collected under polling? | holds |
| `pairing_race` | admin calls at the same time | a revoked token returns (finding) |
| `mirror` | attribution and funding under every fault, a line that is not written among them; does the audit file implement `SpendRecord`; does collateral of a capsule a process has seen long enough stay, unless a URL reconcile names it, over two epochs and all modes? | holds, 6.2 million states |
| `wake` | rate, spacing and round of the wakes; is a capsule settled when the settling pass looks? | holds |
| `tipping` | once per recipient and day, cap, record of everything sent | holds, 1.5 million states |
| `holds` | do holds last as long as promised and no longer than the cap, whatever the wall clock does, and do the tables implement `CoinLock`? | holds, 2.2 million states |
| `sync` | is a replica that calls itself synced whole, is every payment announced, is the rollback of a session bounded, with reset and refresh at every await and an oracle that lags? | holds, 7.1 million states |
| `asks` | does a question stay within its hops where its path is longer than the cap, claim no absence it has not established, return its permits, and end though nodes ask in a ring? | holds, 0.7 million states |
| `cache` | do markers tell whose a capsule is, and do budget and advertisement hold once the node is at rest? | holds, 1.3 million states |
| `cache_marker` | can a stranger's capsule be without its marker? | yes (finding) |

A type invariant is an invariant of the runs `sync`, `asks` and `cache`, where it carries a
bound of the code with it (the rollback allowance, the hop cap, the lock that is not
reentrant). For these three it is also proved, and for `RewardsClaim`, `Pairing`,
`MirrorWake`, `Tipping` and `CoinHolds` it is proved instead. `MirrorLifecycle` has none of its
own: its proofs state what they need of the types as invariants (`PassInv`, `SpendInv`).

### Bounds, and why they are enough

* Claims: two distributors suffice for order, deferral and partial failure; four time
  units with a window of two let a window roll, stay open over a crash and be stepped
  out of; fees 1 to 3 against a ceiling of 2 and a budget of 2 give every verdict of the
  budget phase. Saves succeed in both runs; the theorems say which results need that.
* Rotation: a tier of four and budgets that end before, inside and behind it.
* Pairing: three ids against a cap of two, so that eviction happens; two revokers and an
  approval, the smallest race; a lifetime of one tick.
* Mirror: three spends make create, retry and reclaim; two wallet coins let a retry use
  another coin than the first (they are symmetric); a reservation of two ticks lapses inside
  the run; two epochs and all modes have rollover, passes in which nothing is created, and a
  reconcile with the create that follows it. `MaxFaults` is two of any kind (a line that
  fails, a kill with or without a torn line, a signature or an ambiguous broadcast that fails, a
  resolution that is not completed): the line of a submission and the one Drop writes can both be lost.
  Disk and epoch change between passes only: a pass reads each once, when it starts. The
  settings of a pass are chosen when it observes, as nothing is done with them before.
  One capsule: the creates of two capsules meet in the wallet only, as two attempts for one
  capsule do.
* Wakes: 16 steps are more than two rounds of 7, with quiet period 1 and window 3, so an
  event can fall before, inside and after every interval.
* Tipping: two requests, two reservations, two days. One recipient may be tipped twice within the
  caps and both recipients may not, so the once-a-day check and the cap are each the
  only thing in the way.
* Holds: a bundle that spends both coins and a rival for one of them; lifetime 2, cap 3, so
  that one re-push is cut by the cap; two calls at a time of three, and one upset (the wall
  clock set anywhere, a restart, or news of spent coins) among them.
* Sync: two payments and three blocks, one fork of depth one, two sessions, one
  reset and one refresh, of these five any four (`MaxEvents`): each writer meets each other, at
  every step of both. Two payments are enough for one to come between the reads of a refresh and
  the other to be seen by the second.
* Asks: a ring of three nodes, of which the third also knows the holder and a node that does
  not forward; the question enters at the first two, so that it reaches the second and the third
  by two paths, as in a diamond, and each of them has two runs for one permit. The cap is two hops:
  the third node, reached by the longer path, and the first, reached round the ring, would ask on
  and may not. One fault. A run asks one of the peers it may choose from (`FanOut` 1); asking
  several in turn is left to the theorems, and `AskEnds` is not checked for it.
* Cache: room for one capsule and two capsules, so that every landing may evict; two tasks,
  three operations, one fault. The races of the findings need two.

Bounds on counters (`MaxTime`, `MaxSpends`, `MaxEntries`, `MaxEpoch`, `MaxDay`,
`MaxReal`, `MaxCalls`, `MaxUpsets`, `MaxTip`, `MaxSessions`, `MaxResets`, `MaxRefreshes`,
`MaxForks`, `MaxEvents`, `MaxOps`, `MaxFaults`) are guards
of the actions that count. `wake` is not checked for deadlock: its
clock ends at `MaxTime`, and everything else waits for the clock. Nor are `holds`, `sync`
and `cache`, which end when their operations are used up, and `asks`, where one
question is asked and answered.

### Fairness

`pairing` assumes that an extension keeps polling (strong fairness of its poll,
which the mutex may disable for a moment) and that a handler that has started ends
(weak fairness of the save). `claim_rotation` assumes that cycles keep happening, as the
driver loops for ever. `asks` assumes weak fairness of the handlers taken together: while some run of
a node that is up can go on, one does, as tasks are scheduled and `tokio::time::timeout`
fires. It does not assume that a peer answers. No other run assumes any.

## 4. Findings

Each is a statement of the repository that TLC refutes; `PROJECT.json` quotes them.

1. `revoke` rewrites the token file without the mutex (`pairing_race`).
2. The sweep deletes a capsule and then its marker under `cache_lock`, the read path lands
   without it: a stranger's capsule that lands between the two is left unmarked, and is
   advertised as the node's own (`cache_marker`).

Further statements of the repository that the models contradict. Each was refuted by TLC
as a property of its module; they are not kept as runs, and the properties that are state
the weaker fact that does hold:

* The rotation cursor is never saved (`driver.rs:160`, against `config.rs:94`), so the
  rotation begins anew with each process.
* The first pass after a restart reclaims collateral of capsules it holds (`server.rs:2954`,
  against `presence.rs:33`): `HeldCopyNotReclaimed` is about one process.
* A submission is recorded as unresolved before it can be included, so the next pass may
  create a twin (`spend_audit.rs:910`, against `SPEC.md:9181`).
* A reclaim whose broadcast failed can be confirmed with the coin it did not take
  (`resolve.rs:142`, against `spend_audit.rs:34`): `AttributionSound` is about creates.
* The coins offered for a spend are read by two queries, so a coin that was held
  when it was read may be offered (`db.rs:3226`, against `db.rs:3245`).
* `finalize_spend` and the broadcast of a tip reserve nothing (`rpc.rs:3306`, against
  `SPEC.md:5846`).
* A refresh moves the baseline past a payment that was never announced (`rpc.rs:3605`, against
  `db.rs:2497`, "skips coins it never recorded (money the user is never told about)"), in two
  ways: it read before a rollback and records after it, or the payment, without a hint, is
  confirmed between its two reads and the second shows a later coin (`rpc.rs:3460`).
  `ArrivalNotLost` leaves both out (`straddled`, `passed`). Without either exception TLC finds
  the payment lost.
* Two copies of one question that arrive together are both walked (`holder_cache.rs:269`,
  against `SPEC.md:3655`).
* A removal, a melt and a landing by the read path are followed by no reconcile
  (`capsule_store.rs:268`, `lib.rs:2836`, against `SPEC.md:7296` and `SPEC.md:7307`):
  `AdvertisedAtRest` leaves those capsules out until the next one.

Weaker than the comments beside the code, and stated in the weaker form by the properties:

* A pre-commit that cannot be saved does not stop the submission (`engine.rs:292`), so the
  ledger properties assume saves that succeed.
* Preferences other than the fee window are captured when the driver starts
  (`driver.rs:568`), so they also assume that nobody rewrites the file's figures.
* Launchers of a dearer tier that come and go can keep the cursor away from a tied tier
  (`engine.rs:760`): `TiedTailServed` is checked with dearer launchers that stay.
* An append to the audit file that fails is logged and the spend goes on
  (`spend_audit.rs:886`, `spend_audit.rs:1009`). When both the line of a submission and the one
  Drop writes leave nothing, no later pass knows of its coins and the next may select them, which
  the comment on `submitted` says of an unrecorded submission (`spend_audit.rs:1032`):
  `FundingNotDoubleCommitted` leaves those submissions out (`unrecorded`). One line, or part of
  one, is enough: a torn line stops creates altogether.
* A URL reconcile takes back the collateral of a capsule that is held and settled
  (`pass.rs:288`, on by default): `HeldCopyNotReclaimed` leaves the coins it names out.
* A refresh marks the replica authoritative whatever its oracle answered: "It DOES latch over
  zero rows ... declaring an empty table authoritative" (`rpc.rs:3551`).
  `AuthoritativeIsWhole` leaves out the mark set by an answer that lacked a coin of `known`,
  until a catch-up or a reset replaces it (`onFaith`). Without the exception TLC refutes it.
* A capsule missing from one scan loses its collateral in that pass (`presence.rs:105`).
* The settling pass can be too early by the time the observing pass took to read its clock
  (`server.rs:2994`): `SettledAfterBurst` allows for it.
* A tip uses the settings read before the owner lookup (`tipping.rs:694`): `DailyCapHolds`
  is about the largest cap ever in force.
* A hold dated by an earlier process may end early, because the governor starts again from
  the wall clock (`custody.rs:511`): `NotLapsedEarly` is about holds dated by this one.

`PROJECT.json` (`hazards`) lists what is hard to test, with the property that watches it. Also
met, and watched by none:

* `chain_port.rs:409`: a broadcast of unknown fate is reported as refused, and its fee taken
  back out of the window. `config.rs:230`: lowering the budget below what is spent makes the
  file corrupt by its own rule. `driver.rs:170`: the first cycle comes a whole interval after
  the start, so a node restarted more often never claims.
* `pairing.rs:310`: a crash after approval leaves a valid token nobody received.
  `pairing.rs:374`: a token file that cannot be read is taken for an empty one.
* `spend_audit.rs:605`: one unreadable line refuses creates and resolutions for ever; the
  model shows it (`StopCreates`). `tipping.rs:670`: the owner cache is never invalidated.
* `rpc.rs:2260`: the process may stop between push and reservation. `db.rs:2995`: a coin two
  bundles spend is free when the first one's row goes. `db.rs:3114`: a reset is allowed while
  a push is not yet reserved. `db.rs:1828`: a refresh may put an older state of a coin over a
  newer one.
* `download.rs:2012`: a question is recorded as walked before a permit is had, so a retry is
  refused too. `download.rs:2774`: a miss at the redirect cap is answered without a search.
* `lib.rs:2972`: the rollback of a failed write may take away another landing's marker.
  `module_reshare.rs:341`: a failed rename leaves a marker without a capsule.
  `capsule_store.rs:377`: a newer root than the one asked for lands without sweep and
  advertisement. `lib.rs:2409`: decoded content may enter its cache after its capsule was
  evicted. `module_reshare.rs:775`: `warm_capped` does not sweep.

## 5. Proofs

TLAPS checks every theorem to its leaves; nothing is assumed but the named `ASSUME`s on
the constants, which TLC evaluates in every run.

* **RewardsClaimProofs.** `TypeCorrect`, `DearestServedFirst` and `NominalHonest` hold
  without restriction. `WriteAhead`, `BudgetHolds` and `CadenceHolds` assume `Undisturbed`:
  saves succeed, and what befalls the file leaves it unreadable. The invariant has two
  parts. `CycleInv` ties the running cycle to the chain: its window counts the one
  submission in flight and all that this and earlier processes sent. `FileInv` ties the
  file to both for as long as it can be read; once it cannot, no cycle begins, and the
  one that is running goes on by its own window. `LedgerCoversChain` alone is not
  inductive, because nothing in it says that the engine's copy is the file's.
  `CorruptFileLeft` needs none of it: every save of the engine loads the file first and
  leaves one that does not parse, so it is a property of each step.
  Of `ClaimRotation`: `BudgetOrderIsTotal` says that value, then the place
  after the cursor in the cycle of ids, is a strict total order. The number of claims ahead of one is then its position
  (an injection of the claims into the positions, so none is left out), which is what
  `CycleSpendsItsBudget` counts with and makes the `CHOOSE` of the next cursor one that exists.
  `RotationDefersNothingDearer` follows, the value being what the order looks at first.
* **PairingProofs.** With serial admin calls a call in flight has loaded what the file
  holds (`SerialInv`), so its save adds or removes one token only. Without them the
  theorem is false (`pairing_race`). The other three hold without it. `TokenCollectedOnce`
  needs that the ids in the map and those collected were all drawn (`DrawnInv`), since only
  then does a new request not bring back an old id. `MintedNotDropped` follows from what
  pruning and eviction may choose. `FloodBounded` is a count: at the cap the unapproved
  entries are not empty, so there is an oldest one, and a request puts one in for one out.
* **MirrorWakeProofs.** `BurstInv` ties the number of wakes since the last event to what
  the coalescer still owes. No assumption on the lengths, or on the delay inside a pass.
  `SettlingPassActs` needs `SettlingInv`: while a follow-up is owed and nothing was heard, the
  disk is as the observing pass listed it, and its capsule is stamped by the time that pass
  may take, or will be by that very pass.
* **WalletProofs.** Of `Tipping`: `NeverTippedTwice` and `SentTipsRecorded` hold for any number of
  requests, with failing saves, unreadable files and restarts. The argument is a chain: a
  tip that was sent has its entry in the file, the file has one automatic entry per
  recipient and day, and no two tips share an identifier. `TipInv` carries the chain
  through the requests in flight: each has its entry in both copies of the ledger, under
  an identifier of its own, and while it waits nothing was sent under it. `DailyCapKept` adds
  `CapInv`: both copies of the ledger are within the largest cap, and so is every cap a check
  may still be made with, the one a request read before the settings changed included. Each
  tip sent has its own entry in the file, so what was sent is no more than what the file
  says. The sum is the community modules' fold: it is shown to count the units of all amounts
  (`SumIsWeight`, by a smallest subset on which it would not), and sums are then compared by
  injections between finite sets.
  Of `WalletSync`: the invariant is built in layers, each of which rests on the ones before it.
  `SyncTyped` has the types and keeps every height within the chain, `RollbacksBounded` with it.
  `ValuesTrue`: a coin no reorganisation moved is known everywhere, in rows, answers and
  frames, at the height it was born. `Joined`: the frames in the queue begin no later than the
  one before them ends, and the first of them no later than where the session stands.
  `Covered`: a frame tells of every coin born between its ends, except the bare peaks pushed
  before the subscription, and those lie behind what the catch-up has read. `CatchUpWhole`:
  what a catch-up that no reset overtook has read is in its answer or in the rows. `Whole` and
  `ArrivalsWhole` then say of every stop of session and refresh which transactions are behind
  it: rows before the latch, rows before the peak, rows before the baseline. Of a refresh they
  say what its two reads have between them (`BothReadsAre`): every coin of `known`, unless it
  says it lacks one, and every coin up to the highest it tells of, unless that coin is `passed`.
  `SyncedMissesNoCoin` and `NoArrivalLost` are their readings between the steps. Neither
  property is inductive: what a refresh or a catch-up is about to mark is in its own copy.
* **CoinHoldsProofs.** The invariant has four parts beside the types. `RowsBounded` bounds a
  row's deadline by its date and by the lowest reading it survived: `HoldBound` alone is not
  inductive, since a re-push extends from the date and a prune repairs by its own reading.
  `ReadingsAgree` says that two readings of one process differ by no more than the monotonic
  time between them, for the readings calls carry, the governor's and the anchors:
  `NotLapsedEarly` follows by subtraction. `ClaimsHaveRows` says a claim's row exists, which
  makes the loss of a row the end of its claims, and `CallShape` what a call carries at each
  step. `HoldsAreALock` is the refinement: `Prune` maps to `Lapse`, `ReserveCoins` to `Lease`,
  `ReserveSpend` to `Claim`, and everything else to `Release` or to a stutter.
* **MirrorLifecycleProofs.** Each property needs a different strengthening, and `LifecycleInv`
  joins them. `ConfirmationsSound` needs `NamelessInv`: a create that may have reached the
  network names no coin, so resolution goes by bond and epoch and finds only coins that blocks
  made for them. `FundingCommittedOnce` needs `AckInv`, that while every line of the
  file can be read it holds the coin of every submission that left a trace, until its
  confirmation, and `CommitInv`, that what a pass knows to be committed covers what is: the file
  may be torn, and the clock may move, after the pass has read it, and the line of the submission
  in hand may still be made good by Drop. `TerminalRecordsStay` needs `HandInv`: the
  spend in hand is the newest and nothing is settled about it, so no late write of the pass
  meets a terminal record. `HeldCopyKept` needs `SteadyInv`: the tracker has seen a steady
  capsule for at least as long as the history has. `AuditIsARecord` is the refinement of
  `SpendRecord`. It needs `LineInv`: the newest line of the spend in hand that can be read, if there is one,
  is the pass's own, the intent until a submission was written. Any line may be lost, so `Begin`
  opens an entry or does nothing, and the outcomes open one, revise one or do nothing (an intent
  may become unresolved at once, when the line of the submission failed); `Decide` confirms a set of entries with
  distinct coins, as each coin has one claimant; a block that includes a spend adds coins.
  Any number of bonds, coins, spends and epochs, and any reservation and window.
* **AskNetworkProofs.** `RunInv` says of each run that its depth is the length of its path, that
  it asks only as a forwarding node with a hop to spare, and that it claims absence only when
  it is over, whole, and names nobody: `HopsBounded` and `AbsenceIsOwn` follow, for every
  network. `NoPermitLost` is a count of the searches that hold a permit, kept by `PermitInv`
  together with the finiteness of what is counted. A permit is taken and returned
  once per run; that a node does not start the same run twice is `ChildInv`.
* **CapsuleCacheProofs.** `LockInv` ties the holder of `cache_lock` to the step it is at, which
  is why the sweep that a landing enters under the lock is the one that does not take it.
  `MarkerTruthful` needs `ClaimInv`: between the claim and the publication of a capsule
  the marker is the claimant's. `CacheBounded` needs `BudgetInv`: a cache over its
  budget has a task that owes a sweep, or a sweep under way whose remaining victims are
  enough. `AdvertisementFollows` is the longest argument: for each capsule that is neither
  crossed nor unnoticed, either some task will list the disk again or note the change, or the
  newest listing in flight is right about it, or, if there is none, the advertisement is
  (`AdvertInv`); `OrderInv` makes "newest" meaningful, as the listings in flight are totally
  ordered by when they were taken.

Only model-checked: liveness (`TiedTailServed`, `ApprovedIsCollected`, `AskEnds`), which the
prover does not reach. Every safety invariant, action property and refinement of a passing
run is a theorem; those of the two runs that end in a violation are false.

## 6. Plan

Done in this order, because money and credentials come first: claims, pairing, mirror
lifecycle with the audit record, wakes, tipping; then coin reservations with their abstract
lock, wallet synchronisation, the holder search, the capsule cache; then the proofs, and the
abstract audit record. Next:

1. `ReadQuorum`: agreement of sources, as a refinement of a single honest source.
2. An abstract specification of the advertisement, "what is advertised is held, or was when
   the disk was last listed", and `CapsuleCache` shown to implement it.
3. The reward prover's cycle; the daily observation of addresses; profile synchronisation; rate limits.

## 7. Not modelled, and why

* Cryptography, CLVM and Merkle verification: computation in external crates, without
  protocol state. The models take "valid" or "invalid" as an input.
* Installation, updates and command lines: single calls of the platform.
* What the chain port reports as refused although the broadcast's fate is unknown: the
  engine sees one answer for both, see the hazard at `chain_port.rs:409`.
* Amounts in mojos and base units, with their saturation: the numbers are small and the
  orders among them are kept.
* In `MirrorLifecycle`: the recheck of missing bonds (the scan is complete when it
  answers), alerts, several coins per create, what URLs a coin declares and when the daily check
  finds an address stable (a reconcile may name any coins of held capsules, and affords all it
  names, as funding coins are worth one mirror coin), and a save of the epoch cap that fails. A
  line cut exactly before its newline, which reads until the next one runs into it, is taken for
  a line cut anywhere.
* In `CoinHolds`: routes that broadcast without reserving, which leave its state alone.
* In `WalletSync`: spending of coins, other assets and their admission by proof (a row found by
  hint is staged first, and here a payment is in the replica or not), the derivation of addresses and the wallet's own
  change; dishonest peers, whose answers the quorum is for.
* In `AskNetwork`: redirects and the ranges they lead to, the wire format, and the scoring of
  peers, which an external crate does: any choice of the right number may be made.
* In `CapsuleCache`: sizes of capsules, the cache of decoded content, the prefetch of tier-0
  content, and the expiry of provider records in the DHT.
* The reward prover, profile synchronisation, the collateral census, the observation of the
  node's own address and the read quorum: state machines of their own, left for later. They share no state with
  the modules here beyond answers those take as nondeterministic input.
