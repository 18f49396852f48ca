----------------------------- MODULE WalletSync -----------------------------
(***************************************************************************)
(* The wallet's replica of the chain (dig-wallet, sage/sync.rs, db.rs,     *)
(* rpc.rs and the supervisor of sessions).  Three writers share it without *)
(* a lock between their transactions:                                      *)
(*                                                                         *)
(*   - the subscription session: a catch-up from genesis in batches, then  *)
(*     the frames the peer pushes, in order.  The supervisor may cancel it *)
(*     between any two steps, and dials another peer;                      *)
(*   - the refresh, which reads every tracked coin from an oracle, first   *)
(*     by address and then by hint;                                        *)
(*   - the reset, which empties the replica.                               *)
(*                                                                         *)
(* Catch-up and refresh both mark the replica authoritative.  From a first *)
(* completed catch-up on, coins above a baseline height are announced as   *)
(* arrivals.                                                               *)
(*                                                                         *)
(* The chain, the peers and the oracle are external, and honest: a peer    *)
(* knows a prefix of the chain and pushes a frame for every block it       *)
(* learns of, the oracle answers from a prefix, which may be empty.  A     *)
(* coin stands for a confirmed payment from outside at a watched address,  *)
(* hinted or not.                                                          *)
(***************************************************************************)
EXTENDS Integers, Sequences, FiniteSets, FiniteSetsExt

CONSTANTS
    Coins,
    MaxTip,       \* bound on the height of the chain
    MaxReorg,     \* MAX_REORG_DEPTH, also the session's whole allowance
    MaxSessions,  \* bound on the sessions dialled
    MaxResets,    \* bound on resets
    MaxRefreshes, \* bound on refreshes
    MaxForks,     \* bound on reorganisations of the chain
    MaxEvents     \* bound on all four together

ASSUME SyncConstants ==
    /\ MaxTip \in Nat \ {0} /\ MaxReorg \in Nat
    /\ {MaxSessions, MaxResets, MaxRefreshes, MaxForks, MaxEvents} \subseteq Nat

VARIABLES
    tip, born,      \* the chain: its height, [Coins -> height or Absent]
    peerTip,        \* the prefix of the chain the session's peer knows
    frames,         \* pushed by the peer and not yet taken
    session,        \* the subscription session
    refresh,        \* the refresh in progress
    rows,           \* table coins, [Coins -> created_height or Absent]
    state,          \* sync_state: peak, synced, epoch, baseline
    arrivals,       \* table arrivals
    known,          \* history: the coins on chain at the last reset
    passed,         \* history: what the baseline was armed over, or the
                    \* second read of a refresh went past
    reborn,         \* history: the coins a reorganisation moved
    straddled,      \* history: a rollback came under a refresh
    onFaith,        \* history: a refresh marked the replica synced by an
                    \* answer that lacked a coin of known
    count           \* sessions, refreshes, forks so far

chain == <<tip, born>>
wire == <<peerTip, frames>>
replica == <<rows, state, arrivals>>
ghosts == <<known, passed, reborn, straddled, onFaith>>
syncVars == <<chain, wire, session, refresh, replica, ghosts, count>>

Absent == 0
NoBaseline == -1
Heights == 0 .. MaxTip

RoomForMore ==
    state.epoch + count.sessions + count.refreshes + count.forks < MaxEvents

NoItems == [c \in {} |-> 0]

NoSession == [pc |-> "down", epoch |-> -1, upto |-> 0, got |-> NoItems,
              finished |-> FALSE, orphan |-> FALSE, spent |-> 0,
              fork |-> 0, height |-> 0]
NothingRead == [c \in Coins |-> Absent]
NoRefresh == [pc |-> "idle", epoch |-> 0, got |-> NothingRead, top |-> 0, lacks |-> FALSE]

SyncInit ==
    /\ tip = 1 /\ born \in [Coins -> {Absent, 1}]
    /\ peerTip = 0 /\ frames = <<>>
    /\ session = NoSession /\ refresh = NoRefresh
    /\ rows = [c \in Coins |-> Absent]
    /\ state = [peak |-> 0, synced |-> FALSE, epoch |-> 0,
                baseline |-> NoBaseline]
    /\ arrivals = {}
    /\ known = {c \in Coins : born[c] # Absent}
    /\ passed = {} /\ reborn = {}
    /\ straddled = FALSE /\ onFaith = FALSE
    /\ count = [sessions |-> 0, refreshes |-> 0, forks |-> 0]

----------------------------------------------------------------------------
(* The chain and the session's peer.                                       *)
OnChain == {c \in Coins : born[c] # Absent}
Between(low, high) == {c \in OnChain : low < born[c] /\ born[c] <= high}

Connected == session.pc # "down"
(* The peer subscribes the wallet with its last answer.                    *)
Subscribed == session.finished

(* What a peer pushes for a block: to a subscriber the coin states that    *)
(* changed, else its new peak alone (a peak after the coins does nothing). *)
Pushed(fork, height, items, changed) ==
    [kind |-> IF changed THEN "coins" ELSE "peak",
     fork |-> fork, height |-> height, items |-> items]

ItemsOf(S, at) == [c \in S |-> at[c]]

Mine(S) ==
    /\ tip < MaxTip /\ tip' = tip + 1
    /\ born' = [c \in Coins |-> IF c \in S THEN tip' ELSE born[c]]
    /\ UNCHANGED <<wire, session, refresh, replica, ghosts, count>>

BlockFrame(h, subscribed) ==
    LET S == IF subscribed THEN Between(h - 1, h) ELSE {}
    IN  Pushed(h - 1, h, ItemsOf(S, born), S # {})

PeerLearns ==
    /\ Connected /\ peerTip < tip
    /\ peerTip' = peerTip + 1
    /\ frames' = Append(frames, BlockFrame(peerTip', Subscribed))
    /\ UNCHANGED <<chain, session, refresh, replica, ghosts, count>>

(* The chain above f is replaced, some of its coins and new ones are born  *)
(* again on the new branch.  A peer that was past f pushes one frame.      *)
Reorganise(f, S, h) ==
    /\ tip < MaxTip /\ count.forks < MaxForks /\ RoomForMore
    /\ tip' = tip + 1
    /\ born' = [c \in Coins |-> IF c \in S THEN h
                                ELSE IF born[c] > f THEN Absent ELSE born[c]]
    /\ LET moved == S \cup {c \in OnChain : born[c] > f} IN
       /\ reborn' = reborn \cup moved
       /\ known' = known \ moved /\ passed' = passed \ moved
       /\ IF Connected /\ peerTip > f
          THEN /\ peerTip' = tip'
               /\ frames' = Append(frames, Pushed(f, tip', ItemsOf(S, born'),
                                                  Subscribed /\ moved # {}))
          ELSE UNCHANGED wire
    /\ session' = IF session.upto > f /\ ~ session.finished
                  THEN [session EXCEPT !.orphan = TRUE]
                  ELSE session
    /\ count' = [count EXCEPT !.forks = @ + 1]
    /\ UNCHANGED <<refresh, replica, straddled, onFaith>>

----------------------------------------------------------------------------
(* The tables.                                                             *)
Upsert(items) ==
    rows' = [c \in Coins |-> IF c \in DOMAIN items THEN items[c] ELSE rows[c]]

(* record_arrivals, one transaction: coins above the baseline are          *)
(* announced and the baseline moves up.  Before a catch-up armed the       *)
(* baseline nothing is announced.                                          *)
RecordArrivals(through) ==
    LET new == {c \in Coins : rows[c] > state.baseline /\ rows[c] # Absent}
                   \ arrivals
    IN
    IF state.baseline = NoBaseline THEN UNCHANGED <<arrivals, state>>
    ELSE /\ arrivals' = arrivals \cup new
         /\ state' = [state EXCEPT !.baseline = Max({@, through})]

----------------------------------------------------------------------------
(* The session.  A dialled peer may be behind.                             *)
Connect ==
    /\ session.pc = "down" /\ count.sessions < MaxSessions /\ RoomForMore
    /\ session' = [NoSession EXCEPT !.pc = "ask"]
    /\ peerTip' \in 1 .. tip /\ frames' = <<>>
    /\ count' = [count EXCEPT !.sessions = @ + 1]
    /\ UNCHANGED <<chain, refresh, replica, ghosts>>

(* The session ends between two of its steps: the peer is gone, a deadline *)
(* passed, or the supervisor rotates it.  What was pushed is lost.         *)
Hangup ==
    /\ session.pc # "down"
    /\ session' = NoSession /\ frames' = <<>> /\ peerTip' = 0
    /\ UNCHANGED <<chain, refresh, replica, ghosts, count>>

Goes(pc) == session' = [session EXCEPT !.pc = pc]

(* request_puzzle_state: the coins born up to some height, the last answer *)
(* is the one that reaches the peer's peak.  The peer may answer from a    *)
(* block before it pushes the frame of it.  A peer whose chain no longer   *)
(* has the block asked from rejects the request (Hangup).                  *)
Answer(h) ==
    /\ session.pc = "ask" /\ ~ session.orphan
    /\ h \in session.upto .. peerTip
    /\ h = peerTip \/ h > session.upto
    /\ session' = [session EXCEPT
          !.got = ItemsOf(Between(session.upto, h), born), !.upto = h,
          !.finished = (h = peerTip),
          !.pc = IF session.epoch = -1 THEN "epoch" ELSE "write"]
    /\ \/ UNCHANGED frames
       \/ /\ h = peerTip /\ Between(h - 1, h) # {}
          /\ frames' = Append(frames, BlockFrame(h, TRUE))
    /\ UNCHANGED <<chain, peerTip, refresh, replica, ghosts, count>>

ReadEpoch ==
    /\ session.pc = "epoch"
    /\ session' = [session EXCEPT !.epoch = state.epoch, !.pc = "write"]
    /\ UNCHANGED <<chain, wire, refresh, replica, ghosts, count>>

WriteBatch ==
    /\ session.pc = "write"
    /\ Upsert(session.got)
    /\ session' = [session EXCEPT !.got = NoItems,
                      !.pc = IF session.finished THEN "complete" ELSE "ask"]
    /\ UNCHANGED <<chain, wire, refresh, state, arrivals, ghosts, count>>

(* Mutant: the completion does not ask whether a reset came between.       *)
AlwaysSame(epoch) == TRUE

SameEpoch(epoch) == epoch = state.epoch

Following == [NoSession EXCEPT !.pc = "follow", !.finished = TRUE]

(* complete_catch_up_unless_reset.  The first one arms the baseline.       *)
Complete ==
    /\ session.pc = "complete"
    /\ IF SameEpoch(session.epoch)
       THEN LET armed == Max({session.upto} \cup {rows[c] : c \in Coins}) IN
            /\ state' = [state EXCEPT !.peak = session.upto, !.synced = TRUE,
                 !.baseline = IF @ = NoBaseline THEN armed ELSE @]
            /\ passed' = IF state.baseline = NoBaseline
                         THEN passed \cup Between(0, armed) ELSE passed
            /\ onFaith' = FALSE
            /\ session' = Following
            /\ UNCHANGED wire
       ELSE /\ session' = NoSession /\ frames' = <<>> /\ peerTip' = 0
            /\ UNCHANGED <<state, passed, onFaith>>
    /\ UNCHANGED <<chain, refresh, rows, arrivals, known, reborn, straddled, count>>

(* run_update_loop on new_peak_wallet: never backwards.                    *)
TakePeak ==
    /\ session.pc = "follow" /\ frames # <<>> /\ Head(frames).kind = "peak"
    /\ state' = [state EXCEPT !.peak = Max({@, Head(frames).height})]
    /\ frames' = Tail(frames)
    /\ UNCHANGED <<chain, peerTip, session, refresh, rows, arrivals, ghosts, count>>

(* Mutant: the allowance is the frame's, the session's is not kept.        *)
AllowedPerFrame(depth, spent) == depth <= MaxReorg

(* MAX_REORG_DEPTH for the frame, RollbackBudget::charge for the session.  *)
Allowed(depth, spent) == depth <= MaxReorg /\ spent <= MaxReorg

(* handle_coin_state_update.  A frame that forks below the recorded peak   *)
(* rolls back, within the allowance of one frame and of the session; else  *)
(* the session is dropped.                                                 *)
TakeFrame ==
    /\ session.pc = "follow" /\ frames # <<>> /\ Head(frames).kind = "coins"
    /\ LET f == Head(frames)
           depth == Max({0, state.peak - f.fork})
           spent == session.spent + depth
       IN
       IF ~ Allowed(depth, spent)
       THEN session' = NoSession /\ frames' = <<>> /\ peerTip' = 0
       ELSE /\ session' = [session EXCEPT
                  !.fork = f.fork, !.height = f.height, !.got = f.items,
                  !.spent = spent,
                  !.pc = IF depth > 0 THEN "rollback"
                         ELSE IF f.height < state.peak THEN "clear"
                         ELSE "items"]
            /\ frames' = Tail(frames) /\ UNCHANGED peerTip
    /\ UNCHANGED <<chain, refresh, replica, ghosts, count>>

(* Mutant: the baseline is not walked back.                                *)
BaselineKept(f) == state.baseline

BaselineAfter(f) == IF state.baseline > f THEN f ELSE state.baseline

(* rollback_above, one transaction.                                        *)
Rollback ==
    LET f == session.fork
        above == {c \in Coins : rows[c] > f} IN
    /\ session.pc = "rollback"
    /\ rows' = [c \in Coins |-> IF c \in above THEN Absent ELSE rows[c]]
    /\ arrivals' = arrivals \ above
    /\ state' = [state EXCEPT !.peak = f, !.baseline = BaselineAfter(f)]
    /\ Goes("clear")
    /\ straddled' = (straddled \/ refresh.pc # "idle")
    /\ UNCHANGED <<chain, wire, refresh, known, passed, reborn, onFaith, count>>

ClearSynced ==
    /\ session.pc = "clear"
    /\ state' = [state EXCEPT !.synced = FALSE] /\ onFaith' = FALSE
    /\ Goes("items")
    /\ UNCHANGED <<chain, wire, refresh, rows, arrivals, known, passed, reborn, straddled, count>>

WriteItems ==
    /\ session.pc = "items"
    /\ Upsert(session.got)
    /\ session' = [session EXCEPT !.got = NoItems, !.pc = "peak"]
    /\ UNCHANGED <<chain, wire, refresh, state, arrivals, ghosts, count>>

RecordPeak ==
    /\ session.pc = "peak"
    /\ state' = [state EXCEPT !.peak = session.height]
    /\ Goes("arrive")
    /\ UNCHANGED <<chain, wire, refresh, rows, arrivals, ghosts, count>>

(* A failure to record is only logged: the next update records.            *)
FrameArrivals ==
    /\ session.pc = "arrive"
    /\ \/ RecordArrivals(session.height)
       \/ UNCHANGED <<arrivals, state>>
    /\ session' = [Following EXCEPT !.spent = session.spent]
    /\ UNCHANGED <<chain, wire, refresh, rows, known, passed, reborn, straddled, onFaith, count>>

----------------------------------------------------------------------------
(* refresh_tracked_coins.                                                  *)
RefreshBegin ==
    /\ refresh.pc = "idle" /\ count.refreshes < MaxRefreshes /\ RoomForMore
    /\ refresh' = [refresh EXCEPT !.pc = "fetch", !.epoch = state.epoch]
    /\ count' = [count EXCEPT !.refreshes = @ + 1]
    /\ UNCHANGED <<chain, wire, session, replica, ghosts>>

(* coin_records_by_puzzle_hashes, answered from the chain up to h.         *)
RefreshFetch(h) ==
    LET got == [c \in Coins |-> IF born[c] <= h THEN born[c] ELSE Absent] IN
    /\ refresh.pc = "fetch"
    /\ refresh' = [refresh EXCEPT !.pc = "hints", !.got = got,
                                  !.top = Max({0} \cup {got[c] : c \in Coins})]
    /\ UNCHANGED <<chain, wire, session, replica, ghosts, count>>

(* coin_records_by_hints, another await: blocks and reorganisations may    *)
(* have come since.  Which payments are hinted, and how far this answer    *)
(* goes, is open: it has some of the coins on chain.                       *)
RefreshHints(S) ==
    LET got == [c \in Coins |-> IF c \in S THEN born[c] ELSE refresh.got[c]]
        top == Max({refresh.top} \cup {got[c] : c \in Coins})
    IN
    /\ refresh.pc = "hints"
    /\ refresh' = [refresh EXCEPT !.pc = "write", !.got = got, !.top = top,
                                  !.lacks = \E c \in known : got[c] = Absent]
    /\ passed' = passed \cup {c \in OnChain : born[c] <= top /\ got[c] = Absent}
    /\ UNCHANGED <<chain, wire, session, replica, known, reborn, straddled, onFaith, count>>

Fetched == {c \in Coins : refresh.got[c] # Absent}

RefreshWrite ==
    /\ refresh.pc = "write"
    /\ Upsert(ItemsOf(Fetched, refresh.got))
    /\ refresh' = [refresh EXCEPT !.pc = "latch", !.got = NothingRead]
    /\ UNCHANGED <<chain, wire, session, state, arrivals, ghosts, count>>

(* latch_synced_over_unless_reset, where the set fetched covers what is    *)
(* watched.  What the oracle answered is not asked: nothing is enough.     *)
RefreshLatch ==
    /\ refresh.pc = "latch"
    /\ \/ /\ SameEpoch(refresh.epoch)
          /\ state' = [state EXCEPT !.synced = TRUE]
          /\ onFaith' = (refresh.lacks /\ (onFaith \/ ~ state.synced))
       \/ UNCHANGED <<state, onFaith>>
    /\ refresh' = [refresh EXCEPT !.pc = "arrive", !.epoch = 0, !.lacks = FALSE]
    /\ UNCHANGED <<chain, wire, session, rows, arrivals, known, passed, reborn, straddled, count>>

(* Through the highest block either read told of, or the recorded peak.    *)
RefreshArrivals ==
    /\ refresh.pc = "arrive"
    /\ RecordArrivals(Max({state.peak, refresh.top}))
    /\ refresh' = NoRefresh
    /\ UNCHANGED <<chain, wire, session, rows, known, passed, reborn, straddled, onFaith, count>>

(* The request that runs the refresh is dropped, or its fetch fails.  A    *)
(* process that stops is this and Hangup: the tables are all that stays.   *)
RefreshGone ==
    /\ refresh.pc # "idle"
    /\ refresh' = NoRefresh
    /\ UNCHANGED <<chain, wire, session, replica, ghosts, count>>

----------------------------------------------------------------------------
(* reset_chain_cache.  The peak and the baseline stay.                     *)
Reset ==
    /\ state.epoch < MaxResets /\ RoomForMore
    /\ rows' = [c \in Coins |-> Absent] /\ arrivals' = {}
    /\ state' = [state EXCEPT !.synced = FALSE, !.epoch = @ + 1]
    /\ known' = OnChain /\ onFaith' = FALSE
    /\ UNCHANGED <<chain, wire, session, refresh, passed, reborn, straddled, count>>

Frame ==
    \/ TakePeak \/ TakeFrame \/ Rollback \/ ClearSynced
    \/ WriteItems \/ RecordPeak \/ FrameArrivals

CatchUp == (\E h \in Heights : Answer(h)) \/ ReadEpoch \/ WriteBatch \/ Complete

Refresh ==
    \/ RefreshBegin \/ (\E h \in 0 .. tip : RefreshFetch(h))
    \/ (\E S \in SUBSET OnChain : RefreshHints(S))
    \/ RefreshWrite \/ RefreshLatch \/ RefreshArrivals \/ RefreshGone

SyncNext ==
    \/ \E S \in SUBSET (Coins \ OnChain) : Mine(S)
    \/ PeerLearns
    \/ \E f \in 1 .. tip - 1 : \E S \in SUBSET {c \in Coins : born[c] > f \/ born[c] = Absent} :
          \E h \in f + 1 .. tip + 1 : Reorganise(f, S, h)
    \/ Connect \/ Hangup \/ CatchUp \/ Frame
    \/ Refresh \/ Reset

SyncSpec == SyncInit /\ [][SyncNext]_syncVars

----------------------------------------------------------------------------
(* Properties.                                                             *)
(* Every variable keeps its type.                                          *)
SyncTypeOK ==
    /\ tip \in Heights /\ born \in [Coins -> Heights]
    /\ peerTip \in 0 .. tip
    /\ \A i \in DOMAIN frames :
          /\ frames[i].kind \in {"coins", "peak"}
          /\ frames[i].fork \in Heights /\ frames[i].height \in Heights
          /\ DOMAIN frames[i].items \subseteq Coins
    /\ session.pc \in {"down", "ask", "epoch", "write", "complete", "follow",
                       "rollback", "clear", "items", "peak", "arrive"}
    /\ session.spent \in 0 .. MaxReorg
    /\ refresh.pc \in {"idle", "fetch", "hints", "write", "latch", "arrive"}
    /\ refresh.got \in [Coins -> Heights] /\ refresh.top \in Heights
    /\ rows \in [Coins -> Heights]
    /\ state \in [peak : Heights, synced : BOOLEAN, epoch : 0 .. MaxResets,
                  baseline : Heights \cup {NoBaseline}]
    /\ arrivals \subseteq Coins
    /\ known \cup passed \cup reborn \subseteq Coins
    /\ {straddled, onFaith, refresh.lacks} \subseteq BOOLEAN

(* A replica that calls itself synced is not missing money: every coin     *)
(* that was on the chain when the replica was last emptied, and was never  *)
(* reorganised, is in it, up to the height it claims.  No catch-up or      *)
(* refresh that a reset overtook may have marked it                        *)
(* (complete_catch_up_unless_reset, latch_synced_over_unless_reset).  Left *)
(* out is the mark a refresh sets whatever its oracle answered, where the  *)
(* answer lacked one of those coins (refresh_tracked_coins says so).       *)
AuthoritativeIsWhole ==
    state.synced /\ ~ onFaith =>
        \A c \in known \ reborn : born[c] <= state.peak => rows[c] # Absent

(* The baseline passes no payment by: a coin on the chain at or below it   *)
(* was announced, unless the baseline was armed over it, the coin was      *)
(* there when the replica was emptied, or a reorganisation moved it (whose *)
(* frame a session that ends may never take).  Left out too is the payment *)
(* without a hint that comes between the two reads of a refresh, of which  *)
(* the second has a later one.                                             *)
NoPaymentSkipped ==
    state.baseline # NoBaseline =>
        \A c \in OnChain \ (known \cup passed \cup reborn) :
            born[c] <= state.baseline => c \in arrivals

(* The same where no refresh carried what it had read across a rollback    *)
(* (record_arrivals, rollback_above).                                      *)
ArrivalNotLost == ~ straddled => NoPaymentSkipped
============================================================================
