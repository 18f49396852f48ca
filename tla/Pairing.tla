------------------------------ MODULE Pairing ------------------------------
(***************************************************************************)
(* Controller pairing of dig-node-service (pairing.rs): an extension opens *)
(* a pending pairing, the operator approves it with the master token, the  *)
(* extension collects the minted token once, and the operator revokes it.  *)
(*                                                                         *)
(* Pending pairings live in memory behind one mutex and die with the       *)
(* process; minted tokens live in paired-tokens.json.  Every handler runs  *)
(* on its own request, so what is not under the mutex interleaves:         *)
(* approve holds the mutex across its load-append-save of the file, revoke *)
(* does its load-retain-save without it.                                   *)
(*                                                                         *)
(* A pairing, the token minted for it and the id that revokes the token    *)
(* are one identifier here: all three are fresh random values.             *)
(***************************************************************************)
EXTENDS Integers, FiniteSets

CONSTANTS
    Ids,            \* pairing ids the CSPRNG may draw, each at most once
    Revokers,       \* concurrent control.pairing.revoke requests
    MaxPending,     \* MAX_PENDING
    TTL,            \* PAIRING_TTL_MS
    MaxTime,        \* bound on the clock
    SerialAdmin,    \* the operator waits for one admin call before the next
    SavesCanFail    \* save_paired_tokens may return an error

ASSUME PairingConstants ==
    /\ IsFiniteSet(Ids) /\ MaxPending \in Nat \ {0} /\ TTL \in Nat /\ MaxTime \in Nat
    /\ SerialAdmin \in BOOLEAN /\ SavesCanFail \in BOOLEAN

VARIABLES
    now,
    pending,     \* PendingPairings.map: id -> [created, approved]
    approving,   \* approvals between load and save (they hold the mutex)
    file,        \* tokens in paired-tokens.json
    revoking,    \* [Revokers -> revocation between load and save]
    drawn,       \* ids drawn so far
    collected,   \* tokens a poll has answered with
    revoked,     \* tokens whose revocation answered revoked: true
    orphaned     \* tokens whose pairing a crash dropped before collection

process == <<pending, approving, revoking>>
history == <<drawn, collected, revoked, orphaned>>
vars == <<now, process, file, history>>

NoRevocation == [token |-> "none", loaded |-> {}]

Init ==
    /\ now = 0
    /\ pending = [p \in {} |-> [created |-> 0, approved |-> FALSE]]
    /\ approving = {}
    /\ file = {}
    /\ revoking = [r \in Revokers |-> NoRevocation]
    /\ drawn = {} /\ collected = {} /\ revoked = {} /\ orphaned = {}

----------------------------------------------------------------------------
(* The mutex is free unless an approval holds it.                          *)
MutexFree == approving = {}

AdminIdle == approving = {} /\ \A r \in Revokers : revoking[r] = NoRevocation

Expired(p) == now > pending[p].created + TTL

(* Mutant: an approved entry is swept when it expires.                     *)
KeptUnexpired(S) == {p \in S : ~ Expired(p)}

(* prune: expired entries go, approved ones stay until collected.          *)
Kept(S) == {p \in S : pending[p].approved \/ ~ Expired(p)}

KeepOnly(S) == pending' = [p \in S |-> pending[p]]

(* Mutant: the oldest entry is evicted even if it is approved.             *)
EvictAnyOldest(S) ==
    {p \in S : \A q \in S : pending[p].created <= pending[q].created}

(* At MAX_PENDING request evicts the oldest entry that is not approved.    *)
EvictionChoices(S) ==
    {p \in S : /\ ~ pending[p].approved
               /\ \A q \in S : ~ pending[q].approved => pending[p].created <= pending[q].created}

(* Mutant: no eviction at the cap.                                         *)
NoneEvicted(S) == {{}}

Evicted(S) ==
    IF Cardinality(S) >= MaxPending /\ EvictionChoices(S) # {}
    THEN {{p} : p \in EvictionChoices(S)} ELSE {{}}

(* request.                                                                *)
Request(p) ==
    /\ MutexFree /\ p \in Ids \ drawn
    /\ \E gone \in Evicted(Kept(DOMAIN pending)) :
          pending' = [q \in (Kept(DOMAIN pending) \ gone) \cup {p} |->
                         IF q = p THEN [created |-> now, approved |-> FALSE] ELSE pending[q]]
    /\ drawn' = drawn \cup {p}
    /\ UNCHANGED <<now, approving, file, revoking, collected, revoked, orphaned>>

(* Mutant: the collected entry stays in the map.                           *)
CollectAndKeep(p) == KeepOnly(Kept(DOMAIN pending))

Collect(p) == KeepOnly(Kept(DOMAIN pending) \ {p})

(* poll of an approved pairing: the token is delivered once.               *)
PollApproved(p) ==
    /\ MutexFree /\ p \in DOMAIN pending /\ pending[p].approved
    /\ Collect(p)
    /\ collected' = collected \cup {p}
    /\ UNCHANGED <<now, approving, file, revoking, drawn, revoked, orphaned>>

(* poll of any other pairing, and list: only the sweep changes the map.    *)
PollOtherOrList ==
    /\ MutexFree
    /\ KeepOnly(Kept(DOMAIN pending))
    /\ UNCHANGED <<now, approving, file, revoking, history>>

----------------------------------------------------------------------------
(* Administration with the master token. *)

(* approve: prune, refuse an unknown or approved pairing, load the file.   *)
ApproveLoads(p) ==
    /\ MutexFree /\ (SerialAdmin => AdminIdle)
    /\ p \in Kept(DOMAIN pending) /\ ~ pending[p].approved
    /\ KeepOnly(Kept(DOMAIN pending))
    /\ approving' = {[pairing |-> p, loaded |-> file]}
    /\ UNCHANGED <<now, file, revoking, history>>

(* Mutant: the tokens that were loaded are left out of what is saved.      *)
ApproveForgetsOthers(a) == file' = {a.pairing}

ApproveWrites(a) == file' = a.loaded \cup {a.pairing}

(* approve: save, then mark the entry and release the mutex.               *)
ApproveSaves ==
    \E a \in approving :
        /\ ApproveWrites(a)
        /\ pending' = [pending EXCEPT ![a.pairing].approved = TRUE]
        /\ approving' = {}
        /\ UNCHANGED <<now, revoking, history>>

(* A failed save is answered with an error; the pairing stays pending.     *)
ApproveSaveFails ==
    /\ SavesCanFail /\ approving # {}
    /\ approving' = {}
    /\ UNCHANGED <<now, pending, file, revoking, history>>

(* revoke_paired_token: load.                                              *)
RevokeLoads(r, p) ==
    /\ revoking[r] = NoRevocation /\ (SerialAdmin => AdminIdle)
    /\ p \in file
    /\ revoking' = [revoking EXCEPT ![r] = [token |-> p, loaded |-> file]]
    /\ UNCHANGED <<now, pending, approving, file, history>>

(* Mutant: the shortened list is answered for but not saved.               *)
RevokeWritesNothing(r) == file' = file

RevokeWrites(r) == file' = revoking[r].loaded \ {revoking[r].token}

(* revoke_paired_token: save, and answer revoked: true.                    *)
RevokeSaves(r) ==
    /\ revoking[r] # NoRevocation
    /\ RevokeWrites(r)
    /\ revoked' = revoked \cup {revoking[r].token}
    /\ revoking' = [revoking EXCEPT ![r] = NoRevocation]
    /\ UNCHANGED <<now, pending, approving, drawn, collected, orphaned>>

RevokeSaveFails(r) ==
    /\ SavesCanFail /\ revoking[r] # NoRevocation
    /\ revoking' = [revoking EXCEPT ![r] = NoRevocation]
    /\ UNCHANGED <<now, pending, approving, file, history>>

----------------------------------------------------------------------------
(* The process stops: what is pending and what is in flight is gone.       *)
Crash ==
    /\ pending' = [p \in {} |-> [created |-> 0, approved |-> FALSE]]
    /\ approving' = {}
    /\ revoking' = [r \in Revokers |-> NoRevocation]
    /\ orphaned' = orphaned \cup {p \in DOMAIN pending : pending[p].approved}
    /\ UNCHANGED <<now, file, drawn, collected, revoked>>

Tick == now < MaxTime /\ now' = now + 1 /\ UNCHANGED <<process, file, history>>

Client == \E p \in Ids : Request(p) \/ PollApproved(p)
Admin == \/ \E p \in Ids : ApproveLoads(p) \/ (\E r \in Revokers : RevokeLoads(r, p))
         \/ ApproveSaves \/ ApproveSaveFails
         \/ \E r \in Revokers : RevokeSaves(r) \/ RevokeSaveFails(r)

Next == Client \/ PollOtherOrList \/ Admin \/ Crash \/ Tick

Spec == Init /\ [][Next]_vars

(* An extension keeps polling the pairing it opened until it is answered,  *)
(* and a handler that has started runs to its end.                         *)
Fairness == /\ \A p \in Ids : SF_vars(PollApproved(p))
            /\ WF_vars(ApproveSaves)
FairSpec == Spec /\ Fairness

----------------------------------------------------------------------------
(* Properties. *)

(* The types of the state.                                                 *)
TypeOK ==
    /\ now \in 0 .. MaxTime
    /\ DOMAIN pending \subseteq Ids
    /\ pending \in [DOMAIN pending -> [created : 0 .. MaxTime, approved : BOOLEAN]]
    /\ approving \subseteq [pairing : Ids, loaded : SUBSET Ids]
    /\ file \subseteq Ids
    /\ revoking \in [Revokers -> [token : Ids \cup {"none"}, loaded : SUBSET Ids]]
    /\ \A r \in Revokers : revoking[r] # NoRevocation => revoking[r].token \in Ids
    /\ drawn \subseteq Ids /\ collected \subseteq Ids
    /\ revoked \subseteq Ids /\ orphaned \subseteq Ids

(* "Revocable ... the gate rejects it at once": a token whose revocation   *)
(* was answered with revoked: true is never in the file the gate reads     *)
(* (is_paired_token) again.                                                *)
RevokedIsRejected == revoked \cap file = {}

(* A collected token works until it is revoked: no other admin call makes  *)
(* it disappear from the file.                                             *)
CollectedIsAccepted == collected \subseteq file \cup revoked

(* "The oldest pending entries are dropped past this" (MAX_PENDING): a     *)
(* flood of requests never leaves more unapproved entries than the cap.    *)
UnapprovedBounded ==
    Cardinality({p \in DOMAIN pending : ~ pending[p].approved}) <= MaxPending

(* poll's "deliver once": no token is handed out a second time.            *)
CollectedOnce == \A p \in collected : p \notin DOMAIN pending

(* A minted token that waits for its extension leaves the map by being     *)
(* collected or by a crash, never by a sweep or an eviction.               *)
ApprovedNotDropped ==
    [][\A p \in DOMAIN pending :
          (pending[p].approved /\ p \notin DOMAIN pending')
             => p \in collected' \cup orphaned']_vars

(* Every minted token reaches its extension unless the process stops.      *)
ApprovedIsCollected ==
    \A p \in Ids : (p \in DOMAIN pending /\ pending[p].approved)
                      ~> (p \in collected \cup orphaned)

----------------------------------------------------------------------------
(* The invariant behind the two file properties when admin calls are       *)
(* serial: at most one call is in flight, what it loaded is what the file  *)
(* holds, and an unapproved pairing has no token anywhere.                 *)
SerialInv ==
    /\ \A a \in approving :
          /\ a.loaded = file
          /\ a.pairing \in DOMAIN pending /\ ~ pending[a.pairing].approved
          /\ \A b \in approving : b = a
          /\ \A r \in Revokers : revoking[r] = NoRevocation
    /\ \A r \in Revokers : revoking[r] # NoRevocation =>
          /\ revoking[r].loaded = file /\ revoking[r].token \in file
          /\ \A q \in Revokers \ {r} : revoking[q] = NoRevocation
    /\ DOMAIN pending \cup file \cup revoked \cup collected \subseteq drawn
    /\ \A p \in DOMAIN pending :
          IF pending[p].approved THEN p \in file \cup revoked ELSE p \notin file \cup revoked
    /\ CollectedOnce /\ RevokedIsRejected /\ CollectedIsAccepted
=============================================================================
