------------------------------ MODULE CoinLock ------------------------------
(***************************************************************************)
(* What the holds of the wallet promise, without clocks, deadlines or      *)
(* calls in progress: a coin may be leased to one client and claimed by    *)
(* one pushed bundle.  A lease is taken whole and only over coins no       *)
(* bundle claims; the first bundle to claim a coin keeps it; the claims of *)
(* a bundle are given up together.                                         *)
(***************************************************************************)
CONSTANTS Coins, Bundles, Inputs, Leases, Free

VARIABLES leasedTo, claimedBy

locks == <<leasedTo, claimedBy>>

Init ==
    /\ leasedTo = [c \in Coins |-> Free]
    /\ claimedBy = [c \in Coins |-> Free]

(* The lease id is taken on S; other leases, on D, have run out.           *)
Lease(id, S, D) ==
    /\ \A c \in Coins : leasedTo[c] # id
    /\ \A c \in S : claimedBy[c] = Free /\ (leasedTo[c] = Free \/ c \in D)
    /\ leasedTo' = [c \in Coins |-> IF c \in S THEN id
                                    ELSE IF c \in D THEN Free
                                    ELSE leasedTo[c]]
    /\ UNCHANGED claimedBy

Release(id) ==
    /\ leasedTo' = [c \in Coins |->
                       IF leasedTo[c] = id THEN Free ELSE leasedTo[c]]
    /\ UNCHANGED claimedBy

Claim(b) ==
    /\ claimedBy' = [c \in Coins |->
                        IF c \in Inputs[b] /\ claimedBy[c] = Free THEN b
                        ELSE claimedBy[c]]
    /\ UNCHANGED leasedTo

(* The bundles in B and the leases on D are over.                          *)
Lapse(B, D) ==
    /\ claimedBy' = [c \in Coins |->
                        IF claimedBy[c] \in B THEN Free ELSE claimedBy[c]]
    /\ leasedTo' = [c \in Coins |-> IF c \in D THEN Free ELSE leasedTo[c]]

Next ==
    \/ \E id \in Leases, S, D \in SUBSET Coins : Lease(id, S, D)
    \/ \E id \in Leases : Release(id)
    \/ \E b \in Bundles : Claim(b)
    \/ \E B \in SUBSET Bundles, D \in SUBSET Coins : Lapse(B, D)

Spec == Init /\ [][Next]_locks
============================================================================
