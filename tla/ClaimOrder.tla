----------------------------- MODULE ClaimOrder -----------------------------
(***************************************************************************)
(* The order in which the rewards-claim engine offers its above-threshold  *)
(* candidates to the fee budget: ClaimEngine::order_for_budget             *)
(* (crates/dig-node-service/src/rewards_claim/engine.rs).  The code sorts a *)
(* vector; here the order is a relation on launcher ids, so the "next"     *)
(* claim of a set is the one that precedes all the others.  Launcher ids   *)
(* are natural numbers: their order stands for the byte order of Bytes32.  *)
(***************************************************************************)
EXTENDS Integers, FiniteSets

(* A launcher id, a timestamp or a cursor that is Rust's Option::None.     *)
None == -1

(* Position of id in the canonical (sorted) vector of a set of ids.        *)
Position(ids, id) == Cardinality({x \in ids : x < id})

(* The cursor's position, 0 when the cursor is None or not a candidate.    *)
CursorIndex(ids, cursor) == IF cursor \in ids THEN Position(ids, cursor) ELSE 0

RotationKey(ids, cursor, id) ==
    LET len == Cardinality(ids)
    IN  IF len = 0 THEN 0
        ELSE (Position(ids, id) + len - CursorIndex(ids, cursor)) % len

(* Mutant: the comparison of the accrued values left out, so that the      *)
(* cursor alone decides the order.                                         *)
PrecedesByCursorOnly(eligible, cursor, a, b) ==
    RotationKey(DOMAIN eligible, cursor, a) < RotationKey(DOMAIN eligible, cursor, b)

(* Mutant: no rotation, ties are broken by the launcher id alone.          *)
PrecedesUnrotated(eligible, cursor, a, b) ==
    \/ eligible[a] > eligible[b]
    \/ eligible[a] = eligible[b] /\ a < b

(* order_for_budget: accrued value descending, ties by the rotated rank.   *)
Precedes(eligible, cursor, a, b) ==
    \/ eligible[a] > eligible[b]
    \/ /\ eligible[a] = eligible[b]
       /\ RotationKey(DOMAIN eligible, cursor, a) < RotationKey(DOMAIN eligible, cursor, b)

(* The first of the claims in queue, a subset of DOMAIN eligible.          *)
IsNextClaim(eligible, cursor, queue, l) ==
    /\ l \in queue
    /\ \A m \in queue \ {l} : Precedes(eligible, cursor, l, m)
=============================================================================
