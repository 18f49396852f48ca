--------------------------- MODULE ClaimRotation ---------------------------
(***************************************************************************)
(* The budget rotation of the rewards-claim engine over many cycles: what  *)
(* phase 2 of ClaimEngine::run_cycle (rewards_claim/engine.rs) serves when *)
(* its budget pays for fewer claims than there are candidates.  One step   *)
(* is one completed cycle; RewardsClaim models what happens inside one.    *)
(***************************************************************************)
EXTENDS ClaimOrder

CONSTANTS
    Tied,        \* launchers of equal accrued value, claimable in every cycle
    Presences,   \* the sets of other launchers that may be claimable besides
    Accrued,     \* launcher -> accrued value
    Budgets      \* how many claims a cycle's budget may pay for

ASSUME RotationConstants ==
    /\ Tied \cup UNION Presences \subseteq Nat
    /\ IsFiniteSet(Tied) /\ \A others \in Presences : IsFiniteSet(others)
    /\ Accrued \in [DOMAIN Accrued -> Nat]
    /\ Tied \cup UNION Presences \subseteq DOMAIN Accrued
    /\ \A l, m \in Tied : Accrued[l] = Accrued[m]
    /\ Budgets \subseteq Nat \ {0}

VARIABLES rotationCursor, served

rotationVars == <<rotationCursor, served>>

RotationInit == rotationCursor = None /\ served = {}

(* How many claims the budget pass reaches before l.                       *)
Rank(eligible, l) ==
    Cardinality({m \in DOMAIN eligible : Precedes(eligible, rotationCursor, m, l)})

(* The claims ahead of the budget are submitted; rotation_cursor moves to  *)
(* the first one behind it, and stays when there is none.                  *)
Cycle(others, paysFor) ==
    LET eligible == [l \in Tied \cup others |-> Accrued[l]]
        deferred == {l \in DOMAIN eligible : Rank(eligible, l) >= paysFor}
    IN  /\ served' = DOMAIN eligible \ deferred
        /\ rotationCursor' =
              IF deferred = {} THEN rotationCursor
              ELSE CHOOSE l \in deferred : Rank(eligible, l) = paysFor

RotationNext == \E others \in Presences, paysFor \in Budgets : Cycle(others, paysFor)

(* The driver's loop never ends, so cycles keep happening.                 *)
RotationSpec ==
    RotationInit /\ [][RotationNext]_rotationVars /\ WF_rotationVars(RotationNext)

(* order_for_budget: "guaranteeing a genuinely tied, budget-exceeding      *)
(* honest tail eventually reaches the front": when a tier that is tied in  *)
(* every cycle is served again and again, so is each launcher of it.       *)
TiedTailServed ==
    []<>(served \cap Tied # {}) => \A l \in Tied : []<>(l \in served)

(* Rotation never lets a launcher displace a dearer one: whoever is served *)
(* while a tied launcher is not is worth at least as much.                 *)
NoDustAhead ==
    \A l \in served, m \in Tied \ served : Accrued[l] >= Accrued[m]
=============================================================================
