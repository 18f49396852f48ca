----------------------------- MODULE MCTipping -----------------------------
(***************************************************************************)
(* A small instance of Tipping for TLC: one creator and the treasury, two  *)
(* requests, two days, and a user who turns tipping off and on.            *)
(***************************************************************************)
EXTENDS Tipping, TLC

CONSTANT alice

Policy(on, n, s) == [enabled |-> on, amount |-> n, siteCap |-> s]

(* The creator has a price of its own; the caps leave room for it twice,   *)
(* but not for both recipients.                                            *)
TippingOn ==
    [creator |-> Policy(TRUE, 2, 2), dev |-> Policy(TRUE, 2, 2), cap |-> 2,
     over |-> [k \in {alice} |-> 1]]

(* Off, with a lower cap.                                                  *)
TippingOff ==
    [TippingOn EXCEPT !.creator.enabled = FALSE, !.dev.enabled = FALSE, !.cap = 1]

OnAndOff == {TippingOn, TippingOff}

(* Nothing tells the requests apart.                                       *)
RequestSymmetry == Permutations(Requests)
============================================================================
