---------------------------- MODULE MCAskNetwork ----------------------------
(* Five nodes.  a knows b, b knows c, and c knows a again, d, the holder,  *)
(* and e, which only looks for itself.  The question enters at a and at b. *)
(* By the path a, b, c it is at the cap: c, which asks on when b alone led *)
(* to it, may not; and so is a, on the way round by b and c.  The two      *)
(* searches meet at b and at c.                                            *)
EXTENDS AskNetwork, TLC

CONSTANTS a, b, c, d, e

MCNodes == {a, b, c, d, e}
MCPool == a :> {b} @@ b :> {c} @@ c :> {a, d, e} @@ d :> {} @@ e :> {}
============================================================================
