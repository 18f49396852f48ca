--------------------------- MODULE MCCapsuleCache ---------------------------
(***************************************************************************)
(* Instances of CapsuleCache: two capsules, and room for one.              *)
(***************************************************************************)
EXTENDS CapsuleCache, TLC

CONSTANTS a, b, t1, t2

CacheSymmetry == Permutations({a, b}) \cup Permutations({t1, t2})
=============================================================================
