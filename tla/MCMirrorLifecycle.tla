------------------------- MODULE MCMirrorLifecycle -------------------------
(***************************************************************************)
(* A small instance of MirrorLifecycle for TLC: one capsule, a wallet of   *)
(* two coins that are alike.                                               *)
(***************************************************************************)
EXTENDS MirrorLifecycle, TLC

CONSTANTS w1, w2

WalletSymmetry == Permutations({w1, w2})
============================================================================
