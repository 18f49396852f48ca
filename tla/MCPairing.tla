------------------------------ MODULE MCPairing ------------------------------
(* Small instances of Pairing for TLC.                                      *)
EXTENDS Pairing, TLC

(* Which id the CSPRNG draws makes no difference, nor does which request    *)
(* a revocation arrives on.                                                 *)
PairingSymmetry == Permutations(Ids) \cup Permutations(Revokers)
==============================================================================
