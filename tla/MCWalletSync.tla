---------------------------- MODULE MCWalletSync ----------------------------
(* Two payments on a chain of at most three blocks.                        *)
EXTENDS WalletSync, TLC

CONSTANTS c1, c2

MCCoins == {c1, c2}
CoinSymmetry == Permutations(MCCoins)
============================================================================
