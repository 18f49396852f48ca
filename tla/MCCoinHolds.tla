---------------------------- MODULE MCCoinHolds ----------------------------
(* Two coins, a bundle that spends both and a rival for one of them.       *)
EXTENDS CoinHolds, TLC

CONSTANTS c1, c2, b1, b2, l1, k1, k2

MCCoins == {c1, c2}
MCBundles == {b1, b2}
MCInputs == b1 :> {c1, c2} @@ b2 :> {c2}
MCLeases == {l1}
CallSymmetry == Permutations({k1, k2})
MCCalls == {k1, k2}
============================================================================
