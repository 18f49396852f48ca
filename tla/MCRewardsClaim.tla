--------------------------- MODULE MCRewardsClaim ---------------------------
(***************************************************************************)
(* Small instances of RewardsClaim for TLC.                                *)
(***************************************************************************)
EXTENDS RewardsClaim

(* Nobody touches the file: only crashes, restarts and the clock.          *)
NoFiles == {}

(* Disk damage: a file that cannot be parsed, whatever it held.            *)
Damage == {[DefaultFile EXCEPT !.garbled = TRUE]}
=============================================================================
