-------------------------- MODULE MCClaimRotation --------------------------
(***************************************************************************)
(* An instance of ClaimRotation: a tied tier of four among cheaper (dust)  *)
(* and dearer launchers.                                                   *)
(***************************************************************************)
EXTENDS ClaimRotation

MCTied == {2, 4, 6, 9}
MCDust == {1, 3, 5, 10}
MCDear == {7, 8}
MCAccrued == [l \in 1 .. 10 |-> IF l \in MCTied THEN 2 ELSE IF l \in MCDust THEN 1 ELSE 3]

(* Any dust may come and go; the dearer launchers are always there.        *)
DustComesAndGoes == {MCDear \cup d : d \in SUBSET MCDust}
=============================================================================
