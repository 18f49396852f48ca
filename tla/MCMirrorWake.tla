---------------------------- MODULE MCMirrorWake ----------------------------
(***************************************************************************)
(* Small instances of MirrorWake for TLC.                                  *)
(***************************************************************************)
EXTENDS MirrorWake
=============================================================================
