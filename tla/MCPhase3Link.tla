---------------------------- MODULE MCPhase3Link ----------------------------
(* Phase3Link on small instances, for TLC; the configurations name the ground *)
(* run and the plaintext sender as model values.                              *)
EXTENDS Phase3Link
=============================================================================
