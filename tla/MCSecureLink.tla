---------------------------- MODULE MCSecureLink ----------------------------
(* SecureLink on small instances, for TLC. *)
EXTENDS SecureLink, TLC

\* A damaged header may carry another session id, or make an expired packet
\* look fresh.
MCDamagedHeaders == {<<2027, StartTime, 32>>, <<SESSION_ID, StartTime, 34>>}

\* The satellite's clock half a window behind.
MCSkew == -1

Symmetry == Permutations(Ground)
=============================================================================
