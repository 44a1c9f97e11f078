---------------------------- MODULE MCDashboard -----------------------------
(* Dashboard on small instances, for TLC. *)
EXTENDS Dashboard

Body(type, reason, severity, latency) ==
  [type |-> type, reason |-> reason, severity |-> severity, latency |-> latency]

\* An accepted packet, and a forged one from a client that leaves the severity
\* to the server.
MCBodies ==
  {Body("ACCEPTED", "OK", "LOW", 3), Body("REJECTED", "TAG_FAIL", Absent, 3)}

\* Forged packets only: every event is one the banner is to flash for.
MCForged == {Body("REJECTED", "TAG_FAIL", Absent, 3)}
=============================================================================
