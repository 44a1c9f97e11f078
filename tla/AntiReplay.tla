----------------------------- MODULE AntiReplay -----------------------------
(***************************************************************************)
(* The replay guard of anti_replay.cpp.  An AntiReplay object is the set   *)
(* of nonce keys it has seen; Window is its freshness window.              *)
(***************************************************************************)
EXTENDS Integers

CONSTANT Window   \* freshness_window_ms, in the model's unit of time

ASSUME WindowAssumption == Window \in Nat

(***************************************************************************)
(* The key is the decimal session id, a colon, and two hexadecimal digits  *)
(* for each byte of the nonce: the colon ends the id and the digits have a *)
(* fixed width, so the text determines the pair and the pair stands for it.*)
(***************************************************************************)
make_nonce_key(session_id, nonce) == <<session_id, nonce>>

\* Mutant: a packet exactly as old as the window is stale.
is_fresh_strictly(packet_timestamp_ms, current_time_ms) ==
  /\ packet_timestamp_ms - current_time_ms < Window
  /\ current_time_ms - packet_timestamp_ms < Window

\* Unsigned timestamps: the smaller is subtracted from the larger.
is_fresh(packet_timestamp_ms, current_time_ms) ==
  LET diff == IF current_time_ms >= packet_timestamp_ms
              THEN current_time_ms - packet_timestamp_ms
              ELSE packet_timestamp_ms - current_time_ms
  IN  diff <= Window

is_duplicate(seen_nonces, session_id, nonce) ==
  make_nonce_key(session_id, nonce) \in seen_nonces

\* Mutant: nothing is remembered.
mark_nothing(seen_nonces, session_id, nonce) == seen_nonces

mark_seen(seen_nonces, session_id, nonce) ==
  seen_nonces \union {make_nonce_key(session_id, nonce)}
=============================================================================
