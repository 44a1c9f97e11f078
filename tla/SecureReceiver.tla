--------------------------- MODULE SecureReceiver ---------------------------
(***************************************************************************)
(* The decision both satellite nodes take on a datagram                    *)
(* (process_secure_packet up to mark_seen): the checks in their order,     *)
(* each an early return.  The reasons are the ones reported to the         *)
(* dashboard.                                                              *)
(***************************************************************************)
EXTENDS SecurePacket, AntiReplay

RejectReasons == {"BAD_FORMAT", "REPLAY_TS", "DUP_NONCE", "TAG_FAIL"}
Reasons       == RejectReasons \union {"OK"}

\* Mutant: whatever EVP_DecryptFinal_ex returns is taken for success.
AlwaysAuthentic(packet, session_key) == TRUE

Authentic(packet, session_key) ==
  decrypt_chacha20_poly1305(session_key, packet.nonce, packet.ciphertext,
                            build_aad(packet), packet.tag)

\* ok is FALSE when OpenSSL fails inside an otherwise valid decryption, which
\* the caller cannot tell from a wrong tag.
Reason(datagram, session_key, seen_nonces, current_time_ms, ok) ==
  LET packet == deserialize_packet(datagram.bytes)
  IN  IF ~WellFormed(datagram.size)
        THEN "BAD_FORMAT"
      ELSE IF ~is_fresh(packet.timestamp_ms, current_time_ms)
        THEN "REPLAY_TS"
      ELSE IF is_duplicate(seen_nonces, packet.session_id, packet.nonce)
        THEN "DUP_NONCE"
      ELSE IF ~(ok /\ Authentic(packet, session_key))
        THEN "TAG_FAIL"
      ELSE "OK"
=============================================================================
