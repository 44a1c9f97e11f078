---------------------------- MODULE SecurePacket ----------------------------
(***************************************************************************)
(* The wire format of packet.hpp and packet.cpp, at the granularity of     *)
(* its fields: a datagram's bytes are a sequence of fields, its size is    *)
(* the number of bytes they take.                                          *)
(***************************************************************************)
EXTENDS Crypto, Sequences

SESSION_ID_SIZE == 4
TIMESTAMP_SIZE  == 8
NONCE_SIZE      == 12
TAG_SIZE        == 16
HEADER_SIZE     == SESSION_ID_SIZE + TIMESTAMP_SIZE + NONCE_SIZE

\* The header in the clear: session id, timestamp and nonce, in wire order.
build_aad(packet) == <<packet.session_id, packet.timestamp_ms, packet.nonce>>

\* The header, then the ciphertext, then the tag.
serialize_packet(packet) ==
  <<packet.session_id, packet.timestamp_ms, packet.nonce,
    packet.ciphertext, packet.tag>>

\* The size check of deserialize_packet, its one failure.
WellFormed(size) == size >= HEADER_SIZE + TAG_SIZE

\* The fields read back by offset from a datagram that passed the size check.
deserialize_packet(bytes) ==
  [session_id   |-> bytes[1],
   timestamp_ms |-> bytes[2],
   nonce        |-> bytes[3],
   ciphertext   |-> bytes[4],
   tag          |-> bytes[5]]

\* A packet with the first byte of its ciphertext flipped.
Tampered(bytes) ==
  <<bytes[1], bytes[2], bytes[3], FlipByte(bytes[4]), bytes[5]>>
=============================================================================
