---------------------------- MODULE PacketCodec -----------------------------
(***************************************************************************)
(* packet.cpp byte by byte: what SecurePacket takes for granted when it    *)
(* stands for a datagram by its fields.  Sequences start at 1 and offsets  *)
(* at 0, so the byte at an offset is the next element of the sequence.     *)
(***************************************************************************)
EXTENDS Integers, Sequences

Byte  == 0..255
Bytes == Seq(Byte)

\* SESSION_ID_SIZE + TIMESTAMP_SIZE + NONCE_SIZE, as in SecurePacket.
NONCE_SIZE  == 12
TAG_SIZE    == 16
HEADER_SIZE == 24

\* The values of a uint32_t and of a uint64_t.
Word32   == 256 * 256 * 256 * 256
UInt32   == {v \in Nat : v < Word32}
UInt64   == {v \in Nat : v < Word32 * Word32}

Packet == [session_id : UInt32, timestamp_ms : UInt64,
           nonce : [1..NONCE_SIZE -> Byte], ciphertext : Bytes,
           tag : [1..TAG_SIZE -> Byte]]

\* value >> 8, and value & 0xFF; a shift by 8 * i bits is i shifts by 8.
Shr(value) == value \div 256
Low(value) == value % 256

\* (value << 8) | byte: nothing is shifted out of the four or eight bytes read.
Shl(value, byte) == 256 * value + byte

write_u32_be(value) ==
  LET v1 == Shr(value) v2 == Shr(v1) v3 == Shr(v2)
  IN  <<Low(v3), Low(v2), Low(v1), Low(value)>>

write_u64_be(value) ==
  LET v1 == Shr(value) v2 == Shr(v1) v3 == Shr(v2) v4 == Shr(v3)
      v5 == Shr(v4)    v6 == Shr(v5) v7 == Shr(v6)
  IN  <<Low(v7), Low(v6), Low(v5), Low(v4), Low(v3), Low(v2), Low(v1), Low(value)>>

read_u32_be(data, o) ==
  Shl(Shl(Shl(data[o+1], data[o+2]), data[o+3]), data[o+4])

read_u64_be(data, o) ==
  Shl(Shl(Shl(Shl(read_u32_be(data, o), data[o+5]), data[o+6]), data[o+7]), data[o+8])

build_aad(packet) ==
  write_u32_be(packet.session_id) \o write_u64_be(packet.timestamp_ms) \o packet.nonce

serialize_packet(packet) == build_aad(packet) \o packet.ciphertext \o packet.tag

\* The size check of deserialize_packet.
WellFormed(data) == Len(data) >= HEADER_SIZE + TAG_SIZE

\* Without the check this would be negative, or a huge size_t.
CiphertextSize(data) == Len(data) - HEADER_SIZE - TAG_SIZE

deserialize_packet(data) ==
  [session_id   |-> read_u32_be(data, 0),
   timestamp_ms |-> read_u64_be(data, 4),
   nonce        |-> [i \in 1..NONCE_SIZE |-> data[12 + i]],
   ciphertext   |-> SubSeq(data, HEADER_SIZE + 1, HEADER_SIZE + CiphertextSize(data)),
   tag          |-> [i \in 1..TAG_SIZE |-> data[HEADER_SIZE + CiphertextSize(data) + i]]]
=============================================================================
