------------------------- MODULE PacketCodecProofs --------------------------
(***************************************************************************)
(* Packets and datagrams of 40 bytes or more are in one-to-one             *)
(* correspondence, which is what lets SecurePacket stand for a datagram by *)
(* the fields of its packet.                                               *)
(***************************************************************************)
EXTENDS PacketCodec, SequenceTheorems, TLAPS

\* A shift and a mask take apart what a shift and an or put together.
LEMMA ShiftAndMask ==
  ASSUME NEW v \in Nat
  PROVE  Shr(v) \in Nat /\ Low(v) \in Byte /\ v = Shl(Shr(v), Low(v))
BY SMT DEF Shr, Low, Byte, Shl

LEMMA ShiftBound ==
  ASSUME NEW v \in Nat, NEW k \in Nat, v < 256 * k
  PROVE  Shr(v) < k
BY SMT DEF Shr

LEMMA ShiftBack ==
  ASSUME NEW v \in Nat, NEW b \in Byte
  PROVE  Shl(v, b) \in Nat /\ Shr(Shl(v, b)) = v /\ Low(Shl(v, b)) = b
BY SMT DEF Shr, Low, Byte, Shl

LEMMA ByteBound ==
  ASSUME NEW v \in Nat, NEW b \in Byte, NEW k \in Nat, v < k
  PROVE  Shl(v, b) < 256 * k
BY SMT DEF Shl, Byte

LEMMA SmallLow ==
  ASSUME NEW v \in Nat, v < 256
  PROVE  Low(v) = v
BY SMT DEF Low

LEMMA Word32Fits ==
  ASSUME NEW v \in UInt32
  PROVE  /\ write_u32_be(v) \in Bytes /\ Len(write_u32_be(v)) = 4
         /\ \A data \in Bytes, o \in Nat :
              (\A i \in 1..4 : data[o + i] = write_u32_be(v)[i]) => read_u32_be(data, o) = v
<1> DEFINE v1 == Shr(v)
           v2 == Shr(v1)
           v3 == Shr(v2)
<1>0. v \in Nat /\ v < 256 * (256 * (256 * 256))
  BY SMT DEF UInt32, Word32
<1>1. v1 \in Nat /\ v1 < 256 * (256 * 256) /\ Low(v) \in Byte /\ v = Shl(v1, Low(v))
  BY <1>0, ShiftAndMask, ShiftBound
<1>2. v2 \in Nat /\ v2 < 256 * 256 /\ Low(v1) \in Byte /\ v1 = Shl(v2, Low(v1))
  BY <1>1, ShiftAndMask, ShiftBound
<1>3. v3 \in Nat /\ v3 < 256 /\ Low(v2) \in Byte /\ v2 = Shl(v3, Low(v2))
  BY <1>2, ShiftAndMask, ShiftBound
<1>4. Low(v3) = v3 /\ Low(v3) \in Byte
  BY <1>3, SmallLow, ShiftAndMask
<1> HIDE DEF v1, v2, v3
<1>5. write_u32_be(v) = <<Low(v3), Low(v2), Low(v1), Low(v)>>
  BY DEF write_u32_be, v1, v2, v3
<1>6. write_u32_be(v) \in Bytes /\ Len(write_u32_be(v)) = 4
  BY <1>1, <1>2, <1>3, <1>4, <1>5 DEF Bytes
<1>7. ASSUME NEW data \in Bytes, NEW o \in Nat,
             \A i \in 1..4 : data[o + i] = write_u32_be(v)[i]
      PROVE  read_u32_be(data, o) = v
  <2>1. data[o+1] = v3 /\ data[o+2] = Low(v2) /\ data[o+3] = Low(v1) /\ data[o+4] = Low(v)
    BY <1>7, <1>4, <1>5
  <2> QED
    BY <2>1, <1>1, <1>2, <1>3 DEF read_u32_be
<1> QED
  BY <1>6, <1>7

LEMMA Word64Fits ==
  ASSUME NEW v \in UInt64
  PROVE  /\ write_u64_be(v) \in Bytes /\ Len(write_u64_be(v)) = 8
         /\ \A data \in Bytes, o \in Nat :
              (\A i \in 1..8 : data[o + i] = write_u64_be(v)[i]) => read_u64_be(data, o) = v
<1> DEFINE v1 == Shr(v)
           v2 == Shr(v1)
           v3 == Shr(v2)
           v4 == Shr(v3)
           v5 == Shr(v4)
           v6 == Shr(v5)
           v7 == Shr(v6)
<1>0. v \in Nat /\ v < 256 * (256 * (256 * (256 * (256 * (256 * (256 * 256))))))
  BY SMT DEF UInt64, Word32
<1>1. /\ v1 \in Nat /\ v1 < 256 * (256 * (256 * (256 * (256 * (256 * 256)))))
      /\ Low(v) \in Byte /\ v = Shl(v1, Low(v))
  BY <1>0, ShiftAndMask, ShiftBound
<1>2. /\ v2 \in Nat /\ v2 < 256 * (256 * (256 * (256 * (256 * 256))))
      /\ Low(v1) \in Byte /\ v1 = Shl(v2, Low(v1))
  BY <1>1, ShiftAndMask, ShiftBound
<1>3. /\ v3 \in Nat /\ v3 < 256 * (256 * (256 * (256 * 256)))
      /\ Low(v2) \in Byte /\ v2 = Shl(v3, Low(v2))
  BY <1>2, ShiftAndMask, ShiftBound
<1>4. /\ v4 \in Nat /\ v4 < 256 * (256 * (256 * 256))
      /\ Low(v3) \in Byte /\ v3 = Shl(v4, Low(v3))
  BY <1>3, ShiftAndMask, ShiftBound
<1>5. /\ v5 \in Nat /\ v5 < 256 * (256 * 256)
      /\ Low(v4) \in Byte /\ v4 = Shl(v5, Low(v4))
  BY <1>4, ShiftAndMask, ShiftBound
<1>6. /\ v6 \in Nat /\ v6 < 256 * 256
      /\ Low(v5) \in Byte /\ v5 = Shl(v6, Low(v5))
  BY <1>5, ShiftAndMask, ShiftBound
<1>7. v7 \in Nat /\ v7 < 256 /\ Low(v6) \in Byte /\ v6 = Shl(v7, Low(v6))
  BY <1>6, ShiftAndMask, ShiftBound
<1>8. Low(v7) = v7 /\ Low(v7) \in Byte
  BY <1>7, SmallLow, ShiftAndMask
<1> HIDE DEF v1, v2, v3, v4, v5, v6, v7
<1>9. write_u64_be(v) = <<Low(v7), Low(v6), Low(v5), Low(v4), Low(v3), Low(v2), Low(v1), Low(v)>>
  BY DEF write_u64_be, v1, v2, v3, v4, v5, v6, v7
<1>10. write_u64_be(v) \in Bytes /\ Len(write_u64_be(v)) = 8
  BY <1>1, <1>2, <1>3, <1>4, <1>5, <1>6, <1>7, <1>8, <1>9 DEF Bytes
<1>11. ASSUME NEW data \in Bytes, NEW o \in Nat,
              \A i \in 1..8 : data[o + i] = write_u64_be(v)[i]
       PROVE  read_u64_be(data, o) = v
  <2>1. /\ data[o+1] = v7 /\ data[o+2] = Low(v6) /\ data[o+3] = Low(v5) /\ data[o+4] = Low(v4)
        /\ data[o+5] = Low(v3) /\ data[o+6] = Low(v2) /\ data[o+7] = Low(v1) /\ data[o+8] = Low(v)
    BY <1>11, <1>8, <1>9
  <2> QED
    BY <2>1, <1>1, <1>2, <1>3, <1>4, <1>5, <1>6, <1>7 DEF read_u64_be, read_u32_be
<1> QED
  BY <1>10, <1>11

LEMMA ArrayBytes ==
  ASSUME NEW n \in Nat, NEW a \in [1..n -> Byte]
  PROVE  a \in Bytes /\ Len(a) = n
BY DEF Bytes

\* d is s, of length n, followed by t, of length m.
Joined(d, s, n, t, m) ==
  /\ d \in Bytes /\ Len(d) = n + m
  /\ \A i \in 1..n : d[i] = s[i]
  /\ \A i \in 1..m : d[n + i] = t[i]

LEMMA Concatenated ==
  ASSUME NEW s \in Bytes, NEW t \in Bytes, NEW n \in Nat, NEW m \in Nat,
         Len(s) = n, Len(t) = m
  PROVE  Joined(s \o t, s, n, t, m)
<1>1. /\ s \o t \in Seq(Byte) /\ Len(s \o t) = n + m
      /\ \A i \in 1 .. n + m : (s \o t)[i] = IF i <= n THEN s[i] ELSE t[i - n]
  BY ConcatProperties DEF Bytes
<1>2. ASSUME NEW i \in 1..n PROVE (s \o t)[i] = s[i]
  BY <1>1, <1>2
<1>3. ASSUME NEW i \in 1..m PROVE (s \o t)[n + i] = t[i]
  <2>1. n + i \in 1 .. n + m /\ ~(n + i <= n) /\ (n + i) - n = i
    BY <1>3
  <2> QED
    BY <1>1, <2>1
<1> QED
  BY <1>1, <1>2, <1>3 DEF Joined, Bytes

\* d consists of five parts, the fourth of length n.
Composed(d, w, t, nonce, c, n, tag) ==
  /\ d \in Bytes /\ Len(d) = 24 + n + 16
  /\ \A i \in 1..4  : d[i] = w[i]
  /\ \A i \in 1..8  : d[4 + i] = t[i]
  /\ \A i \in 1..12 : d[12 + i] = nonce[i]
  /\ \A i \in 1..n  : d[24 + i] = c[i]
  /\ \A i \in 1..16 : d[24 + n + i] = tag[i]

LEMMA Layout ==
  ASSUME NEW w, NEW t, NEW nonce, NEW c, NEW tag, NEW n \in Nat,
         NEW wt, NEW h, NEW hc, NEW d,
         Joined(wt, w, 4, t, 8), Joined(h, wt, 12, nonce, 12),
         Joined(hc, h, 24, c, n), Joined(d, hc, 24 + n, tag, 16)
  PROVE  Composed(d, w, t, nonce, c, n, tag)
<1>1. (\A i \in 1..4 : wt[i] = w[i]) /\ (\A i \in 1..8 : wt[4 + i] = t[i])
  BY DEF Joined
<1>2. (\A i \in 1..12 : h[i] = wt[i]) /\ (\A i \in 1..12 : h[12 + i] = nonce[i])
  BY DEF Joined
<1>3. (\A i \in 1..24 : hc[i] = h[i]) /\ (\A i \in 1..n : hc[24 + i] = c[i])
  BY DEF Joined
<1>4. /\ d \in Bytes /\ Len(d) = 24 + n + 16
      /\ \A i \in 1..(24 + n) : d[i] = hc[i]
      /\ \A i \in 1..16 : d[24 + n + i] = tag[i]
  BY DEF Joined
<1>5. ASSUME NEW i \in 1..4 PROVE d[i] = w[i]
  <2>1. i \in 1..12 /\ i \in 1..24 /\ i \in 1..(24 + n)
    OBVIOUS
  <2>2. d[i] = hc[i] /\ hc[i] = h[i]
    BY <1>3, <1>4, <2>1
  <2>3. h[i] = wt[i] /\ wt[i] = w[i]
    BY <1>1, <1>2, <2>1
  <2> QED
    BY <2>2, <2>3
<1>6. ASSUME NEW i \in 1..8 PROVE d[4 + i] = t[i]
  <2>1. 4 + i \in 1..12 /\ 4 + i \in 1..24 /\ 4 + i \in 1..(24 + n)
    OBVIOUS
  <2>2. d[4 + i] = hc[4 + i] /\ hc[4 + i] = h[4 + i]
    BY <1>3, <1>4, <2>1
  <2>3. h[4 + i] = wt[4 + i] /\ wt[4 + i] = t[i]
    BY <1>1, <1>2, <2>1
  <2> QED
    BY <2>2, <2>3
<1>7. ASSUME NEW i \in 1..12 PROVE d[12 + i] = nonce[i]
  <2>1. 12 + i \in 1..24 /\ 12 + i \in 1..(24 + n)
    OBVIOUS
  <2>2. d[12 + i] = hc[12 + i] /\ hc[12 + i] = h[12 + i]
    BY <1>3, <1>4, <2>1
  <2>3. h[12 + i] = nonce[i]
    BY <1>2
  <2> QED
    BY <2>2, <2>3
<1>8. ASSUME NEW i \in 1..n PROVE d[24 + i] = c[i]
  <2>1. 24 + i \in 1..(24 + n)
    OBVIOUS
  <2> QED
    BY <1>3, <1>4, <2>1
<1> QED
  BY <1>4, <1>5, <1>6, <1>7, <1>8 DEF Composed

LEMMA Assembled ==
  ASSUME NEW w \in Bytes, NEW t \in Bytes, NEW nonce \in Bytes, NEW c \in Bytes,
         NEW tag \in Bytes, NEW n \in Nat,
         Len(w) = 4, Len(t) = 8, Len(nonce) = 12, Len(c) = n, Len(tag) = 16
  PROVE  Composed(((w \o t \o nonce) \o c) \o tag, w, t, nonce, c, n, tag)
<1>1. 4 \in Nat /\ 8 \in Nat /\ 12 \in Nat /\ 16 \in Nat /\ 24 \in Nat /\ 24 + n \in Nat
  OBVIOUS
<1>2. PICK wt : wt = w \o t
  OBVIOUS
<1>3. PICK h : h = wt \o nonce
  OBVIOUS
<1>4. PICK hc : hc = h \o c
  OBVIOUS
<1>5. PICK d : d = hc \o tag
  OBVIOUS
<1>6. Joined(wt, w, 4, t, 8)
  BY <1>1, <1>2, Concatenated, ZenonT(60)
<1>7. wt \in Bytes /\ Len(wt) = 12
  BY <1>6 DEF Joined
<1>8. Joined(h, wt, 12, nonce, 12)
  BY <1>1, <1>3, <1>7, Concatenated, ZenonT(60)
<1>9. h \in Bytes /\ Len(h) = 24
  BY <1>8 DEF Joined
<1>10. Joined(hc, h, 24, c, n)
  BY <1>1, <1>4, <1>9, Concatenated, ZenonT(60)
<1>11. hc \in Bytes /\ Len(hc) = 24 + n
  BY <1>10 DEF Joined
<1>12. Joined(d, hc, 24 + n, tag, 16)
  BY <1>1, <1>5, <1>11, Concatenated, ZenonT(60)
<1>13. Composed(d, w, t, nonce, c, n, tag)
  BY <1>6, <1>8, <1>10, <1>12, Layout, ZenonT(60)
<1>14. d = ((w \o t \o nonce) \o c) \o tag
  BY <1>2, <1>3, <1>4, <1>5, ZenonT(60)
<1> QED
  BY <1>13, <1>14, ZenonT(60)

\* Two byte strings of the same parts are the same.
LEMMA SameParts ==
  ASSUME NEW d, NEW e, NEW w, NEW t, NEW nonce, NEW c, NEW n \in Nat, NEW tag,
         Composed(d, w, t, nonce, c, n, tag), Composed(e, w, t, nonce, c, n, tag)
  PROVE  d = e
<1>1. d \in Seq(Byte) /\ e \in Seq(Byte) /\ Len(d) = 24 + n + 16 /\ Len(e) = Len(d)
  BY DEF Composed, Bytes
<1>2. ASSUME NEW i \in 1 .. 24 + n + 16 PROVE d[i] = e[i]
  <2>1. CASE i \in 1..4
    <3>1. d[i] = w[i] /\ e[i] = w[i]
      BY <2>1 DEF Composed
    <3> QED
      BY <3>1
  <2>2. CASE i \in 5 .. 12
    <3>1. PICK j \in 1..8 : i = 4 + j
      <4>1. i - (4) \in 1..8 /\ i = 4 + (i - (4))
        BY <2>2
      <4> QED
        BY <4>1
    <3>2. d[4 + j] = t[j] /\ e[4 + j] = t[j]
      BY DEF Composed
    <3> QED
      BY <3>1, <3>2
  <2>3. CASE i \in 13 .. 24
    <3>1. PICK j \in 1..12 : i = 12 + j
      <4>1. i - (12) \in 1..12 /\ i = 12 + (i - (12))
        BY <2>3
      <4> QED
        BY <4>1
    <3>2. d[12 + j] = nonce[j] /\ e[12 + j] = nonce[j]
      BY DEF Composed
    <3> QED
      BY <3>1, <3>2
  <2>4. CASE i \in 25 .. 24 + n
    <3>1. PICK j \in 1..n : i = 24 + j
      <4>1. i - (24) \in 1..n /\ i = 24 + (i - (24))
        BY <2>4
      <4> QED
        BY <4>1
    <3>2. d[24 + j] = c[j] /\ e[24 + j] = c[j]
      BY DEF Composed
    <3> QED
      BY <3>1, <3>2
  <2>5. CASE i \in 24 + n + 1 .. 24 + n + 16
    <3>1. PICK j \in 1..16 : i = 24 + n + j
      <4>1. i - (24 + n) \in 1..16 /\ i = 24 + n + (i - (24 + n))
        BY <2>5
      <4> QED
        BY <4>1
    <3>2. d[24 + n + j] = tag[j] /\ e[24 + n + j] = tag[j]
      BY DEF Composed
    <3> QED
      BY <3>1, <3>2
  <2> QED
    BY <1>2, <2>1, <2>2, <2>3, <2>4, <2>5
<1> QED
  BY <1>1, <1>2, SeqEqual

LEMMA FieldsOf ==
  ASSUME NEW data, NEW n \in Nat, Len(data) = 24 + n + 16
  PROVE  deserialize_packet(data) =
           [session_id   |-> read_u32_be(data, 0),
            timestamp_ms |-> read_u64_be(data, 4),
            nonce        |-> [i \in 1..12 |-> data[12 + i]],
            ciphertext   |-> SubSeq(data, 25, 24 + n),
            tag          |-> [i \in 1..16 |-> data[24 + n + i]]]
<1>1. CiphertextSize(data) = n
  BY DEF CiphertextSize, HEADER_SIZE, TAG_SIZE
<1>2. 24 + 1 = 25
  OBVIOUS
<1> QED
  BY <1>1, <1>2 DEF deserialize_packet, HEADER_SIZE, TAG_SIZE, NONCE_SIZE

\* Four bytes, and eight, are what their value is written as.
LEMMA Word32Back ==
  ASSUME NEW b1 \in Byte, NEW b2 \in Byte, NEW b3 \in Byte, NEW b4 \in Byte
  PROVE  LET v == Shl(Shl(Shl(b1, b2), b3), b4)
         IN  v \in UInt32 /\ write_u32_be(v) = <<b1, b2, b3, b4>>
<1> DEFINE v2 == Shl(b1, b2)
           v1 == Shl(v2, b3)
           v  == Shl(v1, b4)
<1>1. b1 \in Nat /\ b1 < 256 /\ Low(b1) = b1
  BY SmallLow DEF Byte
<1>2. /\ v2 \in Nat /\ Shr(v2) = b1 /\ Low(v2) = b2
      /\ v1 \in Nat /\ Shr(v1) = v2 /\ Low(v1) = b3
      /\ v \in Nat /\ Shr(v) = v1 /\ Low(v) = b4
  BY <1>1, ShiftBack, ZenonT(60)
<1>3. v < 256 * (256 * (256 * 256))
  BY <1>1 DEF Shl, Byte
<1> HIDE DEF v1, v2, v
<1>4. write_u32_be(v) = <<b1, b2, b3, b4>>
  BY <1>1, <1>2 DEF write_u32_be
<1>5. v \in UInt32
  BY <1>2, <1>3 DEF UInt32, Word32
<1> QED
  BY <1>4, <1>5 DEF v, v1, v2

LEMMA Word64Back ==
  ASSUME NEW data, \A i \in 5..12 : data[i] \in Byte
  PROVE  LET v == Shl(Shl(Shl(Shl(Shl(Shl(Shl(data[5], data[6]), data[7]), data[8]),
                                  data[9]), data[10]), data[11]), data[12])
         IN  /\ v \in UInt64
             /\ write_u64_be(v) = <<data[5], data[6], data[7], data[8],
                                    data[9], data[10], data[11], data[12]>>
<1> DEFINE b1 == data[5]
           b2 == data[6]
           b3 == data[7]
           b4 == data[8]
           b5 == data[9]
           b6 == data[10]
           b7 == data[11]
           b8 == data[12]
           v6 == Shl(b1, b2)
           v5 == Shl(v6, b3)
           v4 == Shl(v5, b4)
           v3 == Shl(v4, b5)
           v2 == Shl(v3, b6)
           v1 == Shl(v2, b7)
           v  == Shl(v1, b8)
<1>0. /\ b1 \in Byte /\ b2 \in Byte /\ b3 \in Byte /\ b4 \in Byte
      /\ b5 \in Byte /\ b6 \in Byte /\ b7 \in Byte /\ b8 \in Byte
  OBVIOUS
<1> HIDE DEF b1, b2, b3, b4, b5, b6, b7, b8
<1>1. b1 \in Nat /\ b1 < 256 /\ Low(b1) = b1
  BY <1>0, SmallLow DEF Byte
<1>2. /\ v6 \in Nat /\ Shr(v6) = b1 /\ Low(v6) = b2
      /\ v5 \in Nat /\ Shr(v5) = v6 /\ Low(v5) = b3
      /\ v4 \in Nat /\ Shr(v4) = v5 /\ Low(v4) = b4
      /\ v3 \in Nat /\ Shr(v3) = v4 /\ Low(v3) = b5
  BY <1>0, <1>1, ShiftBack, ZenonT(60)
<1>3. /\ v2 \in Nat /\ Shr(v2) = v3 /\ Low(v2) = b6
      /\ v1 \in Nat /\ Shr(v1) = v2 /\ Low(v1) = b7
      /\ v \in Nat /\ Shr(v) = v1 /\ Low(v) = b8
  BY <1>0, <1>2, ShiftBack, ZenonT(60)
<1>4. v < 256 * (256 * (256 * (256 * (256 * (256 * (256 * 256))))))
  <2> HIDE DEF v1, v2, v3, v4, v5, v6, v
  <2>1. v6 < 256 * 256
    BY <1>0, <1>1, ByteBound DEF v6
  <2>2. v5 < 256 * (256 * 256)
    BY <1>0, <1>2, <2>1, ByteBound DEF v5
  <2>3. v4 < 256 * (256 * (256 * 256))
    BY <1>0, <1>2, <2>2, ByteBound DEF v4
  <2>4. v3 < 256 * (256 * (256 * (256 * 256)))
    BY <1>0, <1>2, <2>3, ByteBound DEF v3
  <2>5. v2 < 256 * (256 * (256 * (256 * (256 * 256))))
    BY <1>0, <1>2, <2>4, ByteBound DEF v2
  <2>6. v1 < 256 * (256 * (256 * (256 * (256 * (256 * 256)))))
    BY <1>0, <1>3, <2>5, ByteBound DEF v1
  <2>7. PICK k \in Nat : k = 256 * (256 * (256 * (256 * (256 * (256 * 256)))))
    OBVIOUS
  <2>8. v1 \in Nat /\ v1 < k /\ b8 \in Byte
    BY <1>0, <1>3, <2>6, <2>7
  <2>9. v < 256 * k
    BY <2>8, ByteBound, ZenonT(60) DEF v
  <2> QED
    BY <2>7, <2>9
<1> HIDE DEF v1, v2, v3, v4, v5, v6, v
<1>5. write_u64_be(v) = <<b1, b2, b3, b4, b5, b6, b7, b8>>
  BY <1>1, <1>2, <1>3 DEF write_u64_be
<1>6. v \in UInt64
  BY <1>3, <1>4 DEF UInt64, Word32
<1> QED
  BY <1>5, <1>6 DEF v, v1, v2, v3, v4, v5, v6, b1, b2, b3, b4, b5, b6, b7, b8

\* A datagram that is a serialized packet, part by part.
LEMMA Serialized ==
  ASSUME NEW packet \in Packet, NEW n \in Nat, n = Len(packet.ciphertext)
  PROVE  /\ packet.session_id \in UInt32 /\ packet.timestamp_ms \in UInt64
         /\ packet.nonce \in [1..12 -> Byte] /\ packet.ciphertext \in Bytes
         /\ packet.tag \in [1..16 -> Byte]
         /\ Composed(serialize_packet(packet), write_u32_be(packet.session_id),
                     write_u64_be(packet.timestamp_ms), packet.nonce,
                     packet.ciphertext, n, packet.tag)
<1>1. /\ packet.session_id \in UInt32 /\ packet.timestamp_ms \in UInt64
      /\ packet.nonce \in [1..12 -> Byte] /\ packet.ciphertext \in Bytes
      /\ packet.tag \in [1..16 -> Byte]
  BY DEF Packet, NONCE_SIZE, TAG_SIZE
<1>2. packet.nonce \in Bytes /\ Len(packet.nonce) = 12
  BY <1>1, ArrayBytes
<1>3. packet.tag \in Bytes /\ Len(packet.tag) = 16
  BY <1>1, ArrayBytes
<1> DEFINE w == write_u32_be(packet.session_id)
           t == write_u64_be(packet.timestamp_ms)
<1>4. w \in Bytes /\ Len(w) = 4 /\ t \in Bytes /\ Len(t) = 8
  BY <1>1, Word32Fits, Word64Fits
<1>5. serialize_packet(packet) =
        ((w \o t \o packet.nonce) \o packet.ciphertext) \o packet.tag
  BY DEF serialize_packet, build_aad
<1> HIDE DEF w, t
<1>6. Composed(((w \o t \o packet.nonce) \o packet.ciphertext) \o packet.tag,
               w, t, packet.nonce, packet.ciphertext, n, packet.tag)
  BY <1>1, <1>2, <1>3, <1>4, Assembled, ZenonT(60)
<1>7. Composed(serialize_packet(packet), w, t, packet.nonce, packet.ciphertext, n,
               packet.tag)
  BY <1>5, <1>6, ZenonT(60)
<1> QED
  BY <1>1, <1>7 DEF w, t

\* The ciphertext is what lies between the header and the tag.
LEMMA Middle ==
  ASSUME NEW data \in Bytes, NEW n \in Nat, Len(data) = 24 + n + 16
  PROVE  /\ SubSeq(data, 25, 24 + n) \in Bytes /\ Len(SubSeq(data, 25, 24 + n)) = n
         /\ \A i \in 1..n : SubSeq(data, 25, 24 + n)[i] = data[24 + i]
<1>1. \A i \in 25 .. 24 + n : data[i] \in Byte
  <2>1. data \in [1 .. 24 + n + 16 -> Byte]
    BY LenProperties DEF Bytes
  <2> QED
    BY <2>1
<1> DEFINE s == SubSeq(data, 25, 24 + n)
<1>2. /\ s \in Seq(Byte)
      /\ Len(s) = IF 25 <= 24 + n THEN (24 + n) - 25 + 1 ELSE 0
      /\ \A i \in 1 .. (24 + n) - 25 + 1 : s[i] = data[25 + i - 1]
  BY <1>1, SubSeqProperties
<1> HIDE DEF s
<1>3. Len(s) = n /\ (24 + n) - 25 + 1 = n
  BY <1>2
<1>4. ASSUME NEW i \in 1..n PROVE s[i] = data[24 + i]
  <2>1. 25 + i - 1 = 24 + i
    OBVIOUS
  <2> QED
    BY <1>2, <1>3, <1>4, <2>1
<1> QED
  BY <1>2, <1>3, <1>4 DEF Bytes, s

\* What a packet is serialized to passes the size check and is read back as the
\* same packet, whatever the length of its ciphertext (packet.cpp:45-82).
THEOREM RoundTrip ==
  ASSUME NEW packet \in Packet
  PROVE  /\ WellFormed(serialize_packet(packet))
         /\ deserialize_packet(serialize_packet(packet)) = packet
<1>1. PICK n \in Nat : n = Len(packet.ciphertext)
  BY DEF Packet, Bytes
<1>2. /\ packet.session_id \in UInt32 /\ packet.timestamp_ms \in UInt64
      /\ packet.nonce \in [1..12 -> Byte] /\ packet.ciphertext \in Bytes
      /\ packet.tag \in [1..16 -> Byte]
  BY <1>1, Serialized
<1>3. PICK data : data = serialize_packet(packet)
  OBVIOUS
<1>4. Composed(data, write_u32_be(packet.session_id), write_u64_be(packet.timestamp_ms),
               packet.nonce, packet.ciphertext, n, packet.tag)
  BY <1>1, <1>3, Serialized, ZenonT(60)
<1>5. /\ data \in Bytes /\ Len(data) = 24 + n + 16
      /\ \A i \in 1..12 : data[12 + i] = packet.nonce[i]
      /\ \A i \in 1..n  : data[24 + i] = packet.ciphertext[i]
      /\ \A i \in 1..16 : data[24 + n + i] = packet.tag[i]
  BY <1>4 DEF Composed
<1>6. read_u32_be(data, 0) = packet.session_id
  <2>1. \A i \in 1..4 : data[0 + i] = write_u32_be(packet.session_id)[i]
    <3>1. ASSUME NEW i \in 1..4 PROVE data[0 + i] = write_u32_be(packet.session_id)[i]
      <4>1. 0 + i = i
        OBVIOUS
      <4>2. data[i] = write_u32_be(packet.session_id)[i]
        BY <1>4 DEF Composed
      <4> QED
        BY <4>1, <4>2
    <3> QED
      BY <3>1
  <2>2. 0 \in Nat
    OBVIOUS
  <2> QED
    BY <1>2, <1>5, <2>1, <2>2, Word32Fits, ZenonT(60)
<1>7. read_u64_be(data, 4) = packet.timestamp_ms
  <2>1. \A i \in 1..8 : data[4 + i] = write_u64_be(packet.timestamp_ms)[i]
    BY <1>4 DEF Composed
  <2>2. 4 \in Nat
    OBVIOUS
  <2> QED
    BY <1>2, <1>5, <2>1, <2>2, Word64Fits, ZenonT(60)
<1>8. [i \in 1..12 |-> data[12 + i]] = packet.nonce
  BY <1>2, <1>5
<1>9. [i \in 1..16 |-> data[24 + n + i]] = packet.tag
  BY <1>2, <1>5
<1>10. SubSeq(data, 25, 24 + n) = packet.ciphertext
  <2>1. PICK s : s = SubSeq(data, 25, 24 + n)
    OBVIOUS
  <2>2. s \in Seq(Byte) /\ Len(s) = n /\ \A i \in 1..n : s[i] = data[24 + i]
    BY <1>5, <2>1, Middle DEF Bytes
  <2>3. packet.ciphertext \in Seq(Byte) /\ \A i \in 1..n : s[i] = packet.ciphertext[i]
    BY <1>2, <1>5, <2>2 DEF Bytes
  <2> QED
    BY <1>1, <2>1, <2>2, <2>3, SeqEqual
<1>11. deserialize_packet(data) =
         [session_id   |-> read_u32_be(data, 0),
          timestamp_ms |-> read_u64_be(data, 4),
          nonce        |-> [i \in 1..12 |-> data[12 + i]],
          ciphertext   |-> SubSeq(data, 25, 24 + n),
          tag          |-> [i \in 1..16 |-> data[24 + n + i]]]
  BY <1>5, FieldsOf
<1>12. deserialize_packet(data) =
         [session_id |-> packet.session_id, timestamp_ms |-> packet.timestamp_ms,
          nonce |-> packet.nonce, ciphertext |-> packet.ciphertext, tag |-> packet.tag]
  BY <1>6, <1>7, <1>8, <1>9, <1>10, <1>11
<1>13. deserialize_packet(data) = packet
  BY <1>12 DEF Packet
<1>14. WellFormed(data)
  BY <1>5 DEF WellFormed, HEADER_SIZE, TAG_SIZE
<1> QED
  BY <1>3, <1>13, <1>14

\* Every datagram that passes the size check is the serialization of a packet,
\* the one it is read as: no byte of it is ignored, none counts twice, and two
\* datagrams are never read as the same packet (packet.cpp:54-82).
THEOREM NothingIgnored ==
  ASSUME NEW data \in Bytes, WellFormed(data)
  PROVE  /\ deserialize_packet(data) \in Packet
         /\ serialize_packet(deserialize_packet(data)) = data
<1>1. PICK n \in Nat : Len(data) = 24 + n + 16
  <2>1. Len(data) \in Nat /\ Len(data) >= 24 + 16
    BY LenProperties DEF WellFormed, HEADER_SIZE, TAG_SIZE, Bytes
  <2>2. Len(data) - 24 - 16 \in Nat /\ Len(data) = 24 + (Len(data) - 24 - 16) + 16
    BY <2>1
  <2> QED
    BY <2>2
<1>2. data \in [1 .. 24 + n + 16 -> Byte]
  BY <1>1, LenProperties DEF Bytes
<1>3. PICK nonce, c, tag :
        /\ nonce = [i \in 1..12 |-> data[12 + i]] /\ c = SubSeq(data, 25, 24 + n)
        /\ tag = [i \in 1..16 |-> data[24 + n + i]]
  OBVIOUS
<1>4. nonce \in [1..12 -> Byte] /\ tag \in [1..16 -> Byte]
  BY <1>2, <1>3
<1>5. c \in Bytes /\ Len(c) = n /\ \A i \in 1..n : c[i] = data[24 + i]
  BY <1>1, <1>3, Middle
<1>6. PICK v, u : v = read_u32_be(data, 0) /\ u = read_u64_be(data, 4)
  OBVIOUS
<1>7. v \in UInt32 /\ \A i \in 1..4 : write_u32_be(v)[i] = data[i]
  <2>1. data[1] \in Byte /\ data[2] \in Byte /\ data[3] \in Byte /\ data[4] \in Byte
    BY <1>2
  <2>2. v = Shl(Shl(Shl(data[1], data[2]), data[3]), data[4])
    <3>1. 0 + 1 = 1 /\ 0 + 2 = 2 /\ 0 + 3 = 3 /\ 0 + 4 = 4
      OBVIOUS
    <3> QED
      BY <1>6, <3>1 DEF read_u32_be
  <2>3. /\ v \in UInt32
        /\ write_u32_be(v) = <<data[1], data[2], data[3], data[4]>>
    BY <2>1, <2>2, Word32Back, ZenonT(60)
  <2> QED
    BY <2>3
<1>8. u \in UInt64 /\ \A i \in 1..8 : write_u64_be(u)[i] = data[4 + i]
  <2>1. \A i \in 5..12 : data[i] \in Byte
    BY <1>2
  <2>2. u = Shl(Shl(Shl(Shl(Shl(Shl(Shl(data[5], data[6]), data[7]), data[8]),
                              data[9]), data[10]), data[11]), data[12])
    <3>1. /\ 4 + 1 = 5 /\ 4 + 2 = 6 /\ 4 + 3 = 7 /\ 4 + 4 = 8
          /\ 4 + 5 = 9 /\ 4 + 6 = 10 /\ 4 + 7 = 11 /\ 4 + 8 = 12
      OBVIOUS
    <3> QED
      BY <1>6, <3>1 DEF read_u64_be, read_u32_be
  <2>3. /\ u \in UInt64
        /\ write_u64_be(u) = <<data[5], data[6], data[7], data[8],
                               data[9], data[10], data[11], data[12]>>
    BY <2>1, <2>2, Word64Back, ZenonT(60)
  <2> QED
    BY <2>3
<1>9. PICK p : p = deserialize_packet(data)
  OBVIOUS
<1>10. p = [session_id |-> v, timestamp_ms |-> u, nonce |-> nonce,
            ciphertext |-> c, tag |-> tag]
  BY <1>1, <1>3, <1>6, <1>9, FieldsOf
<1>11. /\ p \in Packet /\ p.session_id = v /\ p.timestamp_ms = u /\ p.nonce = nonce
       /\ p.ciphertext = c /\ p.tag = tag
  BY <1>4, <1>5, <1>7, <1>8, <1>10 DEF Packet, NONCE_SIZE, TAG_SIZE
<1>12. PICK d : d = serialize_packet(p)
  OBVIOUS
<1>13. Composed(d, write_u32_be(v), write_u64_be(u), nonce, c, n, tag)
  BY <1>5, <1>11, <1>12, Serialized, ZenonT(60)
<1>14. Composed(data, write_u32_be(v), write_u64_be(u), nonce, c, n, tag)
  BY <1>1, <1>3, <1>5, <1>7, <1>8 DEF Composed
<1>15. d = data
  BY <1>13, <1>14, SameParts
<1> QED
  BY <1>9, <1>11, <1>12, <1>15
=============================================================================
