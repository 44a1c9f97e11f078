-------------------------- MODULE GroundLinkProofs --------------------------
(***************************************************************************)
(* What holds of the ground runs and the UDP path for every number of runs *)
(* and every clock, whichever satellite listens: steps of the ground and   *)
(* the network keep their variables well typed and every tag accounted     *)
(* for, and what passes the receiver's checks is a sealed packet.          *)
(***************************************************************************)
EXTENDS GroundLink, TLAPS

\* The sizes of the wire format: a public key is shorter than any packet.
LEMMA Sizes ==
  /\ PUBLIC_KEY_SIZE = 32
  /\ PacketSizes = 40..2048
  /\ \A size : WellFormed(size) <=> size >= 40
BY DEF PUBLIC_KEY_SIZE, PacketSizes, WellFormed, HEADER_SIZE, TAG_SIZE,
       SESSION_ID_SIZE, TIMESTAMP_SIZE, NONCE_SIZE

\* The bytes of a packet just created: a tag of its own header and ciphertext.
LEMMA SealedBytes ==
  ASSUME NEW key \in SessionKeys, NEW ts \in Nat, NEW nonce \in Nat,
         NEW command \in Commands
  PROVE  LET b == PacketBytes(key, ts, nonce, command)
         IN  /\ b \in Wire
             /\ b[5] = TagOf(b)
             /\ b[5].key = key
             /\ b[2] = ts
             /\ b[4].plaintext = command
<1> DEFINE aad == <<SESSION_ID, ts, nonce>>
           ct  == chacha20(key, nonce, command)
           tag == poly1305(key, nonce, aad, ct)
<1>1. PacketBytes(key, ts, nonce, command)
        = <<SESSION_ID, ts, nonce, ct, tag>>
  BY DEF PacketBytes, serialize_packet, encrypt_chacha20_poly1305, build_aad
<1>2. ct \in Ciphertexts /\ ct.plaintext = command
  BY DEF Ciphertexts, chacha20, Nonces
<1>3. aad \in Headers /\ SESSION_ID \in Nat
  BY DEF Headers, Nonces, SESSION_ID
<1>4. tag \in Tags /\ tag.key = key
  BY <1>2, <1>3 DEF Tags, poly1305, Nonces
<1>5. <<SESSION_ID, ts, nonce, ct, tag>> \in Wire
  <2> HIDE DEF ct, tag
  <2> QED BY <1>2, <1>3, <1>4 DEF Wire, Nonces
<1>6. tag = TagOf(<<SESSION_ID, ts, nonce, ct, tag>>)
  BY <1>4 DEF TagOf
<1> QED
  BY <1>1, <1>2, <1>4, <1>5, <1>6

\* Flipping a byte of the ciphertext leaves every other field as it was.
LEMMA TamperedBytes ==
  ASSUME NEW b \in Wire
  PROVE  Tampered(b) \in Wire /\ Tampered(b)[5] = b[5]
<1>1. FlipByte(b[4]) \in Ciphertexts
  BY DEF FlipByte, Wire, Ciphertexts
<1> QED
  BY <1>1 DEF Tampered, Wire

\* The size of a datagram says which of the three kinds it is.
LEMMA DatagramSizes ==
  ASSUME NEW d \in Datagrams
  PROVE  /\ d.from \in Ground \union Legacy
         /\ d.size = PUBLIC_KEY_SIZE =>
              d.from \in Ground /\ d.bytes \in KeyBytes /\ d.bytes[1] \in Ground
         /\ WellFormed(d.size) =>
              d.from \in Ground /\ d.size \in PacketSizes /\ d.bytes \in Wire
<1>1. CASE d \in [from : Ground, seq : {0}, size : {PUBLIC_KEY_SIZE},
                 bytes : KeyBytes]
  BY <1>1, Sizes DEF KeyBytes
<1>2. CASE d \in [from : Ground \union Legacy, seq : 0..4, size : {0, 17},
                 bytes : Plain]
  BY <1>2, Sizes
<1>3. CASE d \in [from : Ground, seq : 1..4, size : PacketSizes, bytes : Wire]
  BY <1>3, Sizes, SMTT(30)
<1> QED
  BY <1>1, <1>2, <1>3 DEF Datagrams

\* A damaged packet is still a datagram of the link, with the same tag.
LEMMA DamagedDatagram ==
  ASSUME NEW d \in Datagrams, WellFormed(d.size), NEW bad \in Damaged(d)
  PROVE  /\ bad \in Datagrams
         /\ bad.size = d.size
         /\ bad.bytes[5] = d.bytes[5]
<1>1. d.bytes \in Wire /\ d.size \in PacketSizes
  BY DatagramSizes
<1>2. d.size # PUBLIC_KEY_SIZE /\ d.size # 0 /\ d.size # 17
  BY <1>1, Sizes
<1>3. d \in [from : Ground, seq : 1..4, size : PacketSizes, bytes : Wire]
  BY <1>2 DEF Datagrams
<1>4. bad.bytes \in Wire /\ bad.bytes[5] = d.bytes[5]
  <2>1. CASE bad = [d EXCEPT !.bytes = Tampered(d.bytes)]
    BY <1>1, <1>3, <2>1, TamperedBytes
  <2>2. ASSUME NEW h \in DamagedHeaders,
               bad = [d EXCEPT !.bytes =
                        <<h[1], h[2], h[3], d.bytes[4], d.bytes[5]>>]
        PROVE  bad.bytes \in Wire /\ bad.bytes[5] = d.bytes[5]
    BY <1>1, <1>3, <2>2, LinkAssumption DEF Wire, Nonces
  <2> QED
    BY <2>1, <2>2 DEF Damaged
<1>5. bad = [d EXCEPT !.bytes = bad.bytes]
  BY <1>3 DEF Damaged
<1> QED
  BY <1>3, <1>4, <1>5 DEF Datagrams

\* create_secure_command_packet returns nothing or a packet that is well typed.
LEMMA CreatedPacket ==
  ASSUME NEW g \in Ground, NEW kind \in {"valid", "tampered", "expired"},
         NEW ts \in Nat, gkey[g] \in SessionKeys,
         NEW contents \in Contents(g, kind, ts), contents # NoContents
  PROVE  /\ contents \in [size : PacketSizes, bytes : Wire]
         /\ contents.bytes[5] = TagOf(contents.bytes)
         /\ contents.bytes[5].key = gkey[g]
         /\ contents.bytes[2] = ts
         /\ contents.bytes[4].plaintext = CommandOf[kind]
<1>1. CommandOf[kind] \in Commands /\ NonceOf[kind] \in Nat
  BY DEF CommandOf, NonceOf, Commands, CommandSize
<1>2. HEADER_SIZE + CommandSize[CommandOf[kind]] + TAG_SIZE \in PacketSizes
  <2>1. CommandSize[CommandOf[kind]] \in {16, 17, 21}
    BY DEF CommandOf, CommandSize
  <2>2. HEADER_SIZE = 24 /\ TAG_SIZE = 16
    BY DEF HEADER_SIZE, TAG_SIZE, SESSION_ID_SIZE, TIMESTAMP_SIZE, NONCE_SIZE
  <2>3. \A n \in {16, 17, 21} : 24 + n + 16 \in 40..2048
    OBVIOUS
  <2>4. \A n \in {16, 17, 21} : HEADER_SIZE + n + TAG_SIZE \in PacketSizes
    BY <2>2, <2>3, Sizes
  <2> QED
    BY <2>1, <2>4, Zenon
<1>3. contents = [size  |-> HEADER_SIZE + CommandSize[CommandOf[kind]] + TAG_SIZE,
                  bytes |-> PacketBytes(gkey[g], ts, NonceOf[kind],
                                        CommandOf[kind])]
  BY DEF Contents, create_secure_command_packet
<1> DEFINE b == PacketBytes(gkey[g], ts, NonceOf[kind], CommandOf[kind])
<1>4. /\ b \in Wire
      /\ b[5] = TagOf(b)
      /\ b[5].key = gkey[g]
      /\ b[2] = ts
      /\ b[4].plaintext = CommandOf[kind]
  BY <1>1, SealedBytes
<1> HIDE DEF b
<1> QED
  BY <1>2, <1>3, <1>4 DEF b

\* A derivation yields a session key or, when it fails, the empty one.
LEMMA DerivedKey ==
  ASSUME NEW mine \in PublicKeys, NEW peer \in PublicKeys, NEW ok
  PROVE  /\ SessionKey(mine, peer, ok) \in SessionKeys \union {NoKey}
         /\ SessionKey(mine, peer, TRUE) \in SessionKeys
         /\ NoKey \notin SessionKeys
         /\ SessionKey(mine, peer, ok) # NoKey =>
              SessionKey(mine, peer, ok)[2] = {mine, peer}
<1>1. NoKey \notin SessionKeys
  BY LinkAssumption DEF SessionKeys, PublicKeys
<1>2. <<HkdfInfo, {mine, peer}>> \in SessionKeys
  BY DEF SessionKeys
<1> QED
  BY <1>1, <1>2 DEF SessionKey, hkdf_sha256_session_key,
                    derive_x25519_shared_secret

\* sendto adds a well-typed datagram to the uplink.
LEMMA SentDatagram ==
  ASSUME NEW g \in Ground, NEW seq \in 1..4, NEW contents \in PacketContents
  PROVE  Datagram(g, seq, contents.size, contents.bytes) \in Datagrams
<1>1. CASE contents = NoContents
  BY <1>1 DEF NoContents, Datagram, Datagrams, Plain
<1>2. CASE contents \in [size : PacketSizes, bytes : Wire]
  BY <1>2 DEF Datagram, Datagrams
<1> QED
  BY <1>1, <1>2 DEF PacketContents

\* What passes every check of the receiver is a packet sealed with its key.
LEMMA AcceptedDatagram ==
  ASSUME NEW d \in Datagrams, NEW key, NEW seen, NEW time, NEW ok,
         Reason(d, key, seen, time, ok) = "OK"
  PROVE  /\ d.from \in Ground /\ d.size \in PacketSizes /\ d.bytes \in Wire
         /\ is_fresh(d.bytes[2], time)
         /\ make_nonce_key(d.bytes[1], d.bytes[3]) \notin seen
         /\ d.bytes[5] = TagOf(d.bytes)
         /\ d.bytes[5].key = key
<1> DEFINE packet == deserialize_packet(d.bytes)
<1>1. /\ WellFormed(d.size)
      /\ is_fresh(packet.timestamp_ms, time)
      /\ ~is_duplicate(seen, packet.session_id, packet.nonce)
      /\ Authentic(packet, key)
  BY DEF Reason
<1>2. d.from \in Ground /\ d.size \in PacketSizes /\ d.bytes \in Wire
  BY <1>1, DatagramSizes
<1>3. d.bytes[5] = poly1305(key, d.bytes[3],
                            <<d.bytes[1], d.bytes[2], d.bytes[3]>>, d.bytes[4])
  BY <1>1 DEF Authentic, decrypt_chacha20_poly1305, build_aad,
              deserialize_packet
<1>4. d.bytes[5].key = key
  BY <1>3 DEF poly1305
<1> QED
  BY <1>1, <1>2, <1>3, <1>4 DEF deserialize_packet, is_duplicate, TagOf

\* The entries of a history one entry longer.
LEMMA Appended ==
  ASSUME NEW S, NEW s \in Seq(S), NEW e
  PROVE  /\ DOMAIN Append(s, e) = DOMAIN s \union {Len(s) + 1}
         /\ Len(s) + 1 \notin DOMAIN s
         /\ Append(s, e)[Len(s) + 1] = e
         /\ \A i \in DOMAIN s : Append(s, e)[i] = s[i]
         /\ Len(Append(s, e)) = Len(s) + 1
         /\ Append(s, e) # <<>>
OBVIOUS

-----------------------------------------------------------------------------
\* Every packet of the script, whatever its timestamp, is well typed.
LEMMA ScriptContents ==
  ASSUME GroundTypeOK, NEW g \in Ground, gpc[g] \in KeyedStates,
         NEW kind \in {"valid", "tampered", "expired"}, NEW ts \in Nat,
         NEW contents \in Contents(g, kind, ts), Sealing(contents)
  PROVE  /\ contents \in PacketContents
         /\ contents # NoContents =>
              [contents EXCEPT !.bytes = Tampered(contents.bytes)]
                \in PacketContents
         /\ sealed' \subseteq Wire
<1>1. gkey[g] \in SessionKeys /\ sealed \subseteq Wire
  BY DEF GroundTypeOK
<1>2. CASE contents = NoContents
  BY <1>1, <1>2 DEF PacketContents, Sealing
<1>3. CASE contents # NoContents
  <2>1. contents \in [size : PacketSizes, bytes : Wire]
    BY <1>1, <1>3, CreatedPacket
  <2>2. Tampered(contents.bytes) \in Wire
    BY <2>1, TamperedBytes
  <2> QED
    BY <1>1, <1>3, <2>1, <2>2 DEF PacketContents, Sealing
<1> QED
  BY <1>2, <1>3

\* The initial states are well typed, and no packet is on its way.
LEMMA GroundInitInv ==
  ASSUME LinkInit, GroundInit
  PROVE  UplinkTypeOK /\ GroundTypeOK /\ KeyReplies /\ SealInv
<1>1. UplinkTypeOK /\ KeyReplies
  BY LinkAssumption DEF LinkInit, UplinkTypeOK, KeyReplies, LegacyDatagram,
                        Datagram, Datagrams, Plain
<1>2. GroundTypeOK
  BY DEF GroundInit, GroundTypeOK, GroundStates, KeyedStates, PacketContents
<1>3. SealInv
  <2>1. \A d \in uplink : d.size = 17
    BY DEF LinkInit, LegacyDatagram, Datagram
  <2>2. 17 \notin PacketSizes
    BY Sizes
  <2>3. sealed = {} /\ \A g \in Ground : gvalid[g] = NoContents
    BY DEF GroundInit
  <2> QED
    BY <2>1, <2>2, <2>3 DEF SealInv, SealedGenuine, TagsSealed
<1> QED
  BY <1>1, <1>2, <1>3

\* The steps of a ground run.
LEMMA GroundTypeStep ==
  ASSUME UplinkTypeOK, GroundTypeOK, KeyReplies,
         NEW g \in Ground, GroundStep(g)
  PROVE  UplinkTypeOK' /\ GroundTypeOK'
<1>2. CASE SendKey(g)
  <2>1. KeyDatagram(g) \in Datagrams
    BY DEF KeyDatagram, Datagram, Datagrams, KeyBytes
  <2>2. UplinkTypeOK'
    BY <1>2, <2>1 DEF SendKey, UplinkTypeOK
  <2>3. GroundTypeOK'
    BY <1>2 DEF SendKey, Goto, GroundTypeOK, GroundStates, KeyedStates
  <2> QED
    BY <2>2, <2>3
<1>3. CASE SendNoKey(g)
  <2>1. Datagram(g, 0, NoContents.size, NoContents.bytes) \in Datagrams
    BY DEF NoContents, Datagram, Datagrams, Plain
  <2>2. UplinkTypeOK'
    BY <1>3, <2>1 DEF SendNoKey, send_packet, UplinkTypeOK
  <2>3. GroundTypeOK'
    BY <1>3 DEF SendNoKey, Goto, GroundTypeOK, GroundStates, KeyedStates
  <2> QED
    BY <2>2, <2>3
<1>4. CASE CrashInKeygen(g)
  <2>1. UplinkTypeOK'
    BY <1>4 DEF CrashInKeygen, linkVars, UplinkTypeOK
  <2>2. GroundTypeOK'
    BY <1>4 DEF CrashInKeygen, Goto, GroundTypeOK, GroundStates, KeyedStates
  <2> QED
    BY <2>1, <2>2
<1>5. CASE RecvKey(g)
  <2>1. UplinkTypeOK'
    BY <1>5 DEF RecvKey, UplinkTypeOK
  <2>2. PICK d \in downlink, ok \in CryptoResults :
          /\ d.to = g
          /\ IF d.size = PUBLIC_KEY_SIZE /\ ok
               THEN /\ Goto(g, "await", "valid")
                    /\ gkey' = [gkey EXCEPT ![g] = SessionKey(g, d.bytes[1], TRUE)]
               ELSE Goto(g, "await", "failed") /\ UNCHANGED gkey
          /\ UNCHANGED <<gvalid, sealed>>
    BY <1>5 DEF RecvKey
  <2>3. CASE d.size = PUBLIC_KEY_SIZE /\ ok
    <3>1. d.bytes[1] \in PublicKeys
      BY <2>3 DEF KeyReplies
    <3>2. /\ SessionKey(g, d.bytes[1], TRUE) \in SessionKeys
          /\ NoKey \notin SessionKeys
      BY <3>1, DerivedKey DEF PublicKeys
    <3>3. /\ gpc[g] = "await" /\ gpc' = [gpc EXCEPT ![g] = "valid"]
          /\ gkey' = [gkey EXCEPT ![g] = SessionKey(g, d.bytes[1], TRUE)]
          /\ gvalid' = gvalid /\ sealed' = sealed
      BY <2>2, <2>3 DEF Goto
    <3>4. gpc' \in [Ground -> GroundStates]
      BY <3>3 DEF GroundTypeOK, GroundStates
    <3>5. gkey' \in [Ground -> SessionKeys \union {NoKey}]
      BY <3>2, <3>3 DEF GroundTypeOK
    <3>6. ASSUME NEW h \in Ground
          PROVE  gkey'[h] = NoKey <=> gpc'[h] \notin KeyedStates
      <4>1. CASE h = g
        <5>1. gkey'[h] # NoKey /\ gpc'[h] = "valid"
          BY <3>2, <3>3, <4>1 DEF GroundTypeOK
        <5> QED
          BY <5>1 DEF KeyedStates
      <4>2. CASE h # g
        BY <3>3, <4>2 DEF GroundTypeOK
      <4> QED
        BY <4>1, <4>2
    <3>7. GroundTypeOK'
      BY <3>3, <3>4, <3>5, <3>6 DEF GroundTypeOK
    <3> QED
      BY <2>1, <3>7
  <2>4. CASE ~(d.size = PUBLIC_KEY_SIZE /\ ok)
    <3>1. GroundTypeOK'
      BY <2>2, <2>4 DEF Goto, GroundTypeOK, GroundStates, KeyedStates
    <3> QED
      BY <2>1, <3>1
  <2> QED
    BY <2>3, <2>4
<1>6. CASE SendValid(g)
  <2>1. PICK contents \in Contents(g, "valid", now) :
          /\ Goto(g, "valid", "replay")
          /\ gvalid' = [gvalid EXCEPT ![g] = contents]
          /\ send_packet(g, 1, contents)
          /\ Sealing(contents)
          /\ UNCHANGED <<downlink, now, gkey>>
    BY <1>6 DEF SendValid
  <2>2. contents \in PacketContents /\ sealed' \subseteq Wire
    BY <2>1, ScriptContents DEF Goto, KeyedStates, UplinkTypeOK
  <2>3. UplinkTypeOK'
    BY <2>1, <2>2, SentDatagram DEF send_packet, UplinkTypeOK
  <2>4. GroundTypeOK'
    BY <2>1, <2>2 DEF Goto, GroundTypeOK, GroundStates, KeyedStates
  <2> QED
    BY <2>3, <2>4
<1>7. CASE SendReplay(g)
  <2>1. UplinkTypeOK'
    BY <1>7, SentDatagram
       DEF SendReplay, send_packet, UplinkTypeOK, GroundTypeOK
  <2>2. GroundTypeOK'
    BY <1>7 DEF SendReplay, Goto, GroundTypeOK, GroundStates, KeyedStates
  <2> QED
    BY <2>1, <2>2
<1>8. CASE SendTampered(g)
  <2>1. PICK contents \in Contents(g, "tampered", now) :
          /\ Goto(g, "tampered", "expired")
          /\ IF contents = NoContents
               THEN send_packet(g, 3, contents)
               ELSE send_packet(g, 3,
                      [contents EXCEPT !.bytes = Tampered(contents.bytes)])
          /\ Sealing(contents)
          /\ UNCHANGED <<downlink, now, gkey, gvalid>>
    BY <1>8 DEF SendTampered
  <2>2. /\ contents \in PacketContents
        /\ contents # NoContents =>
             [contents EXCEPT !.bytes = Tampered(contents.bytes)]
               \in PacketContents
        /\ sealed' \subseteq Wire
    BY <2>1, ScriptContents DEF Goto, KeyedStates, UplinkTypeOK
  <2>3. PICK sent \in PacketContents : send_packet(g, 3, sent)
    BY <2>1, <2>2
  <2>4. UplinkTypeOK'
    BY <2>1, <2>3, SentDatagram DEF send_packet, UplinkTypeOK
  <2>5. GroundTypeOK'
    BY <2>1, <2>2 DEF Goto, GroundTypeOK, GroundStates, KeyedStates
  <2> QED
    BY <2>4, <2>5
<1>9. CASE SendExpired(g)
  <2>1. PICK contents \in Contents(g, "expired", now - StaleAge) :
          /\ Goto(g, "expired", "done")
          /\ send_packet(g, 4, contents)
          /\ Sealing(contents)
          /\ UNCHANGED <<downlink, now, gkey, gvalid>>
    BY <1>9 DEF SendExpired
  <2>2. now - StaleAge \in Nat
    BY StartAssumption, LinkAssumption, WindowAssumption
       DEF UplinkTypeOK, StaleAge
  <2>3. contents \in PacketContents /\ sealed' \subseteq Wire
    BY <2>1, <2>2, ScriptContents DEF Goto, KeyedStates
  <2>4. UplinkTypeOK'
    BY <2>1, <2>3, SentDatagram DEF send_packet, UplinkTypeOK
  <2>5. GroundTypeOK'
    BY <2>1, <2>3 DEF Goto, GroundTypeOK, GroundStates, KeyedStates
  <2> QED
    BY <2>4, <2>5
<1> QED
  BY <1>2, <1>3, <1>4, <1>5, <1>6, <1>7, <1>8, <1>9 DEF GroundStep

\* What the network does keeps the datagrams and the clock well typed.
LEMMA NetworkTypeStep ==
  ASSUME UplinkTypeOK, Network
  PROVE  UplinkTypeOK'
<1>1. CASE LoseUp
  BY <1>1 DEF LoseUp, UplinkTypeOK
<1>2. CASE LoseDown
  BY <1>2 DEF LoseDown, UplinkTypeOK
<1>3. CASE Damage
  BY <1>3, DamagedDatagram DEF Damage, UplinkTypeOK
<1>4. CASE Tick
  BY <1>4, LinkAssumption DEF Tick, UplinkTypeOK
<1> QED
  BY <1>1, <1>2, <1>3, <1>4 DEF Network

\* A step of a ground run: a session key, once derived, is the run's until its
\* end, a sealed packet stays sealed, and the run sends no replies.
LEMMA GroundFrame ==
  ASSUME GroundTypeOK, NEW g \in Ground, GroundStep(g)
  PROVE  /\ \A h \in Ground : gkey[h] # NoKey => gkey'[h] = gkey[h]
         /\ sealed \subseteq sealed'
         /\ downlink' \subseteq downlink
         /\ UNCHANGED now
<1>0. /\ \A h \in Ground : gkey[h] = NoKey <=> gpc[h] \notin KeyedStates
      /\ gkey \in [Ground -> SessionKeys \union {NoKey}]
  BY DEF GroundTypeOK
<1>1. CASE RecvKey(g)
  <2>1. gpc[g] = "await"
    BY <1>1 DEF RecvKey, Goto
  <2>2. gkey[g] = NoKey
    BY <1>0, <2>1 DEF KeyedStates
  <2>3. gkey' = gkey \/ \E key : gkey' = [gkey EXCEPT ![g] = key]
    BY <1>1 DEF RecvKey
  <2>4. \A h \in Ground : gkey[h] # NoKey => gkey'[h] = gkey[h]
    BY <1>0, <2>2, <2>3
  <2> QED
    BY <1>1, <2>4 DEF RecvKey
<1>2. CASE ~RecvKey(g)
  BY <1>2 DEF GroundStep, SendKey, SendNoKey, CrashInKeygen, SendValid,
              SendReplay, SendTampered, SendExpired, Sealing, linkVars
<1> QED
  BY <1>1, <1>2

\* A step of the network takes replies away and never turns the clock back.
LEMMA NetworkFrame ==
  ASSUME UplinkTypeOK, Network
  PROVE  /\ downlink' \subseteq downlink
         /\ now' \in Nat /\ now' >= now
BY DEF UplinkTypeOK, Network, LoseUp, LoseDown, Damage, Tick
-----------------------------------------------------------------------------
\* A packet of the script is sealed as it is created.
LEMMA ScriptSeals ==
  ASSUME GroundTypeOK, SealedGenuine, NEW g \in Ground, gpc[g] \in KeyedStates,
         NEW kind \in {"valid", "tampered", "expired"}, NEW ts \in Nat,
         kind = "expired" => ts <= now - StaleAge,
         NEW contents \in Contents(g, kind, ts), Sealing(contents),
         UNCHANGED <<now, gkey>>
  PROVE  /\ SealedGenuine'
         /\ sealed \subseteq sealed'
         /\ contents # NoContents => contents.bytes \in sealed'
<1>1. gkey[g] \in SessionKeys
  BY DEF GroundTypeOK
<1>2. CASE contents = NoContents
  BY <1>2 DEF SealedGenuine, Sealing
<1>3. CASE contents # NoContents
  <2> DEFINE b == contents.bytes
  <2>1. /\ b[5] = TagOf(b)
        /\ b[5].key = gkey[g]
        /\ b[2] = ts
        /\ b[4].plaintext = CommandOf[kind]
    BY <1>1, <1>3, CreatedPacket
  <2>2. sealed' = sealed \union {b}
    BY <1>3 DEF Sealing
  <2>3. CommandOf[kind] = CommandOf.expired => kind = "expired"
    BY DEF CommandOf
  <2> HIDE DEF b
  <2>4. SealedGenuine'
    BY <2>1, <2>2, <2>3 DEF SealedGenuine
  <2> QED
    BY <2>2, <2>4 DEF b
<1> QED
  BY <1>2, <1>3

\* What a ground run does keeps every tag on the link accounted for.
LEMMA GroundSealStep ==
  ASSUME UplinkTypeOK, GroundTypeOK, SealInv,
         NEW g \in Ground, GroundStep(g)
  PROVE  SealInv'
<1> USE DEF SealInv
<1>0. /\ \A h \in Ground : gkey[h] # NoKey => gkey'[h] = gkey[h]
      /\ NoKey \notin SessionKeys /\ sealed \subseteq Wire
      /\ gvalid \in [Ground -> PacketContents]
      /\ now \in Nat
  BY GroundFrame, LinkAssumption
     DEF SessionKeys, PublicKeys, GroundTypeOK, UplinkTypeOK
<1>1. \A b \in sealed : b[5].key # NoKey
  BY <1>0 DEF Wire, Tags
<1>2. ASSUME UNCHANGED <<sealed, now>> PROVE SealedGenuine'
  BY <1>0, <1>1, <1>2 DEF SealedGenuine
<1>3. CASE SendKey(g)
  <2>1. uplink' = uplink \union {KeyDatagram(g)} /\ UNCHANGED <<gvalid, sealed, now>>
    BY <1>3 DEF SendKey
  <2>2. KeyDatagram(g).size \notin PacketSizes
    BY Sizes DEF KeyDatagram, Datagram
  <2> QED
    BY <1>2, <2>1, <2>2 DEF TagsSealed
<1>4. CASE SendNoKey(g)
  <2>1. Datagram(g, 0, NoContents.size, NoContents.bytes).size \notin PacketSizes
    BY Sizes DEF NoContents, Datagram
  <2> QED
    BY <1>2, <1>4, <2>1 DEF SendNoKey, send_packet, TagsSealed
<1>5. CASE CrashInKeygen(g) \/ RecvKey(g)
  <2>1. UNCHANGED <<uplink, gvalid, sealed, now>>
    BY <1>5 DEF CrashInKeygen, RecvKey, linkVars
  <2> QED
    BY <1>2, <2>1 DEF TagsSealed
<1>6. CASE SendValid(g)
  <2>1. PICK contents \in Contents(g, "valid", now) :
          /\ gpc[g] = "valid"
          /\ gvalid' = [gvalid EXCEPT ![g] = contents]
          /\ uplink' = uplink \union
               {Datagram(g, 1, contents.size, contents.bytes)}
          /\ Sealing(contents)
          /\ UNCHANGED <<now, gkey>>
    BY <1>6 DEF SendValid, Goto, send_packet
  <2>2. /\ SealedGenuine'
        /\ sealed \subseteq sealed'
        /\ contents # NoContents => contents.bytes \in sealed'
    BY <1>0, <2>1, ScriptSeals DEF KeyedStates
  <2>3. contents = NoContents => contents.size \notin PacketSizes
    BY Sizes DEF NoContents
  <2> QED
    BY <1>0, <2>1, <2>2, <2>3 DEF TagsSealed, Datagram
<1>7. CASE SendReplay(g)
  <2>1. gvalid[g] = NoContents => gvalid[g].size \notin PacketSizes
    BY Sizes DEF NoContents
  <2> QED
    BY <1>2, <1>7, <2>1 DEF SendReplay, send_packet, TagsSealed, Datagram
<1>8. CASE SendTampered(g)
  <2>1. PICK contents \in Contents(g, "tampered", now) :
          /\ gpc[g] = "tampered"
          /\ IF contents = NoContents
               THEN send_packet(g, 3, contents)
               ELSE send_packet(g, 3,
                      [contents EXCEPT !.bytes = Tampered(contents.bytes)])
          /\ Sealing(contents)
          /\ UNCHANGED <<now, gkey, gvalid>>
    BY <1>8 DEF SendTampered, Goto
  <2>2. /\ SealedGenuine'
        /\ sealed \subseteq sealed'
        /\ contents # NoContents => contents.bytes \in sealed'
    BY <1>0, <2>1, ScriptSeals DEF KeyedStates
  <2>3. CASE contents = NoContents
    <3>1. Datagram(g, 3, contents.size, contents.bytes).size \notin PacketSizes
      BY <2>3, Sizes DEF NoContents, Datagram
    <3> QED
      BY <2>1, <2>2, <2>3, <3>1 DEF TagsSealed, send_packet
  <2>4. CASE contents # NoContents
    <3>1. contents \in [size : PacketSizes, bytes : Wire]
      BY <2>1, <2>4, ScriptContents, <1>0 DEF KeyedStates, PacketContents
    <3>2. Tampered(contents.bytes)[5] = contents.bytes[5]
      BY <3>1, TamperedBytes
    <3>3. uplink' = uplink \union
            {Datagram(g, 3, contents.size, Tampered(contents.bytes))}
      BY <2>1, <2>4, <3>1 DEF send_packet
    <3> QED
      BY <2>1, <2>2, <2>4, <3>2, <3>3 DEF TagsSealed, Datagram
  <2> QED
    BY <2>3, <2>4
<1>9. CASE SendExpired(g)
  <2>1. PICK contents \in Contents(g, "expired", now - StaleAge) :
          /\ gpc[g] = "expired"
          /\ uplink' = uplink \union
               {Datagram(g, 4, contents.size, contents.bytes)}
          /\ Sealing(contents)
          /\ UNCHANGED <<now, gkey, gvalid>>
    BY <1>9 DEF SendExpired, Goto, send_packet
  <2>2. now - StaleAge \in Nat
    BY StartAssumption, LinkAssumption, WindowAssumption
       DEF UplinkTypeOK, StaleAge
  <2>3. /\ SealedGenuine'
        /\ sealed \subseteq sealed'
        /\ contents # NoContents => contents.bytes \in sealed'
    BY <2>1, <2>2, ScriptSeals DEF KeyedStates
  <2>4. contents = NoContents => contents.size \notin PacketSizes
    BY Sizes DEF NoContents
  <2> QED
    BY <2>1, <2>3, <2>4 DEF TagsSealed, Datagram
<1> QED
  BY <1>3, <1>4, <1>5, <1>6, <1>7, <1>8, <1>9 DEF GroundStep

\* As long as the ground does nothing and the uplink only loses datagrams,
\* every tag stays accounted for.
LEMMA QuietSealStep ==
  ASSUME UplinkTypeOK, GroundTypeOK, SealInv,
         UNCHANGED groundVars, uplink' \subseteq uplink,
         now' \in Nat, now' >= now
  PROVE  SealInv'
<1>1. now \in Nat /\ StaleAge \in Nat
  BY WindowAssumption DEF UplinkTypeOK, StaleAge
<1>2. \A b \in sealed : b[2] \in Nat
  BY DEF GroundTypeOK, Wire
<1>3. SealedGenuine'
  BY <1>1, <1>2 DEF SealInv, SealedGenuine, groundVars
<1> QED
  BY <1>3 DEF SealInv, TagsSealed, groundVars

\* Damage alters a packet and not its tag.
LEMMA NetworkSealStep ==
  ASSUME UplinkTypeOK, GroundTypeOK, SealInv, Network, UNCHANGED groundVars
  PROVE  SealInv'
<1>1. CASE Damage
  <2>1. PICK d \in uplink :
          /\ WellFormed(d.size)
          /\ \E bad \in Damaged(d) : uplink' \subseteq uplink \union {bad}
    BY <1>1 DEF Damage
  <2>2. PICK bad \in Damaged(d) : uplink' \subseteq uplink \union {bad}
    BY <2>1
  <2>3. /\ bad.size = d.size
        /\ bad.bytes[5] = d.bytes[5]
    BY <2>1, DamagedDatagram DEF UplinkTypeOK
  <2>4. SealedGenuine'
    BY <1>1 DEF Damage, groundVars, SealInv, SealedGenuine
  <2> QED
    BY <2>2, <2>3, <2>4 DEF SealInv, TagsSealed, groundVars
<1>2. CASE LoseUp \/ LoseDown \/ Tick
  BY <1>2, QuietSealStep, NetworkFrame DEF LoseUp, LoseDown, Tick
<1> QED
  BY <1>1, <1>2 DEF Network

\* What the satellite accepts is a sealed packet, byte for byte: no two
\* packets bear the same tag.
LEMMA AcceptedWasSealed ==
  ASSUME UplinkTypeOK, GroundTypeOK, SealInv, NEW d \in uplink,
         NEW key, NEW seen, NEW time, NEW ok,
         Reason(d, key, seen, time, ok) = "OK"
  PROVE  d.bytes \in sealed
<1>1. /\ d.size \in PacketSizes /\ d.bytes \in Wire
      /\ d.bytes[5] = TagOf(d.bytes)
  BY AcceptedDatagram DEF UplinkTypeOK
<1>2. PICK b \in sealed : b[5] = d.bytes[5]
  BY <1>1 DEF SealInv, TagsSealed
<1>3. b \in Wire /\ b[5] = TagOf(b)
  BY DEF SealInv, SealedGenuine, GroundTypeOK
<1>4. /\ b[1] = d.bytes[1] /\ b[2] = d.bytes[2] /\ b[3] = d.bytes[3]
      /\ b[4] = d.bytes[4]
  BY <1>1, <1>2, <1>3 DEF TagOf, poly1305
<1> QED
  BY <1>1, <1>2, <1>3, <1>4 DEF Wire

=============================================================================
