-------------------------- MODULE Phase3LinkProofs --------------------------
(***************************************************************************)
(* What holds of the demonstration of phase 3 for every number of ground   *)
(* runs and every clock, whatever the network loses, duplicates or damages *)
(* and whichever OpenSSL call fails.                                       *)
(***************************************************************************)
EXTENDS Phase3Link, GroundLinkProofs, FiniteSetTheorems

SlotRecords == [datagram : Datagrams, reason : Reasons \union {"EMPTY"}]

\* An iteration that is not the last leaves room for one more.
LEMMA Below == ASSUME NEW n \in Nat, n <= 4, n # 4 PROVE n < 4
OBVIOUS

\* An iteration of the loop: the datagram is recorded, and the last of the four
\* ends the loop.
LEMMA Handled ==
  ASSUME SatTypeOK, spc = "loop", NEW d \in Datagrams,
         NEW r \in Reasons \union {"EMPTY"}, Handle(d, r)
  PROVE  /\ spc' \in {"loop", "done"}
         /\ handled' \in Seq(SlotRecords)
         /\ Len(handled') <= Slots
         /\ spc' = "done" <=> Len(handled') = Slots
<1>1. handled \in Seq(SlotRecords) /\ Len(handled) < 4 /\ Len(handled) \in Nat
  <2>1. handled \in Seq(SlotRecords)
    BY DEF SatTypeOK, SlotRecords
  <2>2. Len(handled) <= 4 /\ Len(handled) # 4
    BY DEF SatTypeOK, Slots
  <2>3. Len(handled) \in Nat
    BY <2>1
  <2>4. Len(handled) < 4
    BY <2>2, <2>3, Below
  <2> QED
    BY <2>1, <2>3, <2>4
<1>2. [datagram |-> d, reason |-> r] \in SlotRecords
  BY DEF SlotRecords
<1>3. handled' \in Seq(SlotRecords) /\ Len(handled') = Len(handled) + 1
  BY <1>1, <1>2 DEF Handle
<1> QED
  BY <1>1, <1>3 DEF Handle, Slots

\* The initial states satisfy the inductive invariant.
LEMMA InitIInv == Init => IInv
<1> SUFFICES ASSUME Init PROVE IInv
  OBVIOUS
<1>1. LinkTypeOK /\ SealInv
  BY GroundInitInv DEF Init, LinkTypeOK
<1>2. SatTypeOK
  BY DEF Init, SatInit, SatTypeOK, SatStates, Slots
<1>3. GuardRemembersExecuted
  BY DEF Init, SatInit, GuardRemembersExecuted
<1> QED
  BY <1>1, <1>2, <1>3 DEF IInv, TypeOK

\* The steps of the ground runs and of the network.
LEMMA OutsideStep ==
  ASSUME IInv, UNCHANGED satVars,
         \/ \E g \in Ground : GroundStep(g)
         \/ Network /\ UNCHANGED groundVars
  PROVE  IInv'
<1> USE DEF IInv, TypeOK
<1>1. SatTypeOK' /\ GuardRemembersExecuted'
  BY DEF SatTypeOK, GuardRemembersExecuted, satVars
<1>2. UplinkTypeOK /\ GroundTypeOK /\ KeyReplies /\ SealInv
  BY DEF LinkTypeOK
<1>3. CASE \E g \in Ground : GroundStep(g)
  <2>1. UplinkTypeOK' /\ GroundTypeOK' /\ SealInv' /\ downlink' \subseteq downlink
    BY <1>2, <1>3, GroundTypeStep, GroundSealStep, GroundFrame
  <2>2. KeyReplies'
    BY <1>2, <2>1 DEF KeyReplies
  <2> QED
    BY <1>1, <2>1, <2>2 DEF LinkTypeOK
<1>4. CASE Network /\ UNCHANGED groundVars
  <2>1. UplinkTypeOK' /\ SealInv' /\ downlink' \subseteq downlink
    BY <1>2, <1>4, NetworkTypeStep, NetworkSealStep, NetworkFrame
  <2>2. GroundTypeOK' /\ KeyReplies'
    BY <1>2, <1>4, <2>1 DEF GroundTypeOK, KeyReplies, groundVars
  <2> QED
    BY <1>1, <2>1, <2>2 DEF LinkTypeOK
<1> QED
  BY <1>3, <1>4

\* The steps of the satellite on a datagram it received.
LEMMA ReceiveStep ==
  ASSUME IInv, UNCHANGED groundVars, NEW d \in uplink,
         FailFirst(d) \/ Handshake(d) \/ TakeEmpty(d) \/ TakePacket(d)
  PROVE  IInv'
<1> USE DEF IInv, TypeOK
<1>1. /\ UplinkTypeOK' /\ GroundTypeOK' /\ SealInv'
      /\ d \in Datagrams
  <2>1. uplink' \subseteq uplink /\ UNCHANGED now
    BY DEF FailFirst, Handshake, TakeEmpty, TakePacket, Receive
  <2>2. UplinkTypeOK /\ GroundTypeOK /\ now \in Nat /\ d \in Datagrams
    BY DEF LinkTypeOK, UplinkTypeOK
  <2>3. SealInv'
    BY <2>1, <2>2, QuietSealStep
  <2>4. UplinkTypeOK' /\ GroundTypeOK'
    BY <2>1, <2>2 DEF UplinkTypeOK, GroundTypeOK, groundVars
  <2> QED
    BY <2>2, <2>3, <2>4
<1>2. CASE FailFirst(d)
  <2>1. KeyReplies' /\ GuardRemembersExecuted'
    BY <1>2 DEF FailFirst, LinkTypeOK, KeyReplies, GuardRemembersExecuted
  <2>2. SatTypeOK'
    BY <1>2 DEF FailFirst, SatTypeOK, SatStates
  <2> QED
    BY <1>1, <2>1, <2>2 DEF LinkTypeOK
<1>3. CASE Handshake(d)
  <2>1. PICK extracted \in CryptoResults, derived \in CryptoResults :
          /\ downlink' = downlink \union
               {IF extracted THEN Reply(d.from, 0, PUBLIC_KEY_SIZE, <<SatelliteKey>>)
                             ELSE Reply(d.from, 0, 0, <<>>)}
          /\ session_key' = SessionKey(SatelliteKey, d.bytes[1], derived)
          /\ spc' = IF derived THEN "loop" ELSE "failed"
    BY <1>3 DEF Handshake
  <2>2. SatelliteKey \in PublicKeys /\ d.bytes[1] \in PublicKeys
    BY <1>1, <1>3, DatagramSizes DEF Handshake, PublicKeys, SatelliteKey
  <2>3. KeyReplies'
    BY <2>1, <2>2, Sizes DEF LinkTypeOK, KeyReplies, Reply
  <2>4. /\ session_key' \in SessionKeys \union {NoKey}
        /\ session_key' # NoKey <=> derived
    BY <2>1, <2>2, DerivedKey DEF SessionKey
  <2>5. spc = "first" /\ UNCHANGED <<seen_nonces, handled, executed>>
    BY <1>3 DEF Handshake
  <2>6. SatTypeOK'
    BY <2>1, <2>4, <2>5 DEF SatTypeOK, SatStates
  <2>7. GuardRemembersExecuted'
    BY <2>5 DEF GuardRemembersExecuted
  <2> QED
    BY <1>1, <2>3, <2>6, <2>7 DEF LinkTypeOK
<1>4. CASE TakeEmpty(d)
  <2>1. /\ spc = "loop" /\ Handle(d, "EMPTY")
        /\ UNCHANGED <<downlink, session_key, seen_nonces, executed>>
    BY <1>4 DEF TakeEmpty
  <2>2. /\ spc' \in {"loop", "done"}
        /\ handled' \in Seq(SlotRecords)
        /\ Len(handled') <= Slots
        /\ spc' = "done" <=> Len(handled') = Slots
    BY <1>1, <2>1, Handled
  <2>3. SatTypeOK'
    BY <2>1, <2>2 DEF SatTypeOK, SatStates, SlotRecords
  <2>4. KeyReplies' /\ GuardRemembersExecuted'
    BY <2>1 DEF LinkTypeOK, KeyReplies, GuardRemembersExecuted
  <2> QED
    BY <1>1, <2>3, <2>4 DEF LinkTypeOK
<1>5. CASE TakePacket(d)
  <2>1. PICK ok \in CryptoResults :
          LET reason == Reason(d, session_key, seen_nonces, now, ok)
          IN  /\ Handle(d, reason)
              /\ IF reason = "OK"
                   THEN /\ seen_nonces' = mark_seen(seen_nonces, d.bytes[1], d.bytes[3])
                        /\ executed' = Append(executed, d.bytes)
                   ELSE UNCHANGED <<seen_nonces, executed>>
    BY <1>5 DEF TakePacket
  <2> DEFINE reason == Reason(d, session_key, seen_nonces, now, ok)
  <2>2. reason \in Reasons
    BY DEF Reason, Reasons, RejectReasons
  <2>3. spc = "loop" /\ UNCHANGED <<downlink, session_key>>
    BY <1>5 DEF TakePacket
  <2>4. /\ spc' \in {"loop", "done"}
        /\ handled' \in Seq(SlotRecords)
        /\ Len(handled') <= Slots
        /\ spc' = "done" <=> Len(handled') = Slots
    BY <1>1, <2>1, <2>2, <2>3, Handled
  <2>5. /\ seen_nonces' \subseteq Nat \X Nonces
        /\ executed' \in Seq(Wire)
        /\ GuardRemembersExecuted'
    <3>1. seen_nonces \subseteq Nat \X Nonces /\ executed \in Seq(Wire)
      BY DEF SatTypeOK
    <3>2. CASE reason = "OK"
      <4>1. d.bytes \in Wire
        BY <1>1, <3>2, AcceptedDatagram
      <4>2. /\ seen_nonces' = seen_nonces \union {make_nonce_key(d.bytes[1], d.bytes[3])}
            /\ executed' = Append(executed, d.bytes)
        BY <2>1, <3>2 DEF mark_seen
      <4>3. make_nonce_key(d.bytes[1], d.bytes[3]) \in Nat \X Nonces
        BY <4>1 DEF make_nonce_key, Wire
      <4>4. executed' \in Seq(Wire)
        BY <3>1, <4>1, <4>2
      <4>5. GuardRemembersExecuted'
        <5>1. /\ DOMAIN executed' = DOMAIN executed \union {Len(executed) + 1}
              /\ executed'[Len(executed) + 1] = d.bytes
              /\ \A i \in DOMAIN executed : executed'[i] = executed[i]
              /\ Len(executed) + 1 \notin DOMAIN executed
          BY <3>1, <4>2, Appended
        <5> QED
          BY <4>2, <5>1 DEF GuardRemembersExecuted
      <4> QED
        BY <3>1, <4>2, <4>3, <4>4, <4>5
    <3>3. CASE reason # "OK"
      BY <2>1, <3>1, <3>3 DEF GuardRemembersExecuted
    <3> QED
      BY <3>2, <3>3
  <2>6. SatTypeOK'
    BY <2>3, <2>4, <2>5 DEF SatTypeOK, SatStates, SlotRecords
  <2>7. KeyReplies'
    BY <2>3 DEF LinkTypeOK, KeyReplies
  <2> QED
    BY <1>1, <2>5, <2>6, <2>7 DEF LinkTypeOK
<1> QED
  BY <1>2, <1>3, <1>4, <1>5

\* Every step preserves the inductive invariant.
LEMMA IInvStep == IInv /\ [Next]_vars => IInv'
<1> SUFFICES ASSUME IInv, [Next]_vars PROVE IInv'
  OBVIOUS
<1>1. CASE UNCHANGED vars
  BY <1>1 DEF vars, linkVars, groundVars, satVars, IInv, TypeOK, LinkTypeOK,
              UplinkTypeOK, GroundTypeOK, KeyReplies, SatTypeOK, SealInv,
              SealedGenuine, TagsSealed, GuardRemembersExecuted
<1>2. CASE SatStep /\ UNCHANGED groundVars
  BY <1>2, ReceiveStep DEF SatStep
<1>3. CASE \/ \E g \in Ground : GroundStep(g) /\ UNCHANGED satVars
           \/ Network /\ UNCHANGED <<groundVars, satVars>>
  BY <1>3, OutsideStep
<1> QED
  BY <1>1, <1>2, <1>3 DEF Next

\* Every tag on the link was made by a ground run and the node's one replay
\* guard accounts for every execution, in every reachable state.
THEOREM Invariance == Spec => []IInv
BY InitIInv, IInvStep, PTL DEF Spec

\* The variables of the phase 3 node hold what they are meant to hold: its loop
\* is entered with a session key and stops after four datagrams.
THEOREM TypeCorrect == Spec => []TypeOK
BY Invariance, PTL DEF IInv
-----------------------------------------------------------------------------
\* What the node accepts is a sealed packet it has not executed before.
LEMMA AcceptedIsNew ==
  ASSUME IInv, NEW d \in uplink, NEW ok,
         Reason(d, session_key, seen_nonces, now, ok) = "OK"
  PROVE  /\ d.bytes \in sealed
         /\ \A i \in DOMAIN executed : executed[i] # d.bytes
<1>1. UplinkTypeOK /\ GroundTypeOK /\ SealInv /\ d \in Datagrams
  BY DEF IInv, TypeOK, LinkTypeOK, UplinkTypeOK
<1>2. d.bytes \in sealed
  BY <1>1, AcceptedWasSealed
<1>3. make_nonce_key(d.bytes[1], d.bytes[3]) \notin seen_nonces
  BY <1>1, AcceptedDatagram
<1> QED
  BY <1>2, <1>3 DEF IInv, GuardRemembersExecuted

\* Every step is a step of CommandDelivery or changes nothing there.
LEMMA PromiseStep == IInv /\ [Next]_vars => [Promise!Next]_<<sealed, executed>>
<1> SUFFICES ASSUME IInv, [Next]_vars
             PROVE  [Promise!Next]_<<sealed, executed>>
  OBVIOUS
<1>1. CASE UNCHANGED <<sealed, executed>>
  BY <1>1
<1>2. ASSUME NEW g \in Ground, GroundStep(g), UNCHANGED satVars
      PROVE  Promise!Seal
  BY <1>2, GroundFrame DEF Promise!Seal, satVars, IInv, TypeOK, LinkTypeOK
<1>3. ASSUME NEW d \in uplink, TakePacket(d), UNCHANGED groundVars
      PROVE  \/ UNCHANGED <<sealed, executed>>
             \/ Promise!Execute
  <2>1. PICK ok \in CryptoResults :
          LET reason == Reason(d, session_key, seen_nonces, now, ok)
          IN  IF reason = "OK" THEN executed' = Append(executed, d.bytes)
                               ELSE UNCHANGED executed
    BY <1>3 DEF TakePacket
  <2>2. CASE Reason(d, session_key, seen_nonces, now, ok) = "OK"
    BY <1>3, <2>1, <2>2, AcceptedIsNew DEF Promise!Execute, groundVars
  <2>3. CASE Reason(d, session_key, seen_nonces, now, ok) # "OK"
    BY <1>3, <2>1, <2>3 DEF groundVars
  <2> QED
    BY <2>2, <2>3
<1>4. ASSUME NEW d \in uplink, FailFirst(d) \/ Handshake(d) \/ TakeEmpty(d),
             UNCHANGED groundVars
      PROVE  UNCHANGED <<sealed, executed>>
  BY <1>4 DEF FailFirst, Handshake, TakeEmpty, groundVars
<1>5. CASE UNCHANGED vars \/ UNCHANGED <<groundVars, satVars>>
  BY <1>5 DEF vars, groundVars, satVars
<1> QED
  BY <1>1, <1>2, <1>3, <1>4, <1>5 DEF Next, SatStep, Promise!Next

\* The phase 3 node implements the delivery the link promises, even if public
\* keys are duplicated: what it executes was sealed, and is executed once.
THEOREM Delivery == Spec => PromiseKept
<1>1. Init => Promise!Init
  BY DEF Init, GroundInit, SatInit, Promise!Init
<1> QED
  BY <1>1, PromiseStep, Invariance, PTL DEF Spec, PromiseKept, Promise!Spec
-----------------------------------------------------------------------------
\* A packet of the script as it is created, and with its ciphertext flipped.
LEMMA ScriptBytes ==
  ASSUME NEW key \in SessionKeys, NEW ts \in Nat, NEW nonce \in Nat,
         NEW command \in Commands
  PROVE  LET b == PacketBytes(key, ts, nonce, command)
         IN  /\ b[1] = SESSION_ID /\ b[2] = ts /\ b[3] = nonce
             /\ b[5].key = key /\ b[5] = TagOf(b)
             /\ LET t == Tampered(b)
                IN  /\ t[1] = SESSION_ID /\ t[2] = ts /\ t[3] = nonce
                    /\ t[5].key = key /\ t[5] # TagOf(t)
<1> DEFINE aad == <<SESSION_ID, ts, nonce>>
           ct  == chacha20(key, nonce, command)
           tag == poly1305(key, nonce, aad, ct)
           b   == PacketBytes(key, ts, nonce, command)
<1>1. b = <<SESSION_ID, ts, nonce, ct, tag>>
  BY DEF PacketBytes, encrypt_chacha20_poly1305, build_aad, serialize_packet
<1>2. /\ b[1] = SESSION_ID /\ b[2] = ts /\ b[3] = nonce
      /\ b[4] = ct /\ b[5] = tag
  BY <1>1
<1>3. tag.key = key /\ tag.ciphertext = ct
  BY DEF poly1305
<1>4. TagOf(b) = tag
  BY <1>2, <1>3 DEF TagOf
<1> DEFINE t == Tampered(b)
<1>5. /\ t[1] = SESSION_ID /\ t[2] = ts /\ t[3] = nonce
      /\ t[4] = FlipByte(ct) /\ t[5] = tag
  BY <1>2 DEF Tampered
<1>6. FlipByte(ct) # ct
  <2>1. ct.flipped = FALSE /\ FlipByte(ct).flipped = TRUE
    BY DEF chacha20, FlipByte
  <2> QED
    BY <2>1
<1>7. TagOf(t).ciphertext = FlipByte(ct)
  BY <1>5 DEF TagOf, poly1305
<1>8. TagOf(t) # tag
  BY <1>3, <1>6, <1>7
<1> QED
  BY <1>2, <1>3, <1>4, <1>5, <1>8

\* The size of a packet is neither that of a public key nor zero.
LEMMA PacketSizesApart ==
  /\ PUBLIC_KEY_SIZE \notin PacketSizes /\ 0 \notin PacketSizes
  /\ \A size \in PacketSizes : WellFormed(size)
<1>1. \A size \in 40..2048 : size >= 40 /\ size # 32 /\ size # 0
  OBVIOUS
<1> QED
  BY <1>1, Sizes

\* Without failing OpenSSL calls there is one packet for each part of the script.
LEMMA ScriptContentsAre ==
  ASSUME FaultlessRun, NEW g \in Ground, gkey[g] = LinkKey(g),
         NEW kind \in {"valid", "tampered", "expired"}, NEW ts \in Nat,
         NEW contents \in Contents(g, kind, ts)
  PROVE  /\ contents # NoContents
         /\ contents.size \in PacketSizes
         /\ LET b == contents.bytes
            IN  /\ b[1] = SESSION_ID /\ b[2] = ts /\ b[3] = NonceOf[kind]
                /\ b[5].key = LinkKey(g) /\ b[5] = TagOf(b)
                /\ LET t == Tampered(b)
                   IN  /\ t[1] = SESSION_ID /\ t[2] = ts /\ t[3] = NonceOf[kind]
                       /\ t[5].key = LinkKey(g) /\ t[5] # TagOf(t)
<1>1. CommandOf[kind] \in Commands /\ NonceOf[kind] \in Nat
  BY DEF CommandOf, NonceOf, Commands, CommandSize
<1>2. HEADER_SIZE + CommandSize[CommandOf[kind]] + TAG_SIZE \in PacketSizes
  <2>1. CommandSize[CommandOf[kind]] \in {16, 17, 21}
    BY DEF CommandOf, CommandSize
  <2>2. HEADER_SIZE = 24 /\ TAG_SIZE = 16
    BY DEF HEADER_SIZE, TAG_SIZE, SESSION_ID_SIZE, TIMESTAMP_SIZE, NONCE_SIZE
  <2>3. \A n \in {16, 17, 21} : 24 + n + 16 \in 40..2048
    OBVIOUS
  <2>4. \A n \in {16, 17, 21} : HEADER_SIZE + n + TAG_SIZE \in PacketSizes
    BY <2>2, <2>3, Sizes
  <2> QED
    BY <2>1, <2>4, Zenon
<1>3. LinkKey(g) \in SessionKeys
  BY DerivedKey DEF LinkKey, SatelliteKey, PublicKeys
<1>4. contents = [size  |-> HEADER_SIZE + CommandSize[CommandOf[kind]] + TAG_SIZE,
                  bytes |-> PacketBytes(LinkKey(g), ts, NonceOf[kind],
                                        CommandOf[kind])]
  BY DEF FaultlessRun, Contents, CryptoResults, create_secure_command_packet
<1>5. contents.size \in PacketSizes
  BY <1>2, <1>4
<1>6. contents.bytes = PacketBytes(LinkKey(g), ts, NonceOf[kind], CommandOf[kind])
  BY <1>4
<1>7. contents # NoContents
  <2>1. NoContents.size = 0
    BY DEF NoContents
  <2> QED
    BY <1>5, <2>1, PacketSizesApart
<1> DEFINE key == LinkKey(g)
           nonce == NonceOf[kind]
           command == CommandOf[kind]
           b == PacketBytes(key, ts, nonce, command)
<1>8. key \in SessionKeys /\ nonce \in Nat /\ command \in Commands
  BY <1>1, <1>3
<1>9. contents.bytes = b
  BY <1>6
<1> HIDE DEF key, nonce, command
<1>10. /\ b[1] = SESSION_ID /\ b[2] = ts /\ b[3] = nonce
       /\ b[5].key = key /\ b[5] = TagOf(b)
       /\ LET t == Tampered(b)
          IN  /\ t[1] = SESSION_ID /\ t[2] = ts /\ t[3] = nonce
              /\ t[5].key = key /\ t[5] # TagOf(t)
  BY <1>8, ScriptBytes
<1> HIDE DEF b
<1> QED
  BY <1>5, <1>7, <1>9, <1>10 DEF key, nonce

\* Initially nothing is sent and nothing handled.
LEMMA ScriptInit ==
  ASSUME FaultlessRun, Init
  PROVE  ScriptInv
<1>1. uplink = {} /\ downlink = {} /\ now = StartTime /\ handled = <<>>
  BY DEF Init, LinkInit, SatInit, FaultlessRun
<1>2. KeysAgree
  BY <1>1 DEF Init, GroundInit, SatInit, KeysAgree
<1>3. FollowsScript
  BY <1>1, LinkAssumption, WindowAssumption
     DEF Init, GroundInit, FollowsScript
<1>4. Taken = {}
  BY <1>1 DEF Init, SatInit, Taken
<1>5. EachOnce
  BY <1>1, <1>4 DEF EachOnce
<1>6. Verdicts("OK") = {} /\ Verdicts("DUP_NONCE") = {}
  BY <1>1 DEF Verdicts
<1>7. VerdictsSoFar
  BY <1>1, <1>6 DEF Init, SatInit, VerdictsSoFar
<1> QED
  BY <1>2, <1>3, <1>5, <1>7 DEF ScriptInv

\* A ground run sends a datagram it has not sent before.
LEMMA SendOnce ==
  ASSUME FaultlessRun, TypeOK, ScriptInv, UNCHANGED satVars,
         NEW g \in Ground, NEW d, d.from = g,
         uplink' = uplink \union {d},
         NEW to \in GroundStates, gpc' = [gpc EXCEPT ![g] = to],
         d.seq \notin SentBy[gpc[g]],
         SentBy[to] = SentBy[gpc[g]] \union {d.seq}
  PROVE  EachOnce'
<1>1. Taken' = Taken /\ UNCHANGED handled
  BY DEF satVars, Taken
<1>2. /\ \A e \in uplink : e.seq \in SentBy[gpc[e.from]] \ Taken
      /\ \A e, f \in uplink : e.seq = f.seq => e = f
      /\ Taken \subseteq SentBy[gpc[g]]
      /\ \A i, j \in DOMAIN handled :
           handled[i].datagram.seq = handled[j].datagram.seq => i = j
  BY DEF ScriptInv, EachOnce
<1>3. \A e \in uplink : e.from = g
  <2>1. \A e \in uplink : e \in Datagrams
    BY DEF TypeOK, LinkTypeOK, UplinkTypeOK
  <2> QED
    BY <2>1, DatagramSizes DEF FaultlessRun
<1>4. gpc'[g] = to
  BY DEF TypeOK, LinkTypeOK, GroundTypeOK
<1>5. \A e \in uplink' : e.seq \in SentBy[gpc'[e.from]] \ Taken'
  BY <1>1, <1>2, <1>3, <1>4
<1>6. \A e, f \in uplink' : e.seq = f.seq => e = f
  BY <1>2, <1>3
<1>7. \A h \in Ground : Taken' \subseteq SentBy[gpc'[h]]
  BY <1>1, <1>2, <1>4 DEF FaultlessRun
<1> QED
  BY <1>1, <1>2, <1>5, <1>6, <1>7 DEF EachOnce

\* The steps of the ground run that follow the script.
LEMMA ScriptGroundStep ==
  ASSUME FaultlessRun, TypeOK, ScriptInv, UNCHANGED satVars,
         NEW g \in Ground, GroundStep(g)
  PROVE  ScriptInv'
<1>1. VerdictsSoFar'
  <2>1. UNCHANGED <<handled, seen_nonces>>
    BY DEF satVars
  <2>2. Verdicts("OK")' = Verdicts("OK") /\ Verdicts("DUP_NONCE")' = Verdicts("DUP_NONCE")
    BY <2>1 DEF Verdicts
  <2> QED
    BY <2>1, <2>2 DEF ScriptInv, VerdictsSoFar
<1>2. /\ gpc \in [Ground -> GroundStates]
      /\ gkey \in [Ground -> SessionKeys \union {NoKey}]
      /\ gkey[g] = NoKey <=> gpc[g] \notin KeyedStates
      /\ gvalid \in [Ground -> PacketContents]
      /\ now \in Nat /\ StartTime \in Nat /\ now >= StartTime
  BY LinkAssumption DEF TypeOK, LinkTypeOK, GroundTypeOK, UplinkTypeOK
<1>3. gkey[g] # NoKey => gkey[g] = LinkKey(g)
  BY DEF ScriptInv, KeysAgree
<1>4. /\ now <= StartTime + Window
      /\ \A d \in uplink :
           IF d.seq = 0 THEN d = KeyDatagram(d.from)
           ELSE d.size \in PacketSizes /\ IsScriptPacket(d.from, d.seq, d.bytes, now)
  BY DEF ScriptInv, FollowsScript
<1>6. ASSUME UNCHANGED now, NEW d, uplink' = uplink \union {d},
             IF d.seq = 0 THEN d = KeyDatagram(d.from)
             ELSE d.size \in PacketSizes /\ IsScriptPacket(d.from, d.seq, d.bytes, now),
             gpc'[g] = "replay" => /\ gvalid'[g].size \in PacketSizes
                                   /\ \A seq \in {1, 2} :
                                        IsScriptPacket(g, seq, gvalid'[g].bytes, now)
      PROVE  FollowsScript'
  <2>1. ASSUME NEW e \in uplink'
        PROVE  IF e.seq = 0 THEN e = KeyDatagram(e.from)
               ELSE e.size \in PacketSizes /\ IsScriptPacket(e.from, e.seq, e.bytes, now')
    BY <1>4, <1>6, <2>1
  <2>2. ASSUME NEW h \in Ground, gpc'[h] = "replay"
        PROVE  /\ gvalid'[h].size \in PacketSizes
               /\ \A seq \in {1, 2} : IsScriptPacket(h, seq, gvalid'[h].bytes, now')
    BY <1>6, <2>2 DEF FaultlessRun
  <2> QED
    BY <1>4, <1>6, <2>1, <2>2 DEF FollowsScript
<1>7. ASSUME UNCHANGED <<downlink, gkey>>
      PROVE  KeysAgree'
  BY <1>7 DEF ScriptInv, KeysAgree, satVars
<1> USE DEF ScriptInv
<1>8. CASE SendKey(g)
  <2> DEFINE d == KeyDatagram(g)
  <2>1. d.from = g /\ d.seq = 0
    BY DEF KeyDatagram, Datagram
  <2>2. /\ uplink' = uplink \union {d} /\ UNCHANGED <<downlink, now, gkey, gvalid>>
        /\ gpc[g] = "keygen" /\ gpc' = [gpc EXCEPT ![g] = "await"]
    BY <1>8 DEF SendKey, Goto
  <2>3. gpc'[g] = "await"
    BY <1>2, <2>2
  <2>4. EachOnce'
    <3>1. d.seq \notin SentBy["keygen"]
          /\ SentBy["await"] = SentBy["keygen"] \union {d.seq}
      BY <2>1 DEF SentBy
    <3> QED
      BY <2>1, <2>2, <3>1, SendOnce DEF GroundStates
  <2>5. FollowsScript'
    BY <1>6, <2>1, <2>2, <2>3
  <2> QED
    BY <1>1, <1>7, <2>2, <2>4, <2>5
<1>9. CASE RecvKey(g)
  <2>1. PICK r \in downlink, ok \in CryptoResults :
          /\ downlink' = downlink \ {r}
          /\ IF r.size = PUBLIC_KEY_SIZE /\ ok
               THEN /\ Goto(g, "await", "valid")
                    /\ gkey' = [gkey EXCEPT ![g] = SessionKey(g, r.bytes[1], TRUE)]
               ELSE Goto(g, "await", "failed") /\ UNCHANGED gkey
          /\ UNCHANGED <<uplink, now, gvalid>>
    BY <1>9 DEF RecvKey
  <2>2. r.size = PUBLIC_KEY_SIZE /\ ok /\ r.bytes[1] = SatelliteKey
    BY <2>1 DEF KeysAgree, FaultlessRun, CryptoResults
  <2>3. /\ gpc[g] = "await" /\ gpc' = [gpc EXCEPT ![g] = "valid"]
        /\ gkey' = [gkey EXCEPT ![g] = SessionKey(g, SatelliteKey, TRUE)]
    BY <2>1, <2>2 DEF Goto
  <2>4. SessionKey(g, SatelliteKey, TRUE) = LinkKey(g)
    BY DEF LinkKey, SessionKey, hkdf_sha256_session_key, derive_x25519_shared_secret
  <2>5. KeysAgree'
    BY <1>2, <2>1, <2>3, <2>4 DEF KeysAgree, satVars
  <2>6. gpc'[g] = "valid"
    BY <1>2, <2>3
  <2>7. FollowsScript'
    <3>1. ASSUME NEW h \in Ground PROVE gpc'[h] # "replay"
      BY <2>6 DEF FaultlessRun
    <3> QED
      BY <1>4, <2>1, <3>1 DEF FollowsScript
  <2>8. EachOnce'
    <3>1. SentBy["valid"] = SentBy["await"]
      BY DEF SentBy
    <3>2. \A h \in Ground : SentBy[gpc'[h]] = SentBy[gpc[h]]
      BY <2>3, <2>6, <3>1 DEF FaultlessRun
    <3>3. \A e \in uplink : e.from \in Ground
      <4>1. \A e \in uplink : e \in Datagrams
        BY DEF TypeOK, LinkTypeOK, UplinkTypeOK
      <4> QED
        BY <4>1, DatagramSizes DEF FaultlessRun
    <3>4. Taken' = Taken /\ UNCHANGED <<uplink, handled>>
      BY <2>1 DEF satVars, Taken
    <3> QED
      BY <3>2, <3>3, <3>4 DEF EachOnce
  <2> QED
    BY <1>1, <2>5, <2>7, <2>8
<1>10. CASE SendValid(g)
  <2>1. PICK contents \in Contents(g, "valid", now) :
          /\ Goto(g, "valid", "replay")
          /\ gvalid' = [gvalid EXCEPT ![g] = contents]
          /\ send_packet(g, 1, contents)
          /\ UNCHANGED <<downlink, now, gkey>>
    BY <1>10 DEF SendValid
  <2>2. gpc[g] = "valid" /\ gpc' = [gpc EXCEPT ![g] = "replay"] /\ gpc'[g] = "replay"
    BY <1>2, <2>1 DEF Goto
  <2>3. gkey[g] = LinkKey(g)
    BY <1>2, <1>3, <2>2 DEF KeyedStates
  <2>4. now \in Nat /\ now \in StartTime..now
    BY <1>2
  <2> DEFINE b == contents.bytes
  <2>5. /\ contents # NoContents /\ contents.size \in PacketSizes
        /\ b[1] = SESSION_ID /\ b[2] = now /\ b[3] = NonceOf.valid
        /\ b[5].key = LinkKey(g) /\ b[5] = TagOf(b)
    BY <2>3, <2>4, ScriptContentsAre
  <2> DEFINE d == Datagram(g, 1, contents.size, b)
  <2>6. uplink' = uplink \union {d}
    BY <2>1 DEF send_packet
  <2>7. d.from = g /\ d.seq = 1 /\ d.size = contents.size /\ d.bytes = b
    BY DEF Datagram
  <2> HIDE DEF b, d
  <2>8. \A seq \in {1, 2} : IsScriptPacket(g, seq, b, now)
    BY <2>4, <2>5 DEF IsScriptPacket
  <2>9. gvalid'[g] = contents
    BY <1>2, <2>1
  <2>10. gvalid'[g].size \in PacketSizes
         /\ \A seq \in {1, 2} : IsScriptPacket(g, seq, gvalid'[g].bytes, now)
    BY <2>5, <2>8, <2>9 DEF b
  <2>11. FollowsScript'
    BY <1>6, <2>1, <2>5, <2>6, <2>7, <2>8, <2>10
  <2>12. EachOnce'
    <3>1. /\ d.seq \notin SentBy["valid"]
          /\ SentBy["replay"] = SentBy["valid"] \union {d.seq}
      BY <2>7 DEF SentBy
    <3> QED
      BY <2>2, <2>6, <2>7, <3>1, SendOnce DEF GroundStates
  <2> QED
    BY <1>1, <1>7, <2>1, <2>11, <2>12
<1>11. CASE SendReplay(g)
  <2> DEFINE d == Datagram(g, 2, gvalid[g].size, gvalid[g].bytes)
  <2>1. /\ gpc[g] = "replay" /\ gpc' = [gpc EXCEPT ![g] = "tampered"]
        /\ uplink' = uplink \union {d} /\ UNCHANGED <<downlink, now, gkey, gvalid>>
    BY <1>11 DEF SendReplay, Goto, send_packet
  <2>2. d.from = g /\ d.seq = 2 /\ d.size = gvalid[g].size /\ d.bytes = gvalid[g].bytes
    BY DEF Datagram
  <2> HIDE DEF d
  <2>3. gvalid[g].size \in PacketSizes /\ IsScriptPacket(g, 2, gvalid[g].bytes, now)
    BY <2>1 DEF FollowsScript
  <2>4. gpc'[g] = "tampered"
    BY <1>2, <2>1
  <2>5. FollowsScript'
    BY <1>6, <2>1, <2>2, <2>3, <2>4
  <2>6. EachOnce'
    <3>1. /\ d.seq \notin SentBy["replay"]
          /\ SentBy["tampered"] = SentBy["replay"] \union {d.seq}
      BY <2>2 DEF SentBy
    <3> QED
      BY <2>1, <2>2, <3>1, SendOnce DEF GroundStates
  <2> QED
    BY <1>1, <1>7, <2>1, <2>5, <2>6
<1>12. CASE SendTampered(g)
  <2>1. PICK contents \in Contents(g, "tampered", now) :
          /\ Goto(g, "tampered", "expired")
          /\ IF contents = NoContents
               THEN send_packet(g, 3, contents)
               ELSE send_packet(g, 3,
                      [contents EXCEPT !.bytes = Tampered(contents.bytes)])
          /\ UNCHANGED <<downlink, now, gkey, gvalid>>
    BY <1>12 DEF SendTampered
  <2>2. gpc[g] = "tampered" /\ gpc' = [gpc EXCEPT ![g] = "expired"] /\ gpc'[g] = "expired"
    BY <1>2, <2>1 DEF Goto
  <2>3. gkey[g] = LinkKey(g)
    BY <1>2, <1>3, <2>2 DEF KeyedStates
  <2>4. now \in Nat /\ now \in StartTime..now
    BY <1>2
  <2> DEFINE b == Tampered(contents.bytes)
  <2>5. /\ contents # NoContents /\ contents.size \in PacketSizes
        /\ b[1] = SESSION_ID /\ b[2] = now /\ b[3] = NonceOf.tampered
        /\ b[5].key = LinkKey(g) /\ b[5] # TagOf(b)
    BY <2>3, <2>4, ScriptContentsAre
  <2> DEFINE d == Datagram(g, 3, contents.size, b)
  <2>6. uplink' = uplink \union {d}
    <3>1. contents = [size |-> contents.size, bytes |-> contents.bytes]
      BY <2>1 DEF Contents, create_secure_command_packet, NoContents
    <3>2. /\ [contents EXCEPT !.bytes = b].size = contents.size
          /\ [contents EXCEPT !.bytes = b].bytes = b
      BY <3>1
    <3> QED
      BY <2>1, <2>5, <3>2 DEF send_packet
  <2>7. d.from = g /\ d.seq = 3 /\ d.size = contents.size /\ d.bytes = b
    BY DEF Datagram
  <2> HIDE DEF b, d
  <2>8. IsScriptPacket(g, 3, b, now)
    BY <2>4, <2>5 DEF IsScriptPacket, NonceOf
  <2>9. FollowsScript'
    BY <1>6, <2>1, <2>2, <2>5, <2>6, <2>7, <2>8
  <2>10. EachOnce'
    <3>1. /\ d.seq \notin SentBy["tampered"]
          /\ SentBy["expired"] = SentBy["tampered"] \union {d.seq}
      BY <2>7 DEF SentBy
    <3> QED
      BY <2>2, <2>6, <2>7, <3>1, SendOnce DEF GroundStates
  <2> QED
    BY <1>1, <1>7, <2>1, <2>9, <2>10
<1>13. CASE SendExpired(g)
  <2>1. PICK contents \in Contents(g, "expired", now - StaleAge) :
          /\ Goto(g, "expired", "done")
          /\ send_packet(g, 4, contents)
          /\ UNCHANGED <<downlink, now, gkey, gvalid>>
    BY <1>13 DEF SendExpired
  <2>2. gpc[g] = "expired" /\ gpc' = [gpc EXCEPT ![g] = "done"] /\ gpc'[g] = "done"
    BY <1>2, <2>1 DEF Goto
  <2>3. gkey[g] = LinkKey(g)
    BY <1>2, <1>3, <2>2 DEF KeyedStates
  <2>4. now - StaleAge \in Nat
    BY <1>2, StartAssumption, WindowAssumption DEF StaleAge
  <2> DEFINE b == contents.bytes
  <2>5. /\ contents # NoContents /\ contents.size \in PacketSizes
        /\ b[1] = SESSION_ID /\ b[2] = now - StaleAge /\ b[3] = NonceOf.expired
        /\ b[5].key = LinkKey(g) /\ b[5] = TagOf(b)
    BY <2>3, <2>4, ScriptContentsAre
  <2> DEFINE d == Datagram(g, 4, contents.size, b)
  <2>6. uplink' = uplink \union {d}
    BY <2>1 DEF send_packet
  <2>7. d.from = g /\ d.seq = 4 /\ d.size = contents.size /\ d.bytes = b
    BY DEF Datagram
  <2> HIDE DEF b, d
  <2>8. IsScriptPacket(g, 4, b, now)
    BY <2>4, <2>5 DEF IsScriptPacket, NonceOf
  <2>9. FollowsScript'
    BY <1>6, <2>1, <2>2, <2>5, <2>6, <2>7, <2>8
  <2>10. EachOnce'
    <3>1. /\ d.seq \notin SentBy["expired"]
          /\ SentBy["done"] = SentBy["expired"] \union {d.seq}
      BY <2>7 DEF SentBy
    <3> QED
      BY <2>2, <2>6, <2>7, <3>1, SendOnce DEF GroundStates
  <2> QED
    BY <1>1, <1>7, <2>1, <2>9, <2>10
<1>14. ~SendNoKey(g) /\ ~CrashInKeygen(g)
  BY DEF FaultlessRun, SendNoKey, CrashInKeygen
<1> QED
  BY <1>8, <1>9, <1>10, <1>11, <1>12, <1>13, <1>14 DEF GroundStep

\* The network may lose a datagram and let time pass, nothing else.
LEMMA ScriptNetworkStep ==
  ASSUME FaultlessRun, TypeOK, ScriptInv, UNCHANGED <<groundVars, satVars>>, Network
  PROVE  ScriptInv'
<1>1. /\ uplink' \subseteq uplink /\ downlink' \subseteq downlink
      /\ now' \in Nat /\ now' >= now /\ now' <= StartTime + Window
  <2>1. /\ now \in Nat /\ now <= StartTime + Window
        /\ MaxNow \in Nat /\ MaxNow <= StartTime + Window
        /\ StartTime \in Nat /\ Window \in Nat
    BY LinkAssumption, WindowAssumption
       DEF TypeOK, LinkTypeOK, UplinkTypeOK, FaultlessRun, ScriptInv, FollowsScript
  <2>2. ~Damage
    BY DEF FaultlessRun, Damage
  <2>3. CASE LoseUp \/ LoseDown
    BY <2>1, <2>3 DEF LoseUp, LoseDown
  <2>4. CASE Tick
    BY <2>1, <2>4 DEF Tick
  <2> QED
    BY <2>2, <2>3, <2>4 DEF Network
<1>2. KeysAgree'
  BY <1>1 DEF ScriptInv, KeysAgree, groundVars, satVars
<1>3. EachOnce'
  <2>1. Taken' = Taken
    BY DEF Taken, satVars
  <2> QED
    BY <1>1, <2>1 DEF ScriptInv, EachOnce, groundVars, satVars
<1>4. VerdictsSoFar'
  BY DEF ScriptInv, VerdictsSoFar, Verdicts, satVars
<1>5. FollowsScript'
  <2>1. ASSUME NEW g \in Ground, NEW seq, NEW bytes \in Wire,
               IsScriptPacket(g, seq, bytes, now)
        PROVE  IsScriptPacket(g, seq, bytes, now')
    <3>1. bytes[2] \in Nat /\ now \in Nat /\ StaleAge \in Nat /\ StartTime \in Nat
      BY LinkAssumption, WindowAssumption
         DEF Wire, TypeOK, LinkTypeOK, UplinkTypeOK, StaleAge
    <3> QED
      BY <1>1, <2>1, <3>1 DEF IsScriptPacket
  <2>2. ASSUME NEW d \in uplink', d.seq # 0
        PROVE  d.size \in PacketSizes /\ IsScriptPacket(d.from, d.seq, d.bytes, now')
    <3>1. d \in uplink /\ d \in Datagrams
      BY <1>1 DEF TypeOK, LinkTypeOK, UplinkTypeOK
    <3>2. d.size \in PacketSizes /\ IsScriptPacket(d.from, d.seq, d.bytes, now)
      BY <2>2, <3>1 DEF ScriptInv, FollowsScript
    <3>3. d.from \in Ground /\ d.bytes \in Wire
      BY <3>1, <3>2, DatagramSizes, PacketSizesApart
    <3> QED
      BY <2>1, <3>2, <3>3
  <2>3. ASSUME NEW g \in Ground, gpc[g] = "replay"
        PROVE  /\ gvalid[g].size \in PacketSizes
               /\ \A seq \in {1, 2} : IsScriptPacket(g, seq, gvalid[g].bytes, now')
    <3>1. /\ gvalid[g].size \in PacketSizes
          /\ \A seq \in {1, 2} : IsScriptPacket(g, seq, gvalid[g].bytes, now)
      BY <2>3 DEF ScriptInv, FollowsScript
    <3>2. gvalid[g].bytes \in Wire
      <4>1. gvalid[g] \in PacketContents /\ NoContents.size = 0
        BY DEF TypeOK, LinkTypeOK, GroundTypeOK, NoContents
      <4> QED
        BY <3>1, <4>1, PacketSizesApart DEF PacketContents
    <3> QED
      BY <2>1, <3>1, <3>2
  <2> QED
    BY <1>1, <2>2, <2>3 DEF ScriptInv, FollowsScript, groundVars
<1> QED
  BY <1>2, <1>3, <1>4, <1>5 DEF ScriptInv

\* What the satellite's loop makes of each packet of the script.
LEMMA ScriptReason ==
  ASSUME FaultlessRun, TypeOK, ScriptInv, spc = "loop", NEW d \in uplink
  PROVE  LET reason == Reason(d, session_key, seen_nonces, now, TRUE)
         IN  /\ d.seq \in 1..4 /\ d.size # 0 /\ d.from \in Ground
             /\ d.seq \in {1, 2} =>
                  /\ reason \in {"OK", "DUP_NONCE"}
                  /\ make_nonce_key(d.bytes[1], d.bytes[3])
                       = make_nonce_key(SESSION_ID, NonceOf.valid)
                  /\ reason = "DUP_NONCE"
                       <=> make_nonce_key(SESSION_ID, NonceOf.valid) \in seen_nonces
             /\ d.seq = 3 => reason = "TAG_FAIL"
             /\ d.seq = 4 => reason = "REPLAY_TS"
<1> DEFINE reason == Reason(d, session_key, seen_nonces, now, TRUE)
<1>1. d \in Datagrams /\ now \in Nat /\ StartTime \in Nat /\ Window \in Nat
  BY LinkAssumption, WindowAssumption DEF TypeOK, LinkTypeOK, UplinkTypeOK
<1>2. d.seq \in 0..4
  BY <1>1 DEF Datagrams
<1>3. d.seq # 0
  BY DEF ScriptInv, EachOnce, Taken
<1>4. d.size \in PacketSizes /\ IsScriptPacket(d.from, d.seq, d.bytes, now)
  BY <1>3 DEF ScriptInv, FollowsScript
<1>5. WellFormed(d.size) /\ d.size # 0
  BY <1>4, PacketSizesApart
<1>6. d.from \in Ground /\ d.bytes \in Wire /\ d.bytes[2] \in Nat
  BY <1>1, <1>5, DatagramSizes DEF Wire
<1>7. session_key = LinkKey(d.from) /\ d.bytes[5].key = session_key
  BY <1>4, <1>6 DEF TypeOK, SatTypeOK, ScriptInv, KeysAgree, FaultlessRun, IsScriptPacket
<1>8. Authentic(deserialize_packet(d.bytes), session_key) <=> d.bytes[5] = TagOf(d.bytes)
  BY <1>7 DEF Authentic, deserialize_packet, decrypt_chacha20_poly1305, build_aad, TagOf
<1>9. is_duplicate(seen_nonces, d.bytes[1], d.bytes[3]) <=>
        make_nonce_key(d.bytes[1], d.bytes[3]) \in seen_nonces
  BY DEF is_duplicate
<1>10. reason = IF ~is_fresh(d.bytes[2], now) THEN "REPLAY_TS"
                ELSE IF make_nonce_key(d.bytes[1], d.bytes[3]) \in seen_nonces
                  THEN "DUP_NONCE"
                ELSE IF d.bytes[5] # TagOf(d.bytes) THEN "TAG_FAIL" ELSE "OK"
  BY <1>5, <1>8, <1>9 DEF Reason, deserialize_packet
<1>11. d.seq # 4 => is_fresh(d.bytes[2], now)
  <2>1. now <= StartTime + Window
    BY DEF ScriptInv, FollowsScript
  <2>2. d.seq # 4 => d.bytes[2] >= StartTime /\ d.bytes[2] <= now
    BY <1>1, <1>4, <1>6 DEF IsScriptPacket
  <2> QED
    BY <1>1, <1>6, <2>1, <2>2 DEF is_fresh
<1>12. d.seq = 4 => ~is_fresh(d.bytes[2], now)
  <2>1. Window > 0
    BY DEF FaultlessRun
  <2>2. d.seq = 4 => d.bytes[2] <= now - 2 * Window
    BY <1>4 DEF IsScriptPacket, StaleAge
  <2> QED
    BY <1>1, <1>6, <2>1, <2>2 DEF is_fresh
<1>13. d.seq \in {1, 2} =>
         make_nonce_key(d.bytes[1], d.bytes[3])
           = make_nonce_key(SESSION_ID, NonceOf.valid)
  BY <1>4 DEF IsScriptPacket
<1>14. d.seq = 3 => make_nonce_key(d.bytes[1], d.bytes[3]) \notin seen_nonces
  <2>1. d.seq = 3 => d.bytes[3] # NonceOf.valid
    BY <1>4 DEF IsScriptPacket
  <2>2. \A k \in seen_nonces : k = make_nonce_key(SESSION_ID, NonceOf.valid)
    BY DEF ScriptInv, VerdictsSoFar
  <2> QED
    BY <2>1, <2>2 DEF make_nonce_key
<1>15. d.bytes[5] = TagOf(d.bytes) <=> d.seq # 3
  BY <1>4 DEF IsScriptPacket
<1> HIDE DEF reason
<1>16. d.seq \in 1..4
  BY <1>2, <1>3
<1>17. d.seq = 4 => reason = "REPLAY_TS"
  BY <1>10, <1>12
<1>18. d.seq = 3 => reason = "TAG_FAIL"
  BY <1>10, <1>11, <1>14, <1>15
<1>19. d.seq \in {1, 2} =>
         /\ reason \in {"OK", "DUP_NONCE"}
         /\ reason = "DUP_NONCE"
              <=> make_nonce_key(SESSION_ID, NonceOf.valid) \in seen_nonces
  BY <1>10, <1>11, <1>13, <1>15
<1> QED
  BY <1>5, <1>6, <1>13, <1>16, <1>17, <1>18, <1>19 DEF reason

\* A datagram once taken is gone.
LEMMA TakeOnce ==
  ASSUME FaultlessRun, TypeOK, ScriptInv, UNCHANGED <<gpc>>,
         NEW d \in uplink, uplink' = uplink \ {d}, d.from \in Ground,
         Taken' = Taken \union {d.seq},
         \A i, j \in DOMAIN handled' :
           handled'[i].datagram.seq = handled'[j].datagram.seq => i = j
  PROVE  EachOnce'
<1>1. /\ \A e \in uplink : e.seq \in SentBy[gpc[e.from]] \ Taken
      /\ \A e, f \in uplink : e.seq = f.seq => e = f
      /\ \A g \in Ground : Taken \subseteq SentBy[gpc[g]]
  BY DEF ScriptInv, EachOnce
<1>2. \A e \in uplink' : e.seq \in SentBy[gpc'[e.from]] \ Taken'
  BY <1>1
<1>3. \A g \in Ground : Taken' \subseteq SentBy[gpc'[g]]
  BY <1>1 DEF FaultlessRun
<1> QED
  BY <1>1, <1>2, <1>3 DEF EachOnce

\* What stays as it is while datagrams are taken from the uplink.
LEMMA ScriptKept ==
  ASSUME ScriptInv, UNCHANGED <<groundVars, now>>, uplink' \subseteq uplink
  PROVE  FollowsScript'
BY DEF ScriptInv, FollowsScript, groundVars

\* An iteration of the loop keeps the verdicts of the script.
LEMMA ScriptTakeStep ==
  ASSUME FaultlessRun, TypeOK, ScriptInv, UNCHANGED groundVars,
         NEW d \in uplink, TakePacket(d)
  PROVE  ScriptInv'
<1> DEFINE reason == Reason(d, session_key, seen_nonces, now, TRUE)
           key    == make_nonce_key(SESSION_ID, NonceOf.valid)
           n      == Len(handled) + 1
<1>1. /\ spc = "loop" /\ uplink' = uplink \ {d} /\ Handle(d, reason)
      /\ IF reason = "OK"
           THEN seen_nonces' = mark_seen(seen_nonces, d.bytes[1], d.bytes[3])
           ELSE UNCHANGED seen_nonces
      /\ UNCHANGED <<downlink, now, session_key>>
  BY DEF TakePacket, Receive, MayDuplicate, FaultlessRun, CryptoResults
<1>2. /\ d.seq \in 1..4 /\ d.from \in Ground
      /\ d.seq \in {1, 2} => /\ reason \in {"OK", "DUP_NONCE"}
                             /\ make_nonce_key(d.bytes[1], d.bytes[3]) = key
                             /\ reason = "DUP_NONCE" <=> key \in seen_nonces
      /\ d.seq = 3 => reason = "TAG_FAIL"
      /\ d.seq = 4 => reason = "REPLAY_TS"
  BY <1>1, ScriptReason
<1> HIDE DEF reason, key, n
<1>3. /\ DOMAIN handled' = DOMAIN handled \union {n} /\ n \notin DOMAIN handled
      /\ handled'[n] = [datagram |-> d, reason |-> reason]
      /\ \A i \in DOMAIN handled : handled'[i] = handled[i]
      /\ spc' \in {"loop", "done"}
  <2>1. handled' = Append(handled, [datagram |-> d, reason |-> reason])
        /\ spc' \in {"loop", "done"}
    BY <1>1 DEF Handle
  <2>2. handled \in Seq([datagram : Datagrams, reason : Reasons \union {"EMPTY"}])
    BY DEF TypeOK, SatTypeOK
  <2> QED
    BY <2>1, <2>2, Appended DEF n
<1>4. d.seq \notin Taken
  BY DEF ScriptInv, EachOnce
<1>5. EachOnce'
  <2>1. Taken' = Taken \union {d.seq}
    BY <1>1, <1>3 DEF Taken
  <2>2. \A i \in DOMAIN handled : handled[i].datagram.seq # d.seq
    BY <1>4 DEF Taken
  <2>3. \A i, j \in DOMAIN handled :
          handled[i].datagram.seq = handled[j].datagram.seq => i = j
    BY DEF ScriptInv, EachOnce
  <2>4. \A i, j \in DOMAIN handled' :
          handled'[i].datagram.seq = handled'[j].datagram.seq => i = j
    BY <1>3, <2>2, <2>3
  <2> QED
    BY <1>1, <1>2, <2>1, <2>4, TakeOnce DEF groundVars
<1>6. FollowsScript' /\ KeysAgree'
  <2>1. FollowsScript'
    BY <1>1, ScriptKept
  <2>2. KeysAgree'
    BY <1>1 DEF ScriptInv, KeysAgree, groundVars
  <2> QED
    BY <2>1, <2>2
<1>7. VerdictsSoFar'
  <2>1. /\ Verdicts("OK")' = Verdicts("OK") \union {i \in {n} : reason = "OK"}
        /\ Verdicts("DUP_NONCE")'
             = Verdicts("DUP_NONCE") \union {i \in {n} : reason = "DUP_NONCE"}
    BY <1>3 DEF Verdicts
  <2>2. /\ \A i, j \in Verdicts("OK") : i = j
        /\ Verdicts("DUP_NONCE") # {} => Verdicts("OK") # {}
        /\ seen_nonces = {key : i \in Verdicts("OK")}
    BY DEF ScriptInv, VerdictsSoFar, key
  <2>3. \A i \in DOMAIN handled' :
          \/ handled'[i].datagram.seq \in {1, 2} /\ handled'[i].reason \in {"OK", "DUP_NONCE"}
          \/ handled'[i].datagram.seq = 3 /\ handled'[i].reason = "TAG_FAIL"
          \/ handled'[i].datagram.seq = 4 /\ handled'[i].reason = "REPLAY_TS"
    <3>1. \A i \in DOMAIN handled :
            \/ handled[i].datagram.seq \in {1, 2} /\ handled[i].reason \in {"OK", "DUP_NONCE"}
            \/ handled[i].datagram.seq = 3 /\ handled[i].reason = "TAG_FAIL"
            \/ handled[i].datagram.seq = 4 /\ handled[i].reason = "REPLAY_TS"
      BY DEF ScriptInv, VerdictsSoFar
    <3>2. handled'[n].datagram = d /\ handled'[n].reason = reason
      BY <1>3
    <3> QED
      BY <1>2, <1>3, <3>1, <3>2
  <2>4. CASE reason = "OK"
    <3>1. d.seq \in {1, 2}
      BY <1>2, <2>4
    <3>2. key \notin seen_nonces
      BY <1>2, <2>4, <3>1
    <3>3. Verdicts("OK") = {}
      BY <2>2, <3>2
    <3>4. seen_nonces' = seen_nonces \union {key}
      BY <1>1, <1>2, <2>4, <3>1 DEF mark_seen
    <3>5. Verdicts("OK")' = {n} /\ Verdicts("DUP_NONCE")' = Verdicts("DUP_NONCE")
      BY <2>1, <2>4, <3>3
    <3>6. seen_nonces' = {key : i \in Verdicts("OK")'}
      BY <2>2, <3>3, <3>4, <3>5
    <3> QED
      BY <2>3, <3>5, <3>6 DEF VerdictsSoFar, key
  <2>5. CASE reason # "OK"
    <3>1. Verdicts("OK")' = Verdicts("OK") /\ seen_nonces' = seen_nonces
      BY <1>1, <2>1, <2>5
    <3>2. reason = "DUP_NONCE" => Verdicts("OK") # {}
      BY <1>2, <2>2
    <3>3. Verdicts("DUP_NONCE")' # {} => Verdicts("OK")' # {}
      BY <2>1, <2>2, <3>1, <3>2
    <3> QED
      BY <2>2, <2>3, <3>1, <3>3 DEF VerdictsSoFar, key
  <2> QED
    BY <2>4, <2>5
<1> QED
  BY <1>5, <1>6, <1>7 DEF ScriptInv

\* The satellite's steps before the loop: the first datagram is the public key.
LEMMA ScriptFirstStep ==
  ASSUME FaultlessRun, TypeOK, ScriptInv, UNCHANGED groundVars,
         NEW d \in uplink, FailFirst(d) \/ Handshake(d)
  PROVE  ScriptInv'
<1>1. /\ spc = "first" /\ uplink' = uplink \ {d}
      /\ UNCHANGED <<now, seen_nonces, handled>>
  BY DEF FailFirst, Handshake, Receive, MayDuplicate, FaultlessRun
<1>2. VerdictsSoFar'
  BY <1>1 DEF ScriptInv, VerdictsSoFar, Verdicts
<1>3. FollowsScript'
  BY <1>1, ScriptKept
<1>4. CASE FailFirst(d)
  <2>1. spc' = "failed" /\ UNCHANGED <<downlink, session_key>>
    BY <1>4 DEF FailFirst
  <2>2. Taken' = Taken
    BY <1>1, <2>1 DEF Taken
  <2>3. EachOnce'
    BY <1>1, <2>2 DEF ScriptInv, EachOnce, groundVars
  <2>4. KeysAgree'
    BY <2>1 DEF ScriptInv, KeysAgree, groundVars
  <2> QED
    BY <1>2, <1>3, <2>3, <2>4 DEF ScriptInv
<1>5. CASE Handshake(d)
  <2>1. /\ d.size = PUBLIC_KEY_SIZE /\ spc' = "loop"
        /\ downlink' = downlink \union {Reply(d.from, 0, PUBLIC_KEY_SIZE, <<SatelliteKey>>)}
        /\ session_key' = SessionKey(SatelliteKey, d.bytes[1], TRUE)
    BY <1>5 DEF Handshake, FaultlessRun, CryptoResults
  <2>2. d.seq = 0 /\ d = KeyDatagram(d.from)
    BY <2>1, PacketSizesApart DEF ScriptInv, FollowsScript
  <2>3. d.bytes = <<d.from>>
    BY <2>2 DEF KeyDatagram, Datagram
  <2>4. d.from \in Ground
    <3>1. d \in Datagrams
      BY DEF TypeOK, LinkTypeOK, UplinkTypeOK
    <3> QED
      BY <3>1, <2>1, DatagramSizes
  <2>5. session_key' = LinkKey(d.from)
    BY <2>1, <2>3 DEF LinkKey
  <2>6. KeysAgree'
    <3> DEFINE r == Reply(d.from, 0, PUBLIC_KEY_SIZE, <<SatelliteKey>>)
    <3>1. r.size = PUBLIC_KEY_SIZE /\ r.bytes = <<SatelliteKey>>
      BY DEF Reply
    <3> HIDE DEF r
    <3>2. \A e \in downlink' : e.size = PUBLIC_KEY_SIZE /\ e.bytes = <<SatelliteKey>>
      BY <2>1, <3>1 DEF ScriptInv, KeysAgree, r
    <3> QED
      BY <2>4, <2>5, <3>2 DEF ScriptInv, KeysAgree, groundVars
  <2>7. Taken' = Taken \union {d.seq}
    BY <1>1, <2>1, <2>2 DEF Taken
  <2>8. EachOnce'
    <3>1. \A i, j \in DOMAIN handled' :
            handled'[i].datagram.seq = handled'[j].datagram.seq => i = j
      BY <1>1 DEF ScriptInv, EachOnce
    <3> QED
      BY <1>1, <2>4, <2>7, <3>1, TakeOnce DEF groundVars
  <2> QED
    BY <1>2, <1>3, <2>6, <2>8 DEF ScriptInv
<1> QED
  BY <1>4, <1>5

\* Every step follows the script.
LEMMA ScriptStep ==
  ASSUME FaultlessRun
  PROVE  TypeOK /\ ScriptInv /\ [Next]_vars => ScriptInv'
<1> SUFFICES ASSUME TypeOK, ScriptInv, [Next]_vars PROVE ScriptInv'
  OBVIOUS
<1>1. CASE UNCHANGED vars
  <2>1. /\ UNCHANGED <<uplink, downlink, now, session_key, seen_nonces, handled, spc>>
        /\ UNCHANGED <<gpc, gkey, gvalid>>
    BY <1>1 DEF vars, linkVars, groundVars, satVars
  <2>2. Taken' = Taken
    BY <2>1 DEF Taken
  <2>3. VerdictsSoFar' /\ KeysAgree' /\ EachOnce'
    BY <2>1, <2>2 DEF ScriptInv, VerdictsSoFar, Verdicts, KeysAgree, EachOnce
  <2>4. FollowsScript'
    BY <2>1 DEF ScriptInv, FollowsScript
  <2> QED
    BY <2>3, <2>4 DEF ScriptInv
<1>2. CASE \E g \in Ground : GroundStep(g) /\ UNCHANGED satVars
  BY <1>2, ScriptGroundStep
<1>3. CASE Network /\ UNCHANGED <<groundVars, satVars>>
  BY <1>3, ScriptNetworkStep
<1>4. ASSUME NEW d \in uplink, TakeEmpty(d)
      PROVE  FALSE
  BY <1>4, ScriptReason DEF TakeEmpty
<1>5. CASE SatStep /\ UNCHANGED groundVars
  BY <1>4, <1>5, ScriptFirstStep, ScriptTakeStep DEF SatStep
<1> QED
  BY <1>1, <1>2, <1>3, <1>5 DEF Next

\* Four different numbers from 1 to 4 are all of them.
LEMMA FourOfFour ==
  ASSUME NEW a \in 1..4, NEW b \in 1..4, NEW c \in 1..4, NEW d \in 1..4,
         a # b, a # c, a # d, b # c, b # d, c # d,
         NEW k \in 1..4
  PROVE  k \in {a, b, c, d}
OBVIOUS

\* Four datagrams with different places in the script are the whole script.
LEMMA WholeScript ==
  ASSUME TypeOK, ScriptInv, spc = "done", NEW k \in 1..4
  PROVE  \E i \in DOMAIN handled : handled[i].datagram.seq = k
<1>1. DOMAIN handled = 1..4
  BY DEF TypeOK, SatTypeOK, Slots
<1>2. \A i \in 1..4 : handled[i].datagram.seq \in 1..4
  BY <1>1 DEF ScriptInv, VerdictsSoFar
<1>3. \A i, j \in 1..4 : handled[i].datagram.seq = handled[j].datagram.seq => i = j
  BY <1>1 DEF ScriptInv, EachOnce
<1> DEFINE s(i) == handled[i].datagram.seq
<1>4. s(1) \in 1..4 /\ s(2) \in 1..4 /\ s(3) \in 1..4 /\ s(4) \in 1..4
  BY <1>2
<1>5. /\ s(1) # s(2) /\ s(1) # s(3) /\ s(1) # s(4)
      /\ s(2) # s(3) /\ s(2) # s(4) /\ s(3) # s(4)
  BY <1>3
<1>6. k \in {s(1), s(2), s(3), s(4)}
  <2> HIDE DEF s
  <2> QED
    BY <1>4, <1>5, FourOfFour
<1> QED
  BY <1>1, <1>6

\* The whole script and its verdicts so far are the verdicts claimed.
LEMMA VerdictsFollow ==
  ASSUME TypeOK, ScriptInv
  PROVE  ScriptVerdicts
<1> SUFFICES ASSUME spc = "done"
             PROVE  /\ \A reason \in Reasons \ {"BAD_FORMAT"} :
                         Cardinality(Verdicts(reason)) = 1
                    /\ \A i \in DOMAIN handled :
                         /\ handled[i].reason \in {"OK", "DUP_NONCE"}
                              <=> handled[i].datagram.seq \in {1, 2}
                         /\ handled[i].reason = "TAG_FAIL"
                              <=> handled[i].datagram.seq = 3
  BY DEF ScriptVerdicts
<1>1. \A i \in DOMAIN handled :
        \/ handled[i].datagram.seq \in {1, 2} /\ handled[i].reason \in {"OK", "DUP_NONCE"}
        \/ handled[i].datagram.seq = 3 /\ handled[i].reason = "TAG_FAIL"
        \/ handled[i].datagram.seq = 4 /\ handled[i].reason = "REPLAY_TS"
  BY DEF ScriptInv, VerdictsSoFar
<1>2. \A i, j \in DOMAIN handled :
        handled[i].datagram.seq = handled[j].datagram.seq => i = j
  BY DEF ScriptInv, EachOnce
<1>3. /\ \A i, j \in Verdicts("OK") : i = j
      /\ Verdicts("DUP_NONCE") # {} => Verdicts("OK") # {}
  BY DEF ScriptInv, VerdictsSoFar
<1>4. PICK p \in DOMAIN handled : handled[p].datagram.seq = 1
  BY WholeScript
<1>5. PICK q \in DOMAIN handled : handled[q].datagram.seq = 2
  BY WholeScript
<1>6. PICK t \in DOMAIN handled : handled[t].datagram.seq = 3
  BY WholeScript
<1>7. PICK u \in DOMAIN handled : handled[u].datagram.seq = 4
  BY WholeScript
<1>8. p # q /\ handled[p].reason \in {"OK", "DUP_NONCE"}
            /\ handled[q].reason \in {"OK", "DUP_NONCE"}
  BY <1>1, <1>4, <1>5
<1>9. \A i \in DOMAIN handled :
        handled[i].reason \in {"OK", "DUP_NONCE"} => i = p \/ i = q
  BY <1>1, <1>2, <1>4, <1>5
<1>10. \E i \in {p, q} : handled[i].reason = "OK"
  <2>1. CASE handled[p].reason = "DUP_NONCE"
    <3>1. p \in Verdicts("DUP_NONCE")
      BY <2>1 DEF Verdicts
    <3>2. PICK i \in Verdicts("OK") : TRUE
      BY <1>3, <3>1
    <3>3. i \in DOMAIN handled /\ handled[i].reason = "OK"
      BY DEF Verdicts
    <3> QED
      BY <1>9, <3>3
  <2> QED
    BY <1>8, <2>1
<1>11. ~(handled[p].reason = "OK" /\ handled[q].reason = "OK")
  BY <1>3, <1>8 DEF Verdicts
<1>12. \/ Verdicts("OK") = {p} /\ Verdicts("DUP_NONCE") = {q}
       \/ Verdicts("OK") = {q} /\ Verdicts("DUP_NONCE") = {p}
  BY <1>8, <1>9, <1>10, <1>11 DEF Verdicts
<1>13. Verdicts("TAG_FAIL") = {t}
  BY <1>1, <1>2, <1>6 DEF Verdicts
<1>14. Verdicts("REPLAY_TS") = {u}
  BY <1>1, <1>2, <1>7 DEF Verdicts
<1>15. \A reason \in Reasons \ {"BAD_FORMAT"} : \E i : Verdicts(reason) = {i}
  BY <1>12, <1>13, <1>14 DEF Reasons, RejectReasons
<1>16. \A reason \in Reasons \ {"BAD_FORMAT"} : Cardinality(Verdicts(reason)) = 1
  BY <1>15, FS_Singleton
<1> QED
  BY <1>1, <1>16

\* When the demonstration runs as it is meant to, whatever the order of arrival
\* and even if datagrams are lost, a satellite that has handled its four
\* datagrams has met each of its checks once.
THEOREM VerdictsHold ==
  ASSUME FaultlessRun
  PROVE  Spec => []ScriptVerdicts
<1>1. Init => ScriptInv
  BY ScriptInit
<1>2. TypeOK /\ ScriptInv /\ [Next]_vars => ScriptInv'
  BY ScriptStep
<1>3. TypeOK /\ ScriptInv => ScriptVerdicts
  BY VerdictsFollow
<1> QED
  BY <1>1, <1>2, <1>3, TypeCorrect, PTL DEF Spec
=============================================================================
