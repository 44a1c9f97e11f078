-------------------------- MODULE SecureLinkProofs --------------------------
(***************************************************************************)
(* What holds of the secure link for every number of ground runs, every    *)
(* clock and every number of restarts.  The parts of IInv are proved       *)
(* inductive one after the other, each on top of the ones before it:       *)
(* types, the replay guard, the tags, execution, acknowledgement.          *)
(***************************************************************************)
EXTENDS SecureLink, GroundLinkProofs

\* The reply of a handshake is well typed: 32 bytes of a key, or none.
LEMMA PublicKeyReply ==
  ASSUME NEW to \in Ground \union Legacy, NEW n \in 1..MaxBoots,
         NEW public \in {<<>>, <<n>>}
  PROVE  LET r == Reply(to, 0, IF public = <<>> THEN 0 ELSE PUBLIC_KEY_SIZE,
                        public)
         IN  /\ r \in Replies
             /\ r.size = PUBLIC_KEY_SIZE => r.bytes # <<>>
BY Sizes DEF Reply, Replies

\* The entry an accepted packet adds to the history of executed commands.
LEMMA NewExecution ==
  ASSUME NEW d \in Datagrams, NEW ok, epoch \in Nat,
         session_key \in SessionKeys \union {NoKey},
         Reason(d, session_key, seen_nonces, SatNow, ok) = "OK"
  PROVE  /\ Execution(d) \in Executions
         /\ Execution(d).bytes = d.bytes
         /\ Execution(d).key = session_key
         /\ Execution(d).command = d.bytes[4].plaintext
         /\ Execution(d).nonce = make_nonce_key(d.bytes[1], d.bytes[3])
         /\ Execution(d).from = d.from
         /\ Execution(d).epoch = epoch
<1>1. d.from \in Ground /\ d.bytes \in Wire /\ d.bytes[5].key = session_key
  BY AcceptedDatagram
<1>2. session_key \in SessionKeys
  BY <1>1 DEF Wire, Tags
<1>3. /\ make_nonce_key(d.bytes[1], d.bytes[3]) \in Nat \X Nonces
      /\ d.bytes[4].plaintext \in Commands
  BY <1>1 DEF make_nonce_key, Wire, Ciphertexts
<1> QED
  BY <1>1, <1>2, <1>3 DEF Execution, Executions, deserialize_packet

-----------------------------------------------------------------------------
\* The initial states are well typed.
LEMMA InitTypeOK == Init => TypeOK
<1> SUFFICES ASSUME Init PROVE TypeOK
  OBVIOUS
<1>1. UplinkTypeOK /\ GroundTypeOK
  BY GroundInitInv DEF Init
<1>2. LinkTypeOK
  BY <1>1 DEF Init, LinkInit, LinkTypeOK
<1>3. SatTypeOK
  BY SatelliteAssumption DEF Init, SatInit, SatTypeOK, SatStates
<1> QED
  BY <1>1, <1>2, <1>3 DEF TypeOK

\* A reply of 32 bytes is a public key.
LEMMA RepliesAreKeys == LinkTypeOK => KeyReplies
<1> SUFFICES ASSUME LinkTypeOK, NEW r \in downlink, r.size = PUBLIC_KEY_SIZE
             PROVE  r.bytes[1] \in PublicKeys
  BY DEF KeyReplies
<1>1. r \in Replies /\ r.bytes # <<>> /\ r.size # 3
  BY Sizes DEF LinkTypeOK
<1> QED
  BY <1>1, SatelliteAssumption DEF Replies, PublicKeys

\* The steps of a ground run and of the network.
LEMMA OutsideTypeStep ==
  ASSUME TypeOK, UNCHANGED satVars,
         \/ \E g \in Ground : GroundStep(g)
         \/ Network /\ UNCHANGED groundVars
  PROVE  TypeOK'
<1>1. SatTypeOK'
  BY DEF TypeOK, SatTypeOK, satVars
<1>2. UplinkTypeOK /\ GroundTypeOK /\ KeyReplies /\ downlink \subseteq Replies
  BY RepliesAreKeys DEF TypeOK, LinkTypeOK, UplinkTypeOK
<1>3. UplinkTypeOK' /\ GroundTypeOK' /\ downlink' \subseteq downlink
  <2>1. CASE \E g \in Ground : GroundStep(g)
    BY <1>2, <2>1, GroundTypeStep, GroundFrame
  <2>2. CASE Network /\ UNCHANGED groundVars
    <3>1. GroundTypeOK'
      BY <1>2, <2>2 DEF GroundTypeOK, groundVars
    <3> QED
      BY <1>2, <2>2, <3>1, NetworkTypeStep, NetworkFrame
  <2> QED
    BY <2>1, <2>2
<1>4. LinkTypeOK'
  BY <1>3 DEF TypeOK, LinkTypeOK
<1> QED
  BY <1>1, <1>3, <1>4 DEF TypeOK

\* The steps of the satellite on a datagram it received.
LEMMA ReceiveTypeStep ==
  ASSUME TypeOK, UNCHANGED groundVars, NEW d \in uplink,
         \/ FailFirst(d) \/ FirstHandshake(d) \/ Rehandshake(d)
         \/ ReceiveEmpty(d) \/ ProcessPacket(d)
  PROVE  TypeOK'
<1>1. GroundTypeOK'
  BY DEF TypeOK, GroundTypeOK, groundVars
<1>2. /\ uplink' \subseteq Datagrams
      /\ d \in Datagrams /\ d.from \in Ground \union Legacy
  <2>1. Receive(d)
    BY DEF FailFirst, FirstHandshake, Rehandshake, ReceiveEmpty, ProcessPacket
  <2> QED
    BY <2>1, DatagramSizes DEF Receive, TypeOK, LinkTypeOK, UplinkTypeOK
<1>3. CASE FailFirst(d)
  <2>1. LinkTypeOK'
    BY <1>2, <1>3 DEF FailFirst, TypeOK, LinkTypeOK, UplinkTypeOK
  <2>2. SatTypeOK'
    BY <1>2, <1>3 DEF FailFirst, TypeOK, SatTypeOK, SatStates
  <2> QED
    BY <1>1, <2>1, <2>2 DEF TypeOK
<1>4. CASE FirstHandshake(d)
  <2>1. satellite_public' \in {<<>>, <<boot>>} /\ boot \in 1..MaxBoots
    BY <1>4 DEF FirstHandshake, TypeOK, SatTypeOK
  <2>2. session_key' \in SessionKeys \union {NoKey}
    <3>1. d.bytes[1] \in PublicKeys /\ boot \in PublicKeys
      BY <1>2, <1>4, <2>1, DatagramSizes, SatelliteAssumption
         DEF FirstHandshake, PublicKeys
    <3> QED
      BY <1>4, <3>1, DerivedKey DEF FirstHandshake
  <2>3. LinkTypeOK'
    BY <1>2, <1>4, <2>1, PublicKeyReply
       DEF FirstHandshake, SendPublicKey, TypeOK, LinkTypeOK, UplinkTypeOK
  <2>4. SatTypeOK'
    BY <1>2, <1>4, <2>1, <2>2 DEF FirstHandshake, TypeOK, SatTypeOK, SatStates
  <2> QED
    BY <1>1, <2>3, <2>4 DEF TypeOK
<1>5. CASE Rehandshake(d)
  <2>1. satellite_public \in {<<>>, <<boot>>} /\ boot \in 1..MaxBoots
    BY DEF TypeOK, SatTypeOK
  <2>2. session_key' \in SessionKeys \union {NoKey}
    <3>1. d.bytes[1] \in PublicKeys /\ boot \in PublicKeys
      BY <1>2, <1>5, <2>1, DatagramSizes, SatelliteAssumption
         DEF Rehandshake, PublicKeys
    <3> QED
      BY <1>5, <3>1, DerivedKey DEF Rehandshake
  <2>3. LinkTypeOK'
    BY <1>2, <1>5, <2>1, PublicKeyReply
       DEF Rehandshake, SendPublicKey, TypeOK, LinkTypeOK, UplinkTypeOK
  <2>4. SatTypeOK'
    BY <1>2, <1>5, <2>2 DEF Rehandshake, TypeOK, SatTypeOK
  <2> QED
    BY <1>1, <2>3, <2>4 DEF TypeOK
<1>6. CASE ReceiveEmpty(d)
  <2>1. LinkTypeOK'
    BY <1>2, <1>6 DEF ReceiveEmpty, TypeOK, LinkTypeOK, UplinkTypeOK
  <2>2. SatTypeOK'
    BY <1>2, <1>6 DEF ReceiveEmpty, TypeOK, SatTypeOK
  <2> QED
    BY <1>1, <2>1, <2>2 DEF TypeOK
<1>7. CASE ProcessPacket(d)
  <2>1. LinkTypeOK'
    BY <1>2, <1>7 DEF ProcessPacket, TypeOK, LinkTypeOK, UplinkTypeOK
  <2>2. PICK ok \in CryptoResults :
          /\ reason' = Reason(d, session_key, seen_nonces, SatNow, ok)
          /\ IF reason' = "OK"
               THEN /\ seen_nonces' = mark_seen(seen_nonces, d.bytes[1],
                                                d.bytes[3])
                    /\ executed' = Append(executed, Execution(d))
               ELSE UNCHANGED <<seen_nonces, executed>>
    BY <1>7 DEF ProcessPacket
  <2>3. reason' \in Reasons
    BY <2>2 DEF Reason, Reasons, RejectReasons
  <2>4. seen_nonces' \subseteq Nat \X Nonces /\ executed' \in Seq(Executions)
    <3>1. seen_nonces \subseteq Nat \X Nonces /\ executed \in Seq(Executions)
      BY DEF TypeOK, SatTypeOK
    <3>2. CASE reason' = "OK"
      <4>1. d.bytes \in Wire
        BY <1>2, <2>2, <3>2, AcceptedDatagram
      <4>2. Execution(d) \in Executions
        BY <1>2, <2>2, <3>2, NewExecution DEF TypeOK, SatTypeOK
      <4>3. make_nonce_key(d.bytes[1], d.bytes[3]) \in Nat \X Nonces
        BY <4>1 DEF make_nonce_key, Wire
      <4>4. seen_nonces' \subseteq Nat \X Nonces
        BY <2>2, <3>1, <3>2, <4>3 DEF mark_seen
      <4>5. executed' \in Seq(Executions)
        BY <2>2, <3>1, <3>2, <4>2
      <4> QED
        BY <4>4, <4>5
    <3>3. CASE reason' # "OK"
      BY <2>2, <3>1, <3>3
    <3> QED
      BY <3>2, <3>3
  <2>5. SatTypeOK'
    BY <1>2, <1>7, <2>3, <2>4 DEF ProcessPacket, TypeOK, SatTypeOK, SatStates
  <2> QED
    BY <1>1, <2>1, <2>5 DEF TypeOK
<1> QED
  BY <1>3, <1>4, <1>5, <1>6, <1>7

\* The steps of the satellite on its own, and of the operator.
LEMMA OtherTypeStep ==
  ASSUME TypeOK, UNCHANGED groundVars, ReportDone \/ SendAck \/ Restart
  PROVE  TypeOK'
<1>1. GroundTypeOK'
  BY DEF TypeOK, GroundTypeOK, groundVars
<1>2. CASE ReportDone
  <2>1. LinkTypeOK'
    BY <1>2 DEF ReportDone, linkVars, TypeOK, LinkTypeOK, UplinkTypeOK
  <2>2. SatTypeOK'
    BY <1>2 DEF ReportDone, TypeOK, SatTypeOK, SatStates
  <2> QED
    BY <1>1, <2>1, <2>2 DEF TypeOK
<1>3. CASE SendAck
  <2>1. Reply(ground_addr, Len(executed), 3, Ack) \in Replies
    BY <1>3 DEF SendAck, Reply, Replies, TypeOK, SatTypeOK
  <2>2. LinkTypeOK'
    <3>1. Reply(ground_addr, Len(executed), 3, Ack).size # PUBLIC_KEY_SIZE
      BY Sizes DEF Reply
    <3> QED
      BY <1>3, <2>1, <3>1 DEF SendAck, TypeOK, LinkTypeOK, UplinkTypeOK
  <2>3. SatTypeOK'
    BY <1>3 DEF SendAck, TypeOK, SatTypeOK, SatStates
  <2> QED
    BY <1>1, <2>2, <2>3 DEF TypeOK
<1>4. CASE Restart
  <2>1. LinkTypeOK'
    BY <1>4 DEF Restart, linkVars, TypeOK, LinkTypeOK, UplinkTypeOK
  <2>2. SatTypeOK'
    BY <1>4, SatelliteAssumption DEF Restart, TypeOK, SatTypeOK, SatStates
  <2> QED
    BY <1>1, <2>1, <2>2 DEF TypeOK
<1> QED
  BY <1>2, <1>3, <1>4

\* Every step keeps the variables well typed.
LEMMA TypeStep == TypeOK /\ [Next]_vars => TypeOK'
<1> SUFFICES ASSUME TypeOK, [Next]_vars PROVE TypeOK'
  OBVIOUS
<1>1. CASE UNCHANGED vars
  BY <1>1
     DEF vars, linkVars, groundVars, satVars, TypeOK, LinkTypeOK, UplinkTypeOK,
              GroundTypeOK, SatTypeOK
<1>2. CASE \E g \in Ground : GroundStep(g) /\ UNCHANGED satVars
  BY <1>2, OutsideTypeStep
<1>3. CASE SatStep /\ UNCHANGED groundVars
  BY <1>3, ReceiveTypeStep, OtherTypeStep DEF SatStep
<1>4. CASE Restart /\ UNCHANGED groundVars
  BY <1>4, OtherTypeStep
<1>5. CASE Network /\ UNCHANGED <<groundVars, satVars>>
  BY <1>5, OutsideTypeStep
<1> QED
  BY <1>1, <1>2, <1>3, <1>4, <1>5 DEF Next

\* The variables hold what they are meant to hold: what the satellite, a
\* ground run or the network does never confuses a public key with a packet.
THEOREM TypeCorrect == Spec => []TypeOK
BY InitTypeOK, TypeStep, PTL DEF Spec
-----------------------------------------------------------------------------
\* A command is executed by ProcessPacket, and by nothing else.
Executes(d, ok) ==
  /\ spc = "loop" /\ spc' = "report"
  /\ Reason(d, session_key, seen_nonces, SatNow, ok) = "OK"
  /\ reason' = "OK"
  /\ seen_nonces' = mark_seen(seen_nonces, d.bytes[1], d.bytes[3])
  /\ executed' = Append(executed, Execution(d))
  /\ ground_addr' = d.from
  /\ UNCHANGED <<downlink, now, boot, session_key, epoch, gpc, gkey, gvalid,
                 sealed>>
  /\ uplink' \subseteq uplink

\* What a step may do to the replay guard and the executed commands.
LEMMA GuardFrame ==
  ASSUME TypeOK, Next
  PROVE  \/ UNCHANGED <<executed, seen_nonces, epoch>>
         \/ /\ UNCHANGED executed
            /\ seen_nonces' = {}
            /\ epoch' = epoch + 1
         \/ \E d \in uplink, ok \in CryptoResults : Executes(d, ok)
<1>1. ASSUME NEW d \in uplink, ProcessPacket(d), UNCHANGED groundVars
      PROVE  \/ UNCHANGED <<executed, seen_nonces, epoch>>
             \/ \E ok \in CryptoResults : Executes(d, ok)
  <2>1. uplink' \subseteq uplink
    BY <1>1 DEF ProcessPacket, Receive
  <2> QED
    BY <1>1, <2>1 DEF ProcessPacket, Executes, groundVars
<1>2. ASSUME NEW d \in uplink,
             FailFirst(d) \/ FirstHandshake(d) \/ ReceiveEmpty(d)
      PROVE  UNCHANGED <<executed, seen_nonces, epoch>>
  BY <1>2 DEF FailFirst, FirstHandshake, ReceiveEmpty
<1>3. ASSUME Restart \/ \E d \in uplink : Rehandshake(d)
      PROVE  UNCHANGED executed /\ seen_nonces' = {} /\ epoch' = epoch + 1
  BY <1>3 DEF Restart, Rehandshake
<1>4. ASSUME ReportDone \/ SendAck \/ UNCHANGED satVars
      PROVE  UNCHANGED <<executed, seen_nonces, epoch>>
  BY <1>4 DEF ReportDone, SendAck, satVars
<1> QED
  BY <1>1, <1>2, <1>3, <1>4 DEF Next, SatStep

\* The guard's invariants: a nonce is in the guard exactly when a command
\* was executed with it since the guard was constructed.
GuardInv == ExecutedGenuine /\ GuardRemembersExecuted /\ AtMostOncePerGuard

\* Every step keeps the replay guard and the executed commands in agreement.
LEMMA GuardStep == TypeOK /\ GuardInv /\ [Next]_vars => GuardInv'
<1> SUFFICES ASSUME TypeOK, GuardInv, [Next]_vars PROVE GuardInv'
  OBVIOUS
<1> USE DEF GuardInv
<1>0. executed \in Seq(Executions) /\ epoch \in Nat
  BY DEF TypeOK, SatTypeOK
<1>1. CASE UNCHANGED <<executed, seen_nonces, epoch>>
  BY <1>1 DEF ExecutedGenuine, GuardRemembersExecuted, AtMostOncePerGuard
<1>2. CASE UNCHANGED executed /\ seen_nonces' = {} /\ epoch' = epoch + 1
  <2>1. \A i \in DOMAIN executed : executed[i].epoch \in Nat
    <3>1. \A i \in DOMAIN executed : executed[i] \in Executions
      BY <1>0
    <3> QED
      BY <3>1 DEF Executions
  <2>2. ExecutedGenuine'
    BY <1>0, <1>2, <2>1 DEF ExecutedGenuine
  <2>3. \A i \in DOMAIN executed : executed[i].epoch # epoch + 1
    BY <1>0, <2>1 DEF ExecutedGenuine
  <2> QED
    BY <1>2, <2>2, <2>3 DEF GuardRemembersExecuted, AtMostOncePerGuard
<1>3. ASSUME NEW d \in uplink, NEW ok \in CryptoResults, Executes(d, ok)
      PROVE  GuardInv'
  <2> DEFINE e == Execution(d)
             n == Len(executed) + 1
  <2>1. d \in Datagrams
    BY DEF TypeOK, LinkTypeOK, UplinkTypeOK
  <2>2. /\ make_nonce_key(d.bytes[1], d.bytes[3]) \notin seen_nonces
        /\ d.bytes[5].key = session_key
    BY <1>3, <2>1, AcceptedDatagram DEF Executes
  <2>3. /\ e.bytes = d.bytes
        /\ e.key = session_key
        /\ e.command = d.bytes[4].plaintext
        /\ e.nonce = make_nonce_key(d.bytes[1], d.bytes[3])
        /\ e.epoch = epoch
    BY <1>0, <1>3, <2>1, NewExecution DEF Executes, TypeOK, SatTypeOK
  <2> HIDE DEF e
  <2>4. /\ executed' = Append(executed, e)
        /\ seen_nonces' = seen_nonces \union {e.nonce}
        /\ epoch' = epoch
    BY <1>3, <2>3 DEF Executes, mark_seen, e
  <2>5. /\ DOMAIN executed' = DOMAIN executed \union {n}
        /\ n \notin DOMAIN executed
        /\ executed'[n] = e
        /\ \A i \in DOMAIN executed : executed'[i] = executed[i]
    BY <1>0, <2>4, Appended
  <2> HIDE DEF n
  <2>6. ExecutedGenuine'
    BY <1>0, <2>2, <2>3, <2>4, <2>5 DEF ExecutedGenuine
  <2>7. GuardRemembersExecuted'
    BY <2>3, <2>4, <2>5 DEF GuardRemembersExecuted
  <2>8. AtMostOncePerGuard'
    BY <2>2, <2>3, <2>5 DEF AtMostOncePerGuard, GuardRemembersExecuted
  <2> QED
    BY <2>6, <2>7, <2>8
<1>4. CASE UNCHANGED vars
  BY <1>1, <1>4 DEF vars, satVars
<1> QED
  BY <1>1, <1>2, <1>3, <1>4, GuardFrame

-----------------------------------------------------------------------------
\* Keys, time and history: a session key, once derived, is the run's until its
\* end, and a sealed packet stays sealed.
LEMMA KeyFrame ==
  ASSUME TypeOK, [Next]_vars
  PROVE  /\ \A g \in Ground : gkey[g] # NoKey => gkey'[g] = gkey[g]
         /\ now' >= now
         /\ sealed \subseteq sealed'
<1>0. UplinkTypeOK /\ GroundTypeOK /\ now \in Nat
  BY DEF TypeOK, LinkTypeOK, UplinkTypeOK, UplinkTypeOK
<1>1. CASE UNCHANGED groundVars /\ (UNCHANGED now \/ Network)
  BY <1>0, <1>1, NetworkFrame DEF groundVars
<1>2. ASSUME NEW g \in Ground, GroundStep(g)
      PROVE  /\ \A h \in Ground : gkey[h] # NoKey => gkey'[h] = gkey[h]
             /\ now' >= now
             /\ sealed \subseteq sealed'
  BY <1>0, <1>2, GroundFrame
<1>3. CASE (SatStep \/ Restart) /\ UNCHANGED groundVars
  BY <1>1, <1>3 DEF SatStep, FailFirst, FirstHandshake, Rehandshake,
                    ReceiveEmpty, ProcessPacket, ReportDone, SendAck,
                    Restart, linkVars
<1>4. CASE UNCHANGED vars
  BY <1>1, <1>4 DEF vars, linkVars
<1> QED
  BY <1>1, <1>2, <1>3, <1>4 DEF Next

\* Every step keeps every tag on the link accounted for.
LEMMA SealStep == TypeOK /\ SealInv /\ [Next]_vars => SealInv'
<1> SUFFICES ASSUME TypeOK, SealInv, [Next]_vars PROVE SealInv'
  OBVIOUS
<1>0. UplinkTypeOK /\ GroundTypeOK /\ now \in Nat
  BY DEF TypeOK, LinkTypeOK, UplinkTypeOK, UplinkTypeOK
<1>1. ASSUME UNCHANGED groundVars, uplink' \subseteq uplink, UNCHANGED now
      PROVE  SealInv'
  BY <1>0, <1>1, QuietSealStep
<1>2. CASE SatStep /\ UNCHANGED groundVars
  <2>1. uplink' \subseteq uplink /\ UNCHANGED now
    BY <1>2 DEF SatStep, FailFirst, FirstHandshake, Rehandshake, Receive,
                ReceiveEmpty, ProcessPacket, ReportDone, SendAck, linkVars
  <2> QED
    BY <1>1, <1>2, <2>1
<1>3. CASE Restart /\ UNCHANGED groundVars
  BY <1>1, <1>3 DEF Restart, linkVars
<1>4. CASE UNCHANGED vars
  BY <1>1, <1>4 DEF vars, linkVars
<1> QED
  BY <1>0, <1>2, <1>3, <1>4, GroundSealStep, NetworkSealStep DEF Next

\* Every step executes sealed packets only.
LEMMA OnlySealedStep ==
  TypeOK /\ SealInv /\ OnlySealedExecuted /\ [Next]_vars
    => OnlySealedExecuted'
<1> SUFFICES ASSUME TypeOK, SealInv, OnlySealedExecuted, [Next]_vars
             PROVE  OnlySealedExecuted'
  OBVIOUS
<1>1. executed \in Seq(Executions) /\ NoKey \notin SessionKeys
  BY LinkAssumption DEF TypeOK, SatTypeOK, SessionKeys, PublicKeys
<1>2. \A i \in DOMAIN executed : executed[i].key # NoKey
  <2>1. \A i \in DOMAIN executed : executed[i] \in Executions
    BY <1>1
  <2> QED
    BY <1>1, <2>1 DEF Executions
<1>3. sealed \subseteq sealed'
  BY KeyFrame
<1>4. CASE UNCHANGED executed
  BY <1>2, <1>3, <1>4, KeyFrame DEF OnlySealedExecuted
<1>5. ASSUME NEW d \in uplink, NEW ok \in CryptoResults, Executes(d, ok)
      PROVE  OnlySealedExecuted'
  <2> DEFINE e == Execution(d)
  <2>1. d.bytes \in sealed
    BY <1>5, AcceptedWasSealed DEF Executes, TypeOK, LinkTypeOK
  <2>2. d.bytes[5].key = session_key
    BY <1>5, AcceptedDatagram DEF Executes, TypeOK, LinkTypeOK, UplinkTypeOK
  <2>3. e.bytes = d.bytes /\ e.key = session_key
    BY <1>5, NewExecution
       DEF Executes, TypeOK, LinkTypeOK, UplinkTypeOK, SatTypeOK
  <2>4. \E g \in Ground : gkey[g] = e.key
    BY <2>1, <2>2, <2>3 DEF SealInv, SealedGenuine
  <2> HIDE DEF e
  <2>5. executed' = Append(executed, e) /\ UNCHANGED <<gkey, sealed>>
    BY <1>5 DEF Executes, e
  <2> QED
    BY <1>1, <2>1, <2>3, <2>4, <2>5, Appended DEF OnlySealedExecuted
<1>6. CASE UNCHANGED vars
  BY <1>4, <1>6 DEF vars, satVars
<1> QED
  BY <1>4, <1>5, <1>6, GuardFrame

-----------------------------------------------------------------------------
\* An ACK answers the last command executed, at the address it came from.
AckInv == AckDue /\ AckFollowsExecution

\* Every step acknowledges executed commands only.
LEMMA AckStep == TypeOK /\ AckInv /\ [Next]_vars => AckInv'
<1> SUFFICES ASSUME TypeOK, AckInv, [Next]_vars PROVE AckInv'
  OBVIOUS
<1> USE DEF AckInv
<1>0. executed \in Seq(Executions)
  BY DEF TypeOK, SatTypeOK
<1>1. ASSUME UNCHANGED <<executed, spc, reason, ground_addr>>,
             downlink' \subseteq downlink
      PROVE  AckInv'
  BY <1>1 DEF AckDue, AckFollowsExecution
<1>2. ASSUME NEW d \in uplink, NEW ok \in CryptoResults, Executes(d, ok)
      PROVE  AckInv'
  <2> DEFINE e == Execution(d)
  <2>1. e.from = d.from
    BY <1>2, NewExecution
       DEF Executes, TypeOK, LinkTypeOK, UplinkTypeOK, SatTypeOK
  <2> HIDE DEF e
  <2>2. /\ executed' = Append(executed, e)
        /\ ground_addr' = d.from
        /\ UNCHANGED downlink
    BY <1>2 DEF Executes, e
  <2> QED
    BY <1>0, <2>1, <2>2, Appended DEF AckDue, AckFollowsExecution
<1>3. ASSUME UNCHANGED executed, spc' \in {"first", "loop", "exited"},
             \A r \in downlink' : r \in downlink \/ r.bytes # Ack
      PROVE  AckInv'
  BY <1>3 DEF AckDue, AckFollowsExecution
<1>4. ASSUME NEW d \in uplink, FirstHandshake(d) \/ Rehandshake(d)
      PROVE  AckInv'
  <2>1. PICK public \in {<<>>, <<boot>>} : SendPublicKey(d.from, public)
    BY <1>4 DEF FirstHandshake, Rehandshake, TypeOK, SatTypeOK
  <2>2. public # Ack
    BY DEF Ack
  <2>3. \A r \in downlink' : r \in downlink \/ r.bytes # Ack
    BY <2>1, <2>2 DEF SendPublicKey, Reply
  <2>4. UNCHANGED executed /\ spc' \in {"loop", "exited"}
    BY <1>4 DEF FirstHandshake, Rehandshake
  <2> QED
    BY <1>3, <2>3, <2>4
<1>5. ASSUME NEW d \in uplink, FailFirst(d) \/ ReceiveEmpty(d)
      PROVE  AckInv'
  BY <1>3, <1>5 DEF FailFirst, ReceiveEmpty
<1>6. ASSUME NEW d \in uplink, ProcessPacket(d), UNCHANGED groundVars
      PROVE  AckInv'
  <2>1. CASE reason' = "OK"
    <3>1. \E ok \in CryptoResults : Executes(d, ok)
      BY <1>6, <2>1 DEF ProcessPacket, Executes, Receive, groundVars
    <3> QED
      BY <1>2, <3>1
  <2>2. CASE reason' # "OK"
    <3>1. UNCHANGED <<executed, downlink>> /\ spc' = "report"
      BY <1>6, <2>2 DEF ProcessPacket
    <3> QED
      BY <2>2, <3>1 DEF AckDue, AckFollowsExecution
  <2> QED
    BY <2>1, <2>2
<1>7. CASE ReportDone
  BY <1>7 DEF ReportDone, linkVars, AckDue, AckFollowsExecution
<1>8. CASE SendAck
  <2>1. /\ executed # <<>> /\ executed[Len(executed)].from = ground_addr
        /\ Len(executed) \in DOMAIN executed
    BY <1>0, <1>8 DEF SendAck, AckDue
  <2> QED
    BY <1>8, <2>1 DEF SendAck, Reply, AckDue, AckFollowsExecution
<1>9. CASE Restart
  BY <1>3, <1>9 DEF Restart, linkVars
<1>10. ASSUME UNCHANGED satVars, Network \/ \E g \in Ground : GroundStep(g)
       PROVE  AckInv'
  <2>1. downlink' \subseteq downlink
    BY <1>10 DEF Network, LoseUp, LoseDown, Damage, Tick, GroundStep, SendKey,
                 SendNoKey, CrashInKeygen, RecvKey, SendValid, SendReplay,
                 SendTampered, SendExpired, linkVars
  <2> QED
    BY <1>1, <1>10, <2>1 DEF satVars
<1>11. CASE UNCHANGED vars
  BY <1>1, <1>11 DEF vars, linkVars, satVars
<1> QED
  BY <1>4, <1>5, <1>6, <1>7, <1>8, <1>9, <1>10, <1>11 DEF Next, SatStep

\* A replay guard is empty until the first handshake.
LEMMA FirstGuardStep ==
  TypeOK /\ FirstGuardEmpty /\ [Next]_vars => FirstGuardEmpty'
<1> SUFFICES ASSUME TypeOK, FirstGuardEmpty, [Next]_vars
             PROVE  FirstGuardEmpty'
  OBVIOUS
<1>1. CASE UNCHANGED <<spc, seen_nonces>>
  BY <1>1 DEF FirstGuardEmpty
<1>2. CASE Restart
  BY <1>2 DEF Restart, FirstGuardEmpty
<1>3. CASE SatStep
  <2>1. spc' # "first"
    BY <1>3 DEF SatStep, FailFirst, FirstHandshake, Rehandshake, ReceiveEmpty,
                ProcessPacket, ReportDone, SendAck
  <2> QED
    BY <2>1 DEF FirstGuardEmpty
<1> QED
  BY <1>1, <1>2, <1>3 DEF Next, vars, satVars
-----------------------------------------------------------------------------
\* The initial states satisfy the inductive invariant.
LEMMA InitIInv == Init => IInv
<1> SUFFICES ASSUME Init PROVE IInv
  OBVIOUS
<1>1. TypeOK
  BY InitTypeOK
<1>2. SealedGenuine /\ TagsSealed
  BY GroundInitInv DEF Init, SealInv
<1>3. /\ executed = <<>> /\ seen_nonces = {} /\ downlink = {}
      /\ spc = "first"
  BY DEF Init, LinkInit, SatInit
<1> QED
  BY <1>1, <1>2, <1>3
     DEF IInv, ExecutedGenuine, FirstGuardEmpty, AckDue, OnlySealedExecuted,
         GuardRemembersExecuted, AtMostOncePerGuard, AckFollowsExecution

\* Every step preserves the inductive invariant.
LEMMA IInvStep == IInv /\ [Next]_vars => IInv'
BY TypeStep, SealStep, GuardStep, OnlySealedStep, AckStep, FirstGuardStep
   DEF IInv, SealInv, GuardInv, AckInv

\* The inductive invariant holds: every tag on the link was made by a ground run
\* and the replay guard accounts for every execution, in every reachable state.
THEOREM Invariance == Spec => []IInv
BY InitIInv, IInvStep, PTL DEF Spec

\* What is executed was sealed by a ground run that shares the session key,
\* whatever was lost, duplicated, reordered or damaged on the way.
THEOREM OnlySealed == Spec => []OnlySealedExecuted
BY Invariance, PTL DEF IInv

\* One replay guard lets no nonce through twice.
THEOREM OncePerGuard == Spec => []AtMostOncePerGuard
BY Invariance, PTL DEF IInv

\* The replay guard holds the nonces of the commands executed under it and no
\* others: no rejected packet uses up a nonce.
THEOREM GuardExact == Spec => []GuardRemembersExecuted
BY Invariance, PTL DEF IInv

\* An ACK answers an executed command, at the address it came from.
THEOREM AckSound == Spec => []AckFollowsExecution
BY Invariance, PTL DEF IInv
-----------------------------------------------------------------------------
\* The replay guard lives as long as the session key it came with.
THEOREM GuardAndSession == Spec => GuardFollowsSession
<1>1. ASSUME IInv, [Next]_vars
      PROVE  /\ session_key' # session_key => seen_nonces' = {}
             /\ epoch' = epoch => seen_nonces \subseteq seen_nonces'
  <2>0. TypeOK /\ FirstGuardEmpty /\ epoch \in Nat
    BY <1>1 DEF IInv, TypeOK, SatTypeOK
  <2>1. epoch' = epoch => seen_nonces \subseteq seen_nonces'
    BY <1>1, <2>0, GuardFrame DEF Executes, mark_seen, vars, satVars
  <2>2. ASSUME NEW d \in uplink, FirstHandshake(d) PROVE seen_nonces' = {}
    BY <2>0, <2>2 DEF FirstHandshake, FirstGuardEmpty
  <2>3. ASSUME Restart \/ \E d \in uplink : Rehandshake(d)
        PROVE  seen_nonces' = {}
    BY <2>3 DEF Restart, Rehandshake
  <2>4. \/ UNCHANGED session_key
        \/ Restart
        \/ \E d \in uplink : FirstHandshake(d) \/ Rehandshake(d)
    BY <1>1 DEF Next, SatStep, FailFirst, ReceiveEmpty, ProcessPacket,
                ReportDone, SendAck, vars, satVars
  <2> QED
    BY <2>1, <2>2, <2>3, <2>4
<1> QED
  BY <1>1, Invariance, PTL DEF Spec, GuardFollowsSession
-----------------------------------------------------------------------------
\* Every step keeps expired commands from execution, if the clock is not behind
\* by as much as the window.
LEMMA ExpiredStep ==
  ASSUME SatSkew > -Window
  PROVE  IInv /\ ExpiredNeverExecuted /\ [Next]_vars => ExpiredNeverExecuted'
<1> SUFFICES ASSUME IInv, ExpiredNeverExecuted, [Next]_vars
             PROVE  ExpiredNeverExecuted'
  OBVIOUS
<1>0. TypeOK /\ SealInv /\ executed \in Seq(Executions)
  BY DEF IInv, SealInv, TypeOK, SatTypeOK
<1>1. CASE UNCHANGED executed
  BY <1>1 DEF ExpiredNeverExecuted
<1>2. ASSUME NEW d \in uplink, NEW ok \in CryptoResults, Executes(d, ok)
      PROVE  ExpiredNeverExecuted'
  <2> DEFINE e == Execution(d)
  <2>1. d.bytes \in sealed /\ is_fresh(d.bytes[2], now + SatSkew)
    BY <1>0, <1>2, AcceptedWasSealed, AcceptedDatagram
       DEF Executes, TypeOK, LinkTypeOK, UplinkTypeOK, SatNow
  <2>2. e.command = d.bytes[4].plaintext
    BY <1>0, <1>2, NewExecution
       DEF Executes, TypeOK, LinkTypeOK, UplinkTypeOK, SatTypeOK
  <2>3. d.bytes[4].plaintext # CommandOf.expired
    <3>1. d.bytes[2] \in Nat /\ now \in Nat
      BY <1>0, <2>1 DEF TypeOK, LinkTypeOK, UplinkTypeOK, GroundTypeOK, Wire
    <3>2. ~(d.bytes[2] <= now - StaleAge)
      BY <2>1, <3>1, WindowAssumption, SatelliteAssumption
         DEF is_fresh, StaleAge
    <3> QED
      BY <1>0, <2>1, <3>2 DEF SealInv, SealedGenuine
  <2> HIDE DEF e
  <2>4. executed' = Append(executed, e)
    BY <1>2 DEF Executes, e
  <2> QED
    BY <1>0, <2>2, <2>3, <2>4, Appended DEF ExpiredNeverExecuted
<1>3. CASE UNCHANGED vars
  BY <1>1, <1>3 DEF vars, satVars
<1> QED
  BY <1>0, <1>1, <1>2, <1>3, GuardFrame

\* With a satellite clock less than a window behind the ground's, the expired
\* command is never executed, however its header is damaged.
THEOREM ExpiredRejected ==
  SatSkew > -Window => (Spec => []ExpiredNeverExecuted)
<1>1. Init => ExpiredNeverExecuted
  BY DEF Init, SatInit, ExpiredNeverExecuted
<1>2. SUFFICES ASSUME SatSkew > -Window PROVE Spec => []ExpiredNeverExecuted
  OBVIOUS
<1>3. IInv /\ ExpiredNeverExecuted /\ [Next]_vars => ExpiredNeverExecuted'
  BY <1>2, ExpiredStep
<1> QED
  BY <1>1, <1>3, Invariance, PTL DEF Spec

-----------------------------------------------------------------------------
(***************************************************************************)
(* As long as no public key is duplicated on the way.                      *)
(***************************************************************************)
\* The datagram of a run's public key, and what tells it from the others.
LEMMA KeyDatagramOf ==
  ASSUME NEW g
  PROVE  /\ KeyDatagram(g).size = PUBLIC_KEY_SIZE
         /\ KeyDatagram(g).from = g
         /\ KeyDatagram(g).bytes[1] = g
BY DEF KeyDatagram, Datagram

\* A step that puts no public key on the link and starts no session.
LEMMA NoNewKey ==
  ASSUME TypeOK, KeysFresh,
         \A d \in uplink' : d.size = PUBLIC_KEY_SIZE => d \in uplink,
         \A g \in Ground : gpc'[g] = "keygen" => gpc[g] = "keygen",
         session_key' \in {session_key, NoKey},
         \A i \in DOMAIN executed' :
           \/ i \in DOMAIN executed /\ executed'[i].key = executed[i].key
           \/ session_key # NoKey /\ executed'[i].key = session_key
  PROVE  KeysFresh'
<1>1. \A d \in uplink' : d.size = PUBLIC_KEY_SIZE =>
                           d = KeyDatagram(d.from) /\ gpc'[d.from] # "keygen"
  BY DatagramSizes DEF KeysFresh, TypeOK, LinkTypeOK, UplinkTypeOK
<1>2. ASSUME NEW g \in Ground,
             gpc'[g] = "keygen" \/ KeyDatagram(g) \in uplink'
      PROVE  /\ session_key' # NoKey => g \notin session_key'[2]
             /\ \A i \in DOMAIN executed' : g \notin executed'[i].key[2]
  <2>1. gpc[g] = "keygen" \/ KeyDatagram(g) \in uplink
    BY <1>2, KeyDatagramOf
  <2> QED
    BY <2>1 DEF KeysFresh
<1> QED
  BY <1>1, <1>2 DEF KeysFresh

\* What a ground run does puts no used public key on the link.
LEMMA GroundKeysStep ==
  ASSUME TypeOK, KeysFresh, NEW g \in Ground, GroundStep(g), UNCHANGED satVars
  PROVE  KeysFresh'
<1>0. executed \in Seq(Executions) /\ gpc \in [Ground -> GroundStates]
  BY DEF TypeOK, SatTypeOK, GroundTypeOK
<1>1. CASE SendKey(g)
  <2>1. /\ gpc[g] = "keygen"
        /\ gpc' = [gpc EXCEPT ![g] = "await"]
        /\ uplink' = uplink \union {KeyDatagram(g)}
        /\ UNCHANGED <<session_key, executed>>
    BY <1>1 DEF SendKey, Goto, satVars
  <2>2. ASSUME NEW d \in uplink', d.size = PUBLIC_KEY_SIZE
        PROVE  d = KeyDatagram(d.from) /\ gpc'[d.from] # "keygen"
    BY <1>0, <2>1, <2>2, KeyDatagramOf DEF KeysFresh
  <2>3. ASSUME NEW h \in Ground,
               gpc'[h] = "keygen" \/ KeyDatagram(h) \in uplink'
        PROVE  gpc[h] = "keygen" \/ KeyDatagram(h) \in uplink
    BY <1>0, <2>1, <2>3, KeyDatagramOf
  <2> QED
    BY <2>1, <2>2, <2>3 DEF KeysFresh
<1>2. ASSUME ~SendKey(g)
      PROVE  /\ \A d \in uplink' : d.size = PUBLIC_KEY_SIZE => d \in uplink
             /\ \E to : to # "keygen" /\ gpc' = [gpc EXCEPT ![g] = to]
  <2>1. \A contents \in PacketContents : contents.size # PUBLIC_KEY_SIZE
    <3>1. NoContents.size # PUBLIC_KEY_SIZE
      BY Sizes DEF NoContents
    <3>2. PUBLIC_KEY_SIZE \notin PacketSizes
      BY Sizes
    <3> QED
      BY <3>1, <3>2 DEF PacketContents
  <2>2. ASSUME NEW seq, NEW contents \in PacketContents,
               send_packet(g, seq, contents)
        PROVE  \A d \in uplink' : d.size = PUBLIC_KEY_SIZE => d \in uplink
    BY <2>1, <2>2 DEF send_packet, Datagram
  <2>3. NoContents \in PacketContents /\ gvalid[g] \in PacketContents
    BY DEF PacketContents, TypeOK, GroundTypeOK
  <2>4. CASE SendNoKey(g) \/ SendReplay(g)
    BY <2>2, <2>3, <2>4 DEF SendNoKey, SendReplay, Goto
  <2>5. CASE CrashInKeygen(g) \/ RecvKey(g)
    <3>1. UNCHANGED uplink
      BY <2>5 DEF CrashInKeygen, RecvKey, linkVars
    <3> QED
      BY <2>5, <3>1 DEF CrashInKeygen, RecvKey, Goto
  <2>6. CASE SendValid(g)
    <3>1. PICK contents \in Contents(g, "valid", now) :
            /\ Goto(g, "valid", "replay") /\ send_packet(g, 1, contents)
            /\ Sealing(contents)
      BY <2>6 DEF SendValid
    <3>2. contents \in PacketContents
      BY <3>1, ScriptContents
         DEF Goto, KeyedStates, TypeOK, LinkTypeOK, UplinkTypeOK
    <3> QED
      BY <2>2, <3>1, <3>2 DEF Goto
  <2>7. CASE SendTampered(g)
    <3>1. PICK contents \in Contents(g, "tampered", now) :
            /\ Goto(g, "tampered", "expired")
            /\ IF contents = NoContents
                 THEN send_packet(g, 3, contents)
                 ELSE send_packet(g, 3,
                        [contents EXCEPT !.bytes = Tampered(contents.bytes)])
            /\ Sealing(contents)
      BY <2>7 DEF SendTampered
    <3>2. /\ contents \in PacketContents
          /\ contents # NoContents =>
               [contents EXCEPT !.bytes = Tampered(contents.bytes)]
                 \in PacketContents
      BY <3>1, ScriptContents
         DEF Goto, KeyedStates, TypeOK, LinkTypeOK, UplinkTypeOK
    <3>3. PICK sent \in PacketContents : send_packet(g, 3, sent)
      BY <3>1, <3>2
    <3> QED
      BY <2>2, <3>1, <3>3 DEF Goto
  <2>8. CASE SendExpired(g)
    <3>1. PICK contents \in Contents(g, "expired", now - StaleAge) :
            /\ Goto(g, "expired", "done") /\ send_packet(g, 4, contents)
            /\ Sealing(contents)
      BY <2>8 DEF SendExpired
    <3>2. now - StaleAge \in Nat
      BY StartAssumption, LinkAssumption, WindowAssumption
         DEF TypeOK, LinkTypeOK, UplinkTypeOK, StaleAge
    <3>3. contents \in PacketContents
      BY <3>1, <3>2, ScriptContents DEF Goto, KeyedStates, TypeOK
    <3> QED
      BY <2>2, <3>1, <3>3 DEF Goto
  <2> QED
    BY <1>2, <2>4, <2>5, <2>6, <2>7, <2>8 DEF GroundStep
<1>3. CASE ~SendKey(g)
  <2>1. /\ \A h \in Ground : gpc'[h] = "keygen" => gpc[h] = "keygen"
        /\ UNCHANGED <<session_key, executed>>
    BY <1>0, <1>2, <1>3 DEF satVars
  <2> QED
    BY <1>0, <1>2, <1>3, <2>1, NoNewKey
<1> QED
  BY <1>1, <1>3

\* A handshake uses up the public key it receives: no execution has used it.
LEMMA HandshakeKeysStep ==
  ASSUME TypeOK, OneGuardPerKey, ~DupKeys, UNCHANGED groundVars,
         NEW d \in uplink, FirstHandshake(d) \/ Rehandshake(d)
  PROVE  OneGuardPerKey'
<1> USE DEF OneGuardPerKey
<1> DEFINE g == d.from
<1>1. /\ d.size = PUBLIC_KEY_SIZE /\ UNCHANGED <<gpc, executed>>
      /\ uplink' = uplink \ {d}
      /\ \E ok : session_key' = SessionKey(boot, d.bytes[1], ok)
  BY DEF FirstHandshake, Rehandshake, Receive, MayDuplicate, groundVars
<1>2. /\ d = KeyDatagram(g) /\ g \in Ground /\ d.bytes[1] = g
      /\ gpc[g] # "keygen"
  BY <1>1, DatagramSizes, KeyDatagramOf
     DEF KeysFresh, TypeOK, LinkTypeOK, UplinkTypeOK
<1>3. session_key' = NoKey \/ session_key'[2] = {boot, g}
  <2>1. boot \in PublicKeys /\ g \in PublicKeys
    BY <1>2, SatelliteAssumption DEF PublicKeys, TypeOK, SatTypeOK
  <2>2. PICK ok : session_key' = SessionKey(boot, g, ok)
    BY <1>1, <1>2
  <2>3. SessionKey(boot, g, ok) = NoKey \/ SessionKey(boot, g, ok)[2] = {boot, g}
    BY <2>1, DerivedKey
  <2> QED
    BY <2>2, <2>3
<1>4. /\ boot \notin Ground
      /\ \A i \in DOMAIN executed :
           executed[i].key # NoKey /\ g \notin executed[i].key[2]
  <2>1. boot \notin Ground
    BY LinkAssumption, SatelliteAssumption DEF TypeOK, SatTypeOK
  <2>2. \A i \in DOMAIN executed : executed[i].key \in SessionKeys
    <3>1. \A i \in DOMAIN executed : executed[i] \in Executions
      BY DEF TypeOK, SatTypeOK
    <3> QED
      BY <3>1 DEF Executions
  <2>3. NoKey \notin SessionKeys
    BY LinkAssumption DEF SessionKeys, PublicKeys
  <2>4. \A i \in DOMAIN executed : g \notin executed[i].key[2]
    BY <1>2 DEF KeysFresh
  <2> QED
    BY <2>1, <2>2, <2>3, <2>4
<1> HIDE DEF g
<1>5. KeysFresh'
  <2>1. \A e \in uplink' : e.size = PUBLIC_KEY_SIZE =>
                             e = KeyDatagram(e.from) /\ gpc'[e.from] # "keygen"
    BY <1>1 DEF KeysFresh
  <2>2. ASSUME NEW h \in Ground,
               gpc'[h] = "keygen" \/ KeyDatagram(h) \in uplink'
        PROVE  /\ h # g
               /\ \A i \in DOMAIN executed : h \notin executed[i].key[2]
    BY <1>1, <1>2, <2>2 DEF KeysFresh
  <2>3. ASSUME NEW h \in Ground,
               gpc'[h] = "keygen" \/ KeyDatagram(h) \in uplink'
        PROVE  session_key' # NoKey => h \notin session_key'[2]
    BY <1>3, <1>4, <2>2, <2>3
  <2> QED
    BY <1>1, <2>1, <2>2, <2>3 DEF KeysFresh
<1>6. \A i \in DOMAIN executed : executed[i].key # session_key'
  BY <1>3, <1>4
<1> QED
  BY <1>1, <1>5, <1>6

\* Every step keeps the public keys on the link unused.
LEMMA KeysStep ==
  TypeOK /\ GuardInv /\ OneGuardPerKey /\ ~DupKeys /\ [Next]_vars
    => OneGuardPerKey'
<1> SUFFICES ASSUME TypeOK, GuardInv, OneGuardPerKey, ~DupKeys, [Next]_vars
             PROVE  OneGuardPerKey'
  OBVIOUS
<1> USE DEF OneGuardPerKey
<1>0. /\ executed \in Seq(Executions) /\ NoKey \notin SessionKeys
      /\ \A i \in DOMAIN executed : executed[i].key \in SessionKeys
  <2>1. executed \in Seq(Executions) /\ NoKey \notin SessionKeys
    BY LinkAssumption DEF TypeOK, SatTypeOK, SessionKeys, PublicKeys
  <2>2. \A i \in DOMAIN executed : executed[i] \in Executions
    BY <2>1
  <2> QED
    BY <2>1, <2>2 DEF Executions
<1>1. ASSUME NEW g \in Ground, GroundStep(g), UNCHANGED satVars
      PROVE  OneGuardPerKey'
  BY <1>1, GroundKeysStep DEF satVars
<1>2. ASSUME NEW d \in uplink, FirstHandshake(d) \/ Rehandshake(d),
             UNCHANGED groundVars
      PROVE  OneGuardPerKey'
  BY <1>2, HandshakeKeysStep
<1>3. ASSUME NEW d \in uplink, NEW ok \in CryptoResults, Executes(d, ok)
      PROVE  OneGuardPerKey'
  <2> DEFINE e == Execution(d)
             n == Len(executed) + 1
  <2>1. e.key = session_key /\ e.epoch = epoch /\ e \in Executions
    BY <1>3, NewExecution
       DEF Executes, TypeOK, LinkTypeOK, UplinkTypeOK, SatTypeOK
  <2>2. session_key # NoKey
    BY <1>0, <2>1 DEF Executions
  <2> HIDE DEF e
  <2>3. /\ executed' = Append(executed, e)
        /\ uplink' \subseteq uplink
        /\ UNCHANGED <<gpc, session_key, epoch>>
    BY <1>3 DEF Executes, e
  <2>4. /\ DOMAIN executed' = DOMAIN executed \union {n}
        /\ executed'[n] = e
        /\ \A i \in DOMAIN executed : executed'[i] = executed[i]
    BY <1>0, <2>3, Appended
  <2> HIDE DEF n
  <2>5. KeysFresh'
    BY <2>1, <2>2, <2>3, <2>4, NoNewKey
  <2> QED
    BY <2>1, <2>3, <2>4, <2>5
<1>4. ASSUME UNCHANGED <<gpc, executed>>,
             \A d \in uplink' : d.size = PUBLIC_KEY_SIZE => d \in uplink,
             \/ UNCHANGED <<session_key, epoch>>
             \/ session_key' = NoKey
      PROVE  OneGuardPerKey'
  <2>1. KeysFresh'
    BY <1>4, NoNewKey
  <2> QED
    BY <1>0, <1>4, <2>1
<1>5. ASSUME NEW d \in uplink, UNCHANGED groundVars,
             FailFirst(d) \/ ReceiveEmpty(d) \/ ProcessPacket(d)
      PROVE  OneGuardPerKey'
  <2>1. /\ UNCHANGED <<gpc, session_key, epoch>> /\ uplink' \subseteq uplink
    BY <1>5 DEF FailFirst, ReceiveEmpty, ProcessPacket, Receive, groundVars
  <2>2. CASE UNCHANGED executed
    BY <1>4, <2>1, <2>2
  <2>3. CASE ~UNCHANGED executed
    <3>1. \E ok \in CryptoResults : Executes(d, ok)
      BY <1>5, <2>1, <2>3 DEF FailFirst, ReceiveEmpty, ProcessPacket, Executes,
                              groundVars
    <3> QED
      BY <1>3, <3>1
  <2> QED
    BY <2>2, <2>3
<1>6. CASE (ReportDone \/ SendAck \/ Restart) /\ UNCHANGED groundVars
  BY <1>4, <1>6 DEF ReportDone, SendAck, Restart, linkVars, groundVars
<1>7. CASE (LoseUp \/ LoseDown \/ Tick) /\ UNCHANGED <<groundVars, satVars>>
  BY <1>4, <1>7 DEF LoseUp, LoseDown, Tick, groundVars, satVars
<1>8. CASE Damage /\ UNCHANGED <<groundVars, satVars>>
  <2>1. PICK d \in uplink :
          /\ WellFormed(d.size)
          /\ \E bad \in Damaged(d) : uplink' \subseteq uplink \union {bad}
    BY <1>8 DEF Damage
  <2>2. PICK bad \in Damaged(d) : uplink' \subseteq uplink \union {bad}
    BY <2>1
  <2>3. bad.size = d.size
    BY <2>1, DamagedDatagram DEF TypeOK, LinkTypeOK, UplinkTypeOK
  <2>4. d.size # PUBLIC_KEY_SIZE
    BY <2>1, Sizes
  <2> QED
    BY <1>4, <1>8, <2>2, <2>3, <2>4 DEF groundVars, satVars
<1>9. CASE UNCHANGED vars
  BY <1>4, <1>9 DEF vars, linkVars, groundVars, satVars
<1> QED
  BY <1>1, <1>2, <1>5, <1>6, <1>7, <1>8, <1>9 DEF Next, SatStep, Network

\* What the satellite accepts it has not executed before.
LEMMA AcceptedIsNew ==
  ASSUME TypeOK, GuardInv, OneGuardPerKey, NEW d \in uplink, NEW ok,
         Reason(d, session_key, seen_nonces, SatNow, ok) = "OK"
  PROVE  \A i \in DOMAIN executed : executed[i].bytes # d.bytes
<1>1. /\ make_nonce_key(d.bytes[1], d.bytes[3]) \notin seen_nonces
      /\ d.bytes[5].key = session_key
  BY AcceptedDatagram DEF TypeOK, LinkTypeOK, UplinkTypeOK
<1>2. SUFFICES ASSUME NEW i \in DOMAIN executed, executed[i].bytes = d.bytes
               PROVE  FALSE
  OBVIOUS
<1>3. executed[i].key = session_key
  BY <1>1, <1>2 DEF GuardInv, ExecutedGenuine
<1>4. executed[i].epoch = epoch
  BY <1>3 DEF OneGuardPerKey
<1>5. executed[i].nonce \in seen_nonces
  BY <1>4 DEF GuardInv, GuardRemembersExecuted
<1> QED
  BY <1>1, <1>2, <1>5 DEF GuardInv, ExecutedGenuine

\* Every step keeps the executed packets distinct.
LEMMA OnceStep ==
  TypeOK /\ GuardInv /\ OneGuardPerKey /\ AtMostOnce /\ [Next]_vars
    => AtMostOnce'
<1> SUFFICES ASSUME TypeOK, GuardInv, OneGuardPerKey, AtMostOnce, [Next]_vars
             PROVE  AtMostOnce'
  OBVIOUS
<1>0. executed \in Seq(Executions)
  BY DEF TypeOK, SatTypeOK
<1>1. CASE UNCHANGED executed
  BY <1>1 DEF AtMostOnce
<1>2. ASSUME NEW d \in uplink, NEW ok \in CryptoResults, Executes(d, ok)
      PROVE  AtMostOnce'
  <2> DEFINE e == Execution(d)
             n == Len(executed) + 1
  <2>2. e.bytes = d.bytes
    BY <1>2, NewExecution
       DEF Executes, TypeOK, LinkTypeOK, UplinkTypeOK, SatTypeOK
  <2>3. \A i \in DOMAIN executed : executed[i].bytes # d.bytes
    BY <1>2, AcceptedIsNew DEF Executes
  <2> HIDE DEF e
  <2>4. executed' = Append(executed, e)
    BY <1>2 DEF Executes, e
  <2>5. /\ DOMAIN executed' = DOMAIN executed \union {n}
        /\ executed'[n] = e
        /\ \A i \in DOMAIN executed : executed'[i] = executed[i]
    BY <1>0, <2>4, Appended
  <2> HIDE DEF n
  <2> QED
    BY <2>2, <2>3, <2>5 DEF AtMostOnce
<1>3. CASE UNCHANGED vars
  BY <1>1, <1>3 DEF vars, satVars
<1> QED
  BY <1>1, <1>2, <1>3, GuardFrame

\* As long as the network does not duplicate a public key, no session key has
\* two replay guards, and no packet is executed twice.
THEOREM Once == ~DupKeys => (Spec => [](OneGuardPerKey /\ AtMostOnce))
<1>1. Init => OneGuardPerKey /\ AtMostOnce
  <2> SUFFICES ASSUME Init PROVE OneGuardPerKey /\ AtMostOnce
    OBVIOUS
  <2>1. /\ executed = <<>> /\ session_key = NoKey
        /\ \A d \in uplink : d.size = 17
    BY DEF Init, LinkInit, SatInit, LegacyDatagram, Datagram
  <2> QED
    BY <2>1, Sizes DEF OneGuardPerKey, KeysFresh, AtMostOnce
<1>2. SUFFICES ASSUME ~DupKeys
               PROVE  Spec => [](OneGuardPerKey /\ AtMostOnce)
  OBVIOUS
<1>3. IInv /\ OneGuardPerKey /\ AtMostOnce /\ [Next]_vars
        => OneGuardPerKey' /\ AtMostOnce'
  BY <1>2, KeysStep, OnceStep DEF IInv, GuardInv
<1> QED
  BY <1>1, <1>3, Invariance, PTL DEF Spec

-----------------------------------------------------------------------------
\* Every step of the link is a step of CommandDelivery or changes nothing there.
LEMMA PromiseStep ==
  TypeOK /\ SealInv /\ GuardInv /\ OneGuardPerKey /\ [Next]_vars
    => [Promise!Next]_<<sealed, ExecutedPackets>>
<1> SUFFICES ASSUME TypeOK, SealInv, GuardInv, OneGuardPerKey, [Next]_vars
             PROVE  Promise!Next
  OBVIOUS
<1>0. executed \in Seq(Executions)
  BY DEF TypeOK, SatTypeOK
<1>1. CASE UNCHANGED executed
  BY <1>1, KeyFrame DEF Promise!Next, Promise!Seal, ExecutedPackets
<1>2. ASSUME NEW d \in uplink, NEW ok \in CryptoResults, Executes(d, ok)
      PROVE  Promise!Execute
  <2> DEFINE e == Execution(d)
  <2>1. e.bytes = d.bytes /\ e \in Executions
    BY <1>2, NewExecution
       DEF Executes, TypeOK, LinkTypeOK, UplinkTypeOK, SatTypeOK
  <2>2. d.bytes \in sealed
    BY <1>2, AcceptedWasSealed DEF Executes, TypeOK, LinkTypeOK
  <2>3. \A i \in DOMAIN executed : executed[i].bytes # d.bytes
    BY <1>2, AcceptedIsNew DEF Executes
  <2> HIDE DEF e
  <2>4. executed' = Append(executed, e) /\ UNCHANGED sealed
    BY <1>2 DEF Executes, e
  <2>5. ExecutedPackets' = Append(ExecutedPackets, d.bytes)
    BY <1>0, <2>1, <2>4 DEF ExecutedPackets
  <2>6. \A i \in DOMAIN ExecutedPackets : ExecutedPackets[i] # d.bytes
    BY <2>3 DEF ExecutedPackets
  <2> QED
    BY <2>2, <2>4, <2>5, <2>6 DEF Promise!Execute
<1>3. CASE UNCHANGED vars
  BY <1>1, <1>3 DEF vars, satVars
<1> QED
  BY <1>1, <1>2, <1>3, GuardFrame DEF Promise!Next

\* Under the same assumption the link implements the delivery it promises.
THEOREM Delivery == ~DupKeys => (Spec => PromiseKept)
<1>1. Init => Promise!Init
  BY DEF Init, GroundInit, SatInit, Promise!Init, ExecutedPackets
<1>2. SUFFICES ASSUME ~DupKeys PROVE Spec => PromiseKept
  OBVIOUS
<1>3. IInv /\ OneGuardPerKey /\ [Next]_vars
        => [Promise!Next]_<<sealed, ExecutedPackets>>
  BY PromiseStep DEF IInv, SealInv, GuardInv
<1>4. Spec => []OneGuardPerKey
  BY <1>2, Once, PTL
<1> QED
  BY <1>1, <1>3, <1>4, Invariance, PTL DEF Spec, PromiseKept, Promise!Spec

=============================================================================
