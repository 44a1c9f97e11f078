--------------------------- MODULE SatelliteNode ----------------------------
(***************************************************************************)
(* Phase 5's secure_satellite_node: one thread that waits for a handshake, *)
(* then loops on recvfrom, handling packets and further handshakes.  The   *)
(* report to the dashboard is a blocking call of its own step, and so is   *)
(* the ACK, so that the process may die between them.                      *)
(***************************************************************************)
EXTENDS UdpLink

CONSTANTS
  SatSkew,    \* how far the satellite's clock is ahead of the ground's
  MaxBoots,   \* bound on the starts of the program
  NoPeer,     \* ground_addr before the first datagram
  MaxEpochs   \* bound on the AntiReplay objects constructed

ASSUME SatelliteAssumption ==
  SatSkew \in Int /\ MaxBoots \in Nat \ {0} /\ MaxEpochs \in Nat

VARIABLES
  spc,               \* where the program is
  boot,              \* which start of the program: names satellite_keypair
  satellite_public,  \* the bytes sent for the public key
  session_key,
  seen_nonces,       \* replay_guard
  ground_addr,       \* the sender of the last datagram received
  reason,            \* the decision being reported
  epoch,             \* history: which AntiReplay object replay_guard is
  executed           \* history: the commands executed, in order

satVars == <<spc, boot, satellite_public, session_key, seen_nonces,
             ground_addr, reason, epoch, executed>>

SatStates == {"first", "loop", "report", "ack", "exited"}

SatNow == now + SatSkew

Ack == <<"A", "C", "K">>

SatInit ==
  /\ spc = "first"
  /\ boot = 1
  /\ satellite_public = <<>>
  /\ session_key = NoKey
  /\ seen_nonces = {}
  /\ ground_addr = NoPeer
  /\ reason = "none"
  /\ epoch = 1
  /\ executed = <<>>

\* Mutants: the reply is not sent; its 32 bytes are not the public key.
SendNothing(to, public) == UNCHANGED downlink

SendBlankKey(to, public) ==
  downlink' = downlink \union {Reply(to, 0, PUBLIC_KEY_SIZE, <<>>)}

\* sendto of the public key, empty if it could not be extracted.
SendPublicKey(to, public) ==
  downlink' = downlink \union
    {Reply(to, 0, IF public = <<>> THEN 0 ELSE PUBLIC_KEY_SIZE, public)}
-----------------------------------------------------------------------------
\* The first datagram is not a public key, or no key pair could be generated
\* (a null pointer, then used): the program ends.
FailFirst(d) ==
  /\ spc = "first"
  /\ Receive(d)
  /\ d.size # PUBLIC_KEY_SIZE \/ CryptoMayFail
  /\ spc' = "exited"
  /\ ground_addr' = d.from
  /\ UNCHANGED <<downlink, now, boot, satellite_public, session_key,
                 seen_nonces, reason, epoch, executed>>

\* The first handshake: the reply goes out before the key is derived, and a
\* failed derivation ends the program.
FirstHandshake(d) ==
  /\ spc = "first"
  /\ Receive(d)
  /\ d.size = PUBLIC_KEY_SIZE
  /\ ground_addr' = d.from
  /\ \E extracted, derived \in CryptoResults :
       /\ satellite_public' = IF extracted THEN <<boot>> ELSE <<>>
       /\ SendPublicKey(d.from, satellite_public')
       /\ session_key' = SessionKey(boot, d.bytes[1], derived)
       /\ spc' = IF derived THEN "loop" ELSE "exited"
  /\ UNCHANGED <<now, boot, seen_nonces, reason, epoch, executed>>

\* Mutant: the replay guard of the old session is kept.
RehandshakeKeepingGuard(d) ==
  /\ spc = "loop" /\ epoch < MaxEpochs
  /\ Receive(d) /\ d.size = PUBLIC_KEY_SIZE
  /\ ground_addr' = d.from
  /\ SendPublicKey(d.from, satellite_public)
  /\ \E derived \in CryptoResults :
       session_key' = SessionKey(boot, d.bytes[1], derived)
  /\ epoch' = epoch + 1
  /\ UNCHANGED <<now, spc, boot, satellite_public, seen_nonces, reason,
                 executed>>

\* Mutant: if the derivation fails the old session key is kept.
RehandshakeKeepingKey(d) ==
  /\ spc = "loop" /\ epoch < MaxEpochs
  /\ Receive(d) /\ d.size = PUBLIC_KEY_SIZE
  /\ ground_addr' = d.from
  /\ SendPublicKey(d.from, satellite_public)
  /\ \E derived \in CryptoResults :
       session_key' = IF derived THEN SessionKey(boot, d.bytes[1], TRUE)
                                 ELSE session_key
  /\ seen_nonces' = {}
  /\ epoch' = epoch + 1
  /\ UNCHANGED <<now, spc, boot, satellite_public, reason, executed>>

\* A public key in the loop: reply with the same public key, derive, and
\* start a new replay guard, whether or not the derivation succeeded.
Rehandshake(d) ==
  /\ spc = "loop"
  /\ epoch < MaxEpochs
  /\ Receive(d)
  /\ d.size = PUBLIC_KEY_SIZE
  /\ ground_addr' = d.from
  /\ SendPublicKey(d.from, satellite_public)
  /\ \E derived \in CryptoResults :
       session_key' = SessionKey(boot, d.bytes[1], derived)
  /\ seen_nonces' = {}
  /\ epoch' = epoch + 1
  /\ UNCHANGED <<now, spc, boot, satellite_public, reason, executed>>

\* An empty datagram: back to recvfrom.
ReceiveEmpty(d) ==
  /\ spc = "loop"
  /\ Receive(d)
  /\ d.size = 0
  /\ ground_addr' = d.from
  /\ UNCHANGED <<downlink, now, spc, boot, satellite_public, session_key,
                 seen_nonces, reason, epoch, executed>>

\* One entry of the history executed.
Execution(d) ==
  LET packet == deserialize_packet(d.bytes)
  IN  [bytes   |-> d.bytes,
       key     |-> session_key,
       command |-> packet.ciphertext.plaintext,
       nonce   |-> make_nonce_key(packet.session_id, packet.nonce),
       from    |-> d.from,
       epoch   |-> epoch]

\* Mutant: the nonce is marked before the packet is authenticated.
ProcessPacketMarkingFirst(d) ==
  /\ spc = "loop"
  /\ Receive(d) /\ d.size \notin {0, PUBLIC_KEY_SIZE}
  /\ ground_addr' = d.from
  /\ \E ok \in CryptoResults :
       /\ reason' = Reason(d, session_key, seen_nonces, SatNow, ok)
       /\ seen_nonces' = IF reason' \in {"OK", "TAG_FAIL"}
                           THEN mark_seen(seen_nonces, d.bytes[1], d.bytes[3])
                           ELSE seen_nonces
       /\ executed' = IF reason' = "OK" THEN Append(executed, Execution(d))
                                        ELSE executed
  /\ spc' = "report"
  /\ UNCHANGED <<downlink, now, boot, satellite_public, session_key, epoch>>

\* process_secure_packet up to its report: decide and, if the packet is
\* authentic, mark its nonce and execute its command.
ProcessPacket(d) ==
  /\ spc = "loop"
  /\ Receive(d)
  /\ d.size \notin {0, PUBLIC_KEY_SIZE}
  /\ ground_addr' = d.from
  /\ \E ok \in CryptoResults :
       /\ reason' = Reason(d, session_key, seen_nonces, SatNow, ok)
       /\ IF reason' = "OK"
            THEN /\ seen_nonces' = mark_seen(seen_nonces, d.bytes[1], d.bytes[3])
                 /\ executed' = Append(executed, Execution(d))
            ELSE UNCHANGED <<seen_nonces, executed>>
  /\ spc' = "report"
  /\ UNCHANGED <<downlink, now, boot, satellite_public, session_key, epoch>>

\* Mutant: rejected packets are acknowledged too.
ReportDoneThenAck ==
  /\ spc = "report"
  /\ spc' = "ack"
  /\ UNCHANGED <<linkVars, boot, satellite_public, session_key, seen_nonces,
                 ground_addr, reason, epoch, executed>>

\* post_security_event returns, whatever became of the event.
ReportDone ==
  /\ spc = "report"
  /\ spc' = IF reason = "OK" THEN "ack" ELSE "loop"
  /\ reason' = IF reason = "OK" THEN reason ELSE "none"
  /\ UNCHANGED <<linkVars, boot, satellite_public, session_key, seen_nonces,
                 ground_addr, epoch, executed>>

\* The ACK of an executed command, to the address it came from.  seq records
\* which execution it acknowledges; the three bytes do not say.
SendAck ==
  /\ spc = "ack"
  /\ downlink' = downlink \union {Reply(ground_addr, Len(executed), 3, Ack)}
  /\ spc' = "loop"
  /\ reason' = "none"
  /\ UNCHANGED <<uplink, now, boot, satellite_public, session_key, seen_nonces,
                 ground_addr, epoch, executed>>

\* The program dies, or has exited, and is started again: everything it held
\* was in memory.  Datagrams on their way wait for the new socket.
Restart ==
  /\ boot < MaxBoots
  /\ epoch < MaxEpochs
  /\ spc' = "first"
  /\ boot' = boot + 1
  /\ satellite_public' = <<>>
  /\ session_key' = NoKey
  /\ seen_nonces' = {}
  /\ ground_addr' = NoPeer
  /\ reason' = "none"
  /\ epoch' = epoch + 1
  /\ UNCHANGED <<linkVars, executed>>

SatStep ==
  \/ \E d \in uplink :
       \/ FailFirst(d) \/ FirstHandshake(d) \/ Rehandshake(d)
       \/ ReceiveEmpty(d) \/ ProcessPacket(d)
  \/ ReportDone
  \/ SendAck
=============================================================================
