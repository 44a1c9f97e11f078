-------------------------- MODULE Phase3Satellite ---------------------------
(***************************************************************************)
(* Phase 3's secure_satellite_node: one handshake, four datagrams, exit.   *)
(* There is no ACK and no further handshake: a public key that arrives in  *)
(* the loop is a packet too short to be one.                               *)
(***************************************************************************)
EXTENDS UdpLink

VARIABLES
  spc,          \* where the program is
  session_key,
  seen_nonces,  \* replay_guard
  handled,      \* history: the datagrams of the loop and what became of them
  executed      \* history: the packets executed, in order

satVars == <<spc, session_key, seen_nonces, handled, executed>>

SatStates == {"first", "loop", "done", "failed"}

Slots == 4   \* iterations of the loop, whatever arrives

SatelliteKey == 1   \* names satellite_keypair

SatInit ==
  /\ spc = "first"
  /\ session_key = NoKey
  /\ seen_nonces = {}
  /\ handled = <<>> /\ executed = <<>>
-----------------------------------------------------------------------------
\* The first datagram is not a public key, or no key pair could be generated.
FailFirst(d) ==
  /\ spc = "first"
  /\ Receive(d)
  /\ d.size # PUBLIC_KEY_SIZE \/ CryptoMayFail
  /\ spc' = "failed"
  /\ UNCHANGED <<downlink, now, session_key, seen_nonces, handled, executed>>

\* Reply with the public key (nothing, if it could not be extracted), then
\* derive; a failed derivation ends the program.
Handshake(d) ==
  /\ spc = "first"
  /\ Receive(d)
  /\ d.size = PUBLIC_KEY_SIZE
  /\ \E extracted, derived \in CryptoResults :
       /\ downlink' = downlink \union
            {IF extracted THEN Reply(d.from, 0, PUBLIC_KEY_SIZE, <<SatelliteKey>>)
                          ELSE Reply(d.from, 0, 0, <<>>)}
       /\ session_key' = SessionKey(SatelliteKey, d.bytes[1], derived)
       /\ spc' = IF derived THEN "loop" ELSE "failed"
  /\ UNCHANGED <<now, seen_nonces, handled, executed>>

\* Mutant: the loop runs once too often.
HandleOnceMore(d, reason) ==
  /\ handled' = Append(handled, [datagram |-> d, reason |-> reason])
  /\ spc' = IF Len(handled) = Slots THEN "done" ELSE "loop"

\* One iteration of the loop is used up; the fourth is the last.
Handle(d, reason) ==
  /\ handled' = Append(handled, [datagram |-> d, reason |-> reason])
  /\ spc' = IF Len(handled) + 1 = Slots THEN "done" ELSE "loop"

TakeEmpty(d) ==
  /\ spc = "loop"
  /\ Receive(d)
  /\ d.size = 0
  /\ Handle(d, "EMPTY")
  /\ UNCHANGED <<downlink, now, session_key, seen_nonces, executed>>

\* process_secure_packet.
TakePacket(d) ==
  /\ spc = "loop"
  /\ Receive(d)
  /\ d.size # 0
  /\ \E ok \in CryptoResults :
       LET reason == Reason(d, session_key, seen_nonces, now, ok)
       IN  /\ Handle(d, reason)
           /\ IF reason = "OK"
                THEN /\ seen_nonces' = mark_seen(seen_nonces, d.bytes[1], d.bytes[3])
                     /\ executed' = Append(executed, d.bytes)
                ELSE UNCHANGED <<seen_nonces, executed>>
  /\ UNCHANGED <<downlink, now, session_key>>

SatStep ==
  \E d \in uplink :
    FailFirst(d) \/ Handshake(d) \/ TakeEmpty(d) \/ TakePacket(d)
=============================================================================
