--------------------------- MODULE GroundStation ----------------------------
(***************************************************************************)
(* The runs of phase 3's secure_ground_station: one handshake and then a   *)
(* fixed script of four packets, sent without waiting for any answer.  A   *)
(* run that stops taking steps stands for one that was killed.             *)
(***************************************************************************)
EXTENDS UdpLink

StaleAge == 2 * Window   \* the 60000 ms subtracted for the expired packet

\* The clock is past 1970 by more than a minute: now_ms() - 60000 does not wrap.
ASSUME StartAssumption == StartTime >= StaleAge

VARIABLES
  gpc,      \* the statement each run is at
  gkey,     \* session_key of each run
  gvalid,   \* valid_packet of each run, empty until it is created
  sealed    \* history: the bytes of every packet encrypted, before tampering

groundVars == <<gpc, gkey, gvalid, sealed>>

SESSION_ID == 2026

GroundStates == {"keygen", "await", "valid", "replay", "tampered", "expired",
                 "done", "failed"}

\* The command and the nonce of each packet of the script.
CommandOf == [valid |-> "CAPTURE_IMAGE", tampered |-> "OPEN_PAYLOAD_DOOR",
              expired |-> "RESET_SYSTEM"]

\* Mutant: the nonce of the first packet is used again for the second.
NonceOfReused == [valid |-> 32, tampered |-> 32, expired |-> 34]

NonceOf == [valid |-> 32, tampered |-> 33, expired |-> 34]

\* Bytes of each command with its "CMD:" prefix: the length of its ciphertext.
CommandSize == [CAPTURE_IMAGE |-> 17, OPEN_PAYLOAD_DOOR |-> 21,
                RESET_SYSTEM |-> 16]

(***************************************************************************)
(* create_secure_command_packet; contents is what sendto is given, and     *)
(* empty when the encryption fails.                                        *)
(***************************************************************************)
NoContents == [size |-> 0, bytes |-> <<>>]

PacketBytes(key, timestamp_ms, nonce, command) ==
  LET header == [session_id |-> SESSION_ID, timestamp_ms |-> timestamp_ms,
                 nonce |-> nonce]
      box    == encrypt_chacha20_poly1305(key, nonce, command,
                                          build_aad(header))
  IN  serialize_packet([session_id |-> SESSION_ID,
                        timestamp_ms |-> timestamp_ms, nonce |-> nonce,
                        ciphertext |-> box.ciphertext, tag |-> box.tag])

create_secure_command_packet(key, timestamp_ms, nonce, command, ok) ==
  IF ok THEN [size  |-> HEADER_SIZE + CommandSize[command] + TAG_SIZE,
              bytes |-> PacketBytes(key, timestamp_ms, nonce, command)]
        ELSE NoContents

send_packet(g, seq, contents) ==
  uplink' = uplink \union {Datagram(g, seq, contents.size, contents.bytes)}

Goto(g, from, to) ==
  /\ gpc[g] = from
  /\ gpc' = [gpc EXCEPT ![g] = to]
-----------------------------------------------------------------------------
GroundInit ==
  /\ gpc = [g \in Ground |-> "keygen"]
  /\ gkey = [g \in Ground |-> NoKey]
  /\ gvalid = [g \in Ground |-> NoContents]
  /\ sealed = {}

\* Generate the key pair and send its public half.
SendKey(g) ==
  /\ Goto(g, "keygen", "await")
  /\ uplink' = uplink \union {KeyDatagram(g)}
  /\ UNCHANGED <<downlink, now, gkey, gvalid, sealed>>

\* get_raw_public_key fails and returns no bytes, which are sent all the same.
SendNoKey(g) ==
  /\ CryptoMayFail
  /\ Goto(g, "keygen", "await")
  /\ send_packet(g, 0, NoContents)
  /\ UNCHANGED <<downlink, now, gkey, gvalid, sealed>>

\* generate_x25519_keypair returned a null pointer, which is then used.
CrashInKeygen(g) ==
  /\ CryptoMayFail
  /\ Goto(g, "keygen", "failed")
  /\ UNCHANGED <<linkVars, gkey, gvalid, sealed>>

\* The first datagram back is taken for the satellite's public key, whoever
\* sent it; the recvfrom has no timeout.
RecvKey(g) ==
  \E d \in downlink, ok \in CryptoResults :
    /\ d.to = g
    /\ downlink' = downlink \ {d}
    /\ IF d.size = PUBLIC_KEY_SIZE /\ ok
         THEN /\ Goto(g, "await", "valid")
              /\ gkey' = [gkey EXCEPT ![g] = SessionKey(g, d.bytes[1], TRUE)]
         ELSE Goto(g, "await", "failed") /\ UNCHANGED gkey
    /\ UNCHANGED <<uplink, now, gvalid, sealed>>

\* What creating a packet of the script may give, and its record in sealed.
Contents(g, kind, timestamp_ms) ==
  {create_secure_command_packet(gkey[g], timestamp_ms, NonceOf[kind],
                                CommandOf[kind], ok) : ok \in CryptoResults}

Sealing(contents) ==
  sealed' = IF contents = NoContents THEN sealed
                                     ELSE sealed \union {contents.bytes}

SendValid(g) ==
  \E contents \in Contents(g, "valid", now) :
    /\ Goto(g, "valid", "replay")
    /\ gvalid' = [gvalid EXCEPT ![g] = contents]
    /\ send_packet(g, 1, contents)
    /\ Sealing(contents)
    /\ UNCHANGED <<downlink, now, gkey>>

\* The same packet once more.
SendReplay(g) ==
  /\ Goto(g, "replay", "tampered")
  /\ send_packet(g, 2, gvalid[g])
  /\ UNCHANGED <<downlink, now, gkey, gvalid, sealed>>

\* A second command, the first byte of its ciphertext flipped before sending.
SendTampered(g) ==
  \E contents \in Contents(g, "tampered", now) :
    /\ Goto(g, "tampered", "expired")
    /\ IF contents = NoContents
         THEN send_packet(g, 3, contents)
         ELSE send_packet(g, 3,
                [contents EXCEPT !.bytes = Tampered(contents.bytes)])
    /\ Sealing(contents)
    /\ UNCHANGED <<downlink, now, gkey, gvalid>>

\* A third command, timestamped a minute ago.
SendExpired(g) ==
  \E contents \in Contents(g, "expired", now - StaleAge) :
    /\ Goto(g, "expired", "done")
    /\ send_packet(g, 4, contents)
    /\ Sealing(contents)
    /\ UNCHANGED <<downlink, now, gkey, gvalid>>

GroundStep(g) ==
  \/ SendKey(g) \/ SendNoKey(g) \/ CrashInKeygen(g) \/ RecvKey(g)
  \/ SendValid(g) \/ SendReplay(g) \/ SendTampered(g) \/ SendExpired(g)
=============================================================================
