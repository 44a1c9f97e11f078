----------------------------- MODULE GroundLink -----------------------------
(***************************************************************************)
(* What the ground runs and the UDP path keep, whichever satellite listens *)
(* on port 9000: what is on its way and who made it.                       *)
(***************************************************************************)
EXTENDS GroundStation

\* A ground run has derived its session key.
KeyedStates == {"valid", "replay", "tampered", "expired", "done"}

PublicKeys  == Ground \union Nat
SessionKeys == {HkdfInfo} \X SUBSET PublicKeys
Commands    == DOMAIN CommandSize
Nonces      == Nat
Headers     == Nat \X Nat \X Nonces
Ciphertexts == [key : SessionKeys, nonce : Nonces, plaintext : Commands,
                flipped : BOOLEAN]
Tags        == [key : SessionKeys, nonce : Nonces, aad : Headers,
                ciphertext : Ciphertexts]
Wire        == Nat \X Nat \X Nonces \X Ciphertexts \X Tags
Plain       == {<<>>, <<"STATUS_CHECK">>}
KeyBytes    == {<<k>> : k \in Ground}

PacketSizes    == HEADER_SIZE + TAG_SIZE .. 2048
PacketContents == {NoContents} \union [size : PacketSizes, bytes : Wire]

\* A public key is recognised by its size alone: 32 bytes are a public key,
\* at least 40 are a packet, anything else is neither.
Datagrams ==
  [from : Ground, seq : {0}, size : {PUBLIC_KEY_SIZE}, bytes : KeyBytes]
  \union [from : Ground \union Legacy, seq : 0..4, size : {0, 17}, bytes : Plain]
  \union [from : Ground, seq : 1..4, size : PacketSizes, bytes : Wire]

UplinkTypeOK ==
  /\ uplink \subseteq Datagrams
  /\ now \in Nat /\ now >= StartTime

GroundTypeOK ==
  /\ gpc \in [Ground -> GroundStates]
  /\ gkey \in [Ground -> SessionKeys \union {NoKey}]
  /\ gvalid \in [Ground -> PacketContents]
  /\ \A g \in Ground : gkey[g] = NoKey <=> gpc[g] \notin KeyedStates
  /\ sealed \subseteq Wire

\* What a satellite owes the ground runs: 32 bytes it sends are a public key.
KeyReplies ==
  \A r \in downlink : r.size = PUBLIC_KEY_SIZE => r.bytes[1] \in PublicKeys
-----------------------------------------------------------------------------
\* What a packet's tag says: the header and the ciphertext it was made for.
TagOf(bytes) ==
  poly1305(bytes[5].key, bytes[3], <<bytes[1], bytes[2], bytes[3]>>, bytes[4])

SealedGenuine ==
  \A b \in sealed :
    /\ b[5] = TagOf(b)
    /\ \E g \in Ground : gkey[g] = b[5].key
    /\ b[4].plaintext = CommandOf.expired => b[2] <= now - StaleAge

\* Whatever is done to a packet, its tag was made by a ground run.
TagsSealed ==
  /\ \A d \in uplink :
       d.size \in PacketSizes => \E b \in sealed : b[5] = d.bytes[5]
  /\ \A g \in Ground : gvalid[g] # NoContents =>
                         \E b \in sealed : b[5] = gvalid[g].bytes[5]

\* Every tag on the link was made by a ground run, with its session key.
SealInv == SealedGenuine /\ TagsSealed
=============================================================================
