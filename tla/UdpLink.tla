------------------------------ MODULE UdpLink -------------------------------
(***************************************************************************)
(* The UDP path between the Ground Station processes and port 9000 of the  *)
(* Satellite Node, and the clock both hosts read.  UDP may reorder, lose,  *)
(* duplicate and, past its checksum, damage datagrams; the README's lab    *)
(* adds delay and loss with netem.  External: modelled from how the        *)
(* programs use sendto and recvfrom.                                       *)
(***************************************************************************)
EXTENDS SecureReceiver, FiniteSets

CONSTANTS
  Ground,          \* runs of the Ground Station program
  Legacy,          \* runs of the plaintext ground_sender of phase 2
  Lossy,           \* whether datagrams may be lost
  DupKeys,         \* whether public-key datagrams may be duplicated
  DupData,         \* whether any other datagram may be duplicated
  Damaging,        \* whether packets may be damaged in flight
  DamagedHeaders,  \* the headers a damaged packet may arrive with
  StartTime,       \* the clock when the model starts
  MaxNow           \* bound on the clock

ASSUME LinkAssumption ==
  /\ Lossy \in BOOLEAN /\ DupKeys \in BOOLEAN
  /\ DupData \in BOOLEAN /\ Damaging \in BOOLEAN
  /\ (Ground \union Legacy) \intersect Nat = {}
  /\ DamagedHeaders \subseteq Nat \X Nat \X Nat
  /\ StartTime \in Nat /\ MaxNow \in Nat
  /\ NoKey \notin {HkdfInfo} \X SUBSET (Ground \union Nat)

VARIABLES
  uplink,     \* datagrams on their way to the satellite
  downlink,   \* datagrams on their way to the ground runs
  now         \* real time, the reading of the ground's clock

linkVars == <<uplink, downlink, now>>

\* A datagram of the uplink: seq tells the datagrams of one sender apart, so
\* that sending the same bytes twice puts two datagrams in the set.
Datagram(from, seq, size, bytes) ==
  [from |-> from, seq |-> seq, size |-> size, bytes |-> bytes]

KeyDatagram(g) == Datagram(g, 0, PUBLIC_KEY_SIZE, <<g>>)

\* "CMD: STATUS_CHECK", the 17 bytes every run of ground_sender sends.
LegacyDatagram(s) == Datagram(s, 0, 17, <<"STATUS_CHECK">>)

\* A datagram of the downlink.
Reply(to, seq, size, bytes) ==
  [to |-> to, seq |-> seq, size |-> size, bytes |-> bytes]

LinkInit ==
  /\ uplink = {LegacyDatagram(s) : s \in Legacy}
  /\ downlink = {}
  /\ now = StartTime

MayDuplicate(d) == IF d.size = PUBLIC_KEY_SIZE THEN DupKeys ELSE DupData

\* recvfrom returns d; a duplicate of it may still be on its way.
Receive(d) ==
  /\ d \in uplink
  /\ \/ uplink' = uplink \ {d}
     \/ MayDuplicate(d) /\ UNCHANGED uplink

LoseUp ==
  /\ Lossy
  /\ \E d \in uplink : uplink' = uplink \ {d}
  /\ UNCHANGED <<downlink, now>>

LoseDown ==
  /\ Lossy
  /\ \E d \in downlink : downlink' = downlink \ {d}
  /\ UNCHANGED <<uplink, now>>

\* The packets d may turn into: another header, or a flipped ciphertext byte.
Damaged(d) ==
  {[d EXCEPT !.bytes = <<h[1], h[2], h[3], d.bytes[4], d.bytes[5]>>] :
     h \in DamagedHeaders}
  \union
  {[d EXCEPT !.bytes = Tampered(d.bytes)]}

Damage ==
  /\ Damaging
  /\ \E d \in uplink :
       /\ WellFormed(d.size)
       /\ \E bad \in Damaged(d) :
            \/ uplink' = (uplink \ {d}) \union {bad}
            \/ MayDuplicate(d) /\ uplink' = uplink \union {bad}
  /\ UNCHANGED <<downlink, now>>

Tick ==
  /\ now < MaxNow
  /\ now' = now + 1
  /\ UNCHANGED <<uplink, downlink>>

Network == LoseUp \/ LoseDown \/ Damage \/ Tick
=============================================================================
