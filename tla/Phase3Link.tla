----------------------------- MODULE Phase3Link -----------------------------
(***************************************************************************)
(* The demonstration of phase 3: runs of the Ground Station, the UDP path  *)
(* and one run of phase 3's Satellite Node.                                *)
(***************************************************************************)
EXTENDS GroundLink, Phase3Satellite

vars == <<linkVars, groundVars, satVars>>

Init == LinkInit /\ GroundInit /\ SatInit

Next ==
  \/ \E g \in Ground : GroundStep(g) /\ UNCHANGED satVars
  \/ SatStep /\ UNCHANGED groundVars
  \/ Network /\ UNCHANGED <<groundVars, satVars>>

Spec == Init /\ [][Next]_vars

\* Both programs run whenever they are not blocked in recvfrom.
Fairness ==
  /\ \A g \in Ground : WF_vars(GroundStep(g) /\ UNCHANGED satVars)
  /\ WF_vars(SatStep /\ UNCHANGED groundVars)

LiveSpec == Spec /\ Fairness
-----------------------------------------------------------------------------
LinkTypeOK == UplinkTypeOK /\ GroundTypeOK /\ KeyReplies

SatTypeOK ==
  /\ spc \in SatStates
  /\ session_key \in SessionKeys \union {NoKey}
  /\ spc \in {"loop", "done"} <=> session_key # NoKey
  /\ seen_nonces \subseteq Nat \X Nonces
  /\ handled \in Seq([datagram : Datagrams, reason : Reasons \union {"EMPTY"}])
  /\ Len(handled) <= Slots
  /\ spc = "done" <=> Len(handled) = Slots
  /\ executed \in Seq(Wire)

\* What the variables hold; the loop has handled a datagram in each of its
\* iterations, and has been entered with a session key.
TypeOK == LinkTypeOK /\ SatTypeOK

Verdicts(reason) == {i \in DOMAIN handled : handled[i].reason = reason}

\* Each of the four packets meets its own check, in whatever order they
\* arrive: one command is executed, its copy is a duplicate, the tampered
\* one fails authentication and the expired one is stale.
ScriptVerdicts ==
  spc = "done" =>
    /\ \A reason \in Reasons \ {"BAD_FORMAT"} :
         Cardinality(Verdicts(reason)) = 1
    /\ \A i \in DOMAIN handled :
         /\ handled[i].reason \in {"OK", "DUP_NONCE"}
              <=> handled[i].datagram.seq \in {1, 2}
         /\ handled[i].reason = "TAG_FAIL" <=> handled[i].datagram.seq = 3

Promise == INSTANCE CommandDelivery

\* The phase 3 node delivers commands as promised, even if UDP duplicates the
\* public key: it never starts a second replay guard.
PromiseKept == Promise!Spec

\* The one guard remembers the nonces of the packets executed and no others.
GuardRemembersExecuted ==
  seen_nonces = {make_nonce_key(executed[i][1], executed[i][3]) : i \in DOMAIN executed}

\* Why the promise is kept: inductive, and what is accepted is sealed and new.
IInv == TypeOK /\ SealInv /\ GuardRemembersExecuted

(***************************************************************************)
(* Why the script meets its four verdicts, when the demonstration runs as  *)
(* it is meant to: one ground run and nobody else, nothing fails, is       *)
(* duplicated or damaged, and the window outlasts the demonstration.       *)
(***************************************************************************)
FaultlessRun ==
  /\ \A g, h \in Ground : g = h
  /\ Legacy = {}
  /\ ~CryptoMayFail /\ ~DupKeys /\ ~DupData /\ ~Damaging
  /\ Window > 0 /\ MaxNow <= StartTime + Window

LinkKey(g) == SessionKey(SatelliteKey, g, TRUE)

\* Both ends have the same key, or none yet.
KeysAgree ==
  /\ \A r \in downlink : r.size = PUBLIC_KEY_SIZE /\ r.bytes = <<SatelliteKey>>
  /\ \A g \in Ground : gkey[g] \in {NoKey, LinkKey(g)}
  /\ session_key \in {NoKey} \union {LinkKey(g) : g \in Ground}

\* What the script makes of each packet: only the third has a tag that does not
\* fit, only the fourth is old.
IsScriptPacket(g, seq, bytes, time) ==
  /\ bytes[1] = SESSION_ID
  /\ seq \in {1, 2} <=> bytes[3] = NonceOf.valid
  /\ bytes[5].key = LinkKey(g)
  /\ bytes[5] = TagOf(bytes) <=> seq # 3
  /\ IF seq = 4 THEN bytes[2] <= time - StaleAge ELSE bytes[2] \in StartTime..time

FollowsScript ==
  /\ now <= StartTime + Window
  /\ \A d \in uplink :
       IF d.seq = 0 THEN d = KeyDatagram(d.from)
       ELSE d.size \in PacketSizes /\ IsScriptPacket(d.from, d.seq, d.bytes, now)
  /\ \A g \in Ground :
       gpc[g] = "replay" => /\ gvalid[g].size \in PacketSizes
                            /\ \A seq \in {1, 2} :
                                 IsScriptPacket(g, seq, gvalid[g].bytes, now)

\* The datagrams a ground run has sent, by the statement it is at.
SentBy == [keygen |-> {}, await |-> {0}, failed |-> {0}, valid |-> {0},
           replay |-> 0..1, tampered |-> 0..2, expired |-> 0..3, done |-> 0..4]

\* The datagrams the satellite has taken: the public key, then what it handled.
Taken == {handled[i].datagram.seq : i \in DOMAIN handled}
           \union {seq \in {0} : spc \in {"loop", "done"}}

EachOnce ==
  /\ \A d \in uplink : d.seq \in SentBy[gpc[d.from]] \ Taken
  /\ \A d, e \in uplink : d.seq = e.seq => d = e
  /\ \A g \in Ground : Taken \subseteq SentBy[gpc[g]]
  /\ \A i, j \in DOMAIN handled :
       handled[i].datagram.seq = handled[j].datagram.seq => i = j

VerdictsSoFar ==
  /\ \A i \in DOMAIN handled :
       \/ handled[i].datagram.seq \in {1, 2} /\ handled[i].reason \in {"OK", "DUP_NONCE"}
       \/ handled[i].datagram.seq = 3 /\ handled[i].reason = "TAG_FAIL"
       \/ handled[i].datagram.seq = 4 /\ handled[i].reason = "REPLAY_TS"
  /\ \A i, j \in Verdicts("OK") : i = j
  /\ Verdicts("DUP_NONCE") # {} => Verdicts("OK") # {}
  /\ seen_nonces = {make_nonce_key(SESSION_ID, NonceOf.valid) : i \in Verdicts("OK")}

ScriptInv == KeysAgree /\ FollowsScript /\ EachOnce /\ VerdictsSoFar

\* The demonstration comes to its end: both programs exit.
DemonstrationEnds ==
  <>(spc = "done" /\ \A g \in Ground : gpc[g] = "done")
=============================================================================
