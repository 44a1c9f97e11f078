----------------------------- MODULE SecureLink -----------------------------
(***************************************************************************)
(* The secure command link: runs of the Ground Station, the UDP path and   *)
(* the Satellite Node of phase 5, and what the link promises.              *)
(***************************************************************************)
EXTENDS GroundLink, SatelliteNode

vars == <<linkVars, groundVars, satVars>>

Init == LinkInit /\ GroundInit /\ SatInit

Next ==
  \/ \E g \in Ground : GroundStep(g) /\ UNCHANGED satVars
  \/ SatStep /\ UNCHANGED groundVars
  \/ Restart /\ UNCHANGED groundVars
  \/ Network /\ UNCHANGED <<groundVars, satVars>>

Spec == Init /\ [][Next]_vars

(***************************************************************************)
(* The programs are single threads that run whenever they are not blocked  *)
(* in recvfrom, so each is weakly fair.  Nothing obliges the network to    *)
(* lose, damage or delay anything, nor the operator to restart a program.  *)
(***************************************************************************)
Fairness ==
  /\ \A g \in Ground : WF_vars(GroundStep(g) /\ UNCHANGED satVars)
  /\ WF_vars(SatStep /\ UNCHANGED groundVars)

LiveSpec == Spec /\ Fairness
-----------------------------------------------------------------------------
Executions ==
  [bytes : Wire, key : SessionKeys, command : Commands, nonce : Nat \X Nonces,
   from : Ground, epoch : Nat]

Replies ==
  [to : Ground \union Legacy, seq : {0}, size : {0, PUBLIC_KEY_SIZE},
   bytes : {<<>>} \union {<<n>> : n \in 1..MaxBoots}]
  \union [to : Ground \union Legacy, seq : Nat, size : {3}, bytes : {Ack}]

LinkTypeOK ==
  /\ UplinkTypeOK
  /\ downlink \subseteq Replies
  /\ \A r \in downlink : r.size = PUBLIC_KEY_SIZE => r.bytes # <<>>

SatTypeOK ==
  /\ spc \in SatStates
  /\ boot \in 1..MaxBoots
  /\ satellite_public \in {<<>>, <<boot>>}
  /\ session_key \in SessionKeys \union {NoKey}
  /\ seen_nonces \subseteq Nat \X Nonces
  /\ ground_addr \in Ground \union Legacy \union {NoPeer}
  /\ spc \in {"report", "ack"} => ground_addr \in Ground \union Legacy
  /\ reason \in Reasons \union {"none"}
  /\ epoch \in Nat
  /\ executed \in Seq(Executions)

\* What the variables hold: key datagrams, packets and plaintext told apart
\* by their sizes, a ground run has a session key from its handshake on.
TypeOK == LinkTypeOK /\ GroundTypeOK /\ SatTypeOK
-----------------------------------------------------------------------------
\* Verify before execute: what is executed was sealed, byte for byte, by a
\* ground run that shares the satellite's session key.  Tampered, damaged and
\* plaintext datagrams never reach the [EXECUTE] line.
OnlySealedExecuted ==
  \A i \in DOMAIN executed :
    /\ executed[i].bytes \in sealed
    /\ \E g \in Ground : gkey[g] = executed[i].key

\* Under one replay guard no two commands with the same session id and nonce
\* are executed, however often their datagrams arrive.
AtMostOncePerGuard ==
  \A i, j \in DOMAIN executed :
    /\ executed[i].epoch = executed[j].epoch
    /\ executed[i].nonce = executed[j].nonce
    => i = j

\* The guard remembers the nonces of the commands executed under it and no
\* others: a packet that was rejected, a damaged copy say, does not use up
\* the nonce of the packet that is still to come.
GuardRemembersExecuted ==
  seen_nonces =
    {executed[i].nonce : i \in {j \in DOMAIN executed : executed[j].epoch = epoch}}

\* Replayed packets are rejected: no sealed packet is executed twice, across
\* handshakes, restarts and everything UDP does.
AtMostOnce ==
  \A i, j \in DOMAIN executed : executed[i].bytes = executed[j].bytes => i = j

ExecutedPackets == [i \in DOMAIN executed |-> executed[i].bytes]

Promise == INSTANCE CommandDelivery WITH executed <- ExecutedPackets

\* The link implements the delivery it promises: whatever happens to keys,
\* processes and datagrams, a step seals packets, or executes one that was
\* sealed and not executed before, or does neither.
PromiseKept == Promise!Spec

\* Expired packets are rejected: the command sealed with a timestamp a minute
\* old is not executed, however its header is damaged on the way.
ExpiredNeverExecuted ==
  \A i \in DOMAIN executed : executed[i].command # CommandOf.expired

\* An ACK goes to the address whose command was executed and nowhere else; a
\* rejected packet gets none.
AckFollowsExecution ==
  \A r \in downlink :
    r.bytes = Ack =>
      r.seq \in DOMAIN executed /\ executed[r.seq].from = r.to

\* A new session key comes with an empty replay guard, and as long as the
\* guard is the same one it forgets nothing.
GuardFollowsSession ==
  [][ /\ session_key' # session_key => seen_nonces' = {}
      /\ epoch' = epoch => seen_nonces \subseteq seen_nonces' ]_vars
-----------------------------------------------------------------------------
(***************************************************************************)
(* Why the invariants hold: with TypeOK, these parts are inductive.        *)
(***************************************************************************)
ExecutedGenuine ==
  \A i \in DOMAIN executed :
    /\ executed[i].key = executed[i].bytes[5].key
    /\ executed[i].nonce = make_nonce_key(executed[i].bytes[1],
                                          executed[i].bytes[3])
    /\ executed[i].command = executed[i].bytes[4].plaintext
    /\ executed[i].epoch <= epoch

FirstGuardEmpty == spc = "first" => seen_nonces = {}

AckDue ==
  spc = "ack" \/ (spc = "report" /\ reason = "OK") =>
    executed # <<>> /\ executed[Len(executed)].from = ground_addr

\* The safety invariants and what makes them inductive: every tag on the link
\* was sealed, every execution is accounted for in the replay guard.
IInv ==
  /\ TypeOK /\ SealedGenuine /\ TagsSealed /\ ExecutedGenuine
  /\ FirstGuardEmpty /\ AckDue
  /\ OnlySealedExecuted /\ GuardRemembersExecuted /\ AtMostOncePerGuard
  /\ AckFollowsExecution

\* A public key is on its way at most once, and while it is, or before it is
\* sent, no session and no execution has used it.
KeysFresh ==
  /\ \A d \in uplink : d.size = PUBLIC_KEY_SIZE =>
                         d = KeyDatagram(d.from) /\ gpc[d.from] # "keygen"
  /\ \A g \in Ground : gpc[g] = "keygen" \/ KeyDatagram(g) \in uplink =>
       /\ session_key # NoKey => g \notin session_key[2]
       /\ \A i \in DOMAIN executed : g \notin executed[i].key[2]

\* No session key outlives its replay guard: with AtMostOnce, this is what
\* holds as long as public keys are not duplicated.
OneGuardPerKey ==
  /\ KeysFresh
  /\ \A i \in DOMAIN executed :
       executed[i].key = session_key => executed[i].epoch = epoch
-----------------------------------------------------------------------------
\* A ground run that sent its public key gets on, or gives up.
HandshakeEnds == \A g \in Ground : gpc[g] = "await" ~> gpc[g] # "await"

\* The valid command of a run, once sent, is executed, unless another run has
\* taken the session over before it arrived.
ValidCommandExecuted ==
  \A g \in Ground :
    gpc[g] = "replay" ~>
      \/ \E i \in DOMAIN executed : /\ executed[i].from = g
                                    /\ executed[i].command = CommandOf.valid
      \/ session_key # gkey[g]
=============================================================================
