--------------------------- MODULE CommandChannel ---------------------------
(***************************************************************************)
(* The baseline channel of phase 2: runs of ground_sender, each with one   *)
(* plaintext command and a receive timeout, and the loop of sat_receiver.  *)
(* The command is the same text in every run and a datagram says no more   *)
(* of its sender than a port, which the system gives to a later run once   *)
(* the socket is closed; the field run is ghost, no program reads it.      *)
(* A lost datagram is one the network never delivers: nothing makes it.    *)
(***************************************************************************)
EXTENDS Naturals, FiniteSets

CONSTANTS
  Run,          \* runs of ground_sender
  Port,         \* the ephemeral ports of the ground host
  Timeout,      \* SO_RCVTIMEO, two seconds
  MaxDup,       \* bound on the duplicates the network makes
  Nobody        \* no command in hand, no answer, no port

ASSUME ChannelAssumption ==
  /\ Timeout \in Nat \ {0}
  /\ MaxDup \in Nat
  /\ Nobody \notin Run \union Port

VARIABLES
  sender,      \* where each run is in main
  port,        \* the port each run's socket was bound to
  timer,       \* what is left of the timeout of a waiting run
  answer,      \* ghost: the run whose command the answer taken was for
  awaited,     \* ghost: time since the command was sent, while no answer is here
  up, down,    \* datagrams on their way
  queue,       \* answers in the receive queue of each port's socket
  sat,         \* the command the satellite has read and not answered
  processed,   \* ghost: the runs whose command was processed
  duplicates   \* ghost: how many datagrams the network has duplicated

senderVars == <<sender, port, timer, answer>>
vars == <<senderVars, awaited, up, down, queue, sat, processed, duplicates>>

SenderStates ==
  {"start", "sent", "waiting", "failed", "response", "no response"}

Command == [run : Run, port : Port]

\* The runs that have a socket bound to a port.
Open == {r \in Run : sender[r] \in {"sent", "waiting"}}

Bound == {port[r] : r \in Open}

Unanswered == {r \in Open : queue[port[r]] = {}}

Init ==
  /\ sender = [r \in Run |-> "start"]
  /\ port = [r \in Run |-> Nobody]
  /\ timer = [r \in Run |-> 0]
  /\ answer = [r \in Run |-> Nobody]
  /\ awaited = [r \in Run |-> 0]
  /\ up = {} /\ down = {}
  /\ queue = [p \in Port |-> {}]
  /\ sat = Nobody
  /\ processed = {}
  /\ duplicates = 0

\* A datagram is delivered; a duplicate of it may still be on its way.
Deliver(d, net, rest) ==
  \/ rest = net \ {d} /\ UNCHANGED duplicates
  \/ duplicates < MaxDup /\ rest = net /\ duplicates' = duplicates + 1
-----------------------------------------------------------------------------
\* sendto binds the socket to a free port and sends the command.
SendCommand(r) ==
  /\ sender[r] = "start"
  /\ sender' = [sender EXCEPT ![r] = "sent"]
  /\ \E p \in Port \ Bound :
       /\ port' = [port EXCEPT ![r] = p]
       /\ up' = up \union {[run |-> r, port |-> p]}
  /\ UNCHANGED <<timer, answer, awaited, down, queue, sat, processed,
                 duplicates>>

\* socket or sendto fails, and main returns 1.
SendFails(r) ==
  /\ sender[r] = "start"
  /\ sender' = [sender EXCEPT ![r] = "failed"]
  /\ UNCHANGED <<port, timer, answer, awaited, up, down, queue, sat, processed,
                 duplicates>>

WaitFor(r, time) ==
  /\ sender[r] = "sent"
  /\ sender' = [sender EXCEPT ![r] = "waiting"]
  /\ timer' = [timer EXCEPT ![r] = time]
  /\ UNCHANGED <<port, answer, awaited, up, down, queue, sat, processed,
                 duplicates>>

\* Mutants: tv_sec is one too small, one too large.
WaitLess(r) == WaitFor(r, Timeout - 1)
WaitMore(r) == WaitFor(r, Timeout + 1)

\* recvfrom begins to wait, for as long as the socket option says.
Wait(r) == WaitFor(r, Timeout)

\* close frees the port and drops what is in the receive queue.
Close(r, outcome) ==
  /\ sender' = [sender EXCEPT ![r] = outcome]
  /\ queue' = [queue EXCEPT ![port[r]] = {}]
  /\ timer' = [timer EXCEPT ![r] = 0]

\* recvfrom returns whatever came to the port first; fromAddr is not looked at.
PrintResponse(r) ==
  /\ sender[r] = "waiting"
  /\ \E q \in queue[port[r]] : answer' = [answer EXCEPT ![r] = q]
  /\ Close(r, "response")
  /\ UNCHANGED <<port, awaited, up, down, sat, processed, duplicates>>

\* Mutant: recvfrom is called again after its timeout.
WaitAgain(r) ==
  /\ sender[r] = "waiting" /\ timer[r] = 0
  /\ timer' = [timer EXCEPT ![r] = Timeout]
  /\ UNCHANGED <<sender, port, answer, awaited, up, down, queue, sat, processed,
                 duplicates>>

\* The timeout has run out.  An answer that arrives at that moment may be too
\* late or just in time.
PrintNoResponse(r) ==
  /\ sender[r] = "waiting" /\ timer[r] = 0
  /\ Close(r, "no response")
  /\ UNCHANGED <<port, answer, awaited, up, down, sat, processed, duplicates>>

SenderStep(r) ==
  SendCommand(r) \/ SendFails(r) \/ Wait(r) \/ PrintResponse(r) \/ PrintNoResponse(r)
-----------------------------------------------------------------------------
\* recvfrom of the satellite returns and the command is processed.
ReceiveCommand ==
  /\ sat = Nobody
  /\ \E c \in up :
       /\ sat' = c
       /\ processed' = processed \union {c.run}
       /\ Deliver(c, up, up')
  /\ UNCHANGED <<senderVars, awaited, down, queue>>

\* Mutant: the answer goes to any address.
AcknowledgeAnyone ==
  /\ sat # Nobody
  /\ \E p \in Port : down' = down \union {[sat EXCEPT !.port = p]}
  /\ sat' = Nobody
  /\ UNCHANGED <<senderVars, awaited, up, queue, processed, duplicates>>

\* "ACK: " and the command, to the address the command came from.
Acknowledge ==
  /\ sat # Nobody
  /\ down' = down \union {sat}
  /\ sat' = Nobody
  /\ UNCHANGED <<senderVars, awaited, up, queue, processed, duplicates>>

SatelliteStep == ReceiveCommand \/ Acknowledge
-----------------------------------------------------------------------------
\* An answer reaches the ground host, if it is not lost: the socket that has its port now gets it,
\* and nobody does if there is none.
Arrive ==
  /\ \E m \in down :
       /\ Deliver(m, down, down')
       /\ queue' = IF m.port \in Bound
                   THEN [queue EXCEPT ![m.port] = @ \union {m.run}] ELSE queue
  /\ UNCHANGED <<senderVars, awaited, up, sat, processed, duplicates>>

\* Time passes.  A run whose recvfrom can return does not sleep through it.
Tick ==
  /\ \A r \in Run : sender[r] = "waiting" => timer[r] > 0 /\ queue[port[r]] = {}
  /\ timer' = [r \in Run |-> IF sender[r] = "waiting" THEN timer[r] - 1 ELSE timer[r]]
  /\ awaited' = [r \in Run |-> IF r \in Unanswered /\ awaited[r] < Timeout
                               THEN awaited[r] + 1 ELSE awaited[r]]
  /\ UNCHANGED <<sender, port, answer, up, down, queue, sat, processed,
                 duplicates>>

Next == (\E r \in Run : SenderStep(r)) \/ SatelliteStep \/ Arrive \/ Tick

Spec == Init /\ [][Next]_vars

(***************************************************************************)
(* The senders run and time passes.  Nothing is assumed of the satellite   *)
(* or of the network: they may never answer.                               *)
(***************************************************************************)
Fairness ==
  /\ \A r \in Run : WF_vars(Wait(r) \/ PrintResponse(r) \/ PrintNoResponse(r))
  /\ WF_vars(Tick)

LiveSpec == Spec /\ Fairness
-----------------------------------------------------------------------------
TypeOK ==
  /\ sender \in [Run -> SenderStates]
  /\ port \in [Run -> Port \union {Nobody}]
  /\ timer \in [Run -> 0..Timeout]
  /\ answer \in [Run -> Run \union {Nobody}]
  /\ awaited \in [Run -> 0..Timeout]
  /\ up \subseteq Command /\ down \subseteq Command
  /\ queue \in [Port -> SUBSET Run]
  /\ sat \in Command \union {Nobody}
  /\ processed \subseteq Run
  /\ duplicates \in 0..MaxDup

\* "No response (timeout / packet lost)" (ground_sender.cpp:66) is never said
\* to a run that had an answer in its socket less than the timeout after it sent
\* its command, however long it took to call recvfrom.
GivesUpOnlyWhenLate ==
  \A r \in Run : sender[r] = "no response" => awaited[r] = Timeout

\* A printed response (ground_sender.cpp:70) answers a command that the satellite
\* has processed and that came from this run's port: its own or, the address of
\* the answer being unchecked and the port used again, that of a run that has
\* ended.  Two runs never print one answer unless the network duplicated something.
ResponseIsEarned ==
  \A r \in Run : sender[r] = "response" =>
    /\ answer[r] \in processed /\ port[answer[r]] = port[r]
    /\ answer[r] # r => sender[answer[r]] \in {"response", "no response"}
    /\ duplicates = 0 => \A q \in Run \ {r} : answer[q] # answer[r]

\* "Lost replies do not freeze the sender" (README.md:291): a sender that got its
\* command out ends, even if nothing ever answers.
SenderEnds ==
  \A r \in Run : sender[r] = "sent" ~> sender[r] \in {"response", "no response"}
=============================================================================
