------------------------ MODULE CommandChannelProofs ------------------------
(***************************************************************************)
(* The senders of phase 2 for any number of runs, ports and duplicates and *)
(* for every timeout: none gives up early, and the answer a run prints has *)
(* been earned.                                                            *)
(***************************************************************************)
EXTENDS CommandChannel, TLAPS

Begun == {r \in Run : sender[r] \notin {"start", "failed"}}

\* What is left of the timeout makes up for what has not been waited yet.
Waited ==
  \A r \in Run : /\ sender[r] = "waiting" => awaited[r] + timer[r] >= Timeout
                 /\ sender[r] = "no response" => awaited[r] = Timeout

\* A socket is bound once, and two open ones to different ports.
Ports ==
  /\ \A r \in Begun : port[r] \in Port
  /\ \A q, r \in Open : port[q] = port[r] => q = r

\* A datagram is of a run that has sent, and bears the port it sent from; past
\* the satellite its command has been processed.
Genuine(d) == d.run \in Begun /\ port[d.run] = d.port

Origin ==
  /\ processed \subseteq Begun
  /\ \A c \in up : Genuine(c)
  /\ sat # Nobody => Genuine(sat) /\ sat.run \in processed
  /\ \A m \in down : Genuine(m) /\ m.run \in processed
  /\ \A p \in Port : \A q \in queue[p] : q \in processed /\ port[q] = p

\* A run has an answer once it has printed it.
Answers ==
  \A r \in Run : answer[r] # Nobody => answer[r] \in processed

\* Unless a datagram was duplicated, a command and its answer are in one place.
Printed(q) == \E r \in Run : answer[r] = q

Once ==
  duplicates = 0 =>
    /\ \A c \in up : c.run \notin processed
    /\ sat # Nobody => /\ sat \notin down /\ sat.run \notin queue[sat.port]
                       /\ ~Printed(sat.run)
    /\ \A m \in down : m.run \notin queue[m.port] /\ ~Printed(m.run)
    /\ \A p \in Port : \A q \in queue[p] : ~Printed(q)
    /\ \A q, r \in Run : answer[q] = answer[r] /\ answer[q] # Nobody => q = r

Flow == Ports /\ Origin /\ Answers /\ Once

IInv == TypeOK /\ Waited /\ Flow /\ ResponseIsEarned
-----------------------------------------------------------------------------
LEMMA SameDatagram ==
  ASSUME NEW c \in Command, NEW d \in Command, c.run = d.run, c.port = d.port
  PROVE  c = d
BY DEF Command

LEMMA Times ==
  /\ Timeout \in Nat /\ 0 \in 0..Timeout /\ Timeout \in 0..Timeout
  /\ \A t \in 0..Timeout : t \in Nat /\ t <= Timeout
BY ChannelAssumption

LEMMA InitInv == Init => IInv
<1> SUFFICES ASSUME Init PROVE IInv
  OBVIOUS
<1> USE ChannelAssumption DEF Init
<1>1. TypeOK
  BY DEF TypeOK, SenderStates
<1>2. Waited
  BY DEF Waited
<1>3. Flow
  BY DEF Flow, Ports, Origin, Answers, Once, Begun, Open
<1>4. ResponseIsEarned
  BY DEF ResponseIsEarned
<1> QED
  BY <1>1, <1>2, <1>3, <1>4 DEF IInv

\* SendCommand starts the life of a command: the port is free and nothing of the
\* run is anywhere yet.
LEMMA SendCommandKeepsInv ==
  ASSUME IInv, NEW r \in Run, SendCommand(r)
  PROVE  IInv'
<1> USE DEF IInv, Flow
<1>1. PICK p \in Port \ Bound :
        /\ port' = [port EXCEPT ![r] = p]
        /\ up' = up \union {[run |-> r, port |-> p]}
  BY DEF SendCommand
<1>2. /\ sender[r] = "start" /\ sender' = [sender EXCEPT ![r] = "sent"]
      /\ timer' = timer /\ answer' = answer /\ awaited' = awaited /\ down' = down
      /\ queue' = queue /\ sat' = sat /\ processed' = processed
      /\ duplicates' = duplicates
  BY DEF SendCommand
<1>3. Begun' = Begun \union {r} /\ Open' = Open \union {r} /\ r \notin Begun
  BY <1>2 DEF TypeOK, Begun, Open, SenderStates
<1>4. /\ \A q \in Run : q # r => port'[q] = port[q] /\ sender'[q] = sender[q]
      /\ port'[r] = p /\ sender'[r] = "sent"
  BY <1>1, <1>2 DEF TypeOK
<1>5. TypeOK'
  <2>1. sender' \in [Run -> SenderStates] /\ port' \in [Run -> Port \union {Nobody}]
    BY <1>1, <1>2 DEF TypeOK, SenderStates
  <2>2. up' \subseteq Command
    BY <1>1 DEF TypeOK, Command
  <2> QED
    BY <1>2, <2>1, <2>2 DEF TypeOK
<1>6. Waited'
  BY <1>2, <1>4 DEF Waited
<1>7. Ports'
  <2>1. \A q \in Begun' : port'[q] \in Port
    BY <1>3, <1>4 DEF Ports, Begun
  <2>2. \A q \in Open : port'[q] = port[q] /\ port[q] # p /\ q # r
    BY <1>1, <1>3, <1>4, <1>2 DEF Bound, Open
  <2>3. \A q, s \in Open' : port'[q] = port'[s] => q = s
    BY <1>3, <1>4, <2>2 DEF Ports
  <2> QED
    BY <2>1, <2>3 DEF Ports
<1>8. Origin'
  <2>1. \A d : Genuine(d) => Genuine(d)'
    BY <1>3, <1>4 DEF Genuine, Begun
  <2>2. Genuine([run |-> r, port |-> p])'
    BY <1>3, <1>4 DEF Genuine
  <2>3. \A q \in processed : port'[q] = port[q]
    BY <1>3, <1>4 DEF Origin, TypeOK
  <2> QED
    BY <1>1, <1>2, <1>3, <2>1, <2>2, <2>3 DEF Origin
<1>9. Answers'
  BY <1>2 DEF Answers
<1>10. Once'
  <2>1. \A q : Printed(q)' <=> Printed(q)
    BY <1>2 DEF Printed
  <2>2. r \notin processed
    BY <1>3 DEF Origin
  <2> QED
    BY <1>1, <1>2, <2>1, <2>2 DEF Once
<1>11. ResponseIsEarned'
  <2> SUFFICES ASSUME NEW s \in Run, sender'[s] = "response"
               PROVE  /\ answer'[s] \in processed' /\ port'[answer'[s]] = port'[s]
                      /\ answer'[s] # s =>
                           sender'[answer'[s]] \in {"response", "no response"}
                      /\ duplicates' = 0 =>
                           \A q \in Run \ {s} : answer'[q] # answer'[s]
    BY DEF ResponseIsEarned
  <2>1. s # r /\ sender[s] = "response"
    BY <1>4
  <2>2. answer[s] \in processed /\ answer[s] # r /\ answer[s] \in Run
    BY ZenonT(60), <2>1, <1>3 DEF ResponseIsEarned, Origin, TypeOK
  <2> QED
    BY ZenonT(60), <1>2, <1>4, <2>1, <2>2 DEF ResponseIsEarned
<1> QED
  BY <1>5, <1>6, <1>7, <1>8, <1>9, <1>10, <1>11

\* The run keeps its port, and everything of the satellite and the network.
LEMMA SendFailsKeepsInv ==
  ASSUME IInv, NEW r \in Run, SendFails(r)
  PROVE  IInv'
<1> USE DEF IInv, Flow, SendFails
<1>1. Begun' = Begun /\ Open' = Open /\ r \notin Begun
  BY DEF TypeOK, Begun, Open, SenderStates
<1>2. \A d : (Genuine(d)' <=> Genuine(d)) /\ (Printed(d)' <=> Printed(d))
  BY <1>1 DEF Genuine, Printed
<1>3. TypeOK' /\ Waited'
  BY DEF TypeOK, SenderStates, Waited
<1>4. Ports' /\ Answers'
  BY <1>1 DEF Ports, Answers
<1>5. Origin' /\ Once'
  BY <1>1, <1>2 DEF Origin, Once
<1>6. ResponseIsEarned'
  BY ZenonT(60), <1>1 DEF ResponseIsEarned, TypeOK, Origin
<1> QED
  BY <1>3, <1>4, <1>5, <1>6

LEMMA WaitKeepsInv ==
  ASSUME IInv, NEW r \in Run, Wait(r)
  PROVE  IInv'
<1> USE ChannelAssumption DEF IInv, Flow, Wait, WaitFor
<1>1. Begun' = Begun /\ Open' = Open
  BY DEF TypeOK, Begun, Open, SenderStates
<1>2. \A d : (Genuine(d)' <=> Genuine(d)) /\ (Printed(d)' <=> Printed(d))
  BY <1>1 DEF Genuine, Printed
<1>3. TypeOK' /\ Waited'
  <2>1. sender' \in [Run -> SenderStates]
    BY DEF TypeOK, SenderStates
  <2>3. timer' \in [Run -> 0..Timeout]
    BY Times DEF TypeOK
  <2>4. TypeOK'
    BY <2>1, <2>3 DEF TypeOK
  <2>5. ASSUME NEW q \in Run, sender'[q] = "waiting"
        PROVE  awaited'[q] + timer'[q] >= Timeout
    <3>1. CASE q = r
      BY <3>1 DEF TypeOK
    <3>2. CASE q # r
      BY <2>5, <3>2 DEF TypeOK, Waited
    <3> QED
      BY <3>1, <3>2
  <2>6. ASSUME NEW q \in Run, sender'[q] = "no response"
        PROVE  awaited'[q] = Timeout
    BY <2>6 DEF TypeOK, Waited
  <2> QED
    BY <2>4, <2>5, <2>6 DEF Waited
<1>4. Ports' /\ Answers'
  BY <1>1 DEF Ports, Answers
<1>5. Origin' /\ Once'
  BY <1>1, <1>2 DEF Origin, Once
<1>6. ResponseIsEarned'
  BY ZenonT(60) DEF ResponseIsEarned, TypeOK, Origin
<1> QED
  BY <1>3, <1>4, <1>5, <1>6

\* What close does to the sockets and to what can be said of them.
LEMMA CloseKeepsPorts ==
  ASSUME IInv, NEW r \in Run, sender[r] = "waiting", port' = port,
         NEW outcome \in {"response", "no response"}, Close(r, outcome)
  PROVE  /\ Begun' = Begun /\ Open' \subseteq Open /\ Ports'
         /\ sender' \in [Run -> SenderStates] /\ sender'[r] = outcome
         /\ \A q \in Run \ {r} : sender'[q] = sender[q] /\ timer'[q] = timer[q]
         /\ queue' \in [Port -> SUBSET Run] /\ timer' \in [Run -> 0..Timeout]
         /\ \A p \in Port : queue'[p] \subseteq queue[p]
         /\ queue'[port[r]] = {} /\ port[r] \in Port
         /\ \A d : Genuine(d)' <=> Genuine(d)
<1> USE ChannelAssumption DEF IInv, Flow, Close
<1>1. /\ sender' \in [Run -> SenderStates] /\ sender'[r] = outcome
      /\ \A q \in Run \ {r} : sender'[q] = sender[q] /\ timer'[q] = timer[q]
  BY DEF TypeOK, SenderStates
<1>2. Begun' = Begun /\ Open' \subseteq Open
  BY <1>1 DEF Begun, Open
<1>3. Ports' /\ port[r] \in Port
  BY <1>2 DEF Ports, Begun
<1>4. /\ queue' \in [Port -> SUBSET Run] /\ queue'[port[r]] = {}
      /\ \A p \in Port : queue'[p] \subseteq queue[p]
  BY <1>3 DEF TypeOK
<1>5. timer' \in [Run -> 0..Timeout]
  BY Times DEF TypeOK
<1>6. \A d : Genuine(d)' <=> Genuine(d)
  BY <1>2 DEF Genuine
<1> QED
  BY <1>1, <1>2, <1>3, <1>4, <1>5, <1>6

LEMMA PrintResponseKeepsInv ==
  ASSUME IInv, NEW r \in Run, PrintResponse(r)
  PROVE  IInv'
<1> USE DEF IInv, Flow
<1>1. PICK a \in queue[port[r]] : answer' = [answer EXCEPT ![r] = a]
  BY DEF PrintResponse
<1>2. /\ sender[r] = "waiting" /\ port' = port /\ awaited' = awaited /\ up' = up
      /\ down' = down /\ sat' = sat /\ processed' = processed
      /\ duplicates' = duplicates /\ Close(r, "response")
  BY DEF PrintResponse
<1>3. /\ Begun' = Begun /\ Open' \subseteq Open /\ Ports'
      /\ sender' \in [Run -> SenderStates] /\ sender'[r] = "response"
      /\ \A q \in Run \ {r} : sender'[q] = sender[q] /\ timer'[q] = timer[q]
      /\ queue' \in [Port -> SUBSET Run] /\ timer' \in [Run -> 0..Timeout]
      /\ \A p \in Port : queue'[p] \subseteq queue[p]
      /\ queue'[port[r]] = {} /\ port[r] \in Port
      /\ \A d : Genuine(d)' <=> Genuine(d)
  BY <1>2, CloseKeepsPorts
<1>4. a \in Run /\ a \in processed /\ a \in Begun /\ port[a] = port[r]
  BY <1>1, <1>3 DEF TypeOK, Origin
<1>5. answer'[r] = a /\ \A q \in Run \ {r} : answer'[q] = answer[q]
  BY <1>1 DEF TypeOK
<1>6. TypeOK'
  <2>1. answer' \in [Run -> Run \union {Nobody}]
    BY <1>1, <1>4 DEF TypeOK
  <2> QED
    BY <1>2, <1>3, <2>1 DEF TypeOK
<1>7. Waited'
  BY <1>2, <1>3 DEF Waited
<1>8. Origin'
  BY <1>2, <1>3 DEF Origin
<1>9. Answers'
  BY <1>2, <1>4, <1>5 DEF Answers
<1>10. Once'
  <2> SUFFICES ASSUME duplicates = 0 PROVE Once'
    BY <1>2 DEF Once
  <2>1. /\ \A c \in up : c.run # a
        /\ sat # Nobody => sat.run # a
        /\ \A m \in down : m.run # a
        /\ \A p \in Port : a \in queue[p] => p = port[r]
    BY <1>1, <1>4 DEF Once, Origin, Genuine
  <2>2. \A q : q # a /\ ~Printed(q) => ~Printed(q)'
    BY <1>5 DEF Printed
  <2>3. /\ \A c \in up' : c.run \notin processed'
        /\ sat' # Nobody => ~Printed(sat.run)'
        /\ \A m \in down' : ~Printed(m.run)'
        /\ \A p \in Port : \A q \in queue'[p] : ~Printed(q)'
    BY <1>2, <1>3, <2>1, <2>2 DEF Once
  <2>4. /\ sat' # Nobody => sat' \notin down' /\ sat'.run \notin queue'[sat'.port]
        /\ \A m \in down' : m.run \notin queue'[m.port]
    <3>1. \A d : Genuine(d) => d.port \in Port
      BY DEF Genuine, Ports
    <3> QED
      BY <1>2, <1>3, <3>1 DEF Once, Origin
  <2>5. \A q, s \in Run : answer'[q] = answer'[s] /\ answer'[q] # Nobody => q = s
    <3>1. \A q \in Run : answer[q] # a
      BY <1>1, <1>3 DEF Once, Printed
    <3> QED
      BY <1>5, <3>1 DEF Once
  <2> QED
    BY <2>3, <2>4, <2>5 DEF Once
<1>11. ResponseIsEarned'
  <2> SUFFICES ASSUME NEW s \in Run, sender'[s] = "response"
               PROVE  /\ answer'[s] \in processed' /\ port'[answer'[s]] = port'[s]
                      /\ answer'[s] # s =>
                           sender'[answer'[s]] \in {"response", "no response"}
                      /\ duplicates' = 0 =>
                           \A q \in Run \ {s} : answer'[q] # answer'[s]
    BY DEF ResponseIsEarned
  <2>1. answer'[s] # Nobody
    <3>1. CASE s = r
      BY <1>4, <1>5, <3>1, ChannelAssumption
    <3>2. CASE s # r
      <4>1. sender[s] = "response" /\ answer'[s] = answer[s]
        BY <1>3, <1>5, <3>2
      <4>2. answer[s] \in processed
        BY <4>1 DEF ResponseIsEarned
      <4>3. answer[s] \in Run
        BY <4>2 DEF TypeOK
      <4> QED
        BY <4>1, <4>3, ChannelAssumption
    <3> QED
      BY <3>1, <3>2
  <2>2. duplicates' = 0 => \A q \in Run \ {s} : answer'[q] # answer'[s]
    BY <1>10, <2>1 DEF Once
  <2>3. CASE s = r
    <3>1. a # r => a \notin Open
      BY <1>2, <1>4 DEF Ports, Open
    <3>2. a # r => sender'[a] \in {"response", "no response"}
      BY ZenonT(60), <1>3, <1>4, <3>1 DEF Open, Begun, TypeOK, SenderStates
    <3> QED
      BY <1>2, <1>4, <1>5, <2>2, <2>3, <3>2
  <2>4. CASE s # r
    <3>1. sender[s] = "response" /\ answer'[s] = answer[s]
      BY <1>3, <1>5, <2>4
    <3>2. answer[s] \in Run /\ answer[s] \in processed
      BY <3>1 DEF ResponseIsEarned, TypeOK
    <3>3. sender[answer[s]] \in {"response", "no response"} =>
            sender'[answer[s]] \in {"response", "no response"}
      BY <1>3, <3>2
    <3> QED
      BY <1>2, <2>2, <3>1, <3>2, <3>3 DEF ResponseIsEarned
  <2> QED
    BY <2>3, <2>4
<1> QED
  BY <1>3, <1>6, <1>7, <1>8, <1>9, <1>10, <1>11

LEMMA PrintNoResponseKeepsInv ==
  ASSUME IInv, NEW r \in Run, PrintNoResponse(r)
  PROVE  IInv'
<1> USE DEF IInv, Flow
<1>1. /\ sender[r] = "waiting" /\ timer[r] = 0 /\ port' = port /\ awaited' = awaited
      /\ answer' = answer /\ up' = up /\ down' = down /\ sat' = sat
      /\ processed' = processed /\ duplicates' = duplicates
      /\ Close(r, "no response")
  BY DEF PrintNoResponse
<1>2. /\ Begun' = Begun /\ Open' \subseteq Open /\ Ports'
      /\ sender' \in [Run -> SenderStates] /\ sender'[r] = "no response"
      /\ \A q \in Run \ {r} : sender'[q] = sender[q] /\ timer'[q] = timer[q]
      /\ queue' \in [Port -> SUBSET Run] /\ timer' \in [Run -> 0..Timeout]
      /\ \A p \in Port : queue'[p] \subseteq queue[p]
      /\ queue'[port[r]] = {} /\ port[r] \in Port
      /\ \A d : Genuine(d)' <=> Genuine(d)
  BY <1>1, CloseKeepsPorts
<1>3. TypeOK'
  BY <1>1, <1>2 DEF TypeOK
<1>4. Waited'
  <2>1. awaited[r] + timer[r] >= Timeout
    BY <1>1 DEF Waited
  <2>2. awaited[r] \in Nat /\ awaited[r] <= Timeout
    BY Times DEF TypeOK
  <2>3. timer[r] = 0 /\ awaited' = awaited
    BY DEF PrintNoResponse
  <2>4. awaited'[r] = Timeout
    BY <2>1, <2>2, <2>3, Times
  <2> QED
    BY <1>1, <1>2, <2>4 DEF Waited
<1>5. Origin'
  BY <1>1, <1>2 DEF Origin
<1>6. Answers'
  BY <1>1 DEF Answers
<1>7. Once'
  <2> SUFFICES ASSUME duplicates = 0 PROVE Once'
    BY <1>1 DEF Once
  <2>1. \A d : Genuine(d) => d.port \in Port
    BY DEF Genuine, Ports
  <2>2. /\ sat' # Nobody => sat' \notin down' /\ sat'.run \notin queue'[sat'.port]
        /\ \A m \in down' : m.run \notin queue'[m.port]
    BY <1>1, <1>2, <2>1 DEF Once, Origin
  <2>3. \A d : Printed(d)' <=> Printed(d)
    BY <1>1 DEF Printed
  <2>4. /\ \A c \in up' : c.run \notin processed'
        /\ sat' # Nobody => ~Printed(sat.run)'
        /\ \A m \in down' : ~Printed(m.run)'
        /\ \A p \in Port : \A q \in queue'[p] : ~Printed(q)'
    BY <1>1, <1>2, <2>3 DEF Once
  <2>5. \A q, s \in Run : answer'[q] = answer'[s] /\ answer'[q] # Nobody => q = s
    BY <1>1 DEF Once
  <2> QED
    BY <2>2, <2>4, <2>5 DEF Once
<1>8. ResponseIsEarned'
  <2>1. \A s \in Run : sender'[s] = "response" => s # r /\ sender[s] = "response"
    BY <1>2
  <2>2. \A q \in Run : sender[q] \in {"response", "no response"} => sender'[q] = sender[q]
    BY <1>1, <1>2
  <2>3. \A s \in Run : sender[s] = "response" => answer[s] \in Run
    BY DEF ResponseIsEarned, TypeOK
  <2> QED
    BY ZenonT(60), <1>1, <2>1, <2>2, <2>3 DEF ResponseIsEarned
<1> QED
  BY <1>2, <1>3, <1>4, <1>5, <1>6, <1>7, <1>8

\* A delivery takes a datagram out of the network or counts a duplicate.
LEMMA Delivered ==
  ASSUME IInv, NEW d, NEW net, NEW rest, Deliver(d, net, rest)
  PROVE  /\ rest \subseteq net /\ duplicates' \in 0..MaxDup
         /\ duplicates' = 0 => duplicates = 0 /\ rest = net \ {d}
<1>1. CASE rest = net \ {d} /\ UNCHANGED duplicates
  BY <1>1 DEF IInv, TypeOK
<1>2. CASE duplicates < MaxDup /\ rest = net /\ duplicates' = duplicates + 1
  BY <1>2, ChannelAssumption DEF IInv, TypeOK
<1> QED
  BY <1>1, <1>2 DEF Deliver

\* The senders see nothing of what the satellite and the network do.
LEMMA SendersUnchanged ==
  ASSUME IInv, UNCHANGED <<senderVars, awaited>>, processed \subseteq processed',
         duplicates' = 0 => duplicates = 0
  PROVE  /\ Waited' /\ Ports' /\ Answers' /\ ResponseIsEarned' /\ Begun' = Begun
         /\ Open' = Open
         /\ \A d : (Genuine(d)' <=> Genuine(d)) /\ (Printed(d)' <=> Printed(d))
<1> USE DEF IInv, Flow, senderVars
<1>1. Begun' = Begun /\ Open' = Open
  BY DEF Begun, Open
<1>2. \A d : (Genuine(d)' <=> Genuine(d)) /\ (Printed(d)' <=> Printed(d))
  BY <1>1 DEF Genuine, Printed
<1>3. Waited' /\ Ports'
  BY <1>1 DEF Waited, Ports
<1>4. Answers' /\ ResponseIsEarned'
  BY DEF Answers, ResponseIsEarned
<1> QED
  BY <1>1, <1>2, <1>3, <1>4

LEMMA ReceiveCommandKeepsInv ==
  ASSUME IInv, ReceiveCommand
  PROVE  IInv'
<1> USE DEF IInv, Flow
<1>1. PICK c \in up : /\ sat' = c /\ processed' = processed \union {c.run}
                       /\ Deliver(c, up, up')
  BY DEF ReceiveCommand
<1>2. sat = Nobody /\ down' = down /\ queue' = queue /\ UNCHANGED <<senderVars, awaited>>
  BY DEF ReceiveCommand
<1>3. /\ up' \subseteq up /\ duplicates' \in 0..MaxDup
      /\ duplicates' = 0 => duplicates = 0 /\ up' = up \ {c}
  BY <1>1, Delivered
<1>4. /\ Waited' /\ Ports' /\ Answers' /\ ResponseIsEarned' /\ Begun' = Begun
      /\ \A d : (Genuine(d)' <=> Genuine(d)) /\ (Printed(d)' <=> Printed(d))
  BY <1>1, <1>2, <1>3, SendersUnchanged
<1>5. c \in Command /\ c.run \in Run /\ Genuine(c)
  BY DEF TypeOK, Command, Origin
<1>6. TypeOK'
  BY <1>1, <1>2, <1>3, <1>5 DEF TypeOK, senderVars
<1>7. port' = port
  BY <1>2 DEF senderVars
<1>8. Origin'
  BY <1>1, <1>2, <1>3, <1>4, <1>5, <1>7 DEF Origin, Genuine
<1>9. Once'
  <2> SUFFICES ASSUME duplicates' = 0 PROVE Once'
    BY DEF Once
  <2>1. duplicates = 0 /\ up' = up \ {c} /\ c.run \notin processed
    BY <1>3 DEF Once
  <2>2. \A d \in up' : d.run # c.run
    <3>1. ASSUME NEW d \in up', d.run = c.run PROVE FALSE
      <4>1. d \in Command /\ d.port = c.port
        BY <1>3, <1>5, <3>1 DEF TypeOK, Origin, Genuine
      <4>2. d = c
        BY <1>5, <3>1, <4>1, SameDatagram
      <4> QED
        BY <2>1, <4>2
    <3> QED
      BY <3>1
  <2>3. \A d \in up' : d.run \notin processed'
    BY <1>1, <1>3, <2>1, <2>2 DEF Once
  <2>4. c \notin down /\ c.run \notin queue[c.port]
    <3>1. c.port \in Port
      BY <1>5 DEF Genuine, Ports
    <3> QED
      BY <2>1, <3>1 DEF Origin
  <2>5. ~Printed(c.run)
    <3>1. \A r \in Run : answer[r] = c.run => answer[r] # Nobody
      BY <1>5, ChannelAssumption
    <3> QED
      BY <2>1, <3>1 DEF Printed, Answers
  <2>6. /\ sat' # Nobody => sat' \notin down' /\ sat'.run \notin queue'[sat'.port]
        /\ sat' # Nobody => ~Printed(sat.run)'
    BY <1>1, <1>2, <1>4, <2>4, <2>5
  <2>7. /\ \A m \in down' : m.run \notin queue'[m.port] /\ ~Printed(m.run)'
        /\ \A p \in Port : \A q \in queue'[p] : ~Printed(q)'
    BY <1>2, <1>4, <2>1 DEF Once
  <2>8. \A q, r \in Run : answer'[q] = answer'[r] /\ answer'[q] # Nobody => q = r
    BY <1>2, <2>1 DEF Once, senderVars
  <2> QED
    BY <2>3, <2>6, <2>7, <2>8 DEF Once
<1> QED
  BY <1>4, <1>6, <1>8, <1>9

LEMMA AcknowledgeKeepsInv ==
  ASSUME IInv, Acknowledge
  PROVE  IInv'
<1> USE DEF IInv, Flow
<1>1. /\ sat # Nobody /\ sat' = Nobody /\ down' = down \union {sat} /\ up' = up
      /\ queue' = queue /\ processed' = processed /\ duplicates' = duplicates
      /\ UNCHANGED <<senderVars, awaited>>
  BY DEF Acknowledge
<1>2. /\ Waited' /\ Ports' /\ Answers' /\ ResponseIsEarned' /\ Begun' = Begun
      /\ \A d : (Genuine(d)' <=> Genuine(d)) /\ (Printed(d)' <=> Printed(d))
  BY <1>1, SendersUnchanged
<1>3. TypeOK'
  BY <1>1 DEF TypeOK, senderVars
<1>4. port' = port
  BY <1>1 DEF senderVars
<1>5. Origin'
  BY <1>1, <1>2, <1>4 DEF Origin
<1>6. Once'
  <2> SUFFICES ASSUME duplicates = 0 PROVE Once'
    BY <1>1 DEF Once
  <2>1. /\ \A c \in up' : c.run \notin processed'
        /\ \A m \in down' : m.run \notin queue'[m.port] /\ ~Printed(m.run)'
        /\ \A p \in Port : \A q \in queue'[p] : ~Printed(q)'
    BY <1>1, <1>2 DEF Once
  <2>2. \A q, r \in Run : answer'[q] = answer'[r] /\ answer'[q] # Nobody => q = r
    BY <1>1 DEF Once, senderVars
  <2> QED
    BY <1>1, <2>1, <2>2 DEF Once
<1> QED
  BY <1>2, <1>3, <1>5, <1>6

\* The answer moves from the network into the socket that has its port, if any.
LEMMA ArriveKeepsInv ==
  ASSUME IInv, Arrive
  PROVE  IInv'
<1> USE DEF IInv, Flow
<1>1. PICK m \in down :
        /\ Deliver(m, down, down')
        /\ queue' = IF m.port \in Bound
                    THEN [queue EXCEPT ![m.port] = @ \union {m.run}] ELSE queue
  BY DEF Arrive
<1>2. up' = up /\ sat' = sat /\ processed' = processed /\ UNCHANGED <<senderVars, awaited>>
  BY DEF Arrive
<1>3. /\ down' \subseteq down /\ duplicates' \in 0..MaxDup
      /\ duplicates' = 0 => duplicates = 0 /\ down' = down \ {m}
  BY <1>1, Delivered
<1>4. /\ Waited' /\ Ports' /\ Answers' /\ ResponseIsEarned' /\ Begun' = Begun
      /\ \A d : (Genuine(d)' <=> Genuine(d)) /\ (Printed(d)' <=> Printed(d))
  BY <1>2, <1>3, SendersUnchanged
<1>5. /\ m \in Command /\ m.run \in Run /\ m.run \in processed
      /\ Genuine(m) /\ m.port \in Port /\ port[m.run] = m.port
  BY DEF TypeOK, Command, Origin, Genuine, Ports
<1>6. /\ queue' \in [Port -> SUBSET Run]
      /\ \A p \in Port : \A q \in queue'[p] :
           q \in queue[p] \/ (q = m.run /\ p = m.port)
  BY <1>1, <1>5 DEF TypeOK
<1>7. port' = port /\ answer' = answer
  BY <1>2 DEF senderVars
<1>8. TypeOK'
  BY <1>2, <1>3, <1>6 DEF TypeOK, senderVars
<1>9. Origin'
  BY <1>2, <1>3, <1>4, <1>5, <1>6, <1>7 DEF Origin
<1>10. Once'
  <2> SUFFICES ASSUME duplicates' = 0 PROVE Once'
    BY DEF Once
  <2>1. duplicates = 0 /\ down' = down \ {m}
    BY <1>3
  <2>2. \A d \in down' : d.run # m.run
    <3>1. ASSUME NEW d \in down', d.run = m.run PROVE FALSE
      <4>1. d \in Command /\ d.port = m.port
        BY <1>3, <1>5, <3>1 DEF TypeOK, Origin, Genuine
      <4>2. d = m
        BY <1>5, <3>1, <4>1, SameDatagram
      <4> QED
        BY <2>1, <4>2
    <3> QED
      BY <3>1
  <2>3. sat # Nobody => sat.run # m.run
    <3>1. ASSUME sat # Nobody, sat.run = m.run PROVE FALSE
      <4>1. sat \in Command /\ sat.port = m.port /\ sat \notin down
        BY <1>5, <2>1, <3>1 DEF TypeOK, Origin, Genuine, Once
      <4> QED
        BY <1>5, <3>1, <4>1, SameDatagram
    <3> QED
      BY <3>1
  <2>4. \A d : Genuine(d) => d.port \in Port
    BY DEF Genuine, Ports
  <2>5. sat' # Nobody => sat' \notin down' /\ sat'.run \notin queue'[sat'.port]
    BY <1>2, <1>3, <1>6, <2>1, <2>3, <2>4 DEF Once, Origin
  <2>6. \A d \in down' : d.run \notin queue'[d.port]
    BY <1>3, <1>6, <2>1, <2>2, <2>4 DEF Once, Origin
  <2>7. /\ \A c \in up' : c.run \notin processed'
        /\ sat' # Nobody => ~Printed(sat.run)'
        /\ \A d \in down' : ~Printed(d.run)'
    BY <1>2, <1>3, <1>4, <2>1 DEF Once
  <2>8. \A p \in Port : \A q \in queue'[p] : ~Printed(q)'
    BY <1>4, <1>6, <2>1 DEF Once
  <2>9. \A q, r \in Run : answer'[q] = answer'[r] /\ answer'[q] # Nobody => q = r
    BY <1>7, <2>1 DEF Once
  <2> QED
    BY <2>5, <2>6, <2>7, <2>8, <2>9 DEF Once
<1> QED
  BY <1>4, <1>8, <1>9, <1>10

\* While a run waits with nothing in its socket, what it waits for and what it has
\* waited move together.
LEMMA TickKeepsInv ==
  ASSUME IInv, Tick
  PROVE  IInv'
<1> USE DEF IInv, Flow
<1>1. /\ sender' = sender /\ port' = port /\ answer' = answer /\ up' = up
      /\ down' = down /\ queue' = queue /\ sat' = sat /\ processed' = processed
      /\ duplicates' = duplicates
  BY DEF Tick
<1>2. \A r \in Run :
        /\ timer[r] \in Nat /\ timer[r] <= Timeout
        /\ awaited[r] \in Nat /\ awaited[r] <= Timeout
  BY Times DEF TypeOK
<1>3. \A r \in Run :
        /\ sender[r] = "waiting" =>
             timer[r] > 0 /\ timer'[r] = timer[r] - 1 /\ r \in Unanswered
        /\ sender[r] # "waiting" => timer'[r] = timer[r]
        /\ awaited'[r] = IF r \in Unanswered /\ awaited[r] < Timeout
                         THEN awaited[r] + 1 ELSE awaited[r]
  BY DEF Tick, Unanswered, Open
<1>4. /\ timer' \in [Run -> 0..Timeout] /\ awaited' \in [Run -> 0..Timeout]
  <2>1. \A r \in Run : timer'[r] \in 0..Timeout /\ awaited'[r] \in 0..Timeout
    BY <1>2, <1>3, Times
  <2>2. /\ timer' = [r \in Run |-> timer'[r]]
        /\ awaited' = [r \in Run |-> awaited'[r]]
    BY DEF Tick
  <2> QED
    BY <2>1, <2>2
<1>5. TypeOK'
  BY <1>1, <1>4 DEF TypeOK
<1>6. Waited'
  <2>1. ASSUME NEW r \in Run, sender[r] = "waiting"
        PROVE  awaited'[r] + timer'[r] >= Timeout
    <3>1. awaited[r] + timer[r] >= Timeout
      BY <2>1 DEF Waited
    <3> QED
      BY <1>2, <1>3, <2>1, <3>1, Times
  <2>2. ASSUME NEW r \in Run, sender[r] = "no response"
        PROVE  awaited'[r] = Timeout
    <3>1. awaited[r] = Timeout
      BY <2>2 DEF Waited
    <3> QED
      BY <1>3, <3>1, Times
  <2> QED
    BY <1>1, <2>1, <2>2 DEF Waited
<1>7. Begun' = Begun /\ Open' = Open
  BY <1>1 DEF Begun, Open
<1>8. \A d : (Genuine(d)' <=> Genuine(d)) /\ (Printed(d)' <=> Printed(d))
  BY <1>1, <1>7 DEF Genuine, Printed
<1>9. Ports' /\ Answers' /\ ResponseIsEarned'
  BY <1>1, <1>7 DEF Ports, Answers, ResponseIsEarned
<1>10. Origin' /\ Once'
  BY <1>1, <1>7, <1>8 DEF Origin, Once
<1> QED
  BY <1>5, <1>6, <1>9, <1>10

LEMMA StepKeepsInv == IInv /\ [Next]_vars => IInv'
<1> SUFFICES ASSUME IInv, [Next]_vars PROVE IInv'
  OBVIOUS
<1>1. ASSUME NEW r \in Run, SenderStep(r) PROVE IInv'
  BY <1>1, SendCommandKeepsInv, SendFailsKeepsInv, WaitKeepsInv, PrintResponseKeepsInv,
     PrintNoResponseKeepsInv DEF SenderStep
<1>2. CASE SatelliteStep
  BY <1>2, ReceiveCommandKeepsInv, AcknowledgeKeepsInv DEF SatelliteStep
<1>3. CASE Arrive \/ Tick
  BY <1>3, ArriveKeepsInv, TickKeepsInv
<1>4. CASE UNCHANGED vars
  <2> USE DEF IInv, Flow, vars, senderVars
  <2>1. /\ sender' = sender /\ port' = port /\ timer' = timer /\ answer' = answer
        /\ awaited' = awaited /\ up' = up /\ down' = down /\ queue' = queue
        /\ sat' = sat /\ processed' = processed /\ duplicates' = duplicates
    BY <1>4
  <2>2. Begun' = Begun /\ Open' = Open
    BY <2>1 DEF Begun, Open
  <2>3. \A d : (Genuine(d)' <=> Genuine(d)) /\ (Printed(d)' <=> Printed(d))
    BY <2>1, <2>2 DEF Genuine, Printed
  <2>4. TypeOK' /\ Waited'
    BY <2>1 DEF TypeOK, Waited
  <2>5. Ports' /\ Answers' /\ ResponseIsEarned'
    BY <2>1, <2>2 DEF Ports, Answers, ResponseIsEarned
  <2>6. Origin' /\ Once'
    BY <2>1, <2>2, <2>3 DEF Origin, Once
  <2> QED
    BY <2>4, <2>5, <2>6
<1> QED
  BY <1>1, <1>2, <1>3, <1>4 DEF Next
-----------------------------------------------------------------------------
\* The inductive invariant holds in every state the channel reaches.
THEOREM Invariant == Spec => []IInv
BY InitInv, StepKeepsInv, PTL DEF Spec

\* The variables of the two programs, of their sockets and of the network have
\* their types, for every number of runs, ports and duplicates.
THEOREM TypeCorrect == Spec => []TypeOK
<1>1. IInv => TypeOK
  BY DEF IInv
<1> QED
  BY <1>1, Invariant, PTL

\* No run says that there was no response while an answer that arrived within the
\* timeout lay in its socket, for every timeout (ground_sender.cpp:57-67).
THEOREM NoEarlyEnd == Spec => []GivesUpOnlyWhenLate
<1>1. IInv => GivesUpOnlyWhenLate
  BY DEF IInv, Waited, GivesUpOnlyWhenLate
<1> QED
  BY <1>1, Invariant, PTL

\* A printed response was earned by this run or by one that had its port before and
\* has ended, and is printed once unless the network made a duplicate
\* (ground_sender.cpp:57-70, sat_receiver.cpp:32-61).
THEOREM Earned == Spec => []ResponseIsEarned
<1>1. IInv => ResponseIsEarned
  BY DEF IInv
<1> QED
  BY <1>1, Invariant, PTL
=============================================================================
