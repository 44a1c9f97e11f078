----------------------- MODULE DashboardClientProofs ------------------------
(***************************************************************************)
(* How long one POST holds the packet loop, and how long packets wait, for *)
(* every timeout, number of pieces and backlog.                            *)
(***************************************************************************)
EXTENDS DashboardClient, SequenceTheorems, TLAPS

\* Pieces of the response that have been read.
Consumed == MaxChunks - ready - owed

\* What is left of the pieces, and which states of the connection the dashboard
\* has had a part in.
Connection ==
  /\ ready + owed <= MaxChunks
  /\ conn \in {"open", "closed"} => accepted
  /\ pc \in {"send", "recv"} => accepted

\* Where the time has gone: to the connect, then to one timeout for each recv.
HeldSoFar ==
  /\ pc \in {"socket", "connect"} => held = 0
  /\ pc = "select" => held + timer <= Timeout
  /\ pc = "send"   => held <= Timeout
  /\ pc = "recv"   => held + timer <= Timeout * (2 + Consumed)

\* A packet has waited for the POST under way, and for one POST for each of the
\* places in front of it that have become free.
Waited ==
  \A i \in DOMAIN backlog :
    backlog[i] <= (MaxBacklog - i) * Longest + IF pc = "loop" THEN Longest ELSE held

IInv ==
  /\ TypeOK /\ Connection /\ HeldSoFar
  /\ HoldBounded /\ DeadDashboardIsCheap /\ Waited
-----------------------------------------------------------------------------
LEMMA Multiples ==
  ASSUME NEW a \in Nat, NEW b \in Nat, NEW t \in Nat
  PROVE  /\ t * a \in Nat
         /\ t * (a + 1) = t * a + t
         /\ a <= b => t * a <= t * b
<1>1. t * a \in Nat /\ t * b \in Nat /\ t * (a + 1) = t * a + t
  BY SMT
<1>2. ASSUME a <= b PROVE t * a <= t * b
  <2>1. PICK c \in Nat : b = a + c
    <3>1. b - a \in Nat /\ b = a + (b - a)
      BY <1>2
    <3> QED BY <3>1
  <2>2. t * b = t * a + t * c /\ t * c \in Nat
    BY <2>1, SMT
  <2> QED
    BY <1>1, <2>2
<1> QED
  BY <1>1, <1>2

LEMMA LongestIsNat == Longest \in Nat /\ Timeout <= Longest
BY ClientAssumption, SMT DEF Longest

LEMMA InitInv == Init => IInv
<1> SUFFICES ASSUME Init PROVE IInv
  OBVIOUS
<1>1. Longest \in Nat
  BY LongestIsNat
<1> USE ClientAssumption DEF Init
<1>2. TypeOK
  <2>1. backlog \in Seq(Nat) /\ Len(backlog) = 0
    BY EmptySeq
  <2>2. accepted \in BOOLEAN
    OBVIOUS
  <2>3. /\ pc \in Calls \union {"loop"} /\ timer \in 0..Timeout /\ held \in Nat
        /\ Len(backlog) <= MaxBacklog
        /\ conn \in {"none", "syn", "open", "closed", "reset"}
        /\ ready \in 0..MaxChunks /\ owed \in 0..MaxChunks
    BY <2>1
  <2> QED
    BY <2>1, <2>2, <2>3 DEF TypeOK
<1>3. Connection /\ HeldSoFar /\ DeadDashboardIsCheap
  BY DEF Connection, HeldSoFar, DeadDashboardIsCheap
<1>4. HoldBounded /\ Waited
  BY <1>1 DEF HoldBounded, Waited
<1> QED
  BY <1>2, <1>3, <1>4 DEF IInv

\* Nothing that post_security_event does takes time or touches the socket of the
\* packet loop: only Tick, Arrive and BeginPost do.
LEMMA PostTakesNoTime ==
  ASSUME IInv, Post
  PROVE  pc # "loop" /\ held' = held /\ backlog' = backlog
BY DEF Post, OpenSocket, Connect, SelectReady, SelectTimeout, Send, RecvData, RecvEnd,
       RecvNothing, RecvTimeout, Return, Call

LEMMA PostKeepsWaited ==
  ASSUME IInv, Post
  PROVE  HoldBounded' /\ Waited'
<1>1. pc # "loop" /\ held' = held /\ backlog' = backlog
  BY PostTakesNoTime
<1>2. HoldBounded'
  BY <1>1 DEF IInv, HoldBounded, Longest
<1>3. ASSUME NEW i \in DOMAIN backlog
      PROVE  backlog[i] <= (MaxBacklog - i) * Longest + IF pc' = "loop" THEN Longest ELSE held
  <2>1. backlog[i] <= (MaxBacklog - i) * Longest + held /\ held <= Longest
    BY <1>1 DEF IInv, Waited, HoldBounded
  <2>2. backlog[i] \in Nat /\ i \in Nat
    BY LenProperties DEF IInv, TypeOK
  <2>3. PICK k \in Int : k = (MaxBacklog - i) * Longest
    BY <2>2, LongestIsNat, ClientAssumption
  <2>4. held \in Nat /\ Longest \in Nat
    BY LongestIsNat DEF IInv, TypeOK
  <2>5. backlog[i] <= k + held /\ backlog[i] <= k + Longest
    BY <2>1, <2>2, <2>3, <2>4
  <2> QED
    BY <2>3, <2>5
<1>4. Waited'
  BY <1>1, <1>3 DEF Waited, Longest
<1> QED
  BY <1>2, <1>4

\* The pieces that one recv reads pay for the timeout of the next.
LEMMA RecvDataPays ==
  ASSUME IInv, RecvData
  PROVE  HeldSoFar'
<1>1. PICK n \in 1..ready : ready' = ready - n
  BY DEF RecvData
<1>2. /\ pc = "recv" /\ pc' = "recv" /\ timer' = Timeout /\ held' = held /\ owed' = owed
      /\ ready \in Nat /\ owed \in Nat /\ ready + owed <= MaxChunks /\ held \in Nat
      /\ timer \in Nat /\ MaxChunks \in Nat /\ Timeout \in Nat
  BY ClientAssumption DEF RecvData, Call, IInv, TypeOK, Connection
<1>3. PICK c \in Nat : c = Consumed
  <2>1. Consumed \in Nat
    BY <1>2 DEF Consumed
  <2> QED BY <2>1
<1>4. Consumed' = c + n
  BY <1>1, <1>2, <1>3 DEF Consumed
<1>5. held <= Timeout * (2 + c)
  <2>1. held + timer <= Timeout * (2 + c)
    BY <1>2, <1>3 DEF IInv, HeldSoFar
  <2>2. PICK b \in Nat : b = Timeout * (2 + c)
    BY <1>2, Multiples
  <2> QED
    BY <1>2, <2>1, <2>2
<1>6. held + Timeout <= Timeout * (2 + (c + n))
  <2>1. PICK a \in Nat, b \in Nat : a = 2 + c /\ b = 2 + (c + n) /\ a + 1 <= b
    BY <1>1, <1>3
  <2>2. /\ Timeout * a \in Nat /\ Timeout * (a + 1) = Timeout * a + Timeout
        /\ Timeout * (a + 1) <= Timeout * b
    <3>1. a + 1 \in Nat
      OBVIOUS
    <3> QED
      BY <1>2, <2>1, <3>1, Multiples
  <2>3. PICK x \in Nat, y \in Int : x = Timeout * a /\ y = Timeout * b
    BY <1>2, <2>1, <2>2, Multiples
  <2>4. x + Timeout <= y /\ held <= x
    BY <1>5, <2>1, <2>2, <2>3
  <2>5. held + Timeout <= y
    BY <1>2, <2>4
  <2> QED
    BY <2>1, <2>3, <2>5
<1> QED
  BY <1>2, <1>4, <1>6 DEF HeldSoFar

\* Each system call of a POST keeps to the account.
LEMMA PostInv ==
  ASSUME IInv, Post
  PROVE  IInv'
<1>0. /\ TypeOK /\ Connection /\ HeldSoFar /\ HoldBounded /\ DeadDashboardIsCheap
      /\ HoldBounded' /\ Waited'
  BY PostKeepsWaited DEF IInv
<1> USE ClientAssumption DEF Calls
<1>1. CASE OpenSocket
  <2>1. TypeOK'
    BY <1>0, <1>1 DEF OpenSocket, Return, Call, dashVars, TypeOK
  <2>2. Connection' /\ HeldSoFar' /\ DeadDashboardIsCheap'
    BY <1>0, <1>1 DEF OpenSocket, Return, Call, dashVars, TypeOK, Connection, HeldSoFar,
                      DeadDashboardIsCheap
  <2> QED
    BY <1>0, <2>1, <2>2 DEF IInv
<1>2. CASE Connect
  <2>1. TypeOK'
    <3>1. accepted' \in BOOLEAN
      BY <1>0, <1>2 DEF Connect, Return, Call, TypeOK
    <3>2. /\ pc' \in Calls \union {"loop"} /\ timer' \in 0..Timeout /\ held' \in Nat
          /\ backlog' \in Seq(Nat) /\ Len(backlog') <= MaxBacklog
          /\ conn' \in {"none", "syn", "open", "closed", "reset"}
          /\ ready' \in 0..MaxChunks /\ owed' \in 0..MaxChunks
      BY <1>0, <1>2 DEF Connect, Return, Call, TypeOK
    <3> QED
      BY <3>1, <3>2 DEF TypeOK
  <2>2. Connection' /\ HeldSoFar' /\ DeadDashboardIsCheap'
    BY <1>0, <1>2 DEF Connect, Return, Call, TypeOK, Connection, HeldSoFar,
                      DeadDashboardIsCheap
  <2> QED
    BY <1>0, <2>1, <2>2 DEF IInv
<1>3. CASE SelectReady
  <2>1. TypeOK'
    BY <1>0, <1>3 DEF SelectReady, Return, Call, dashVars, TypeOK
  <2>2. Connection' /\ HeldSoFar' /\ DeadDashboardIsCheap'
    BY <1>0, <1>3 DEF SelectReady, Return, Call, dashVars, TypeOK, Connection, HeldSoFar,
                      DeadDashboardIsCheap
  <2> QED
    BY <1>0, <2>1, <2>2 DEF IInv
<1>4. CASE SelectTimeout
  <2>1. TypeOK'
    BY <1>0, <1>4 DEF SelectTimeout, Return, TypeOK
  <2>2. Connection' /\ HeldSoFar' /\ DeadDashboardIsCheap'
    BY <1>0, <1>4 DEF SelectTimeout, Return, TypeOK, Connection, HeldSoFar,
                      DeadDashboardIsCheap
  <2> QED
    BY <1>0, <2>1, <2>2 DEF IInv
<1>5. CASE Send
  <2>1. TypeOK'
    BY <1>0, <1>5 DEF Send, Call, dashVars, TypeOK
  <2>2. Connection' /\ DeadDashboardIsCheap'
    BY <1>0, <1>5 DEF Send, Call, dashVars, TypeOK, Connection, DeadDashboardIsCheap
  <2>3. HeldSoFar'
    <3>1. /\ pc' = "recv" /\ timer' = Timeout /\ held' = held /\ held <= Timeout
          /\ held \in Nat /\ Timeout \in Nat /\ Consumed' = Consumed
      BY <1>0, <1>5 DEF Send, Call, dashVars, TypeOK, HeldSoFar, Consumed
    <3>2. Consumed \in Nat
      BY <1>0 DEF TypeOK, Connection, Consumed
    <3>3. held + Timeout <= Timeout * (2 + Consumed)
      <4>1. PICK a \in Nat : a = 2 + Consumed /\ 2 <= a
        BY <3>2
      <4>2. Timeout * 2 <= Timeout * a /\ Timeout * 2 = Timeout + Timeout
        BY <3>1, <4>1, Multiples
      <4>3. PICK y \in Nat : y = Timeout * a
        BY <3>1, <4>1, Multiples
      <4>4. held + Timeout <= y
        BY <3>1, <4>2, <4>3
      <4> QED
        BY <4>1, <4>3, <4>4
    <3> QED
      BY <3>1, <3>3 DEF HeldSoFar
  <2> QED
    BY <1>0, <2>1, <2>2, <2>3 DEF IInv
<1>6. CASE RecvData
  <2>1. TypeOK'
    BY <1>0, <1>6 DEF RecvData, Call, TypeOK
  <2>2. Connection' /\ DeadDashboardIsCheap'
    BY <1>0, <1>6 DEF RecvData, Call, TypeOK, Connection, DeadDashboardIsCheap
  <2>3. HeldSoFar'
    BY <1>6, RecvDataPays
  <2> QED
    BY <1>0, <2>1, <2>2, <2>3 DEF IInv
<1>7. CASE RecvEnd \/ RecvTimeout
  <2>1. TypeOK'
    BY <1>0, <1>7 DEF RecvEnd, RecvTimeout, RecvNothing, Return, TypeOK
  <2>2. Connection' /\ HeldSoFar' /\ DeadDashboardIsCheap'
    BY <1>0, <1>7 DEF RecvEnd, RecvTimeout, RecvNothing, Return, TypeOK, Connection,
                      HeldSoFar, DeadDashboardIsCheap
  <2> QED
    BY <1>0, <2>1, <2>2 DEF IInv
<1> QED
  BY <1>1, <1>2, <1>3, <1>4, <1>5, <1>6, <1>7 DEF Post

LEMMA BeginPostInv ==
  ASSUME IInv, BeginPost
  PROVE  IInv'
<1>1. /\ pc = "loop" /\ pc' = "socket" /\ held' = 0 /\ backlog # <<>>
      /\ backlog' = Tail(backlog) /\ backlog \in Seq(Nat) /\ Len(backlog) <= MaxBacklog
  BY DEF BeginPost, IInv, TypeOK
<1>2. /\ Tail(backlog) \in Seq(Nat) /\ Len(Tail(backlog)) = Len(backlog) - 1
      /\ Len(backlog) \in Nat /\ DOMAIN backlog = 1..Len(backlog)
      /\ DOMAIN Tail(backlog) = 1..Len(Tail(backlog))
      /\ \A i \in 1..Len(Tail(backlog)) : Tail(backlog)[i] = backlog[i + 1]
  BY <1>1, HeadTailProperties, LenProperties
<1>3. TypeOK'
  <2>1. accepted' \in BOOLEAN
    BY DEF BeginPost
  <2>2. /\ pc' \in Calls \union {"loop"} /\ timer' \in 0..Timeout /\ held' \in Nat
        /\ conn' \in {"none", "syn", "open", "closed", "reset"}
        /\ ready' \in 0..MaxChunks /\ owed' \in 0..MaxChunks
    <3>1. /\ timer' = timer /\ conn' = "none" /\ ready' = 0 /\ owed' = MaxChunks
          /\ timer \in 0..Timeout
      BY DEF BeginPost, IInv, TypeOK
    <3> QED
      BY <1>1, <3>1, ClientAssumption DEF Calls
  <2>3. backlog' \in Seq(Nat) /\ Len(backlog') <= MaxBacklog
    BY <1>1, <1>2, ClientAssumption
  <2> QED
    BY <2>1, <2>2, <2>3 DEF TypeOK
<1>4. Connection' /\ HeldSoFar' /\ DeadDashboardIsCheap' /\ HoldBounded'
  BY <1>1, LongestIsNat, ClientAssumption
  DEF BeginPost, Connection, HeldSoFar, DeadDashboardIsCheap, HoldBounded, Longest
<1>5. Waited'
  <2>1. ASSUME NEW i \in DOMAIN Tail(backlog)
        PROVE  Tail(backlog)[i] <= (MaxBacklog - i) * Longest
    <3>1. /\ i \in Nat /\ i + 1 \in DOMAIN backlog /\ Tail(backlog)[i] = backlog[i + 1]
      BY <1>2
    <3>2. backlog[i + 1] <= (MaxBacklog - (i + 1)) * Longest + Longest
      BY <1>1, <3>1 DEF IInv, Waited
    <3>3. (MaxBacklog - (i + 1)) * Longest + Longest = (MaxBacklog - i) * Longest
      BY <3>1, LongestIsNat, ClientAssumption, SMT
    <3> QED
      BY <3>1, <3>2, <3>3
  <2>2. ASSUME NEW i \in DOMAIN Tail(backlog)
        PROVE  (MaxBacklog - i) * Longest + 0 = (MaxBacklog - i) * Longest
    <3>1. i \in Nat
      BY <1>2
    <3> QED
      BY <3>1, LongestIsNat, ClientAssumption
  <2> QED
    BY <1>1, <2>1, <2>2 DEF Waited, Longest
<1> QED
  BY <1>3, <1>4, <1>5 DEF IInv

LEMMA DashboardInv ==
  ASSUME IInv, Dashboard
  PROVE  IInv'
<1>1. pc' = pc /\ timer' = timer /\ held' = held /\ backlog' = backlog
  BY DEF Dashboard
<1>2. /\ ready' \in 0..MaxChunks /\ owed' \in 0..MaxChunks
      /\ ready' + owed' <= MaxChunks /\ Consumed' = Consumed
  <2>1. ready \in Nat /\ owed \in Nat /\ MaxChunks \in Nat /\ ready + owed <= MaxChunks
    BY ClientAssumption DEF IInv, TypeOK, Connection
  <2>2. CASE ready' = ready /\ owed' = owed
    BY <2>1, <2>2 DEF Consumed
  <2>3. CASE owed > 0 /\ ready' = ready + 1 /\ owed' = owed - 1
    BY <2>1, <2>3 DEF Consumed
  <2> QED
    BY <2>2, <2>3 DEF Dashboard
<1>3. TypeOK' /\ Connection' /\ DeadDashboardIsCheap'
  <2>1. accepted' \in BOOLEAN
    BY DEF Dashboard, IInv, TypeOK
  <2>2. /\ pc' \in Calls \union {"loop"} /\ timer' \in 0..Timeout /\ held' \in Nat
        /\ backlog' \in Seq(Nat) /\ Len(backlog') <= MaxBacklog
    BY <1>1 DEF IInv, TypeOK
  <2>3. conn' \in {"none", "syn", "open", "closed", "reset"}
    BY DEF Dashboard, IInv, TypeOK
  <2>4. accepted => accepted'
    BY DEF Dashboard
  <2>5. conn' \in {"open", "closed"} => accepted'
    BY DEF Dashboard, IInv, Connection
  <2> QED
    BY <1>1, <1>2, <2>1, <2>2, <2>3, <2>4, <2>5
    DEF IInv, TypeOK, Connection, DeadDashboardIsCheap
<1>4. HeldSoFar' /\ HoldBounded' /\ Waited'
  BY <1>1, <1>2 DEF IInv, HeldSoFar, HoldBounded, Waited, Longest
<1> QED
  BY <1>3, <1>4 DEF IInv

LEMMA ArriveInv ==
  ASSUME IInv, Arrive
  PROVE  IInv'
<1>1. /\ pc' = pc /\ timer' = timer /\ held' = held /\ UNCHANGED dashVars
      /\ backlog' = Append(backlog, 0) /\ Len(backlog) < MaxBacklog
      /\ backlog \in Seq(Nat) /\ held \in Nat
  BY DEF Arrive, IInv, TypeOK
<1>2. PICK n \in Nat : /\ n = Len(backlog) /\ DOMAIN backlog = 1..n
                       /\ DOMAIN Append(backlog, 0) = 1 .. n + 1
                       /\ Append(backlog, 0) \in Seq(Nat) /\ Len(Append(backlog, 0)) = n + 1
                       /\ \A i \in 1..n : Append(backlog, 0)[i] = backlog[i]
                       /\ Append(backlog, 0)[n + 1] = 0
  BY <1>1, AppendProperties, LenProperties
<1>3. TypeOK'
  BY <1>1, <1>2, ClientAssumption DEF IInv, TypeOK, dashVars
<1>4. Connection' /\ HeldSoFar' /\ DeadDashboardIsCheap' /\ HoldBounded'
  BY <1>1 DEF IInv, Connection, HeldSoFar, DeadDashboardIsCheap, HoldBounded, Longest,
              Consumed, dashVars
<1>5. Waited'
  <2> DEFINE more == IF pc = "loop" THEN Longest ELSE held
  <2>1. more \in Nat
    BY <1>1, LongestIsNat
  <2>2. ASSUME NEW i \in 1 .. n + 1
        PROVE  Append(backlog, 0)[i] <= (MaxBacklog - i) * Longest + more
    <3>1. CASE i \in 1..n
      BY <1>2, <3>1 DEF IInv, Waited
    <3>2. CASE i = n + 1
      <4>1. PICK k \in Nat : k = MaxBacklog - i
        <5>1. MaxBacklog - i \in Nat
          BY <1>1, <1>2, <3>2, ClientAssumption
        <5> QED BY <5>1
      <4>2. Longest * k \in Nat /\ Longest * k = k * Longest
        BY LongestIsNat, SMT
      <4>3. PICK x \in Nat : x = k * Longest
        BY <4>2
      <4>4. 0 <= x + more
        BY <2>1, <4>3
      <4> QED
        BY <1>2, <3>2, <4>1, <4>3, <4>4
    <3>3. i \in 1..n \/ i = n + 1
      BY <2>2
    <3> QED
      BY <3>1, <3>2, <3>3
  <2> QED
    BY <1>1, <1>2, <2>2 DEF Waited, Longest
<1> QED
  BY <1>3, <1>4, <1>5 DEF IInv

LEMMA TickInv ==
  ASSUME IInv, Tick
  PROVE  IInv'
<1>1. /\ pc \in {"select", "recv"} /\ timer > 0 /\ timer' = timer - 1 /\ held' = held + 1
      /\ pc' = pc /\ UNCHANGED dashVars /\ held \in Nat /\ timer \in Nat /\ timer <= Timeout
      /\ backlog' = [i \in DOMAIN backlog |-> backlog[i] + 1]
      /\ backlog \in Seq(Nat) /\ Len(backlog) <= MaxBacklog
  BY ClientAssumption DEF Tick, Blocked, IInv, TypeOK
<1>2. PICK n \in Nat : /\ n = Len(backlog) /\ DOMAIN backlog = 1..n
                       /\ \A i \in 1..n : backlog[i] \in Nat
  BY <1>1, LenProperties
<1>3. TypeOK'
  <2>1. backlog' = [i \in 1..n |-> backlog[i] + 1]
    BY <1>1, <1>2
  <2>2. backlog' \in Seq(Nat) /\ Len(backlog') = n
    BY <1>2, <2>1
  <2> QED
    BY <1>1, <1>2, <2>2, ClientAssumption DEF IInv, TypeOK, dashVars
<1>4. Connection' /\ HeldSoFar'
  <2>1. held' + timer' = held + timer /\ Consumed' = Consumed
    BY <1>1 DEF Consumed, dashVars
  <2> QED
    BY <1>1, <2>1 DEF IInv, Connection, HeldSoFar, dashVars
<1>5. DeadDashboardIsCheap' /\ HoldBounded'
  <2>1. CASE pc = "select"
    <3>1. held + timer <= Timeout /\ Timeout \in Nat /\ Timeout <= Longest /\ Longest \in Nat
      BY <2>1, LongestIsNat, ClientAssumption DEF IInv, HeldSoFar
    <3>2. held' <= Timeout /\ held' <= Longest
      BY <1>1, <3>1
    <3> QED
      BY <3>2 DEF DeadDashboardIsCheap, HoldBounded, Longest
  <2>2. CASE pc = "recv"
    <3>1. accepted' = TRUE
      BY <1>1, <2>2 DEF IInv, Connection, TypeOK, dashVars
    <3>2. held' <= Longest
      <4>1. PICK c \in Nat : c = Consumed /\ 2 + c <= MaxChunks + 2 /\ 2 + c \in Nat
        BY ClientAssumption DEF Consumed, IInv, TypeOK, Connection
      <4>2. Timeout * (2 + c) <= Timeout * (MaxChunks + 2)
        <5>1. MaxChunks + 2 \in Nat
          BY ClientAssumption
        <5> QED
          BY <4>1, <5>1, ClientAssumption, Multiples
      <4>3. PICK x \in Nat : x = Timeout * (2 + c)
        BY <4>1, ClientAssumption, Multiples
      <4>4. held + timer <= x /\ x <= Longest
        BY <2>2, <4>1, <4>2, <4>3 DEF IInv, HeldSoFar, Longest
      <4> QED
        BY <1>1, <4>3, <4>4, LongestIsNat
    <3> QED
      BY <3>1, <3>2 DEF DeadDashboardIsCheap, HoldBounded, Longest
  <2> QED
    BY <1>1, <2>1, <2>2
<1>6. Waited'
  <2>1. ASSUME NEW i \in 1..n
        PROVE  backlog[i] + 1 <= (MaxBacklog - i) * Longest + (held + 1)
    <3>1. PICK k \in Int : k = (MaxBacklog - i) * Longest
      BY LongestIsNat, ClientAssumption
    <3>2. backlog[i] <= k + held /\ backlog[i] \in Nat
      BY <1>1, <1>2, <3>1 DEF IInv, Waited
    <3>3. backlog[i] + 1 <= k + (held + 1)
      BY <1>1, <3>2
    <3> QED
      BY <3>1, <3>3
  <2>2. DOMAIN backlog' = 1..n /\ \A i \in 1..n : backlog'[i] = backlog[i] + 1
    BY <1>1, <1>2
  <2>3. pc' # "loop"
    BY <1>1
  <2> QED
    BY <1>1, <2>1, <2>2, <2>3 DEF Waited, Longest
<1> QED
  BY <1>3, <1>4, <1>5, <1>6 DEF IInv

LEMMA StepInv == IInv /\ [Next]_vars => IInv'
<1> SUFFICES ASSUME IInv, [Next]_vars PROVE IInv'
  OBVIOUS
<1>1. CASE UNCHANGED vars
  BY <1>1 DEF vars, dashVars, IInv, TypeOK, Connection, HeldSoFar, Consumed, HoldBounded,
              DeadDashboardIsCheap, Waited, Longest
<1> QED
  BY <1>1, BeginPostInv, PostInv, DashboardInv, ArriveInv, TickInv DEF Next

\* The account of the time is kept in every reachable state.
THEOREM Accounted == Spec => []IInv
<1>1. Init => IInv
  BY InitInv
<1>2. IInv /\ [Next]_vars => IInv'
  BY StepInv
<1> QED
  BY <1>1, <1>2, PTL DEF Spec

\* The state of the client keeps its type: no timeout of a call is longer than
\* the one that is configured (dashboard_client.cpp:87-89, 108-112).
THEOREM TypeCorrect == Spec => []TypeOK
<1>1. IInv => TypeOK
  BY DEF IInv
<1> QED
  BY <1>1, Accounted, PTL

\* However the dashboard behaves, a POST is over after one timeout for the
\* connect and one for each recv (dashboard_client.cpp:36-124).
THEOREM Bounded == Spec => []HoldBounded
<1>1. IInv => HoldBounded
  BY DEF IInv
<1> QED
  BY <1>1, Accounted, PTL

\* A dashboard that accepts no connection costs one timeout, as the comment of
\* dashboard_client.cpp:19-20 says of a dead one.
THEOREM DeadIsCheap == Spec => []DeadDashboardIsCheap
<1>1. IInv => DeadDashboardIsCheap
  BY DEF IInv
<1> QED
  BY <1>1, Accounted, PTL

\* With at most MaxBacklog packets waiting, none waits longer than as many POSTs
\* can take: what the freshness window has to make room for.
THEOREM Waiting == Spec => []BacklogBounded
<1>1. ASSUME IInv PROVE BacklogBounded
  <2>1. SUFFICES ASSUME NEW i \in DOMAIN backlog
                 PROVE  backlog[i] <= MaxBacklog * Longest
    BY DEF BacklogBounded
  <2>2. i \in Nat /\ i >= 1 /\ i <= MaxBacklog /\ backlog[i] \in Nat
    BY <1>1, LenProperties, ClientAssumption DEF IInv, TypeOK
  <2>3. PICK k \in Nat : k = MaxBacklog - i /\ k + 1 <= MaxBacklog
    <3>1. MaxBacklog - i \in Nat /\ (MaxBacklog - i) + 1 <= MaxBacklog
      BY <2>2, ClientAssumption
    <3> QED BY <3>1
  <2>4. PICK x \in Nat, y \in Nat, l \in Nat :
          /\ l = Longest /\ x = k * Longest /\ y = MaxBacklog * Longest /\ x + l <= y
    <3>1. /\ Longest * k \in Nat /\ Longest * k = k * Longest
          /\ Longest * MaxBacklog \in Nat /\ Longest * MaxBacklog = MaxBacklog * Longest
      BY LongestIsNat, ClientAssumption, SMT
    <3>2. Longest * (k + 1) <= Longest * MaxBacklog /\ Longest * (k + 1) = Longest * k + Longest
      <4>1. k + 1 \in Nat /\ MaxBacklog \in Nat
        BY ClientAssumption
      <4> QED
        BY <2>3, <4>1, LongestIsNat, Multiples
    <3> QED
      BY <3>1, <3>2, LongestIsNat
  <2>5. backlog[i] <= x + l
    <3>1. backlog[i] <= x + IF pc = "loop" THEN l ELSE held
      BY <1>1, <2>3, <2>4 DEF IInv, Waited
    <3>2. held \in Nat /\ held <= l
      BY <1>1, <2>4 DEF IInv, HoldBounded, TypeOK
    <3> QED
      BY <2>2, <2>4, <3>1, <3>2
  <2> QED
    BY <2>2, <2>4, <2>5
<1> QED
  BY <1>1, Accounted, PTL
=============================================================================
