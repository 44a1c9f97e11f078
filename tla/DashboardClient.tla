-------------------------- MODULE DashboardClient ---------------------------
(***************************************************************************)
(* post_security_event of phase 5: one blocking HTTP POST per decision,    *)
(* one action per system call, against a clock; the dashboard's end of the *)
(* connection, which may do anything at any time; and the caller, the      *)
(* packet loop of the satellite, whose datagrams wait in the socket while  *)
(* a POST lasts.  The satellite is prompt: a call that can return does so  *)
(* before time passes.                                                     *)
(***************************************************************************)
EXTENDS Naturals, Sequences

CONSTANTS
  Timeout,      \* TIMEOUT_US, which is 300 ms
  MaxChunks,    \* into how many pieces the dashboard's response may be cut
  MaxBacklog    \* how many packets may wait in the socket

ASSUME ClientAssumption ==
  Timeout \in Nat \ {0} /\ MaxChunks \in Nat /\ MaxBacklog \in Nat \ {0}

VARIABLES
  pc,        \* the system call the satellite is in; "loop": recvfrom
  timer,     \* what is left of the timeout of that call
  held,      \* time since the packet loop called post_security_event
  backlog,   \* how long each packet in the socket has waited
  conn,      \* the connection, as the client's kernel knows it
  accepted,  \* whether the dashboard ever accepted the connection of this POST
  ready,     \* pieces of the response that have arrived and not been read
  owed       \* pieces of the response the dashboard may still send

dashVars == <<conn, accepted, ready, owed>>
vars == <<pc, timer, held, backlog, dashVars>>

Calls == {"socket", "connect", "select", "send", "recv"}

\* The longest a POST can take: the connect, and one recv for every piece and
\* for the end of the response.
Longest == Timeout * (MaxChunks + 2)

Init ==
  /\ pc = "loop" /\ timer = 0 /\ held = 0
  /\ backlog = <<>>
  /\ conn = "none" /\ accepted = FALSE /\ ready = 0 /\ owed = 0
-----------------------------------------------------------------------------
\* The packet loop takes the oldest packet, decides on it and reports.
BeginPost ==
  /\ pc = "loop" /\ backlog # <<>>
  /\ backlog' = Tail(backlog)
  /\ pc' = "socket" /\ held' = 0
  /\ conn' = "none" /\ accepted' = FALSE /\ ready' = 0 /\ owed' = MaxChunks
  /\ UNCHANGED timer

\* Back to the packet loop; close resets the connection.
Return ==
  /\ pc' = "loop"
  /\ conn' = "none" /\ ready' = 0 /\ owed' = 0
  /\ UNCHANGED <<timer, held, backlog, accepted>>

Call(call, time) ==
  /\ pc' = call
  /\ timer' = time
  /\ UNCHANGED <<held, backlog>>

\* No socket, or a host that is no IPv4 address.
OpenSocket ==
  /\ pc = "socket"
  /\ \/ Call("connect", 0) /\ UNCHANGED dashVars
     \/ Return

\* The non-blocking connect: done at once, in progress, or refused at once.
Connect ==
  /\ pc = "connect"
  /\ \/ Call("send", 0) /\ conn' = "open" /\ accepted' = TRUE /\ UNCHANGED <<ready, owed>>
     \/ Call("select", Timeout) /\ conn' = "syn" /\ UNCHANGED <<accepted, ready, owed>>
     \/ Return

\* The socket is writable: the connection is open, or SO_ERROR says why not.
SelectReady ==
  /\ pc = "select"
  /\ \/ conn \in {"open", "closed"} /\ Call("send", 0) /\ UNCHANGED dashVars
     \/ conn = "reset" /\ Return

\* Mutant: select is called again when it has timed out.
SelectAgain ==
  /\ pc = "select" /\ timer = 0 /\ conn = "syn"
  /\ Call("select", Timeout)
  /\ UNCHANGED dashVars

SelectTimeout ==
  /\ pc = "select" /\ timer = 0 /\ conn = "syn"
  /\ Return

\* Mutant: the receive timeout is set to twice the send timeout.
SendTwice ==
  /\ pc = "send"
  /\ Call("recv", 2 * Timeout)
  /\ UNCHANGED dashVars

\* The request fits into the empty send buffer, so send does not block; that it
\* fails or sends a part makes no difference here, its result is ignored.  (The
\* signal that a connection closed and then reset would raise is not modelled.)
Send ==
  /\ pc = "send"
  /\ Call("recv", Timeout)
  /\ UNCHANGED dashVars

\* recv reads up to 256 bytes, of one piece of the response or of several.
RecvData ==
  /\ pc = "recv"
  /\ \E n \in 1..ready : ready' = ready - n
  /\ Call("recv", Timeout)
  /\ UNCHANGED <<conn, accepted, owed>>

\* recv returns 0 or an error: the dashboard has closed or reset the connection.
RecvEnd ==
  /\ pc = "recv" /\ ready = 0 /\ conn \in {"closed", "reset"}
  /\ Return

RecvNothing == pc = "recv" /\ ready = 0 /\ timer = 0 /\ conn = "open"

\* Mutants: the loop of line 119 goes on when recv returns -1, with a timeout of
\* its own or on a socket that is still non-blocking.
RecvAgain == RecvNothing /\ Call("recv", Timeout) /\ UNCHANGED dashVars
RecvSpin  == RecvNothing /\ UNCHANGED vars

RecvTimeout == RecvNothing /\ Return

Post ==
  \/ OpenSocket \/ Connect \/ SelectReady \/ SelectTimeout \/ Send
  \/ RecvData \/ RecvEnd \/ RecvTimeout
-----------------------------------------------------------------------------
\* The dashboard's host accepts or refuses the connection, sends a piece of the
\* response, closes the connection or resets it, or does nothing.
Dashboard ==
  /\ \/ conn = "syn" /\ conn' = "open" /\ accepted' = TRUE /\ UNCHANGED <<ready, owed>>
     \/ pc = "recv" /\ conn = "open" /\ owed > 0
                    /\ ready' = ready + 1 /\ owed' = owed - 1
                    /\ UNCHANGED <<conn, accepted>>
     \/ conn = "open" /\ conn' = "closed" /\ UNCHANGED <<accepted, ready, owed>>
     \/ conn \in {"syn", "open"} /\ conn' = "reset" /\ UNCHANGED <<accepted, ready, owed>>
  /\ UNCHANGED <<pc, timer, held, backlog>>

\* A packet reaches the satellite's socket.
Arrive ==
  /\ Len(backlog) < MaxBacklog
  /\ backlog' = Append(backlog, 0)
  /\ UNCHANGED <<pc, timer, held, dashVars>>

\* The call the satellite is in waits for the dashboard.  (Time spent waiting for
\* a packet matters to nothing here.)
Blocked ==
  \/ pc = "select" /\ conn = "syn" /\ timer > 0
  \/ pc = "recv" /\ ready = 0 /\ conn = "open" /\ timer > 0

Tick ==
  /\ Blocked
  /\ timer' = timer - 1 /\ held' = held + 1
  /\ backlog' = [i \in DOMAIN backlog |-> backlog[i] + 1]
  /\ UNCHANGED <<pc, dashVars>>

Next == BeginPost \/ Post \/ Dashboard \/ Arrive \/ Tick

Spec == Init /\ [][Next]_vars

(***************************************************************************)
(* The satellite runs and time passes; the dashboard need not do anything. *)
(***************************************************************************)
Fairness == WF_vars(BeginPost \/ Post) /\ WF_vars(Tick)

LiveSpec == Spec /\ Fairness
-----------------------------------------------------------------------------
TypeOK ==
  /\ pc \in Calls \union {"loop"}
  /\ timer \in 0..Timeout
  /\ held \in Nat
  /\ backlog \in Seq(Nat) /\ Len(backlog) <= MaxBacklog
  /\ conn \in {"none", "syn", "open", "closed", "reset"}
  /\ accepted \in BOOLEAN
  /\ ready \in 0..MaxChunks /\ owed \in 0..MaxChunks

\* A POST holds the packet loop for at most the timeout of the connect and one
\* timeout for each recv (dashboard_client.cpp:87-89, 108-112), whatever the
\* dashboard does.
HoldBounded == held <= Longest

\* "a dead dashboard can never stall the Satellite's packet loop"
\* (dashboard_client.cpp:19-20): one that accepts no connection costs one timeout.
DeadDashboardIsCheap == ~accepted => held <= Timeout

\* A packet that finds at most MaxBacklog others before it waits no longer than
\* they and the POST under way can take: the node's freshness window must be
\* that large, or reports to a slow dashboard make valid commands expire.
BacklogBounded ==
  \A i \in DOMAIN backlog : backlog[i] <= MaxBacklog * Longest

\* "never blocks the Satellite Node" (dashboard_client.hpp:12): the packet loop
\* gets its thread back, even if the dashboard stops in the middle.
PostReturns == pc # "loop" ~> pc = "loop"
=============================================================================
