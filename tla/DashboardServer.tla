-------------------------- MODULE DashboardServer ---------------------------
(***************************************************************************)
(* dashboard.py: the counters and the deque of events in memory, and one   *)
(* thread per request of Flask's server.  Reading or writing one entry of  *)
(* a dict, and one call of a deque, is atomic in Python; a statement with  *)
(* two of them is not, so += is a load and a store.  A thread's pc names   *)
(* the entry it accesses next.                                             *)
(***************************************************************************)
EXTENDS Integers, Sequences, FiniteSets

CONSTANTS
  Event,        \* POST requests to /api/event, numbered as they begin
  Poll,         \* GET requests to /api/state that may be under way at once
  Reset,        \* POST requests to /api/reset
  Bodies,       \* the bodies that may be posted
  FeedMax,      \* maxlen of the deque, 500
  RecentMax,    \* how many events /api/state returns, 30
  StampSteps,   \* how far the clock may move from one event to the next
  Overlap,      \* whether an event may come while another one is under way
  Absent        \* a field the body does not have; a register not loaded

ASSUME ServerAssumption ==
  /\ FeedMax \in Nat \ {0} /\ RecentMax \in Nat
  /\ StampSteps \subseteq Nat /\ Overlap \in BOOLEAN
  /\ Event \subseteq Nat /\ Absent \notin Int
  /\ \A body \in Bodies : /\ body.type \in {"ACCEPTED", "REJECTED", Absent}
                           /\ body.latency \in Int \union {Absent}

VARIABLES
  events,       \* the deque, as the sequence of the requests that posted them
  counter,      \* totals and latency_sum
  event,        \* the event of each POST, once its thread has stamped it
  clock,        \* the last timestamp given
  epc, loaded,  \* the threads of the POSTs, and the value each has loaded
  ppc, answer,  \* the threads of the polls, and what each has read so far
  rpc,          \* the threads of the resets
  since,        \* ghost: the POSTs begun since the last reset or start
  disturbed,    \* ghost: the polls that a reset or a restart has overlapped
  apart,        \* ghost: no event has overlapped the clearing of a reset ...
  exact         \* ghost: ... or another event, since one or a start cleared all

eventVars  == <<event, clock, epc, loaded>>
pollVars   == <<ppc, answer>>
ghosts     == <<since, disturbed, apart, exact>>
serverVars == <<events, counter, eventVars, pollVars, rpc, ghosts>>

VALID_SEVERITIES == {"LOW", "MEDIUM", "CRITICAL"}

REASON_SEVERITY(reason) ==
  CASE reason \in {"TAG_FAIL", "REPLAY_TS", "DUP_NONCE", "DECRYPT_FAIL"} -> "CRITICAL"
    [] reason = "BAD_FORMAT" -> "MEDIUM"
    [] OTHER -> "LOW"

Counters == {"accepted", "rejected", "ms", "n"}

Blank == [recent |-> <<>>, totals |-> <<0, 0>>]

\* The last max elements of s: s[-max:], and what a deque of maxlen max keeps.
LastOf(s, max) == SubSeq(s, IF Len(s) > max THEN Len(s) - max + 1 ELSE 1, Len(s))

ServerInit ==
  /\ events = <<>>
  /\ counter = [c \in Counters |-> 0]
  /\ event = [p \in Event |-> Absent]
  /\ clock = 0
  /\ epc = [p \in Event |-> "idle"]
  /\ loaded = [p \in Event |-> Absent]
  /\ ppc = [q \in Poll |-> "idle"]
  /\ answer = [q \in Poll |-> Blank]
  /\ rpc = [r \in Reset |-> "idle"]
  /\ since = {} /\ disturbed = {} /\ apart = TRUE /\ exact = TRUE

PostsUnderWay  == {p \in Event : epc[p] \notin {"idle", "done"}}
ResetsUnderWay == {r \in Reset : rpc[r] \in {"clear"} \union Counters}
Polling        == {q \in Poll : ppc[q] # "idle"}

\* The resets that have cleared the events and not yet all counters.
Clearing == {r \in Reset : rpc[r] \in Counters}
-----------------------------------------------------------------------------
\* Mutant: the severity is taken as it comes.
NormalisedAsPosted(body, timestamp) ==
  [timestamp |-> timestamp,
   type      |-> IF body.type = Absent THEN "REJECTED" ELSE body.type,
   severity  |-> body.severity,
   latency   |-> body.latency]

\* Lines 50-57: what is missing is filled in; an unreadable body misses all.
Normalised(body, timestamp) ==
  [timestamp |-> timestamp,
   type      |-> IF body.type = Absent THEN "REJECTED" ELSE body.type,
   severity  |-> IF body.severity \in VALID_SEVERITIES THEN body.severity
                 ELSE REASON_SEVERITY(body.reason),
   latency   |-> body.latency]

BeginEvent(p) ==
  /\ epc[p] = "idle" /\ (Overlap \/ PostsUnderWay = {})
  /\ \A o \in Event : o < p => epc[o] # "idle"
  /\ \E body \in Bodies, step \in StampSteps :
       /\ clock' = clock + step
       /\ event' = [event EXCEPT ![p] = Normalised(body, clock')]
  /\ epc' = [epc EXCEPT ![p] = IF event'[p].type = "ACCEPTED" THEN "accepted"
                               ELSE "rejected"]
  /\ since' = since \union {p}
  /\ apart' = (apart /\ Clearing = {})
  /\ exact' = (exact /\ PostsUnderWay = {} /\ Clearing = {})
  /\ UNCHANGED <<events, counter, loaded, pollVars, rpc, disturbed>>

\* Mutant: a rejected event is counted and not kept.
AfterCountingRejected(e, c) ==
  CASE c = "accepted" /\ e.latency # Absent /\ e.latency >= 0 -> "ms"
    [] c = "ms" -> "n"
    [] c = "rejected" -> "done"
    [] OTHER -> "append"

\* What the thread does after it has updated entry c.
After(e, c) ==
  CASE c = "accepted" /\ e.latency # Absent /\ e.latency >= 0 -> "ms"
    [] c = "ms" -> "n"
    [] OTHER -> "append"

Increment(e, c) == IF c = "ms" THEN e.latency ELSE 1

\* counter[c] += ...: the load.
Load(p) ==
  /\ epc[p] \in Counters /\ loaded[p] = Absent
  /\ loaded' = [loaded EXCEPT ![p] = counter[epc[p]]]
  /\ UNCHANGED <<events, counter, event, clock, epc, pollVars, rpc, ghosts>>

\* counter[c] += ...: the store.
Store(p) ==
  /\ epc[p] \in Counters /\ loaded[p] # Absent
  /\ counter' = [counter EXCEPT ![epc[p]] = loaded[p] + Increment(event[p], epc[p])]
  /\ loaded' = [loaded EXCEPT ![p] = Absent]
  /\ epc' = [epc EXCEPT ![p] = After(event[p], epc[p])]
  /\ UNCHANGED <<events, event, clock, pollVars, rpc, ghosts>>

AppendEvent(p) ==
  /\ epc[p] = "append"
  /\ events' = LastOf(Append(events, p), FeedMax)
  /\ epc' = [epc EXCEPT ![p] = "done"]
  /\ UNCHANGED <<counter, event, clock, loaded, pollVars, rpc, ghosts>>

EventStep(p) == Load(p) \/ Store(p) \/ AppendEvent(p)
-----------------------------------------------------------------------------
BeginPoll(q) ==
  /\ ppc[q] = "idle"
  /\ ppc' = [ppc EXCEPT ![q] = "recent"]
  /\ disturbed' = IF ResetsUnderWay # {} THEN disturbed \union {q} ELSE disturbed
  /\ UNCHANGED <<events, counter, eventVars, answer, rpc, since, apart, exact>>

Goto(q, step) == ppc' = [ppc EXCEPT ![q] = step]

\* One read of a poll's thread: a field of the answer, and the next access.
Read(q, from, field, value, to) ==
  /\ ppc[q] = from
  /\ answer' = [answer EXCEPT ![q][field] = value]
  /\ Goto(q, to)

\* Line 87: there is an average if n is not zero, now and when it is divided by.
Average(q) ==
  /\ \/ ppc[q] = "n" /\ Goto(q, IF counter["n"] = 0 THEN "totals" ELSE "divide")
     \/ ppc[q] = "divide" /\ Goto(q, IF counter["n"] = 0 THEN "failed" ELSE "totals")
  /\ UNCHANGED answer

\* Lines 91-92 read the two totals one after the other; in one step here, since
\* nothing relates the one to the other.
Totals == <<counter["accepted"], counter["rejected"]>>

\* Mutant: the totals are read first.
PollStepTotalsFirst(q) ==
  /\ \/ Read(q, "recent", "totals", Totals, "n")
     \/ Average(q)
     \/ Read(q, "totals", "recent", LastOf(events, RecentMax), "answered")
  /\ UNCHANGED <<events, counter, eventVars, rpc, ghosts>>

\* The statements of state in their order.  The average itself and the link status,
\* a text made of the last ten events, are shown and no more: they are left out.
PollStep(q) ==
  /\ \/ Read(q, "recent", "recent", LastOf(events, RecentMax), "n")
     \/ Average(q)
     \/ Read(q, "totals", "totals", Totals, "answered")
  /\ UNCHANGED <<events, counter, eventVars, rpc, ghosts>>
-----------------------------------------------------------------------------
\* Mutant: the sum and number of latencies are not cleared.
AfterResetForgetting(c) == CASE c = "accepted" -> "rejected"
                             [] OTHER -> "answered"

\* The order of the assignments of reset.
AfterReset(c) == CASE c = "accepted" -> "rejected" [] c = "rejected" -> "ms"
                   [] c = "ms" -> "n" [] OTHER -> "answered"

BeginReset(r) ==
  /\ rpc[r] = "idle"
  /\ rpc' = [rpc EXCEPT ![r] = "clear"]
  /\ disturbed' = disturbed \union Polling
  /\ UNCHANGED <<events, counter, eventVars, pollVars, since, apart, exact>>

ClearEvents(r) ==
  /\ rpc[r] = "clear"
  /\ events' = <<>>
  /\ rpc' = [rpc EXCEPT ![r] = "accepted"]
  /\ since' = {}
  /\ apart' = (PostsUnderWay = {}) /\ exact' = (PostsUnderWay = {})
  /\ UNCHANGED <<counter, eventVars, pollVars, disturbed>>

ZeroCounter(r) ==
  /\ rpc[r] \in Counters
  /\ counter' = [counter EXCEPT ![rpc[r]] = 0]
  /\ rpc' = [rpc EXCEPT ![r] = AfterReset(rpc[r])]
  /\ UNCHANGED <<events, eventVars, pollVars, ghosts>>

ResetStep(r) == ClearEvents(r) \/ ZeroCounter(r)

\* The server is started again (debug=True does so when the source changes):
\* its memory and its threads are gone and their requests fail.
RestartServer ==
  /\ events' = <<>>
  /\ counter' = [c \in Counters |-> 0]
  /\ epc' = [p \in Event |-> IF p \in PostsUnderWay THEN "done" ELSE epc[p]]
  /\ loaded' = [p \in Event |-> Absent]
  /\ ppc' = [q \in Poll |-> IF ppc[q] \in {"idle", "answered"} THEN ppc[q] ELSE "failed"]
  /\ rpc' = [r \in Reset |-> IF r \in ResetsUnderWay THEN "failed" ELSE rpc[r]]
  /\ since' = {} /\ apart' = TRUE /\ exact' = TRUE
  /\ disturbed' = disturbed \union Polling
  /\ UNCHANGED <<event, clock, answer>>
=============================================================================
