--------------------------- MODULE DashboardPage ----------------------------
(***************************************************************************)
(* The script of templates/index.html.  A handler runs to its next await   *)
(* without interruption, but the timer starts a poll every second whether  *)
(* or not the last one has returned, and answers come in any order.        *)
(***************************************************************************)
EXTENDS DashboardServer

CONSTANTS
  MaxClears    \* bound on restarts of the server and resets shown, together

ASSUME PageAssumption == MaxClears \in Nat

VARIABLES
  shown,              \* the counters on the page and at the end of its chart
  lastCriticalSeen,   \* timestamp of the last CRITICAL the banner flashed for
  noticed,            \* ghost: the critical events in the answers it flashed for
  clears              \* ghost: restarts of the server and resets shown so far

pageVars == <<shown, lastCriticalSeen, noticed, clears>>

PageInit ==
  /\ shown = <<0, 0>>
  /\ lastCriticalSeen = 0
  /\ noticed = {}
  /\ clears = 0

IsCritical(p) == event[p].type = "REJECTED" /\ event[p].severity = "CRITICAL"

\* The critical events of an answer.
Criticals(a) == {p \in {a.recent[i] : i \in DOMAIN a.recent} : IsCritical(p)}

\* tick up to its first await.
Tick(q) == BeginPoll(q) /\ UNCHANGED pageVars

\* The thread of a poll has nothing more to do and the page forgets the poll.
EndPoll(q) ==
  /\ ppc' = [ppc EXCEPT ![q] = "idle"]
  /\ answer' = [answer EXCEPT ![q] = Blank]
  /\ disturbed' = disturbed \ {q}
  /\ UNCHANGED <<events, counter, eventVars, rpc, since, apart, exact>>

\* The fetch fails, because the server does or because the answer is lost: tick
\* catches the exception and returns.  (An answer lost before it was complete is
\* lost when it is complete: until then nobody sees the difference.)
SkipTick(q) ==
  /\ ppc[q] \in {"answered", "failed"}
  /\ EndPoll(q)
  /\ UNCHANGED pageVars

\* Mutant: >= for >.
FlashesAgain(q) ==
  \E p \in Criticals(answer[q]) : event[p].timestamp >= lastCriticalSeen

Flashes(q) ==
  \E p \in Criticals(answer[q]) : event[p].timestamp > lastCriticalSeen

Newest(a) ==
  CHOOSE t \in {event[p].timestamp : p \in Criticals(a)} :
    \A p \in Criticals(a) : event[p].timestamp <= t

\* Mutant: the counters on the page only rise.
ShowAnswerRising(q) ==
  /\ ppc[q] = "answered"
  /\ shown' = IF answer[q].totals[2] >= shown[2] THEN answer[q].totals ELSE shown
  /\ IF Flashes(q)
     THEN /\ lastCriticalSeen' = Newest(answer[q])
          /\ noticed' = noticed \union Criticals(answer[q])
     ELSE UNCHANGED <<lastCriticalSeen, noticed>>
  /\ EndPoll(q)
  /\ UNCHANGED clears

\* tick after its last await: the new counters, and a flash if there is a newer
\* critical event than the last one.
ShowAnswer(q) ==
  /\ ppc[q] = "answered"
  /\ shown' = answer[q].totals
  /\ IF Flashes(q)
     THEN /\ lastCriticalSeen' = Newest(answer[q])
          /\ noticed' = noticed \union Criticals(answer[q])
     ELSE UNCHANGED <<lastCriticalSeen, noticed>>
  /\ EndPoll(q)
  /\ UNCHANGED clears

\* The reset button, up to its await.
PressReset(r) == clears < MaxClears /\ BeginReset(r) /\ UNCHANGED pageVars

\* The reset has been answered: the memory of flashes is cleared (and the chart,
\* whose next point the next answer brings; the counters stay on the page).
ShowReset(r) ==
  /\ rpc[r] = "answered"
  /\ rpc' = [rpc EXCEPT ![r] = "done"]
  /\ clears' = clears + 1
  /\ lastCriticalSeen' = 0
  /\ noticed' = {}
  /\ UNCHANGED <<events, counter, eventVars, pollVars, ghosts, shown>>

Crash ==
  /\ clears < MaxClears /\ clears' = clears + 1
  /\ RestartServer
  /\ UNCHANGED <<shown, lastCriticalSeen, noticed>>
=============================================================================
