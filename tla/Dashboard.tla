----------------------------- MODULE Dashboard ------------------------------
(***************************************************************************)
(* The dashboard of phase 5: events posted by the satellite, the server    *)
(* that keeps them and the page that polls and resets it.  The satellite   *)
(* posts one event after the other, but it gives up on an answer after its *)
(* timeout while the server's thread goes on: Overlap is the slow server.  *)
(* The reset button waits for nobody.                                      *)
(***************************************************************************)
EXTENDS DashboardPage

vars == <<serverVars, pageVars>>

Init == ServerInit /\ PageInit

Server ==
  /\ \/ \E p \in Event : BeginEvent(p) \/ EventStep(p)
     \/ \E q \in Poll : PollStep(q)
     \/ \E r \in Reset : ResetStep(r)
  /\ UNCHANGED pageVars

Page ==
  \/ \E q \in Poll : Tick(q) \/ ShowAnswer(q) \/ SkipTick(q)
  \/ \E r \in Reset : PressReset(r) \/ ShowReset(r)

Next == Server \/ Page \/ Crash

Spec == Init /\ [][Next]_vars

(***************************************************************************)
(* Threads of the server run, the page's timer fires and its handlers run, *)
(* and not every answer is lost.                                           *)
(* Nobody need post an event or press the button.                          *)
(***************************************************************************)
Fairness ==
  /\ \A p \in Event : WF_vars(EventStep(p) /\ UNCHANGED pageVars)
  /\ \A q \in Poll : /\ WF_vars(PollStep(q) /\ UNCHANGED pageVars)
                     /\ WF_vars(Tick(q) \/ SkipTick(q))
                     /\ SF_vars(ShowAnswer(q))
  /\ \A r \in Reset : WF_vars(ResetStep(r) /\ UNCHANGED pageVars)

LiveSpec == Spec /\ Fairness
-----------------------------------------------------------------------------
EventSteps == {"idle", "append", "done"} \union Counters
PollSteps  == {"idle", "recent", "n", "divide", "totals", "answered", "failed"}
ResetSteps == {"idle", "clear", "answered", "failed", "done"} \union Counters
Records    == [timestamp : Nat, type : {"ACCEPTED", "REJECTED"},
               severity : VALID_SEVERITIES, latency : Int \union {Absent}]
Answers    == [recent : Seq(Event), totals : Nat \X Nat]

TypeOK ==
  /\ events \in Seq(Event) /\ Len(events) <= FeedMax
  /\ counter \in [Counters -> Nat]
  /\ event \in [Event -> Records \union {Absent}]
  /\ clock \in Nat
  /\ epc \in [Event -> EventSteps]
  /\ loaded \in [Event -> Nat \union {Absent}]
  /\ ppc \in [Poll -> PollSteps]
  /\ answer \in [Poll -> Answers]
  /\ rpc \in [Reset -> ResetSteps]
  /\ since \subseteq Event /\ disturbed \subseteq Poll
  /\ apart \in BOOLEAN /\ exact \in BOOLEAN
  /\ shown \in Nat \X Nat
  /\ lastCriticalSeen \in Nat
  /\ noticed \subseteq Event
  /\ clears \in Nat

Count(s, type) == Cardinality({i \in DOMAIN s : event[s[i]].type = type})

AnswersCounted ==
  \A q \in Poll \ disturbed :
    ppc[q] = "answered" =>
      LET a == answer[q] IN
        /\ Count(a.recent, "ACCEPTED") <= a.totals[1] /\ a.totals[1] <= Totals[1]
        /\ Count(a.recent, "REJECTED") <= a.totals[2] /\ a.totals[2] <= Totals[2]

\* The server reads recent events before the counters, and counts an event before
\* it appends it (dashboard.py:59-69, 76-92): the average of an answer that no reset
\* overlaps exists, whatever else overlaps, and while the server is exact such an
\* answer never shows an event it does not count, or a count that was never true.
AnswersCoherent ==
  /\ \A q \in Poll \ disturbed : ppc[q] # "failed"
  /\ exact => AnswersCounted

\* The banner does not flash again for the critical events it has flashed for
\* (index.html:179-187), whatever overlaps and in whatever order the answers
\* come.  (Only the reset button makes the page forget what it has flashed for.)
NeverFlashesAgain ==
  [][\A q \in Poll :
       ShowAnswer(q) /\ Flashes(q) => Criticals(answer[q]) \ noticed # {}]_vars

\* "Flash the status banner on a NEW critical event" (index.html:179): an answer
\* makes the banner flash exactly if it holds a critical event the page has not
\* flashed for, in whatever order the answers come, while no event has left the
\* answers.  (An answer overlapped by a reset may show events from before it, and
\* an event that leaves the answers before the page polls makes nothing flash.)
FlashesOnNew ==
  [][\A q \in Poll \ disturbed :
       ShowAnswer(q) => (Flashes(q) <=> Criticals(answer[q]) \ noticed # {})]_vars

\* Once no event is posted any more (the model's run out) the page shows the
\* server's counters and has flashed for every critical event in the feed, and
\* this stays so, however its polls and the reset button overlapped.
PageCatchesUp ==
  <>[](/\ shown = Totals
       /\ \A i \in DOMAIN events : IsCritical(events[i]) => events[i] \in noticed)

\* "Clear all state so each live demo starts from zero." (dashboard.py:100): with
\* nothing under way and no event posted since the reset, everything is zero.  (An
\* event under way during the reset makes this false: it stores the count it has
\* loaded before, or is appended after.)
DemoStartsFromZero ==
  PostsUnderWay = {} /\ ResetsUnderWay = {} /\ since = {} =>
    events = <<>> /\ counter = [c \in Counters |-> 0]

\* What reset does earn (dashboard.py:98-106): one that clears while no event is
\* under way gives a start from zero, and whatever counts earlier requests have
\* lost or brought back.
ResetStartsFromZero == apart => DemoStartsFromZero

Kept         == {p \in Event : epc[p] = "done"}
Stored(type) == {p \in since : /\ epc[p] \notin {"idle", "accepted", "rejected"}
                               /\ event[p].type = type}

EventsEarned ==
  Clearing = {} =>
    /\ counter["accepted"] <= Cardinality(Stored("ACCEPTED"))
    /\ counter["rejected"] <= Cardinality(Stored("REJECTED"))
    /\ \A i \in DOMAIN events : events[i] \in since
    /\ Len(events) = IF Cardinality(since \intersect Kept) > FeedMax THEN FeedMax
                     ELSE Cardinality(since \intersect Kept)

\* Events that overlap lose counts, since += is no single step, but they invent
\* none, and none is lost from the feed or kept there from before a reset
\* (dashboard.py:59-69), as long as no event overlaps the clearing of a reset.
NothingInvented == apart => EventsEarned
-----------------------------------------------------------------------------
(***************************************************************************)
(* While its writes do not overlap the server is an atomic log: an event   *)
(* takes effect when its total is stored, a reset when it clears the       *)
(* events.  Polls overlap the writes all the time.                         *)
(***************************************************************************)
Counted  == {p \in Event : epc[p] \in {"ms", "n", "append"}}

LogFeed ==
  IF Counted = {} THEN events
  ELSE LastOf(Append(events, CHOOSE p \in Counted : TRUE), FeedMax)

Log == INSTANCE EventLog WITH
         accepted <- IF Clearing # {} THEN 0 ELSE counter["accepted"],
         rejected <- IF Clearing # {} THEN 0 ELSE counter["rejected"],
         feed     <- LogFeed

\* Counters and feed change together, one event at a time, and are cleared
\* together (dashboard.py:59-69, 98-106), until requests overlap that write; and
\* from the next reset on that none overlaps, they do so again.
LogKept == Log!Spec
-----------------------------------------------------------------------------
(***************************************************************************)
(* Why these properties hold: the inductive invariant, in five parts.      *)
(***************************************************************************)
\* Whatever overlaps: a thread works on the event it has stamped, ...
ThreadsCoherent ==
  \A p \in Event :
    /\ epc[p] # "idle" => event[p] \in Records /\ event[p].timestamp <= clock
    /\ epc[p] \in {"accepted", "ms", "n"} => event[p].type = "ACCEPTED"
    /\ epc[p] = "rejected" => event[p].type = "REJECTED"
    /\ epc[p] = "ms" => event[p].latency \in Nat
    /\ loaded[p] # Absent => epc[p] \in Counters

\* ... events are in the feed and on the page when they are complete, and the page
\* has flashed for no event newer than the last one.
FeedCoherent ==
  /\ \A i \in DOMAIN events : events[i] \in Kept
  /\ \A q \in Poll : \A i \in DOMAIN answer[q].recent : answer[q].recent[i] \in Kept
  /\ \A p \in noticed : p \in Kept /\ event[p].timestamp <= lastCriticalSeen

Coherent == TypeOK /\ ThreadsCoherent /\ FeedCoherent

\* No poll that no reset overlaps divides by zero.
AveragesCoherent ==
  /\ ResetsUnderWay # {} => Polling \subseteq disturbed
  /\ \A q \in Poll \ disturbed :
       ppc[q] # "failed" /\ (ppc[q] = "divide" => counter["n"] # 0)

CountOf(type) == IF type = "ACCEPTED" THEN counter["accepted"] ELSE counter["rejected"]

\* The counters a reset has cleared when it is about to clear c.
Cleared(c) == CASE c = "accepted" -> {}
                [] c = "rejected" -> {"accepted"}
                [] c = "ms"       -> {"accepted", "rejected"}
                [] OTHER          -> {"accepted", "rejected", "ms"}

\* A reset leaves nothing behind, in whatever order it clears the counters.
ResetsClear ==
  /\ PostsUnderWay \subseteq since
  /\ Clearing # {} => PostsUnderWay = {} /\ since = {}
  /\ since = {} =>
       /\ events = <<>>
       /\ \/ \A c \in Counters : counter[c] = 0
          \/ \E r \in Clearing : \A c \in Cleared(rpc[r]) : counter[c] = 0

\* A thread adds its own event to no more than the others have stored.
LoadsEarned ==
  \A p \in Event : loaded[p] # Absent =>
    /\ epc[p] = "accepted" => loaded[p] <= Cardinality(Stored("ACCEPTED"))
    /\ epc[p] = "rejected" => loaded[p] <= Cardinality(Stored("REJECTED"))

\* What holds while no event overlaps the clearing of a reset.
Separate == IsFiniteSet(since) /\ ResetsClear /\ LoadsEarned /\ EventsEarned

SeparateWhileApart == apart => Separate

OneEvent == \A o, p \in PostsUnderWay : o = p

LoadsCurrent ==
  \A p \in Event : loaded[p] # Absent => loaded[p] = counter[epc[p]]

\* What is in the feed or about to be there has been counted, ...
EventsCounted ==
  /\ \A type \in {"ACCEPTED", "REJECTED"} : Count(events, type) <= CountOf(type)
  /\ \A p \in Counted : Count(events, event[p].type) < CountOf(event[p].type)

\* ... and so has what a poll has read unless it knows that a reset overlaps it.
ReadsCounted ==
  \A q \in Poll \ disturbed :
    ppc[q] \in {"n", "divide", "totals"} =>
      \A type \in {"ACCEPTED", "REJECTED"} :
        Count(answer[q].recent, type) <= CountOf(type)

\* What holds while no event overlaps anything that writes.
Serial ==
  OneEvent /\ LoadsCurrent /\ EventsCounted /\ ReadsCounted /\ AnswersCounted

SerialWhileExact == exact => apart /\ Serial

SeqSet(s) == {s[i] : i \in DOMAIN s}

\* If no two events overlap and the clock moves from event to event, they are stamped
\* in their order and the page remembers nothing newer than the last one, ...
StampsOrdered ==
  /\ \A o, p \in Event : o < p /\ epc[p] # "idle" =>
       epc[o] # "idle" /\ event[o].timestamp < event[p].timestamp
  /\ \A p \in PostsUnderWay :
       /\ lastCriticalSeen < event[p].timestamp
       /\ \A o \in Event : epc[o] # "idle" => o <= p
  /\ \A p \in Event : epc[p] # "idle" => event[p].timestamp > 0
  /\ lastCriticalSeen <= clock

\* ... and if no event leaves the feed, they are kept in their order, ...
FeedOrdered ==
  \A i \in DOMAIN events : events[i] >= i /\ \A j \in 1 .. i - 1 : events[j] < events[i]

\* ... an answer holds every event of the feed up to its last one, and no other
\* one unless a reset came between, ...
AnswersComplete ==
  \A q \in Poll :
    /\ \A p \in SeqSet(answer[q].recent), o \in SeqSet(events) :
         o <= p => o \in SeqSet(answer[q].recent)
    /\ q \notin disturbed => SeqSet(answer[q].recent) \subseteq SeqSet(events)
    /\ ppc[q] \in {"idle", "recent"} => answer[q].recent = <<>>

\* ... and the page has flashed for every critical event up to the last one.
AllNoticed ==
  \A p \in SeqSet(events) :
    IsCritical(p) /\ event[p].timestamp <= lastCriticalSeen => p \in noticed

InOrder == StampsOrdered /\ FeedOrdered /\ AnswersComplete /\ AllNoticed
=============================================================================
