-------------------------- MODULE DashboardProofs ---------------------------
(***************************************************************************)
(* What holds of the dashboard for every number of events, polls and       *)
(* resets and every size of the feed and of an answer.                     *)
(***************************************************************************)
EXTENDS Dashboard, FiniteSetTheorems, SequenceTheorems, WellFoundedInduction, TLAPS

(***************************************************************************)
(* Numbers and sequences.                                                  *)
(***************************************************************************)

\* A set of naturals that is not empty has a least member.
LEMMA LeastNatural ==
  ASSUME NEW S \in SUBSET Nat, S # {}
  PROVE  \E x \in S : \A y \in S : x <= y
<1>1. \E x \in S : \A y \in S : ~ (<<y, x>> \in OpToRel(<, Nat))
  BY NatLessThanWellFounded, WFMin
<1>2. \A x, y \in Nat : x < y <=> <<x, y>> \in OpToRel(<, Nat)
  BY DEF OpToRel
<1> QED
  <2>1. PICK x \in S : \A y \in S : ~ (<<y, x>> \in OpToRel(<, Nat))
    BY <1>1
  <2>2. \A y \in S : ~ (y < x)
    BY <1>2, <2>1
  <2> QED
    BY <2>2

\* One that is bounded, too, has a greatest.
LEMMA GreatestNatural ==
  ASSUME NEW S \in SUBSET Nat, S # {}, NEW c \in Nat, \A x \in S : x <= c
  PROVE  \E x \in S : \A y \in S : y <= x
<1> DEFINE D == {d \in Nat : c - d \in S}
<1>1. D # {}
  <2>1. PICK x \in S : TRUE
    OBVIOUS
  <2>2. c - x \in Nat /\ c - (c - x) = x
    BY <2>1
  <2> QED
    BY <2>1, <2>2
<1>2. PICK d \in D : \A e \in D : d <= e
  BY <1>1, LeastNatural
<1>3. ASSUME NEW y \in S PROVE y <= c - d
  <2>1. y \in Nat /\ c - y \in Nat /\ c - (c - y) = y
    BY <1>3
  <2>2. d <= c - y
    BY <1>2, <2>1
  <2> QED
    BY <1>2, <2>1, <2>2
<1> QED
  BY <1>2, <1>3

\* What LastOf returns.
LEMMA LastOfProperties ==
  ASSUME NEW S, NEW s \in Seq(S), NEW max \in Nat
  PROVE  /\ LastOf(s, max) \in Seq(S)
         /\ Len(LastOf(s, max)) = IF Len(s) > max THEN max ELSE Len(s)
         /\ \A i \in 1 .. Len(LastOf(s, max)) :
              /\ Len(s) - Len(LastOf(s, max)) + i \in 1 .. Len(s)
              /\ LastOf(s, max)[i] = s[Len(s) - Len(LastOf(s, max)) + i]
<1> DEFINE m == IF Len(s) > max THEN Len(s) - max + 1 ELSE 1
<1>1. Len(s) \in Nat /\ m \in 1 .. Len(s) + 1 /\ \A i \in m .. Len(s) : s[i] \in S
  OBVIOUS
<1>2. /\ SubSeq(s, m, Len(s)) \in Seq(S)
      /\ Len(SubSeq(s, m, Len(s))) = IF m <= Len(s) THEN Len(s) - m + 1 ELSE 0
      /\ \A i \in 1 .. Len(s) - m + 1 : SubSeq(s, m, Len(s))[i] = s[m + i - 1]
  BY <1>1, SubSeqProperties
<1>3. LastOf(s, max) = SubSeq(s, m, Len(s))
  BY DEF LastOf
<1> HIDE DEF m
<1>4. m = IF Len(s) > max THEN Len(s) - max + 1 ELSE 1
  BY DEF m
<1>5. Len(LastOf(s, max)) = Len(s) - m + 1
  BY <1>1, <1>2, <1>3
<1>6. Len(LastOf(s, max)) = IF Len(s) > max THEN max ELSE Len(s)
  BY <1>1, <1>4, <1>5
<1>7. ASSUME NEW i \in 1 .. Len(LastOf(s, max))
      PROVE  /\ Len(s) - Len(LastOf(s, max)) + i \in 1 .. Len(s)
             /\ LastOf(s, max)[i] = s[Len(s) - Len(LastOf(s, max)) + i]
  <2>1. i \in 1 .. Len(s) - m + 1 /\ Len(s) - (Len(s) - m + 1) + i = m + i - 1
    BY <1>1, <1>5, <1>7
  <2>2. LastOf(s, max)[i] = s[m + i - 1] /\ m + i - 1 \in 1 .. Len(s)
    BY <1>1, <1>2, <1>3, <2>1
  <2> QED
    BY <1>5, <2>1, <2>2
<1> QED
  BY <1>2, <1>3, <1>6, <1>7

\* A deque that is not full grows, a full one drops its oldest element.
LEMMA LastOfAppend ==
  ASSUME NEW S, NEW s \in Seq(S), NEW x \in S, NEW max \in Nat \ {0}, Len(s) <= max
  PROVE  LastOf(Append(s, x), max) =
           IF Len(s) < max THEN Append(s, x) ELSE Append(Tail(s), x)
<1> DEFINE w == Append(s, x)
<1>1. /\ w \in Seq(S) /\ Len(w) = Len(s) + 1 /\ Len(s) \in Nat
      /\ \A i \in 1 .. Len(s) : w[i] = s[i]
      /\ w[Len(s) + 1] = x
  BY AppendProperties
<1>2. LastOf(Append(s, x), max) = LastOf(w, max)
  OBVIOUS
<1> HIDE DEF w
<1>3. CASE Len(s) < max
  <2>1. LastOf(w, max) = SubSeq(w, 1, Len(w))
    <3>1. ~ (Len(w) > max)
      BY <1>1, <1>3
    <3> QED
      BY <3>1 DEF LastOf
  <2>2. LastOf(w, max) = w
    BY <1>1, <2>1, SubSeqFull
  <2> QED
    BY <1>2, <1>3, <2>2 DEF w
<1>4. CASE Len(s) = max
  <2>1. s # <<>>
    BY <1>1, <1>4
  <2>2. /\ Tail(s) \in Seq(S) /\ Len(Tail(s)) = Len(s) - 1
        /\ \A i \in 1 .. Len(Tail(s)) : Tail(s)[i] = s[i + 1]
    BY <2>1, HeadTailProperties
  <2> DEFINE t == LastOf(w, max)
             u == Append(Tail(s), x)
  <2>3. /\ t \in Seq(S) /\ Len(t) = Len(s)
        /\ \A i \in 1 .. Len(t) : t[i] = w[i + 1]
    <3>1. /\ t \in Seq(S) /\ Len(t) = Len(s)
          /\ \A i \in 1 .. Len(t) : t[i] = w[Len(s) + 1 - Len(s) + i]
      BY <1>1, <1>4, LastOfProperties
    <3>2. \A i \in 1 .. Len(t) : Len(s) + 1 - Len(s) + i = i + 1
      BY <1>1, <3>1
    <3> QED
      BY <3>1, <3>2
  <2>4. /\ u \in Seq(S) /\ Len(u) = Len(s)
        /\ \A i \in 1 .. Len(s) - 1 : u[i] = s[i + 1]
        /\ u[Len(s)] = x
    <3>1. /\ u \in Seq(S) /\ Len(u) = Len(Tail(s)) + 1
          /\ \A i \in 1 .. Len(Tail(s)) : u[i] = Tail(s)[i]
          /\ u[Len(Tail(s)) + 1] = x
      BY <2>2, AppendProperties
    <3> HIDE DEF u
    <3> QED
      BY <1>1, <2>2, <3>1
  <2> HIDE DEF t, u
  <2>5. ASSUME NEW i \in 1 .. Len(t) PROVE t[i] = u[i]
    <3>1. i \in 1 .. Len(s) /\ t[i] = w[i + 1]
      BY <2>3, <2>5
    <3>2. CASE i = Len(s)
      BY <1>1, <3>1, <3>2, <2>4
    <3>3. CASE i < Len(s)
      <4>1. i + 1 \in 1 .. Len(s) /\ i \in 1 .. Len(s) - 1
        BY <1>1, <3>1, <3>3
      <4>2. w[i + 1] = s[i + 1]
        BY <1>1, <4>1
      <4> QED
        BY <2>4, <3>1, <4>1, <4>2
    <3> QED
      BY <1>1, <3>1, <3>2, <3>3
  <2>6. t = u
    BY <2>3, <2>4, <2>5, SeqEqual
  <2> QED
    BY <1>2, <1>4, <2>6 DEF t, u
<1> QED
  BY <1>1, <1>3, <1>4
-----------------------------------------------------------------------------
(***************************************************************************)
(* The types, and what holds of the threads whatever overlaps.             *)
(***************************************************************************)
\* What is missing from a body is filled in.
LEMMA NormalisedType ==
  ASSUME NEW body \in Bodies, NEW t \in Nat
  PROVE  Normalised(body, t) \in Records /\ Normalised(body, t).timestamp = t
<1>1. (IF body.type = Absent THEN "REJECTED" ELSE body.type) \in {"ACCEPTED", "REJECTED"}
  BY ServerAssumption
<1>2. (IF body.severity \in VALID_SEVERITIES THEN body.severity
       ELSE REASON_SEVERITY(body.reason)) \in VALID_SEVERITIES
  BY DEF REASON_SEVERITY, VALID_SEVERITIES
<1>3. body.latency \in Int \union {Absent}
  BY ServerAssumption
<1> QED
  BY <1>1, <1>2, <1>3 DEF Normalised, Records

\* Initially no thread holds anything and nothing is kept.
LEMMA InitCoherent == Init => Coherent
<1> SUFFICES ASSUME Init PROVE Coherent
  OBVIOUS
<1> USE DEF Init, ServerInit, PageInit
<1>1. TypeOK
  <2>1. events \in Seq(Event) /\ Len(events) <= FeedMax
    BY ServerAssumption
  <2>2. /\ counter \in [Counters -> Nat] /\ event \in [Event -> Records \union {Absent}]
        /\ clock \in Nat /\ loaded \in [Event -> Nat \union {Absent}]
    OBVIOUS
  <2>3. /\ epc \in [Event -> EventSteps] /\ ppc \in [Poll -> PollSteps]
        /\ rpc \in [Reset -> ResetSteps]
    BY DEF EventSteps, PollSteps, ResetSteps
  <2>4. answer \in [Poll -> Answers]
    BY DEF Blank, Answers
  <2> QED
    BY <2>1, <2>2, <2>3, <2>4 DEF TypeOK
<1>2. ThreadsCoherent /\ FeedCoherent
  BY DEF ThreadsCoherent, FeedCoherent, Blank
<1> QED
  BY <1>1, <1>2 DEF Coherent

\* Steps that leave the feed and the answers alone and lose no event.
LEMMA FeedFrame ==
  ASSUME FeedCoherent, Kept \subseteq Kept', \A p \in Kept : event'[p] = event[p],
         events' = events, answer' = answer, noticed' = noticed,
         lastCriticalSeen' = lastCriticalSeen
  PROVE  FeedCoherent'
BY DEF FeedCoherent

\* A request that is stamped and normalised is a record (dashboard.py:47-60).
LEMMA BeginEventCoherent ==
  ASSUME Coherent, NEW p \in Event, BeginEvent(p), UNCHANGED pageVars
  PROVE  Coherent'
<1> USE DEF Coherent
<1>1. /\ epc[p] = "idle"
      /\ since' = since \union {p}
      /\ epc' = [epc EXCEPT ![p] = IF event'[p].type = "ACCEPTED" THEN "accepted"
                                   ELSE "rejected"]
      /\ apart' \in BOOLEAN /\ exact' \in BOOLEAN
  BY DEF BeginEvent
<1>2. /\ events' = events /\ counter' = counter /\ loaded' = loaded /\ ppc' = ppc
      /\ answer' = answer /\ rpc' = rpc /\ disturbed' = disturbed /\ shown' = shown
      /\ lastCriticalSeen' = lastCriticalSeen /\ noticed' = noticed /\ clears' = clears
  BY DEF BeginEvent, pollVars, pageVars
<1>3. PICK body \in Bodies, step \in StampSteps :
        clock' = clock + step /\ event' = [event EXCEPT ![p] = Normalised(body, clock')]
  BY DEF BeginEvent
<1>4. clock' \in Nat /\ clock' >= clock
  BY <1>3, ServerAssumption DEF TypeOK
<1>5. event'[p] \in Records /\ event'[p].timestamp = clock'
  BY <1>3, <1>4, NormalisedType DEF TypeOK
<1>6. \A o \in Event \ {p} : event'[o] = event[o] /\ epc'[o] = epc[o]
  BY <1>1, <1>3 DEF TypeOK
<1>7. epc'[p] \in {"accepted", "rejected"} /\ event'[p].type \in {"ACCEPTED", "REJECTED"}
      /\ (epc'[p] = "accepted" <=> event'[p].type = "ACCEPTED")
  BY <1>1, <1>5 DEF TypeOK, Records
<1>8. TypeOK'
  <2>1. event' \in [Event -> Records \union {Absent}]
    BY <1>3, <1>5 DEF TypeOK
  <2>2. epc' \in [Event -> EventSteps]
    BY <1>1, <1>7 DEF TypeOK, EventSteps, Counters
  <2> QED
    BY <1>1, <1>2, <1>4, <2>1, <2>2 DEF TypeOK
<1>9. ThreadsCoherent'
  <2> SUFFICES ASSUME NEW o \in Event
               PROVE  /\ epc'[o] # "idle" =>
                           event'[o] \in Records /\ event'[o].timestamp <= clock'
                      /\ epc'[o] \in {"accepted", "ms", "n"} => event'[o].type = "ACCEPTED"
                      /\ epc'[o] = "rejected" => event'[o].type = "REJECTED"
                      /\ epc'[o] = "ms" => event'[o].latency \in Nat
                      /\ loaded'[o] # Absent => epc'[o] \in Counters
    BY DEF ThreadsCoherent
  <2>1. CASE o = p
    <3>1. loaded'[p] = Absent
      BY <1>1, <1>2 DEF ThreadsCoherent, Counters
    <3> QED
      BY <1>4, <1>5, <1>7, <2>1, <3>1
  <2>2. CASE o # p
    <3>1. event[o] \in Records => event[o].timestamp \in Nat
      BY DEF Records
    <3> QED
      BY <1>2, <1>4, <1>6, <2>2, <3>1 DEF ThreadsCoherent, TypeOK
  <2> QED
    BY <2>1, <2>2
<1>10. FeedCoherent'
  <2>1. Kept \subseteq Kept' /\ \A o \in Kept : event'[o] = event[o]
    BY <1>1, <1>6 DEF Kept
  <2> QED
    BY <1>2, <2>1, FeedFrame
<1> QED
  BY <1>8, <1>9, <1>10

\* The register of an update holds a count.
LEMMA LoadCoherent ==
  ASSUME Coherent, NEW p \in Event, Load(p), UNCHANGED pageVars
  PROVE  Coherent'
<1> USE DEF Coherent
<1>1. /\ epc[p] \in Counters
      /\ loaded' = [loaded EXCEPT ![p] = counter[epc[p]]]
  BY DEF Load
<1>2. /\ events' = events /\ counter' = counter /\ event' = event /\ clock' = clock
      /\ epc' = epc /\ ppc' = ppc /\ answer' = answer /\ rpc' = rpc /\ since' = since
      /\ apart' = apart /\ exact' = exact
      /\ disturbed' = disturbed /\ shown' = shown /\ noticed' = noticed
      /\ lastCriticalSeen' = lastCriticalSeen /\ clears' = clears
  BY DEF Load, pollVars, ghosts, pageVars
<1>3. TypeOK'
  <2>1. loaded' \in [Event -> Nat \union {Absent}]
    BY <1>1 DEF TypeOK
  <2> QED
    BY <1>2, <2>1 DEF TypeOK
<1>4. \A o \in Event \ {p} : loaded'[o] = loaded[o]
  BY <1>1 DEF TypeOK
<1>5. ThreadsCoherent' /\ FeedCoherent'
  BY <1>1, <1>2, <1>4 DEF ThreadsCoherent, FeedCoherent, Kept
<1> QED
  BY <1>3, <1>5

\* Where a thread goes after it has updated an entry, and by how much it did.
LEMMA AfterUpdate ==
  ASSUME Coherent, NEW p \in Event, epc[p] \in Counters
  PROVE  /\ event[p] \in Records
         /\ Increment(event[p], epc[p]) \in Nat
         /\ epc[p] # "ms" => Increment(event[p], epc[p]) = 1
         /\ After(event[p], epc[p]) \in {"ms", "n", "append"}
         /\ After(event[p], epc[p]) = "ms" =>
              event[p].type = "ACCEPTED" /\ event[p].latency \in Nat
         /\ After(event[p], epc[p]) = "n" => event[p].type = "ACCEPTED"
<1>1. event[p] \in Records
  BY DEF Coherent, ThreadsCoherent, Counters
<1>2. event[p].latency \in Int \union {Absent}
  BY <1>1 DEF Records
<1>3. Increment(event[p], epc[p]) \in Nat /\ (epc[p] # "ms" => Increment(event[p], epc[p]) = 1)
  BY DEF Increment, Coherent, ThreadsCoherent
<1>4. CASE epc[p] = "accepted"
  <2>1. event[p].type = "ACCEPTED"
    BY <1>4 DEF Coherent, ThreadsCoherent
  <2>2. CASE event[p].latency # Absent /\ event[p].latency >= 0
    <3>1. event[p].latency \in Nat
      BY <1>2, <2>2
    <3>2. After(event[p], epc[p]) = "ms"
      BY <1>4, <2>2 DEF After
    <3> QED
      BY <1>1, <1>3, <2>1, <3>1, <3>2
  <2>3. CASE ~ (event[p].latency # Absent /\ event[p].latency >= 0)
    <3>1. After(event[p], epc[p]) = "append"
      BY <1>4, <2>3 DEF After
    <3> QED
      BY <1>1, <1>3, <3>1
  <2> QED
    BY <2>2, <2>3
<1>5. CASE epc[p] = "ms"
  <2>1. event[p].type = "ACCEPTED"
    BY <1>5 DEF Coherent, ThreadsCoherent
  <2>2. After(event[p], epc[p]) = "n"
    BY <1>5 DEF After
  <2> QED
    BY <1>1, <1>3, <2>1, <2>2
<1>6. CASE epc[p] \notin {"accepted", "ms"}
  <2>1. After(event[p], epc[p]) = "append"
    BY <1>6 DEF After
  <2> QED
    BY <1>1, <1>3, <2>1
<1> QED
  BY <1>4, <1>5, <1>6

\* A thread stores a count it has loaded.
LEMMA StoreCoherent ==
  ASSUME Coherent, NEW p \in Event, Store(p), UNCHANGED pageVars
  PROVE  Coherent'
<1> USE DEF Coherent
<1>1. /\ epc[p] \in Counters /\ loaded[p] # Absent
      /\ counter' = [counter EXCEPT ![epc[p]] = loaded[p] + Increment(event[p], epc[p])]
      /\ loaded' = [loaded EXCEPT ![p] = Absent]
      /\ epc' = [epc EXCEPT ![p] = After(event[p], epc[p])]
  BY DEF Store
<1>2. /\ events' = events /\ event' = event /\ clock' = clock
      /\ ppc' = ppc /\ answer' = answer /\ rpc' = rpc /\ since' = since
      /\ apart' = apart /\ exact' = exact
      /\ disturbed' = disturbed /\ shown' = shown /\ noticed' = noticed
      /\ lastCriticalSeen' = lastCriticalSeen /\ clears' = clears
  BY DEF Store, pollVars, ghosts, pageVars
<1>3. loaded[p] + Increment(event[p], epc[p]) \in Nat
  <2>1. loaded[p] \in Nat
    BY <1>1 DEF TypeOK
  <2>2. Increment(event[p], epc[p]) \in Nat
    BY <1>1, AfterUpdate
  <2> QED
    BY <2>1, <2>2
<1>4. epc'[p] = After(event[p], epc[p]) /\ \A o \in Event \ {p} : epc'[o] = epc[o]
  BY <1>1 DEF TypeOK
<1>5. TypeOK'
  <2>1. counter' \in [Counters -> Nat]
    BY <1>1, <1>3 DEF TypeOK
  <2>2. loaded' \in [Event -> Nat \union {Absent}]
    BY <1>1 DEF TypeOK
  <2>3. After(event[p], epc[p]) \in EventSteps
    BY <1>1, AfterUpdate DEF EventSteps, Counters
  <2>4. epc' \in [Event -> EventSteps]
    BY <1>1, <2>3 DEF TypeOK
  <2> QED
    BY <1>2, <2>1, <2>2, <2>4 DEF TypeOK
<1>6. ThreadsCoherent'
  <2> SUFFICES ASSUME NEW o \in Event
               PROVE  /\ epc'[o] # "idle" => event[o] \in Records /\ event[o].timestamp <= clock
                      /\ epc'[o] \in {"accepted", "ms", "n"} => event[o].type = "ACCEPTED"
                      /\ epc'[o] = "rejected" => event[o].type = "REJECTED"
                      /\ epc'[o] = "ms" => event[o].latency \in Nat
                      /\ loaded'[o] # Absent => epc'[o] \in Counters
    BY <1>2 DEF ThreadsCoherent
  <2>1. CASE o = p
    <3>1. event[p].timestamp <= clock
      BY <1>1 DEF ThreadsCoherent, Counters
    <3>2. epc'[p] \in {"ms", "n", "append"}
      BY <1>1, <1>4, AfterUpdate
    <3>3. loaded'[p] = Absent
      BY <1>1 DEF TypeOK
    <3> QED
      BY <1>1, <1>4, <2>1, <3>1, <3>2, <3>3, AfterUpdate
  <2>2. CASE o # p
    <3>1. loaded'[o] = loaded[o]
      BY <1>1, <2>2 DEF TypeOK
    <3> QED
      BY <1>4, <2>2, <3>1 DEF ThreadsCoherent
  <2> QED
    BY <2>1, <2>2
<1>7. FeedCoherent'
  <2>1. Kept \subseteq Kept'
    BY <1>1, <1>4 DEF Kept, Counters
  <2> QED
    BY <1>2, <2>1, FeedFrame
<1> QED
  BY <1>5, <1>6, <1>7

\* What the feed holds after an event has been appended.
LEMMA FeedAfterAppend ==
  ASSUME TypeOK, NEW p \in Event
  PROVE  LET f == LastOf(Append(events, p), FeedMax)
         IN  /\ f \in Seq(Event) /\ Len(f) <= FeedMax
             /\ \A i \in DOMAIN f : f[i] = p \/ \E j \in DOMAIN events : f[i] = events[j]
<1> DEFINE w == Append(events, p)
<1>1. events \in Seq(Event) /\ FeedMax \in Nat
  BY ServerAssumption DEF TypeOK
<1>2. /\ w \in Seq(Event) /\ Len(w) = Len(events) + 1
      /\ \A i \in 1 .. Len(events) : w[i] = events[i]
      /\ w[Len(events) + 1] = p
  BY <1>1, AppendProperties
<1> HIDE DEF w
<1> DEFINE f == LastOf(w, FeedMax)
<1>3. /\ f \in Seq(Event) /\ Len(f) = IF Len(w) > FeedMax THEN FeedMax ELSE Len(w)
      /\ \A i \in 1 .. Len(f) : \E j \in 1 .. Len(w) : f[i] = w[j]
  BY <1>1, <1>2, LastOfProperties
<1> HIDE DEF f
<1>4. Len(f) <= FeedMax
  BY <1>1, <1>2, <1>3
<1>5. ASSUME NEW i \in DOMAIN f
      PROVE  f[i] = p \/ \E j \in DOMAIN events : f[i] = events[j]
  <2>1. PICK j \in 1 .. Len(w) : f[i] = w[j]
    BY <1>3, <1>5
  <2>2. j \in 1 .. Len(events) \/ j = Len(events) + 1
    BY <1>1, <1>2, <2>1
  <2> QED
    BY <1>1, <1>2, <2>1, <2>2
<1> QED
  BY <1>3, <1>4, <1>5 DEF f, w

\* What the feed takes in was reported, and it keeps its length.
LEMMA AppendCoherent ==
  ASSUME Coherent, NEW p \in Event, AppendEvent(p), UNCHANGED pageVars
  PROVE  Coherent'
<1> USE DEF Coherent
<1>1. /\ epc[p] = "append"
      /\ events' = LastOf(Append(events, p), FeedMax)
      /\ epc' = [epc EXCEPT ![p] = "done"]
  BY DEF AppendEvent
<1>2. /\ counter' = counter /\ event' = event /\ clock' = clock /\ loaded' = loaded
      /\ ppc' = ppc /\ answer' = answer /\ rpc' = rpc /\ since' = since
      /\ apart' = apart /\ exact' = exact
      /\ disturbed' = disturbed /\ shown' = shown /\ noticed' = noticed
      /\ lastCriticalSeen' = lastCriticalSeen /\ clears' = clears
  BY DEF AppendEvent, pollVars, ghosts, pageVars
<1>3. /\ events' \in Seq(Event) /\ Len(events') <= FeedMax
      /\ \A i \in DOMAIN events' : events'[i] = p \/ \E j \in DOMAIN events : events'[i] = events[j]
  BY <1>1, FeedAfterAppend
<1>4. TypeOK'
  <2>1. epc' \in [Event -> EventSteps]
    BY <1>1 DEF TypeOK, EventSteps
  <2> QED
    BY <1>2, <1>3, <2>1 DEF TypeOK
<1>5. ThreadsCoherent'
  <2>1. loaded[p] = Absent
    BY <1>1 DEF ThreadsCoherent, Counters
  <2> QED
    BY <1>1, <1>2, <2>1 DEF ThreadsCoherent, TypeOK
<1>6. FeedCoherent'
  <2>1. Kept' = Kept \union {p}
    BY <1>1 DEF Kept, TypeOK
  <2>2. \A i \in DOMAIN events' : events'[i] \in Kept'
    BY <1>3, <2>1 DEF FeedCoherent
  <2> QED
    BY <1>2, <2>1, <2>2 DEF FeedCoherent
<1> QED
  BY <1>4, <1>5, <1>6

\* What an answer's list of recent events is made of.
LEMMA RecentProperties ==
  ASSUME TypeOK
  PROVE  /\ LastOf(events, RecentMax) \in Seq(Event)
         /\ \A i \in DOMAIN LastOf(events, RecentMax) :
              \E j \in DOMAIN events : LastOf(events, RecentMax)[i] = events[j]
<1>1. events \in Seq(Event) /\ RecentMax \in Nat
  BY ServerAssumption DEF TypeOK
<1> DEFINE f == LastOf(events, RecentMax)
<1>2. f \in Seq(Event) /\ \A i \in 1 .. Len(f) : \E j \in 1 .. Len(events) : f[i] = events[j]
  BY <1>1, LastOfProperties
<1> HIDE DEF f
<1>3. \A i \in DOMAIN f : \E j \in DOMAIN events : f[i] = events[j]
  BY <1>1, <1>2
<1> QED
  BY <1>2, <1>3 DEF f

\* A poll's reads: where its thread is, and what it has read.
LEMMA PollStepCases ==
  ASSUME TypeOK, NEW q \in Poll, PollStep(q)
  PROVE  /\ events' = events /\ counter' = counter /\ event' = event /\ clock' = clock
         /\ epc' = epc /\ loaded' = loaded /\ rpc' = rpc /\ since' = since
         /\ apart' = apart /\ exact' = exact
         /\ disturbed' = disturbed
         /\ ppc' \in [Poll -> PollSteps] /\ answer' \in [Poll -> Answers]
         /\ \A o \in Poll \ {q} : ppc'[o] = ppc[o] /\ answer'[o] = answer[o]
         /\ \/ /\ ppc[q] = "recent" /\ ppc'[q] = "n"
               /\ answer'[q].recent = LastOf(events, RecentMax)
            \/ /\ ppc[q] = "n" /\ answer' = answer
               /\ ppc'[q] = IF counter["n"] = 0 THEN "totals" ELSE "divide"
            \/ /\ ppc[q] = "divide" /\ answer' = answer
               /\ ppc'[q] = IF counter["n"] = 0 THEN "failed" ELSE "totals"
            \/ /\ ppc[q] = "totals" /\ ppc'[q] = "answered"
               /\ answer'[q].recent = answer[q].recent
               /\ answer'[q].totals = Totals
<1>1. /\ events' = events /\ counter' = counter /\ event' = event /\ clock' = clock
      /\ epc' = epc /\ loaded' = loaded /\ rpc' = rpc /\ since' = since
      /\ apart' = apart /\ exact' = exact
      /\ disturbed' = disturbed
  BY DEF PollStep, eventVars, ghosts
<1>2. /\ ppc \in [Poll -> PollSteps] /\ answer \in [Poll -> Answers]
      /\ answer[q] \in Answers
  BY DEF TypeOK
<1>3. CASE Read(q, "recent", "recent", LastOf(events, RecentMax), "n")
  <2>1. /\ ppc[q] = "recent" /\ ppc' = [ppc EXCEPT ![q] = "n"]
        /\ answer' = [answer EXCEPT ![q]["recent"] = LastOf(events, RecentMax)]
    BY <1>3 DEF Read, Goto
  <2>2. LastOf(events, RecentMax) \in Seq(Event)
    BY RecentProperties
  <2>3. answer'[q] = [answer[q] EXCEPT !.recent = LastOf(events, RecentMax)]
    BY <1>2, <2>1
  <2>4. answer'[q] \in Answers /\ answer'[q].recent = LastOf(events, RecentMax)
    BY <1>2, <2>2, <2>3 DEF Answers
  <2>5. ppc' \in [Poll -> PollSteps] /\ ppc'[q] = "n" /\ \A o \in Poll \ {q} : ppc'[o] = ppc[o]
    BY <1>2, <2>1 DEF PollSteps
  <2>6. answer' \in [Poll -> Answers] /\ \A o \in Poll \ {q} : answer'[o] = answer[o]
    BY <1>2, <2>1, <2>4
  <2> QED
    BY <1>1, <2>1, <2>4, <2>5, <2>6
<1>4. CASE Read(q, "totals", "totals", Totals, "answered")
  <2>1. /\ ppc[q] = "totals" /\ ppc' = [ppc EXCEPT ![q] = "answered"]
        /\ answer' = [answer EXCEPT ![q]["totals"] = Totals]
    BY <1>4 DEF Read, Goto
  <2>2. Totals \in Nat \X Nat
    BY DEF Totals, TypeOK, Counters
  <2>3. answer'[q] = [answer[q] EXCEPT !.totals = Totals]
    BY <1>2, <2>1
  <2>4. /\ answer'[q] \in Answers /\ answer'[q].totals = Totals
        /\ answer'[q].recent = answer[q].recent
    BY <1>2, <2>2, <2>3 DEF Answers
  <2>5. /\ ppc' \in [Poll -> PollSteps] /\ ppc'[q] = "answered"
        /\ \A o \in Poll \ {q} : ppc'[o] = ppc[o]
    BY <1>2, <2>1 DEF PollSteps
  <2>6. answer' \in [Poll -> Answers] /\ \A o \in Poll \ {q} : answer'[o] = answer[o]
    BY <1>2, <2>1, <2>4
  <2> QED
    BY <1>1, <2>1, <2>4, <2>5, <2>6
<1>5. CASE Average(q)
  BY <1>1, <1>2, <1>5 DEF Average, Goto, PollSteps
<1> QED
  BY <1>3, <1>4, <1>5 DEF PollStep

\* What an answer takes in is in the feed or was counted.
LEMMA PollStepCoherent ==
  ASSUME Coherent, NEW q \in Poll, PollStep(q), UNCHANGED pageVars
  PROVE  Coherent'
<1> USE DEF Coherent
<1>1. /\ events' = events /\ counter' = counter /\ event' = event /\ clock' = clock
      /\ epc' = epc /\ loaded' = loaded /\ rpc' = rpc /\ since' = since
      /\ apart' = apart /\ exact' = exact
      /\ disturbed' = disturbed
      /\ ppc' \in [Poll -> PollSteps] /\ answer' \in [Poll -> Answers]
      /\ \A o \in Poll \ {q} : ppc'[o] = ppc[o] /\ answer'[o] = answer[o]
  BY PollStepCases
<1>2. /\ shown' = shown /\ noticed' = noticed /\ lastCriticalSeen' = lastCriticalSeen
      /\ clears' = clears
  BY DEF pageVars
<1>3. TypeOK' /\ ThreadsCoherent'
  BY <1>1, <1>2 DEF TypeOK, ThreadsCoherent
<1>4. FeedCoherent'
  <2>1. answer'[q].recent = answer[q].recent \/ answer'[q].recent = LastOf(events, RecentMax)
    BY PollStepCases
  <2>2. \A i \in DOMAIN answer'[q].recent : answer'[q].recent[i] \in Kept
    BY <2>1, RecentProperties DEF FeedCoherent
  <2>3. Kept' = Kept
    BY <1>1 DEF Kept
  <2> QED
    BY <1>1, <1>2, <2>2, <2>3 DEF FeedCoherent
<1> QED
  BY <1>3, <1>4

\* A poll begins, is given up or is forgotten.
LEMMA BeginPollCoherent ==
  ASSUME Coherent, NEW q \in Poll, BeginPoll(q), UNCHANGED pageVars
  PROVE  Coherent'
<1> USE DEF Coherent
<1>1. /\ events' = events /\ counter' = counter /\ event' = event /\ clock' = clock
      /\ epc' = epc /\ loaded' = loaded /\ rpc' = rpc /\ since' = since
      /\ apart' = apart /\ exact' = exact
      /\ answer' = answer /\ disturbed' \in {disturbed, disturbed \union {q}}
      /\ ppc' = [ppc EXCEPT ![q] = "recent"]
  BY DEF BeginPoll, eventVars
<1>2. /\ shown' = shown /\ noticed' = noticed /\ lastCriticalSeen' = lastCriticalSeen
      /\ clears' = clears
  BY DEF pageVars
<1>3. ppc' \in [Poll -> PollSteps] /\ disturbed' \subseteq Poll
  BY <1>1 DEF TypeOK, PollSteps
<1> QED
  BY <1>1, <1>2, <1>3 DEF TypeOK, ThreadsCoherent, FeedCoherent, Kept

\* What the end of a poll changes: its own thread and answer.
LEMMA EndPollFrame ==
  ASSUME Coherent, NEW q \in Poll, EndPoll(q)
  PROVE  /\ events' = events /\ counter' = counter /\ event' = event /\ clock' = clock
         /\ epc' = epc /\ loaded' = loaded /\ rpc' = rpc /\ since' = since
         /\ apart' = apart /\ exact' = exact
         /\ ppc' \in [Poll -> PollSteps] /\ answer' \in [Poll -> Answers]
         /\ disturbed' = disturbed \ {q} /\ Kept' = Kept
         /\ ppc'[q] = "idle" /\ answer'[q].recent = <<>>
         /\ \A o \in Poll \ {q} : ppc'[o] = ppc[o] /\ answer'[o] = answer[o]
<1>1. /\ events' = events /\ counter' = counter /\ event' = event /\ clock' = clock
      /\ epc' = epc /\ loaded' = loaded /\ rpc' = rpc /\ since' = since
      /\ apart' = apart /\ exact' = exact
      /\ disturbed' = disturbed \ {q}
      /\ ppc' = [ppc EXCEPT ![q] = "idle"]
      /\ answer' = [answer EXCEPT ![q] = Blank]
  BY DEF EndPoll, eventVars
<1>2. Blank \in Answers /\ Blank.recent = <<>>
  BY DEF Blank, Answers
<1>3. "idle" \in PollSteps /\ ppc \in [Poll -> PollSteps] /\ answer \in [Poll -> Answers]
  BY DEF PollSteps, Coherent, TypeOK
<1>4. Kept' = Kept
  BY <1>1 DEF Kept
<1>5. /\ ppc' \in [Poll -> PollSteps] /\ ppc'[q] = "idle"
      /\ \A o \in Poll \ {q} : ppc'[o] = ppc[o]
  BY <1>1, <1>3
<1>6. /\ answer' \in [Poll -> Answers] /\ answer'[q] = Blank
      /\ \A o \in Poll \ {q} : answer'[o] = answer[o]
  BY <1>1, <1>2, <1>3
<1> QED
  BY <1>1, <1>2, <1>4, <1>5, <1>6

\* The newest of an answer's critical events is one of them.
LEMMA NewestIsCritical ==
  ASSUME Coherent, NEW q \in Poll, Criticals(answer[q]) # {}
  PROVE  /\ Criticals(answer[q]) \subseteq Kept
         /\ \E p \in Criticals(answer[q]) : Newest(answer[q]) = event[p].timestamp
         /\ \A p \in Criticals(answer[q]) : event[p].timestamp <= Newest(answer[q])
         /\ Newest(answer[q]) \in Nat
<1> DEFINE C == Criticals(answer[q])
           T == {event[p].timestamp : p \in C}
<1>1. C \subseteq Kept
  BY DEF Coherent, FeedCoherent, Criticals
<1>2. \A p \in C : event[p].timestamp \in Nat /\ event[p].timestamp <= clock
  BY <1>1 DEF Coherent, ThreadsCoherent, Kept, Records
<1> HIDE DEF C
<1>3. T \subseteq Nat /\ T # {} /\ clock \in Nat /\ \A t \in T : t <= clock
  BY <1>2 DEF Coherent, TypeOK, C
<1> HIDE DEF T
<1>4. PICK t \in T : \A u \in T : u <= t
  BY <1>3, GreatestNatural
<1>5. \A p \in C : event[p].timestamp <= t
  BY <1>4 DEF T
<1>6. Newest(answer[q]) = CHOOSE u \in T : \A p \in C : event[p].timestamp <= u
  BY DEF Newest, T, C
<1>7. Newest(answer[q]) \in T /\ \A p \in C : event[p].timestamp <= Newest(answer[q])
  BY <1>4, <1>5, <1>6
<1>8. \E p \in C : Newest(answer[q]) = event[p].timestamp
  BY <1>7 DEF T
<1> QED
  BY <1>1, <1>2, <1>7, <1>8 DEF C

\* A poll that fails leaves the page as it was.
LEMMA SkipTickCoherent ==
  ASSUME Coherent, NEW q \in Poll, SkipTick(q)
  PROVE  Coherent'
<1> USE DEF Coherent
<1>1. /\ shown' = shown /\ noticed' = noticed /\ lastCriticalSeen' = lastCriticalSeen
      /\ clears' = clears /\ EndPoll(q)
  BY DEF SkipTick, pageVars
<1>2. /\ events' = events /\ counter' = counter /\ event' = event /\ clock' = clock
      /\ epc' = epc /\ loaded' = loaded /\ rpc' = rpc /\ since' = since
      /\ apart' = apart /\ exact' = exact
      /\ ppc' \in [Poll -> PollSteps] /\ answer' \in [Poll -> Answers]
      /\ disturbed' = disturbed \ {q} /\ Kept' = Kept
      /\ answer'[q].recent = <<>>
      /\ \A o \in Poll \ {q} : answer'[o] = answer[o]
  BY <1>1, EndPollFrame
<1>3. TypeOK' /\ ThreadsCoherent'
  BY <1>1, <1>2 DEF TypeOK, ThreadsCoherent
<1>4. FeedCoherent'
  <2>1. \A o \in Poll : \A i \in DOMAIN answer'[o].recent : answer'[o].recent[i] \in Kept
    BY <1>2 DEF FeedCoherent
  <2> QED
    BY <1>1, <1>2, <2>1 DEF FeedCoherent
<1> QED
  BY <1>3, <1>4

\* An answer is shown: what the page remembers is not older than before.
LEMMA ShowAnswerFrame ==
  ASSUME Coherent, NEW q \in Poll, ShowAnswer(q)
  PROVE  /\ ppc[q] = "answered" /\ EndPoll(q) /\ clears' = clears
         /\ shown' = answer[q].totals
         /\ lastCriticalSeen' \in Nat /\ lastCriticalSeen <= lastCriticalSeen'
         /\ \/ /\ ~ Flashes(q) /\ noticed' = noticed
               /\ lastCriticalSeen' = lastCriticalSeen
            \/ /\ Flashes(q) /\ noticed' = noticed \union Criticals(answer[q])
               /\ lastCriticalSeen' = Newest(answer[q])
<1>1. /\ ppc[q] = "answered" /\ EndPoll(q) /\ clears' = clears /\ shown' = answer[q].totals
      /\ \/ /\ ~ Flashes(q) /\ noticed' = noticed
            /\ lastCriticalSeen' = lastCriticalSeen
         \/ /\ Flashes(q) /\ noticed' = noticed \union Criticals(answer[q])
            /\ lastCriticalSeen' = Newest(answer[q])
  BY DEF ShowAnswer
<1>2. lastCriticalSeen \in Nat
  BY DEF Coherent, TypeOK
<1>3. CASE Flashes(q)
  <2>1. PICK p \in Criticals(answer[q]) : event[p].timestamp > lastCriticalSeen
    BY <1>3 DEF Flashes
  <2>2. event[p].timestamp <= Newest(answer[q]) /\ Newest(answer[q]) \in Nat /\ p \in Kept
    BY <2>1, NewestIsCritical
  <2>3. event[p].timestamp \in Nat
    BY <2>2 DEF Coherent, ThreadsCoherent, Kept, Records
  <2>4. lastCriticalSeen <= Newest(answer[q])
    BY <1>2, <2>1, <2>2, <2>3
  <2> QED
    BY <1>1, <1>3, <2>2, <2>4
<1>4. CASE ~ Flashes(q)
  BY <1>1, <1>2, <1>4
<1> QED
  BY <1>3, <1>4

\* What the page remembers of an answer was reported, and is no newer than the clock.
LEMMA ShowAnswerCoherent ==
  ASSUME Coherent, NEW q \in Poll, ShowAnswer(q)
  PROVE  Coherent'
<1> USE DEF Coherent
<1>1. /\ EndPoll(q) /\ clears' = clears /\ shown' = answer[q].totals
      /\ lastCriticalSeen' \in Nat /\ lastCriticalSeen <= lastCriticalSeen'
      /\ \/ /\ ~ Flashes(q) /\ noticed' = noticed
            /\ lastCriticalSeen' = lastCriticalSeen
         \/ /\ Flashes(q) /\ noticed' = noticed \union Criticals(answer[q])
            /\ lastCriticalSeen' = Newest(answer[q])
  BY ShowAnswerFrame
<1>2. /\ events' = events /\ counter' = counter /\ event' = event /\ clock' = clock
      /\ epc' = epc /\ loaded' = loaded /\ rpc' = rpc /\ since' = since
      /\ apart' = apart /\ exact' = exact
      /\ ppc' \in [Poll -> PollSteps] /\ answer' \in [Poll -> Answers]
      /\ disturbed' = disturbed \ {q} /\ Kept' = Kept
      /\ answer'[q].recent = <<>>
      /\ \A o \in Poll \ {q} : answer'[o] = answer[o]
  BY <1>1, EndPollFrame
<1>3. shown' \in Nat \X Nat
  BY <1>1 DEF TypeOK, Answers
<1>4. \A p \in noticed' : p \in Kept /\ event[p].timestamp <= lastCriticalSeen'
  <2>1. CASE Flashes(q)
    <3> SUFFICES ASSUME NEW p \in noticed'
                 PROVE  p \in Kept /\ event[p].timestamp <= lastCriticalSeen'
      OBVIOUS
    <3>1. Criticals(answer[q]) # {}
      BY <2>1 DEF Flashes
    <3>2. CASE p \in Criticals(answer[q])
      BY <1>1, <2>1, <3>1, <3>2, NewestIsCritical
    <3>3. CASE p \in noticed
      <4>1. p \in Kept /\ event[p].timestamp <= lastCriticalSeen
        BY <3>3 DEF FeedCoherent
      <4>2. event[p].timestamp \in Nat
        BY <4>1 DEF ThreadsCoherent, Kept, Records
      <4> QED
        BY <1>1, <4>1, <4>2 DEF TypeOK
    <3> QED
      BY <1>1, <2>1, <3>2, <3>3
  <2>2. CASE ~ Flashes(q)
    BY <1>1, <2>2 DEF FeedCoherent
  <2> QED
    BY <2>1, <2>2
<1>5. TypeOK'
  <2>1. noticed' \subseteq Event
    BY <1>4 DEF Kept
  <2> QED
    BY <1>1, <1>2, <1>3, <2>1 DEF TypeOK
<1>6. ThreadsCoherent'
  BY <1>2 DEF ThreadsCoherent
<1>7. FeedCoherent'
  <2>1. \A o \in Poll : \A i \in DOMAIN answer'[o].recent : answer'[o].recent[i] \in Kept
    BY <1>2 DEF FeedCoherent
  <2> QED
    BY <1>2, <1>4, <2>1 DEF FeedCoherent
<1> QED
  BY <1>5, <1>6, <1>7

\* The steps of a reset.
LEMMA ResetCoherent ==
  ASSUME Coherent, NEW r \in Reset,
         (BeginReset(r) \/ ResetStep(r)) /\ UNCHANGED pageVars
  PROVE  Coherent'
<1> USE DEF Coherent
<1>1. /\ event' = event /\ clock' = clock /\ epc' = epc /\ loaded' = loaded
      /\ ppc' = ppc /\ answer' = answer
      /\ shown' = shown /\ noticed' = noticed /\ lastCriticalSeen' = lastCriticalSeen
      /\ clears' = clears
  BY DEF BeginReset, ResetStep, ClearEvents, ZeroCounter, eventVars, pollVars, pageVars
<1>2. /\ events' \in {events, <<>>} /\ since' \subseteq since
      /\ disturbed' \in {disturbed, disturbed \union Polling}
  <2>1. CASE BeginReset(r)
    BY <2>1 DEF BeginReset
  <2>2. CASE ClearEvents(r)
    BY <2>2 DEF ClearEvents
  <2>3. CASE ZeroCounter(r)
    BY <2>3 DEF ZeroCounter, ghosts
  <2> QED
    BY <2>1, <2>2, <2>3 DEF ResetStep
<1>3. counter' \in [Counters -> Nat]
  <2>1. counter' = counter \/ counter' = [counter EXCEPT ![rpc[r]] = 0]
    BY DEF BeginReset, ResetStep, ClearEvents, ZeroCounter
  <2> QED
    BY <2>1 DEF TypeOK
<1>4. rpc' \in [Reset -> ResetSteps]
  <2>1. \A c : AfterReset(c) \in ResetSteps
    BY DEF AfterReset, ResetSteps, Counters
  <2>2. "clear" \in ResetSteps /\ "accepted" \in ResetSteps
    BY DEF ResetSteps, Counters
  <2>3. PICK step \in ResetSteps : rpc' = [rpc EXCEPT ![r] = step]
    <3>1. CASE BeginReset(r)
      BY <3>1, <2>2 DEF BeginReset
    <3>2. CASE ClearEvents(r)
      BY <3>2, <2>2 DEF ClearEvents
    <3>3. CASE ZeroCounter(r)
      BY <3>3, <2>1 DEF ZeroCounter
    <3> QED
      BY <3>1, <3>2, <3>3 DEF ResetStep
  <2> QED
    BY <2>3 DEF TypeOK
<1>5. events' \in Seq(Event) /\ Len(events') <= FeedMax
  <2>1. CASE events' = events
    BY <2>1 DEF TypeOK
  <2>2. CASE events' = <<>>
    BY <2>2, ServerAssumption
  <2> QED
    BY <1>2, <2>1, <2>2
<1>6. disturbed' \subseteq Poll /\ since' \subseteq Event
  BY <1>2 DEF TypeOK, Polling
<1>7. TypeOK'
  <2>1. apart' \in BOOLEAN /\ exact' \in BOOLEAN
    <3>1. CASE BeginReset(r)
      <4>1. apart' = apart /\ exact' = exact
        BY <3>1 DEF BeginReset
      <4> QED
        BY <4>1 DEF TypeOK
    <3>2. CASE ClearEvents(r)
      BY <3>2 DEF ClearEvents
    <3>3. CASE ZeroCounter(r)
      <4>1. apart' = apart /\ exact' = exact
        BY <3>3 DEF ZeroCounter, ghosts
      <4> QED
        BY <4>1 DEF TypeOK
    <3> QED
      BY <3>1, <3>2, <3>3 DEF ResetStep
  <2> QED
    BY <1>1, <1>3, <1>4, <1>5, <1>6, <2>1 DEF TypeOK
<1>8. ThreadsCoherent' /\ FeedCoherent'
  BY <1>1, <1>2 DEF ThreadsCoherent, FeedCoherent, Kept
<1> QED
  BY <1>7, <1>8

\* A reset shown leaves a page that has seen nothing.
LEMMA ShowResetCoherent ==
  ASSUME Coherent, NEW r \in Reset, ShowReset(r)
  PROVE  Coherent'
<1> USE DEF Coherent
<1>1. /\ events' = events /\ counter' = counter /\ event' = event /\ clock' = clock
      /\ epc' = epc /\ loaded' = loaded /\ ppc' = ppc /\ answer' = answer
      /\ since' = since /\ disturbed' = disturbed /\ shown' = shown
      /\ apart' = apart /\ exact' = exact
      /\ noticed' = {} /\ lastCriticalSeen' = 0 /\ clears' = clears + 1
      /\ rpc' = [rpc EXCEPT ![r] = "done"]
  BY DEF ShowReset, eventVars, pollVars, ghosts
<1>2. rpc' \in [Reset -> ResetSteps] /\ clears' \in Nat
  BY <1>1 DEF TypeOK, ResetSteps
<1>3. TypeOK'
  BY <1>1, <1>2 DEF TypeOK
<1> QED
  BY <1>1, <1>3 DEF ThreadsCoherent, FeedCoherent, Kept

\* A restart ends every thread.
LEMMA CrashCoherent ==
  ASSUME Coherent, Crash
  PROVE  Coherent'
<1> USE DEF Coherent
<1>1. /\ events' = <<>> /\ counter' = [c \in Counters |-> 0]
      /\ event' = event /\ clock' = clock /\ answer' = answer
      /\ epc' = [p \in Event |-> IF p \in PostsUnderWay THEN "done" ELSE epc[p]]
      /\ loaded' = [p \in Event |-> Absent]
      /\ ppc' = [q \in Poll |-> IF ppc[q] \in {"idle", "answered"} THEN ppc[q] ELSE "failed"]
      /\ rpc' = [r \in Reset |-> IF r \in ResetsUnderWay THEN "failed" ELSE rpc[r]]
      /\ since' = {} /\ disturbed' = disturbed \union Polling
      /\ shown' = shown /\ noticed' = noticed /\ lastCriticalSeen' = lastCriticalSeen
      /\ clears' = clears + 1 /\ apart' = TRUE /\ exact' = TRUE
  BY DEF Crash, RestartServer
<1>2. TypeOK'
  <2>1. epc' \in [Event -> EventSteps]
    BY <1>1 DEF TypeOK, EventSteps
  <2>2. ppc' \in [Poll -> PollSteps]
    BY <1>1 DEF TypeOK, PollSteps
  <2>3. rpc' \in [Reset -> ResetSteps]
    BY <1>1 DEF TypeOK, ResetSteps
  <2>4. counter' \in [Counters -> Nat] /\ loaded' \in [Event -> Nat \union {Absent}]
    BY <1>1
  <2>5. events' \in Seq(Event) /\ Len(events') <= FeedMax
    BY <1>1, ServerAssumption
  <2>6. disturbed' \subseteq Poll /\ since' \subseteq Event /\ clears' \in Nat
    BY <1>1 DEF TypeOK, Polling
  <2> QED
    BY <1>1, <2>1, <2>2, <2>3, <2>4, <2>5, <2>6 DEF TypeOK
<1>3. ThreadsCoherent'
  BY <1>1 DEF ThreadsCoherent, PostsUnderWay
<1>4. FeedCoherent'
  <2>1. Kept \subseteq Kept'
    BY <1>1 DEF Kept, PostsUnderWay
  <2> QED
    BY <1>1, <2>1 DEF FeedCoherent
<1> QED
  BY <1>2, <1>3, <1>4

\* Every step preserves Coherent.
LEMMA StepCoherent == Coherent /\ [Next]_vars => Coherent'
<1> SUFFICES ASSUME Coherent, [Next]_vars PROVE Coherent'
  OBVIOUS
<1>1. CASE Server
  <2>1. ASSUME NEW p \in Event, BeginEvent(p) \/ EventStep(p), UNCHANGED pageVars
        PROVE  Coherent'
    BY <2>1, BeginEventCoherent, LoadCoherent, StoreCoherent, AppendCoherent DEF EventStep
  <2>2. ASSUME NEW q \in Poll, PollStep(q), UNCHANGED pageVars
        PROVE  Coherent'
    BY <2>2, PollStepCoherent
  <2>3. ASSUME NEW r \in Reset, ResetStep(r), UNCHANGED pageVars
        PROVE  Coherent'
    BY <2>3, ResetCoherent
  <2> QED
    BY <1>1, <2>1, <2>2, <2>3 DEF Server
<1>2. CASE Page
  <2>1. ASSUME NEW q \in Poll, Tick(q) \/ ShowAnswer(q) \/ SkipTick(q)
        PROVE  Coherent'
    BY <2>1, BeginPollCoherent, ShowAnswerCoherent, SkipTickCoherent DEF Tick
  <2>2. ASSUME NEW r \in Reset, PressReset(r) \/ ShowReset(r)
        PROVE  Coherent'
    BY <2>2, ResetCoherent, ShowResetCoherent DEF PressReset
  <2> QED
    BY <1>2, <2>1, <2>2 DEF Page
<1>3. CASE Crash
  BY <1>3, CrashCoherent
<1>4. CASE UNCHANGED vars
  BY <1>4 DEF Coherent, TypeOK, ThreadsCoherent, FeedCoherent, Kept, vars, serverVars,
              eventVars, pollVars, ghosts, pageVars
<1> QED
  BY <1>1, <1>2, <1>3, <1>4 DEF Next

\* Whatever overlaps, the threads and the feed stay coherent.
THEOREM CoherentInvariance == Spec => []Coherent
BY InitCoherent, StepCoherent, PTL DEF Spec

\* The variables of the server and of the page keep their types: no update of a
\* counter reads an entry that is not there (dashboard.py:59-69).
THEOREM TypeCorrect == Spec => []TypeOK
<1>1. Coherent => TypeOK
  BY DEF Coherent
<1> QED
  BY <1>1, CoherentInvariance, PTL

\* A flash is for an event the page has not flashed for: it is newer than all of those.
LEMMA FlashIsNew ==
  ASSUME Coherent, NEW q \in Poll, Flashes(q)
  PROVE  Criticals(answer[q]) \ noticed # {}
<1>1. PICK p \in Criticals(answer[q]) : event[p].timestamp > lastCriticalSeen
  BY DEF Flashes
<1>2. p \in Kept
  BY <1>1 DEF Coherent, FeedCoherent, Criticals
<1>3. event[p].timestamp \in Nat /\ lastCriticalSeen \in Nat
  BY <1>2 DEF Coherent, TypeOK, ThreadsCoherent, Kept, Records
<1>4. p \notin noticed
  BY <1>1, <1>3 DEF Coherent, FeedCoherent
<1> QED
  BY <1>1, <1>4

\* The banner does not flash for what it has flashed for already, whatever
\* overlaps and in whatever order the answers come (index.html:179-187).
THEOREM FlashesOnce == Spec => NeverFlashesAgain
<1>1. Coherent => \A q \in Poll : ShowAnswer(q) /\ Flashes(q) => Criticals(answer[q]) \ noticed # {}
  BY FlashIsNew
<1> QED
  BY <1>1, CoherentInvariance, PTL DEF NeverFlashesAgain
-----------------------------------------------------------------------------
(***************************************************************************)
(* The average of an answer that no reset overlaps.                        *)
(***************************************************************************)
\* Steps that move no poll and no reset, and leave no average without its divisor.
LEMMA AveragesFrame ==
  ASSUME AveragesCoherent, ppc' = ppc, disturbed' = disturbed,
         ResetsUnderWay' \subseteq ResetsUnderWay,
         counter["n"] # 0 => counter'["n"] # 0
  PROVE  AveragesCoherent'
<1>1. Polling' = Polling
  BY DEF Polling
<1> QED
  BY <1>1 DEF AveragesCoherent

\* Steps after which every poll under way is disturbed.
LEMMA AveragesDisturbed ==
  ASSUME Polling' \subseteq disturbed'
  PROVE  AveragesCoherent'
<1>1. \A q \in Poll \ disturbed' : ppc'[q] = "idle"
  BY DEF Polling
<1> QED
  BY <1>1 DEF AveragesCoherent

\* A step of an event's thread: the number of latencies only rises, since what a
\* thread stores there is at least one (dashboard.py:65).
LEMMA EventAverages ==
  ASSUME Coherent, AveragesCoherent, NEW p \in Event, BeginEvent(p) \/ EventStep(p)
  PROVE  AveragesCoherent'
<1>1. ppc' = ppc /\ disturbed' = disturbed /\ rpc' = rpc
  BY DEF BeginEvent, EventStep, Load, Store, AppendEvent, pollVars, ghosts
<1>2. ResetsUnderWay' = ResetsUnderWay
  BY <1>1 DEF ResetsUnderWay
<1>3. counter["n"] # 0 => counter'["n"] # 0
  <2>1. CASE Store(p)
    <3>1. /\ epc[p] \in Counters /\ loaded[p] \in Nat
          /\ counter' = [counter EXCEPT ![epc[p]] = loaded[p] + Increment(event[p], epc[p])]
      BY <2>1 DEF Store, Coherent, TypeOK
    <3>2. counter \in [Counters -> Nat] /\ "n" \in Counters
      BY DEF Coherent, TypeOK, Counters
    <3>3. CASE epc[p] = "n"
      <4>1. Increment(event[p], epc[p]) = 1
        BY <3>1, <3>3, AfterUpdate
      <4>2. counter'["n"] = loaded[p] + 1
        BY <3>1, <3>2, <3>3, <4>1
      <4> QED
        BY <3>1, <4>2
    <3>4. CASE epc[p] # "n"
      BY <3>1, <3>2, <3>4
    <3> QED
      BY <3>3, <3>4
  <2>2. CASE ~ Store(p)
    <3>1. counter' = counter
      BY <2>2 DEF BeginEvent, EventStep, Load, AppendEvent
    <3> QED
      BY <3>1
  <2> QED
    BY <2>1, <2>2
<1> QED
  BY <1>1, <1>2, <1>3, AveragesFrame

\* A poll's reads: it divides by what it has found not to be zero.
LEMMA PollAverages ==
  ASSUME Coherent, AveragesCoherent, NEW q \in Poll, PollStep(q)
  PROVE  AveragesCoherent'
<1>1. /\ counter' = counter /\ rpc' = rpc /\ disturbed' = disturbed
      /\ \A o \in Poll \ {q} : ppc'[o] = ppc[o]
      /\ \/ ppc[q] = "recent" /\ ppc'[q] = "n"
         \/ /\ ppc[q] = "n"
            /\ ppc'[q] = IF counter["n"] = 0 THEN "totals" ELSE "divide"
         \/ /\ ppc[q] = "divide"
            /\ ppc'[q] = IF counter["n"] = 0 THEN "failed" ELSE "totals"
         \/ ppc[q] = "totals" /\ ppc'[q] = "answered"
  BY PollStepCases DEF Coherent
<1>2. ResetsUnderWay' = ResetsUnderWay /\ Polling' = Polling
  BY <1>1 DEF ResetsUnderWay, Polling
<1>3. ASSUME NEW o \in Poll \ disturbed
      PROVE  ppc'[o] # "failed" /\ (ppc'[o] = "divide" => counter["n"] # 0)
  <2>1. ppc[o] # "failed" /\ (ppc[o] = "divide" => counter["n"] # 0)
    BY DEF AveragesCoherent
  <2>2. CASE o = q
    BY <1>1, <2>1, <2>2
  <2>3. CASE o # q
    BY <1>1, <2>1, <2>3
  <2> QED
    BY <2>2, <2>3
<1> QED
  BY <1>1, <1>2, <1>3 DEF AveragesCoherent

\* A poll that begins while a reset is under way is disturbed by it.
LEMMA TickAverages ==
  ASSUME Coherent, AveragesCoherent, NEW q \in Poll, BeginPoll(q)
  PROVE  AveragesCoherent'
<1>1. /\ counter' = counter /\ rpc' = rpc
      /\ ppc' = [ppc EXCEPT ![q] = "recent"]
      /\ disturbed' = IF ResetsUnderWay # {} THEN disturbed \union {q} ELSE disturbed
  BY DEF BeginPoll
<1>2. ppc'[q] = "recent" /\ \A o \in Poll \ {q} : ppc'[o] = ppc[o]
  BY <1>1 DEF Coherent, TypeOK
<1>3. ResetsUnderWay' = ResetsUnderWay /\ Polling' \subseteq Polling \union {q}
  BY <1>1, <1>2 DEF ResetsUnderWay, Polling
<1>4. ResetsUnderWay' # {} => Polling' \subseteq disturbed'
  BY <1>1, <1>3 DEF AveragesCoherent
<1>5. ASSUME NEW o \in Poll \ disturbed'
      PROVE  ppc'[o] # "failed" /\ (ppc'[o] = "divide" => counter'["n"] # 0)
  <2>1. o \in Poll \ disturbed
    BY <1>1
  <2> QED
    BY <1>1, <1>2, <2>1 DEF AveragesCoherent
<1> QED
  BY <1>4, <1>5 DEF AveragesCoherent

\* A poll that has ended divides no more.
LEMMA EndPollAverages ==
  ASSUME Coherent, AveragesCoherent, NEW q \in Poll, EndPoll(q)
  PROVE  AveragesCoherent'
<1>1. /\ counter' = counter /\ rpc' = rpc /\ disturbed' = disturbed \ {q}
      /\ ppc'[q] = "idle" /\ \A o \in Poll \ {q} : ppc'[o] = ppc[o]
  BY EndPollFrame
<1>2. ResetsUnderWay' = ResetsUnderWay /\ Polling' \subseteq Polling \ {q}
  BY <1>1 DEF ResetsUnderWay, Polling
<1>3. ResetsUnderWay' # {} => Polling' \subseteq disturbed'
  BY <1>1, <1>2 DEF AveragesCoherent
<1>4. ASSUME NEW o \in Poll \ disturbed'
      PROVE  ppc'[o] # "failed" /\ (ppc'[o] = "divide" => counter'["n"] # 0)
  <2>1. CASE o = q
    BY <1>1, <2>1
  <2>2. CASE o # q
    BY <1>1, <2>2 DEF AveragesCoherent
  <2> QED
    BY <2>1, <2>2
<1> QED
  BY <1>3, <1>4 DEF AveragesCoherent

\* A reset disturbs the polls it finds, and those that begin before it ends.
LEMMA ResetAverages ==
  ASSUME Coherent, AveragesCoherent, NEW r \in Reset, BeginReset(r) \/ ResetStep(r)
  PROVE  AveragesCoherent'
<1>1. CASE BeginReset(r)
  <2>1. ppc' = ppc /\ disturbed' = disturbed \union Polling
    BY <1>1 DEF BeginReset, pollVars
  <2>2. Polling' = Polling
    BY <2>1 DEF Polling
  <2> QED
    BY <2>1, <2>2, AveragesDisturbed
<1>2. CASE ResetStep(r)
  <2>1. r \in ResetsUnderWay
    BY <1>2 DEF ResetStep, ClearEvents, ZeroCounter, ResetsUnderWay
  <2>2. ppc' = ppc /\ disturbed' = disturbed
    BY <1>2 DEF ResetStep, ClearEvents, ZeroCounter, pollVars, ghosts
  <2>3. Polling' \subseteq disturbed'
    BY <2>1, <2>2 DEF AveragesCoherent, Polling
  <2> QED
    BY <2>3, AveragesDisturbed
<1> QED
  BY <1>1, <1>2

\* Every step preserves AveragesCoherent.
LEMMA StepAverages == Coherent /\ AveragesCoherent /\ [Next]_vars => AveragesCoherent'
<1> SUFFICES ASSUME Coherent, AveragesCoherent, [Next]_vars PROVE AveragesCoherent'
  OBVIOUS
<1>1. CASE Server
  BY <1>1, EventAverages, PollAverages, ResetAverages DEF Server
<1>2. CASE Page
  <2>1. ASSUME NEW q \in Poll, Tick(q) \/ ShowAnswer(q) \/ SkipTick(q)
        PROVE  AveragesCoherent'
    BY <2>1, TickAverages, EndPollAverages DEF Tick, ShowAnswer, SkipTick
  <2>2. ASSUME NEW r \in Reset, PressReset(r)
        PROVE  AveragesCoherent'
    BY <2>2, ResetAverages DEF PressReset
  <2>3. ASSUME NEW r \in Reset, ShowReset(r)
        PROVE  AveragesCoherent'
    <3>1. /\ counter' = counter /\ ppc' = ppc /\ disturbed' = disturbed
          /\ rpc' = [rpc EXCEPT ![r] = "done"]
      BY <2>3 DEF ShowReset, pollVars, ghosts
    <3>2. ResetsUnderWay' \subseteq ResetsUnderWay
      BY <3>1 DEF ResetsUnderWay, Counters, Coherent, TypeOK
    <3> QED
      BY <3>1, <3>2, AveragesFrame
  <2> QED
    BY <1>2, <2>1, <2>2, <2>3 DEF Page
<1>3. CASE Crash
  <2>1. /\ ppc' = [q \in Poll |-> IF ppc[q] \in {"idle", "answered"} THEN ppc[q]
                                  ELSE "failed"]
        /\ disturbed' = disturbed \union Polling
    BY <1>3 DEF Crash, RestartServer
  <2>2. Polling' \subseteq disturbed'
    BY <2>1 DEF Polling
  <2> QED
    BY <2>2, AveragesDisturbed
<1>4. CASE UNCHANGED vars
  <2>1. counter' = counter /\ ppc' = ppc /\ disturbed' = disturbed /\ rpc' = rpc
    BY <1>4 DEF vars, serverVars, pollVars, ghosts
  <2>2. ResetsUnderWay' = ResetsUnderWay
    BY <2>1 DEF ResetsUnderWay
  <2> QED
    BY <2>1, <2>2, AveragesFrame
<1> QED
  BY <1>1, <1>2, <1>3, <1>4 DEF Next

\* A poll that no reset overlaps never divides by zero, whatever events overlap it:
\* n is tested and divided by in one line but not in one step (dashboard.py:87).
THEOREM AveragesInvariance == Spec => []AveragesCoherent
<1>1. Init => AveragesCoherent
  BY DEF Init, ServerInit, AveragesCoherent, ResetsUnderWay, Counters
<1> QED
  BY <1>1, StepAverages, CoherentInvariance, PTL DEF Spec
-----------------------------------------------------------------------------
(***************************************************************************)
(* While no event overlaps the clearing of a reset.                        *)
(***************************************************************************)
\* Sets of events posted since the last reset are finite.
LEMMA SinceFinite ==
  ASSUME IsFiniteSet(since)
  PROVE  /\ IsFiniteSet(since \intersect Kept) /\ Cardinality(since \intersect Kept) \in Nat
         /\ \A type : /\ IsFiniteSet(Stored(type)) /\ Stored(type) \subseteq since
                      /\ Cardinality(Stored(type)) \in Nat
<1>1. IsFiniteSet(since \intersect Kept)
  BY FS_Subset
<1>2. \A type : Stored(type) \subseteq since
  BY DEF Stored
<1>3. \A type : IsFiniteSet(Stored(type))
  BY <1>2, FS_Subset
<1> QED
  BY <1>1, <1>2, <1>3, FS_CardinalityType

\* Initially nothing is counted or kept.
LEMMA InitSeparate == Init => Separate
<1> SUFFICES ASSUME Init PROVE Separate
  OBVIOUS
<1> USE DEF Init, ServerInit
<1>1. IsFiniteSet(since)
  BY FS_EmptySet
<1>2. Clearing = {} /\ PostsUnderWay = {}
  BY DEF Clearing, PostsUnderWay, Counters
<1>3. ResetsClear
  BY <1>2 DEF ResetsClear
<1>4. LoadsEarned
  BY DEF LoadsEarned
<1>5. EventsEarned
  <2>1. /\ Stored("ACCEPTED") = {} /\ Stored("REJECTED") = {}
        /\ since \intersect Kept = {}
    BY DEF Stored
  <2>2. Cardinality({}) = 0 /\ FeedMax \in Nat /\ ~ (0 > FeedMax)
    BY FS_EmptySet, ServerAssumption
  <2>3. counter["accepted"] = 0 /\ counter["rejected"] = 0 /\ Len(events) = 0
    BY DEF Counters
  <2>4. /\ Cardinality(Stored("ACCEPTED")) = 0 /\ Cardinality(Stored("REJECTED")) = 0
        /\ Cardinality(since \intersect Kept) = 0
    BY <2>1, <2>2
  <2>5. \A i \in DOMAIN events : events[i] \in since
    OBVIOUS
  <2> HIDE DEF Init, ServerInit
  <2> QED
    BY <2>2, <2>3, <2>4, <2>5 DEF EventsEarned
<1> QED
  BY <1>1, <1>3, <1>4, <1>5 DEF Separate

\* Steps that move no writer on.
LEMMA StillSeparate ==
  ASSUME Separate, events' = events, counter' = counter, event' = event, epc' = epc,
         loaded' = loaded, since' = since, Clearing' = Clearing,
         \A r \in Clearing : rpc'[r] = rpc[r]
  PROVE  Separate'
<1>1. /\ PostsUnderWay' = PostsUnderWay /\ Kept' = Kept
      /\ Stored("ACCEPTED")' = Stored("ACCEPTED") /\ Stored("REJECTED")' = Stored("REJECTED")
  BY DEF PostsUnderWay, Kept, Stored
<1>2. ResetsClear'
  BY <1>1 DEF Separate, ResetsClear
<1>3. LoadsEarned'
  BY <1>1 DEF Separate, LoadsEarned
<1>4. EventsEarned'
  BY <1>1 DEF Separate, EventsEarned
<1> QED
  BY <1>2, <1>3, <1>4 DEF Separate

\* A new event has stored nothing.
LEMMA BeginEventSeparate ==
  ASSUME Coherent, Separate, Clearing = {}, NEW p \in Event, BeginEvent(p)
  PROVE  Separate'
<1> USE DEF Separate
<1>1. /\ epc[p] = "idle" /\ since' = since \union {p}
      /\ events' = events /\ counter' = counter /\ loaded' = loaded /\ rpc' = rpc
      /\ epc' = [epc EXCEPT ![p] = IF event'[p].type = "ACCEPTED" THEN "accepted"
                                   ELSE "rejected"]
      /\ \A o \in Event \ {p} : event'[o] = event[o]
  BY DEF BeginEvent, Coherent, TypeOK
<1>2. epc'[p] \in {"accepted", "rejected"} /\ \A o \in Event \ {p} : epc'[o] = epc[o]
  BY <1>1 DEF Coherent, TypeOK
<1>3. since \subseteq Event
  BY DEF Coherent, TypeOK
<1>4. /\ Stored("ACCEPTED")' = Stored("ACCEPTED") /\ Stored("REJECTED")' = Stored("REJECTED")
      /\ since' \intersect Kept' = since \intersect Kept
      /\ PostsUnderWay' \subseteq PostsUnderWay \union {p}
      /\ Clearing' = {}
  <2>1. Stored("ACCEPTED")' = Stored("ACCEPTED")
    BY <1>1, <1>2, <1>3 DEF Stored
  <2>2. Stored("REJECTED")' = Stored("REJECTED")
    BY <1>1, <1>2, <1>3 DEF Stored
  <2>3. since' \intersect Kept' = since \intersect Kept
    BY <1>1, <1>2, <1>3 DEF Kept
  <2>4. PostsUnderWay' \subseteq PostsUnderWay \union {p} /\ Clearing' = {}
    BY <1>1, <1>2 DEF PostsUnderWay, Clearing
  <2> QED
    BY <2>1, <2>2, <2>3, <2>4
<1>5. IsFiniteSet(since')
  BY <1>1, FS_AddElement
<1>6. ResetsClear'
  BY <1>1, <1>4 DEF ResetsClear
<1>7. LoadsEarned'
  <2>1. loaded[p] = Absent
    BY <1>1 DEF Coherent, ThreadsCoherent, Counters
  <2> QED
    BY <1>1, <1>2, <1>4, <2>1 DEF LoadsEarned
<1>8. EventsEarned'
  BY <1>1, <1>4 DEF EventsEarned
<1> QED
  BY <1>5, <1>6, <1>7, <1>8

\* A thread of a POST under way writes while no reset clears, and its event is new.
LEMMA Writing ==
  ASSUME Separate, NEW p \in Event, epc[p] \notin {"idle", "done"}
  PROVE  p \in PostsUnderWay /\ p \in since /\ Clearing = {}
<1>1. p \in PostsUnderWay
  BY DEF PostsUnderWay
<1> QED
  BY <1>1 DEF Separate, ResetsClear

\* What a thread loads is what others have stored.
LEMMA LoadSeparate ==
  ASSUME Coherent, Separate, NEW p \in Event, Load(p)
  PROVE  Separate'
<1> USE DEF Separate
<1>1. /\ epc[p] \in Counters
      /\ loaded' = [loaded EXCEPT ![p] = counter[epc[p]]]
      /\ events' = events /\ counter' = counter /\ event' = event /\ epc' = epc
      /\ rpc' = rpc /\ since' = since
  BY DEF Load, ghosts
<1>2. /\ PostsUnderWay' = PostsUnderWay /\ Kept' = Kept /\ Clearing' = Clearing
      /\ Stored("ACCEPTED")' = Stored("ACCEPTED") /\ Stored("REJECTED")' = Stored("REJECTED")
  BY <1>1 DEF PostsUnderWay, Kept, Clearing, Stored
<1>3. Clearing = {}
  BY <1>1, Writing DEF Counters
<1>4. ResetsClear'
  BY <1>1, <1>2 DEF ResetsClear
<1>5. LoadsEarned'
  <2>1. /\ counter["accepted"] <= Cardinality(Stored("ACCEPTED"))
        /\ counter["rejected"] <= Cardinality(Stored("REJECTED"))
    BY <1>3 DEF EventsEarned
  <2>2. loaded'[p] = counter[epc[p]] /\ \A o \in Event \ {p} : loaded'[o] = loaded[o]
    BY <1>1 DEF Coherent, TypeOK
  <2> QED
    BY <1>1, <1>2, <2>1, <2>2 DEF LoadsEarned
<1>6. EventsEarned'
  BY <1>1, <1>2 DEF EventsEarned
<1> QED
  BY <1>1, <1>4, <1>5, <1>6

\* What a thread stores: its own event, and no more than others have stored before.
LEMMA StoreSeparate ==
  ASSUME Coherent, Separate, NEW p \in Event, Store(p)
  PROVE  Separate'
<1> USE DEF Separate
<1>1. /\ epc[p] \in Counters /\ loaded[p] # Absent
      /\ counter' = [counter EXCEPT ![epc[p]] = loaded[p] + Increment(event[p], epc[p])]
      /\ loaded' = [loaded EXCEPT ![p] = Absent]
      /\ epc' = [epc EXCEPT ![p] = After(event[p], epc[p])]
      /\ events' = events /\ event' = event /\ rpc' = rpc /\ since' = since
  BY DEF Store, ghosts
<1>2. p \in PostsUnderWay /\ p \in since /\ Clearing = {} /\ Clearing' = {}
  <2>1. p \in PostsUnderWay /\ p \in since /\ Clearing = {}
    BY <1>1, Writing DEF Counters
  <2> QED
    BY <1>1, <2>1 DEF Clearing
<1>3. /\ epc'[p] \in {"ms", "n", "append"} /\ \A o \in Event \ {p} : epc'[o] = epc[o]
      /\ loaded'[p] = Absent /\ \A o \in Event \ {p} : loaded'[o] = loaded[o]
  BY <1>1, AfterUpdate DEF Coherent, TypeOK
<1>4. since \subseteq Event
  BY DEF Coherent, TypeOK
<1>5. /\ PostsUnderWay' \subseteq PostsUnderWay
      /\ since' \intersect Kept' = since \intersect Kept
  BY <1>1, <1>3 DEF PostsUnderWay, Kept, Counters
<1>6. /\ Stored("ACCEPTED")' = IF epc[p] = "accepted" THEN Stored("ACCEPTED") \union {p}
                              ELSE Stored("ACCEPTED")
      /\ Stored("REJECTED")' = IF epc[p] = "rejected" THEN Stored("REJECTED") \union {p}
                              ELSE Stored("REJECTED")
  <2>1. /\ epc[p] \in {"accepted", "ms", "n"} => event[p].type = "ACCEPTED"
        /\ epc[p] = "rejected" => event[p].type = "REJECTED"
    BY DEF Coherent, ThreadsCoherent
  <2>2. epc[p] \in {"accepted", "rejected", "ms", "n"}
    BY <1>1 DEF Counters
  <2>3. \A o \in since \ {p} : epc'[o] = epc[o]
    BY <1>3, <1>4
  <2>4. Stored("ACCEPTED")' = IF epc[p] = "accepted" THEN Stored("ACCEPTED") \union {p}
                             ELSE Stored("ACCEPTED")
    BY <1>1, <1>2, <1>3, <2>1, <2>2, <2>3 DEF Stored
  <2>5. Stored("REJECTED")' = IF epc[p] = "rejected" THEN Stored("REJECTED") \union {p}
                             ELSE Stored("REJECTED")
    BY <1>1, <1>2, <1>3, <2>1, <2>2, <2>3 DEF Stored
  <2> QED
    BY <2>4, <2>5
<1>7. /\ epc[p] = "accepted" => p \notin Stored("ACCEPTED")
      /\ epc[p] = "rejected" => p \notin Stored("REJECTED")
  BY DEF Stored
<1>8. /\ IsFiniteSet(Stored("ACCEPTED")) /\ Cardinality(Stored("ACCEPTED")) \in Nat
      /\ IsFiniteSet(Stored("REJECTED")) /\ Cardinality(Stored("REJECTED")) \in Nat
  BY SinceFinite
<1>9. /\ Cardinality(Stored("ACCEPTED")') = IF epc[p] = "accepted"
                                           THEN Cardinality(Stored("ACCEPTED")) + 1
                                           ELSE Cardinality(Stored("ACCEPTED"))
      /\ Cardinality(Stored("REJECTED")') = IF epc[p] = "rejected"
                                           THEN Cardinality(Stored("REJECTED")) + 1
                                           ELSE Cardinality(Stored("REJECTED"))
  BY <1>6, <1>7, <1>8, FS_AddElement
<1>10. ResetsClear'
  BY <1>1, <1>2, <1>5 DEF ResetsClear
<1>11. LoadsEarned'
  <2> SUFFICES ASSUME NEW o \in Event, loaded'[o] # Absent
               PROVE  /\ epc'[o] = "accepted" =>
                           loaded'[o] <= Cardinality(Stored("ACCEPTED")')
                      /\ epc'[o] = "rejected" =>
                           loaded'[o] <= Cardinality(Stored("REJECTED")')
    BY DEF LoadsEarned
  <2>1. loaded'[o] = loaded[o] /\ epc'[o] = epc[o] /\ loaded[o] \in Nat
    BY <1>3 DEF Coherent, TypeOK
  <2> QED
    BY <1>8, <1>9, <2>1 DEF LoadsEarned
<1>12. EventsEarned'
  <2>1. /\ counter["accepted"] <= Cardinality(Stored("ACCEPTED"))
        /\ counter["rejected"] <= Cardinality(Stored("REJECTED"))
        /\ \A i \in DOMAIN events : events[i] \in since
        /\ Len(events) = IF Cardinality(since \intersect Kept) > FeedMax THEN FeedMax
                         ELSE Cardinality(since \intersect Kept)
    BY <1>2 DEF EventsEarned
  <2>2. /\ counter \in [Counters -> Nat] /\ "accepted" \in Counters /\ "rejected" \in Counters
        /\ loaded[p] \in Nat
    BY <1>1 DEF Coherent, TypeOK, Counters
  <2>3. epc[p] \in {"accepted", "rejected"} => Increment(event[p], epc[p]) = 1
    BY <1>1, AfterUpdate
  <2>4. counter'["accepted"] <= Cardinality(Stored("ACCEPTED")')
    <3>1. CASE epc[p] = "accepted"
      <4>1. counter'["accepted"] = loaded[p] + 1
        BY <1>1, <2>2, <2>3, <3>1
      <4>2. loaded[p] <= Cardinality(Stored("ACCEPTED"))
        BY <1>1, <3>1 DEF LoadsEarned
      <4> QED
        BY <1>8, <1>9, <2>2, <3>1, <4>1, <4>2
    <3>2. CASE epc[p] # "accepted"
      <4>1. counter'["accepted"] = counter["accepted"]
        BY <1>1, <2>2, <3>2
      <4> QED
        BY <1>9, <2>1, <3>2, <4>1
    <3> QED
      BY <3>1, <3>2
  <2>5. counter'["rejected"] <= Cardinality(Stored("REJECTED")')
    <3>1. CASE epc[p] = "rejected"
      <4>1. counter'["rejected"] = loaded[p] + 1
        BY <1>1, <2>2, <2>3, <3>1
      <4>2. loaded[p] <= Cardinality(Stored("REJECTED"))
        BY <1>1, <3>1 DEF LoadsEarned
      <4> QED
        BY <1>8, <1>9, <2>2, <3>1, <4>1, <4>2
    <3>2. CASE epc[p] # "rejected"
      <4>1. counter'["rejected"] = counter["rejected"]
        BY <1>1, <2>2, <3>2
      <4> QED
        BY <1>9, <2>1, <3>2, <4>1
    <3> QED
      BY <3>1, <3>2
  <2> QED
    BY <1>1, <1>5, <2>1, <2>4, <2>5 DEF EventsEarned
<1> QED
  BY <1>1, <1>10, <1>11, <1>12

\* An event that is appended was posted after the reset, and none but the oldest goes.
LEMMA AppendSeparate ==
  ASSUME Coherent, Separate, NEW p \in Event, AppendEvent(p)
  PROVE  Separate'
<1> USE DEF Separate
<1>1. /\ epc[p] = "append"
      /\ events' = LastOf(Append(events, p), FeedMax)
      /\ epc' = [epc EXCEPT ![p] = "done"]
      /\ counter' = counter /\ event' = event /\ loaded' = loaded
      /\ rpc' = rpc /\ since' = since
  BY DEF AppendEvent, ghosts
<1>2. p \in PostsUnderWay /\ p \in since /\ Clearing = {} /\ Clearing' = {}
  <2>1. p \in PostsUnderWay /\ p \in since /\ Clearing = {}
    BY <1>1, Writing
  <2> QED
    BY <1>1, <2>1 DEF Clearing
<1>3. epc'[p] = "done" /\ \A o \in Event \ {p} : epc'[o] = epc[o]
  BY <1>1 DEF Coherent, TypeOK
<1>4. since \subseteq Event
  BY DEF Coherent, TypeOK
<1>5. /\ PostsUnderWay' \subseteq PostsUnderWay
      /\ since' \intersect Kept' = (since \intersect Kept) \union {p}
      /\ p \notin since \intersect Kept
  BY <1>1, <1>2, <1>3 DEF PostsUnderWay, Kept
<1>6. Stored("ACCEPTED")' = Stored("ACCEPTED") /\ Stored("REJECTED")' = Stored("REJECTED")
  <2>1. \A o \in since : epc'[o] \in {"idle", "accepted", "rejected"}
                      <=> epc[o] \in {"idle", "accepted", "rejected"}
    BY <1>1, <1>3, <1>4
  <2> QED
    BY <1>1, <2>1 DEF Stored
<1>7. ResetsClear'
  BY <1>1, <1>2, <1>5 DEF ResetsClear
<1>8. LoadsEarned'
  <2>1. \A o \in Event : epc'[o] \in {"accepted", "rejected"} => epc'[o] = epc[o]
    BY <1>3
  <2> QED
    BY <1>1, <1>6, <2>1 DEF LoadsEarned
<1>9. EventsEarned'
  <2> DEFINE k == Cardinality(since \intersect Kept)
  <2>1. /\ counter["accepted"] <= Cardinality(Stored("ACCEPTED"))
        /\ counter["rejected"] <= Cardinality(Stored("REJECTED"))
        /\ \A i \in DOMAIN events : events[i] \in since
        /\ Len(events) = IF k > FeedMax THEN FeedMax ELSE k
    BY <1>2 DEF EventsEarned
  <2>2. k \in Nat /\ Cardinality(since' \intersect Kept') = k + 1
    <3>1. IsFiniteSet(since \intersect Kept) /\ k \in Nat
      BY SinceFinite
    <3> QED
      BY <1>5, <3>1, FS_AddElement
  <2> HIDE DEF k
  <2>3. \A i \in DOMAIN events' : events'[i] \in since
    BY <1>1, <1>2, <2>1, FeedAfterAppend DEF Coherent
  <2>4. Len(events') = IF k + 1 > FeedMax THEN FeedMax ELSE k + 1
    <3>1. events \in Seq(Event) /\ FeedMax \in Nat
      BY ServerAssumption DEF Coherent, TypeOK
    <3>2. Append(events, p) \in Seq(Event) /\ Len(Append(events, p)) = Len(events) + 1
      BY <3>1, AppendProperties
    <3>3. Len(events') = IF Len(events) + 1 > FeedMax THEN FeedMax ELSE Len(events) + 1
      BY <1>1, <3>1, <3>2, LastOfProperties
    <3> QED
      BY <2>1, <2>2, <3>1, <3>3
  <2> QED
    BY <1>1, <1>6, <2>1, <2>2, <2>3, <2>4 DEF EventsEarned
<1> QED
  BY <1>1, <1>7, <1>8, <1>9

\* A reset clears while no event is under way: whatever was counted is forgotten.
LEMMA ClearSeparate ==
  ASSUME Coherent, PostsUnderWay = {}, NEW r \in Reset, ClearEvents(r)
  PROVE  Separate'
<1>1. /\ rpc' = [rpc EXCEPT ![r] = "accepted"]
      /\ events' = <<>> /\ since' = {} /\ counter' = counter
      /\ epc' = epc /\ loaded' = loaded
  BY DEF ClearEvents, eventVars
<1>2. rpc'[r] = "accepted" /\ r \in Clearing' /\ PostsUnderWay' = {}
  BY <1>1 DEF Coherent, TypeOK, Clearing, Counters, PostsUnderWay
<1>3. IsFiniteSet(since')
  BY <1>1, FS_EmptySet
<1>4. ResetsClear'
  <2>1. Cleared(rpc'[r]) = {}
    BY <1>2 DEF Cleared
  <2>2. \E s \in Clearing' : \A c \in Cleared(rpc'[s]) : counter'[c] = 0
    BY <1>2, <2>1
  <2> QED
    BY <1>1, <1>2, <2>2 DEF ResetsClear
<1>5. LoadsEarned'
  <2>1. \A p \in Event : loaded[p] = Absent
    BY DEF Coherent, ThreadsCoherent, PostsUnderWay, Counters
  <2> QED
    BY <1>1, <2>1 DEF LoadsEarned
<1>6. EventsEarned'
  BY <1>2 DEF EventsEarned
<1> QED
  BY <1>3, <1>4, <1>5, <1>6 DEF Separate

\* The counters are cleared one after the other, the last one last.
LEMMA ClearedNext ==
  ASSUME NEW c \in Counters
  PROVE  /\ AfterReset(c) \in Counters => Cleared(AfterReset(c)) = Cleared(c) \union {c}
         /\ AfterReset(c) \notin Counters => Counters = Cleared(c) \union {c}
         /\ AfterReset(c) \in {"rejected", "ms", "n", "answered"}
<1>1. CASE c = "accepted"
  BY <1>1 DEF AfterReset, Cleared, Counters
<1>2. CASE c = "rejected"
  BY <1>2 DEF AfterReset, Cleared, Counters
<1>3. CASE c = "ms"
  BY <1>3 DEF AfterReset, Cleared, Counters
<1>4. CASE c = "n"
  BY <1>4 DEF AfterReset, Cleared, Counters
<1> QED
  BY <1>1, <1>2, <1>3, <1>4 DEF Counters

\* Nothing was posted since the reset, and all is zero: nothing is counted or kept.
LEMMA NothingSinceNext ==
  ASSUME since' = {}, events' = <<>>, \A c \in Counters : counter'[c] = 0
  PROVE  EventsEarned'
<1>1. /\ Stored("ACCEPTED")' = {} /\ Stored("REJECTED")' = {}
      /\ since' \intersect Kept' = {}
  BY DEF Stored
<1>2. Cardinality({}) = 0 /\ FeedMax \in Nat /\ ~ (0 > FeedMax)
  BY FS_EmptySet, ServerAssumption
<1>3. /\ Cardinality(Stored("ACCEPTED")') = 0 /\ Cardinality(Stored("REJECTED")') = 0
      /\ Cardinality(since' \intersect Kept') = 0
  BY <1>1, <1>2
<1>4. /\ counter'["accepted"] = 0 /\ counter'["rejected"] = 0 /\ Len(events') = 0
      /\ \A i \in DOMAIN events' : events'[i] \in since'
  BY DEF Counters
<1> QED
  BY <1>2, <1>3, <1>4 DEF EventsEarned

\* One counter after the other starts from zero, whichever of several resets clears it.
LEMMA ZeroSeparate ==
  ASSUME Coherent, Separate, NEW r \in Reset, ZeroCounter(r)
  PROVE  Separate'
<1> USE DEF Separate
<1>1. /\ rpc[r] \in Counters
      /\ counter' = [counter EXCEPT ![rpc[r]] = 0]
      /\ rpc' = [rpc EXCEPT ![r] = AfterReset(rpc[r])]
      /\ events' = events /\ since' = since
      /\ event' = event /\ epc' = epc /\ loaded' = loaded
  BY DEF ZeroCounter, eventVars, ghosts
<1>2. /\ rpc'[r] = AfterReset(rpc[r]) /\ \A s \in Reset \ {r} : rpc'[s] = rpc[s]
      /\ counter'[rpc[r]] = 0 /\ \A c \in Counters \ {rpc[r]} : counter'[c] = counter[c]
  BY <1>1 DEF Coherent, TypeOK
<1>3. /\ r \in Clearing /\ PostsUnderWay = {} /\ since = {} /\ events = <<>>
      /\ PostsUnderWay' = {}
  <2>1. r \in Clearing
    BY <1>1 DEF Clearing
  <2>2. PostsUnderWay = {} /\ since = {} /\ events = <<>>
    BY <2>1 DEF ResetsClear
  <2> QED
    BY <1>1, <2>1, <2>2 DEF PostsUnderWay
<1>4. \/ \A c \in Counters : counter'[c] = 0
      \/ \E s \in Clearing' : \A c \in Cleared(rpc'[s]) : counter'[c] = 0
  <2>1. CASE \A c \in Counters : counter[c] = 0
    BY <1>2, <2>1
  <2>2. ASSUME NEW s \in Clearing, \A c \in Cleared(rpc[s]) : counter[c] = 0
        PROVE  \/ \A c \in Counters : counter'[c] = 0
               \/ \E u \in Clearing' : \A c \in Cleared(rpc'[u]) : counter'[c] = 0
    <3>1. Cleared(rpc[s]) \subseteq Counters
      BY DEF Cleared, Counters
    <3>2. \A c \in Cleared(rpc[s]) : counter'[c] = 0
      BY <1>2, <2>2, <3>1
    <3>3. CASE s # r
      <4>1. s \in Clearing' /\ rpc'[s] = rpc[s]
        BY <1>2, <3>3 DEF Clearing
      <4> QED
        BY <3>2, <4>1
    <3>4. CASE s = r
      <4>1. \A c \in Cleared(rpc[r]) \union {rpc[r]} : counter'[c] = 0
        BY <1>2, <3>2, <3>4
      <4>2. CASE AfterReset(rpc[r]) \in Counters
        <5>1. r \in Clearing' /\ Cleared(rpc'[r]) = Cleared(rpc[r]) \union {rpc[r]}
          BY <1>1, <1>2, <4>2, ClearedNext DEF Clearing
        <5> QED
          BY <4>1, <5>1
      <4>3. CASE AfterReset(rpc[r]) \notin Counters
        BY <1>1, <4>1, <4>3, ClearedNext
      <4> QED
        BY <4>2, <4>3
    <3> QED
      BY <3>3, <3>4
  <2> QED
    BY <1>3, <2>1, <2>2 DEF ResetsClear
<1>5. ResetsClear'
  BY <1>1, <1>3, <1>4 DEF ResetsClear
<1>6. LoadsEarned'
  <2>1. \A o \in Event : loaded[o] = Absent
    BY <1>3 DEF Coherent, ThreadsCoherent, PostsUnderWay, Counters
  <2> QED
    BY <1>1, <2>1 DEF LoadsEarned
<1>7. EventsEarned'
  <2>1. CASE Clearing' = {}
    <3>1. since' = {} /\ events' = <<>> /\ \A c \in Counters : counter'[c] = 0
      BY <1>1, <1>3, <1>4, <2>1
    <3> QED
      BY <3>1, NothingSinceNext
  <2>2. CASE Clearing' # {}
    BY <2>2 DEF EventsEarned
  <2> QED
    BY <2>1, <2>2
<1> QED
  BY <1>1, <1>5, <1>6, <1>7

\* A restart starts from zero.
LEMMA CrashSeparate ==
  ASSUME Crash
  PROVE  Separate'
<1>1. /\ events' = <<>> /\ counter' = [c \in Counters |-> 0]
      /\ epc' = [p \in Event |-> IF p \in PostsUnderWay THEN "done" ELSE epc[p]]
      /\ loaded' = [p \in Event |-> Absent]
      /\ rpc' = [r \in Reset |-> IF r \in ResetsUnderWay THEN "failed" ELSE rpc[r]]
      /\ since' = {}
  BY DEF Crash, RestartServer
<1>2. PostsUnderWay' = {} /\ Clearing' = {}
  BY <1>1 DEF PostsUnderWay, Clearing, ResetsUnderWay, Counters
<1>3. IsFiniteSet(since')
  BY <1>1, FS_EmptySet
<1>4. \A c \in Counters : counter'[c] = 0
  BY <1>1
<1>5. ResetsClear'
  BY <1>1, <1>2, <1>4 DEF ResetsClear
<1>6. LoadsEarned'
  BY <1>1 DEF LoadsEarned
<1>7. EventsEarned'
  BY <1>1, <1>4, NothingSinceNext
<1> QED
  BY <1>3, <1>5, <1>6, <1>7 DEF Separate

\* Steps that change nothing.
LEMMA StillGhosts == UNCHANGED vars => (apart' <=> apart) /\ (exact' <=> exact)
<1> SUFFICES ASSUME UNCHANGED vars PROVE (apart' <=> apart) /\ (exact' <=> exact)
  OBVIOUS
<1>1. UNCHANGED ghosts
  BY DEF vars, serverVars
<1>2. apart' = apart /\ exact' = exact
  BY <1>1 DEF ghosts
<1> QED
  BY <1>2

\* Every step preserves Separate as long as no event overlaps the clearing of a reset.
LEMMA StepSeparate == Coherent /\ SeparateWhileApart /\ [Next]_vars => SeparateWhileApart'
<1> SUFFICES ASSUME Coherent, SeparateWhileApart, [Next]_vars, apart' PROVE Separate'
  BY DEF SeparateWhileApart
<1>1. ASSUME NEW p \in Event, BeginEvent(p)
      PROVE  Separate'
  <2>1. apart /\ Clearing = {}
    BY <1>1 DEF BeginEvent
  <2> QED
    BY <1>1, <2>1, BeginEventSeparate DEF SeparateWhileApart
<1>2. ASSUME NEW p \in Event, EventStep(p)
      PROVE  Separate'
  <2>1. apart' = apart
    BY <1>2 DEF EventStep, Load, Store, AppendEvent, ghosts
  <2> QED
    BY <1>2, <2>1, LoadSeparate, StoreSeparate, AppendSeparate
    DEF EventStep, SeparateWhileApart
<1>3. ASSUME NEW q \in Poll, PollStep(q) \/ Tick(q) \/ ShowAnswer(q) \/ SkipTick(q)
      PROVE  Separate'
  <2>1. /\ events' = events /\ counter' = counter /\ event' = event /\ epc' = epc
        /\ loaded' = loaded /\ since' = since /\ rpc' = rpc /\ apart' = apart
    BY <1>3 DEF PollStep, Tick, BeginPoll, ShowAnswer, SkipTick, EndPoll, eventVars, ghosts
  <2>2. Clearing' = Clearing
    BY <2>1 DEF Clearing
  <2> QED
    BY <2>1, <2>2, StillSeparate DEF SeparateWhileApart
<1>4. ASSUME NEW r \in Reset, PressReset(r) \/ ShowReset(r)
      PROVE  Separate'
  <2>1. /\ events' = events /\ counter' = counter /\ event' = event /\ epc' = epc
        /\ loaded' = loaded /\ since' = since /\ apart' = apart
    BY <1>4 DEF PressReset, BeginReset, ShowReset, eventVars, ghosts
  <2>2. /\ rpc[r] \notin Counters /\ rpc'[r] \notin Counters
        /\ \A s \in Reset \ {r} : rpc'[s] = rpc[s]
    BY <1>4 DEF PressReset, BeginReset, ShowReset, Counters, Coherent, TypeOK
  <2>3. Clearing' = Clearing /\ \A s \in Clearing : rpc'[s] = rpc[s]
    BY <2>2 DEF Clearing
  <2> QED
    BY <2>1, <2>3, StillSeparate DEF SeparateWhileApart
<1>5. ASSUME NEW r \in Reset, ClearEvents(r)
      PROVE  Separate'
  <2>1. PostsUnderWay = {}
    BY <1>5 DEF ClearEvents
  <2> QED
    BY <1>5, <2>1, ClearSeparate
<1>6. ASSUME NEW r \in Reset, ZeroCounter(r)
      PROVE  Separate'
  <2>1. apart' = apart
    BY <1>6 DEF ZeroCounter, ghosts
  <2> QED
    BY <1>6, <2>1, ZeroSeparate DEF SeparateWhileApart
<1>7. CASE UNCHANGED vars
  <2>1. /\ events' = events /\ counter' = counter /\ event' = event /\ epc' = epc
        /\ loaded' = loaded /\ since' = since /\ rpc' = rpc
    BY <1>7 DEF vars, serverVars, eventVars, ghosts
  <2>2. apart
    BY <1>7, StillGhosts
  <2>3. Clearing' = Clearing
    BY <2>1 DEF Clearing
  <2> QED
    BY <2>1, <2>2, <2>3, StillSeparate DEF SeparateWhileApart
<1> QED
  BY <1>1, <1>2, <1>3, <1>4, <1>5, <1>6, <1>7, CrashSeparate
  DEF Next, Server, Page, ResetStep

\* As long as no event overlaps the clearing of a reset, loads, counters and feed are
\* earned by the events posted since the last one.
THEOREM SeparateInvariance == Spec => []SeparateWhileApart
<1>1. Init => SeparateWhileApart
  BY InitSeparate DEF SeparateWhileApart
<1> QED
  BY <1>1, StepSeparate, CoherentInvariance, PTL DEF Spec

\* Events that overlap lose counts but invent none, and the feed loses no event and
\* keeps none from before a reset (dashboard.py:59-69, 98-106).
THEOREM NothingInventedHolds == Spec => []NothingInvented
<1>1. SeparateWhileApart => NothingInvented
  BY DEF SeparateWhileApart, Separate, NothingInvented
<1> QED
  BY <1>1, SeparateInvariance, PTL

\* A reset that clears while no event is under way gives a start from zero, however
\* events have overlapped each other before and resets each other (dashboard.py:98-106).
THEOREM ResetHolds == Spec => []ResetStartsFromZero
<1>1. ASSUME Coherent, SeparateWhileApart PROVE ResetStartsFromZero
  <2> SUFFICES ASSUME apart, ResetsUnderWay = {}, since = {}
               PROVE  events = <<>> /\ counter = [c \in Counters |-> 0]
    BY DEF ResetStartsFromZero, DemoStartsFromZero
  <2>1. Clearing = {}
    BY DEF Clearing, ResetsUnderWay
  <2>2. events = <<>> /\ \A c \in Counters : counter[c] = 0
    BY <1>1, <2>1 DEF SeparateWhileApart, Separate, ResetsClear
  <2>3. counter \in [Counters -> Nat]
    BY <1>1 DEF Coherent, TypeOK
  <2> QED
    BY <2>2, <2>3
<1>2. Coherent /\ SeparateWhileApart => ResetStartsFromZero
  BY <1>1
<1> QED
  BY <1>2, CoherentInvariance, SeparateInvariance, PTL
-----------------------------------------------------------------------------
(***************************************************************************)
(* Counting the events of a type.                                          *)
(***************************************************************************)

Tally(e, s, type) == Cardinality({i \in DOMAIN s : e[s[i]].type = type})

\* Sets of indices are finite.
LEMMA IndicesFinite ==
  ASSUME NEW n \in Nat, NEW A \in SUBSET (1 .. n)
  PROVE  IsFiniteSet(A)
<1>1. IsFiniteSet(1 .. n)
  BY FS_Interval
<1> QED
  BY <1>1, FS_Subset

\* A tally is a natural number.
LEMMA TallyType ==
  ASSUME NEW e, NEW S, NEW s \in Seq(S), NEW type
  PROVE  /\ IsFiniteSet({i \in DOMAIN s : e[s[i]].type = type})
         /\ Tally(e, s, type) \in Nat
<1>1. Len(s) \in Nat /\ DOMAIN s = 1 .. Len(s)
  OBVIOUS
<1>2. IsFiniteSet(DOMAIN s)
  BY <1>1, FS_Interval
<1>3. IsFiniteSet({i \in DOMAIN s : e[s[i]].type = type})
  BY <1>2, FS_Subset
<1> QED
  BY <1>3, FS_CardinalityType DEF Tally

\* Nothing is counted in the empty feed.
LEMMA TallyEmpty ==
  ASSUME NEW e, NEW type
  PROVE  Tally(e, <<>>, type) = 0
<1>1. {i \in DOMAIN <<>> : e[<<>>[i]].type = type} = {}
  OBVIOUS
<1> QED
  BY <1>1, FS_EmptySet DEF Tally

\* A tally depends on the events of the feed only.
LEMMA TallySame ==
  ASSUME NEW e, NEW f, NEW s, NEW type, \A i \in DOMAIN s : e[s[i]] = f[s[i]]
  PROVE  Tally(e, s, type) = Tally(f, s, type)
<1>1. {i \in DOMAIN s : e[s[i]].type = type} = {i \in DOMAIN s : f[s[i]].type = type}
  OBVIOUS
<1> QED
  BY <1>1 DEF Tally

\* One more event counts for its own type only.
LEMMA TallyAppend ==
  ASSUME NEW e, NEW S, NEW s \in Seq(S), NEW x \in S, NEW type
  PROVE  Tally(e, Append(s, x), type) =
           IF e[x].type = type THEN Tally(e, s, type) + 1 ELSE Tally(e, s, type)
<1> DEFINE w == Append(s, x)
           A == {i \in DOMAIN s : e[s[i]].type = type}
           B == {i \in DOMAIN w : e[w[i]].type = type}
<1>1. /\ w \in Seq(S) /\ Len(w) = Len(s) + 1 /\ Len(s) \in Nat
      /\ \A i \in 1 .. Len(s) : w[i] = s[i]
      /\ w[Len(s) + 1] = x
  BY AppendProperties
<1>2. Tally(e, Append(s, x), type) = Cardinality(B) /\ Tally(e, s, type) = Cardinality(A)
  BY DEF Tally
<1> HIDE DEF w
<1>3. DOMAIN w = 1 .. Len(s) + 1 /\ DOMAIN s = 1 .. Len(s)
  BY <1>1
<1>4. IsFiniteSet(A) /\ Len(s) + 1 \notin A
  <2>1. A \subseteq 1 .. Len(s)
    BY <1>3
  <2> HIDE DEF A
  <2>2. IsFiniteSet(A)
    BY <1>1, <2>1, IndicesFinite
  <2> QED
    BY <1>1, <2>1, <2>2
<1>5. CASE e[x].type = type
  <2>1. B = A \union {Len(s) + 1}
    BY <1>1, <1>3, <1>5
  <2>2. Cardinality(A \union {Len(s) + 1}) = Cardinality(A) + 1
    BY <1>4, FS_AddElement
  <2> QED
    BY <1>2, <1>5, <2>1, <2>2
<1>6. CASE e[x].type # type
  <2>1. B = A
    BY <1>1, <1>3, <1>6
  <2> QED
    BY <1>2, <1>6, <2>1
<1> QED
  BY <1>5, <1>6

\* The last events are no more of a type than all events.
LEMMA TallyLastOf ==
  ASSUME NEW e, NEW S, NEW s \in Seq(S), NEW max \in Nat, NEW type
  PROVE  Tally(e, LastOf(s, max), type) <= Tally(e, s, type)
<1> DEFINE t == LastOf(s, max)
           n == Len(s) - Len(t)
           A == {i \in DOMAIN s : e[s[i]].type = type}
           B == {i \in DOMAIN t : e[t[i]].type = type}
           g == [i \in B |-> n + i]
<1>1. /\ t \in Seq(S) /\ Len(t) \in Nat /\ Len(s) \in Nat
      /\ \A i \in 1 .. Len(t) : n + i \in 1 .. Len(s) /\ t[i] = s[n + i]
  BY LastOfProperties
<1>2. Tally(e, LastOf(s, max), type) = Cardinality(B) /\ Tally(e, s, type) = Cardinality(A)
  BY DEF Tally
<1>3. IsFiniteSet(A)
  <2>1. Len(s) \in Nat /\ A \subseteq 1 .. Len(s)
    OBVIOUS
  <2> HIDE DEF A
  <2> QED
    BY <2>1, IndicesFinite
<1> HIDE DEF t
<1>4. n \in Int /\ DOMAIN t = 1 .. Len(t) /\ DOMAIN s = 1 .. Len(s)
  BY <1>1
<1> HIDE DEF n
<1>5. \A i \in B : n + i \in A
  BY <1>1, <1>4
<1>6. \A i, j \in B : n + i = n + j => i = j
  BY <1>4
<1>7. g \in Injection(B, A)
  <2>1. g \in [B -> A]
    BY <1>5
  <2>2. \A i, j \in B : g[i] = g[j] => i = j
    BY <1>6
  <2> HIDE DEF g
  <2> QED
    BY <2>1, <2>2 DEF Injection, IsInjective
<1>8. Cardinality(B) <= Cardinality(A)
  BY <1>3, <1>7, FS_Injection
<1> QED
  BY <1>2, <1>8

\* How the definitions of the invariant count.
LEMMA CountTally ==
  /\ \A s, type : Count(s, type) = Tally(event, s, type)
  /\ \A type : /\ Count(events, type)' = Tally(event', events', type)
               /\ \A q \in Poll :
                    Count(answer[q].recent, type)' = Tally(event', answer'[q].recent, type)
BY DEF Count, Tally
-----------------------------------------------------------------------------
(***************************************************************************)
(* While no event overlaps anything that writes.                           *)
(***************************************************************************)
\* Counts are natural numbers.
LEMMA CountNat ==
  ASSUME TypeOK, NEW type
  PROVE  /\ Count(events, type) \in Nat
         /\ \A q \in Poll : Count(answer[q].recent, type) \in Nat
         /\ CountOf(type) \in Nat
<1>1. events \in Seq(Event) /\ \A q \in Poll : answer[q].recent \in Seq(Event)
  BY DEF TypeOK, Answers
<1>2. Tally(event, events, type) \in Nat
  BY <1>1, TallyType
<1>3. \A q \in Poll : Tally(event, answer[q].recent, type) \in Nat
  BY <1>1, TallyType
<1>4. CountOf(type) \in Nat
  BY DEF CountOf, TypeOK, Counters
<1> QED
  BY <1>2, <1>3, <1>4, CountTally

\* The types of the events in the feed and in the answers do not change.
LEMMA FeedCountSame ==
  ASSUME FeedCoherent, NEW type, \A p \in Kept : event'[p] = event[p], events' = events
  PROVE  Count(events, type)' = Count(events, type)
<1>1. \A i \in DOMAIN events : event'[events[i]] = event[events[i]]
  BY DEF FeedCoherent
<1>2. Tally(event', events, type) = Tally(event, events, type)
  BY <1>1, TallySame
<1> QED
  BY <1>2, CountTally

\* Neither does the tally of an answer change while its events stay what they are.
LEMMA AnswerCountSame ==
  ASSUME FeedCoherent, NEW type, \A p \in Kept : event'[p] = event[p],
         NEW q \in Poll, answer'[q] = answer[q]
  PROVE  Count(answer[q].recent, type)' = Count(answer[q].recent, type)
<1>1. \A i \in DOMAIN answer[q].recent :
        event'[answer[q].recent[i]] = event[answer[q].recent[i]]
  BY DEF FeedCoherent
<1>2. Tally(event', answer[q].recent, type) = Tally(event, answer[q].recent, type)
  BY <1>1, TallySame
<1>3. Count(answer[q].recent, type)' = Tally(event', answer'[q].recent, type)
  BY CountTally
<1> QED
  BY <1>2, <1>3, CountTally

\* Steps in which no poll moves and no counter falls.
LEMMA ReadsFrame ==
  ASSUME Coherent, Coherent', ReadsCounted, AnswersCounted,
         ppc' = ppc, answer' = answer, disturbed' = disturbed,
         \A p \in Kept : event'[p] = event[p],
         \A c \in Counters : counter[c] <= counter'[c]
  PROVE  ReadsCounted' /\ AnswersCounted'
<1>1. \A c \in Counters : counter[c] \in Nat /\ counter'[c] \in Nat
  BY DEF Coherent, TypeOK
<1>2. /\ Totals[1] \in Nat /\ Totals[1]' \in Nat /\ Totals[1] <= Totals[1]'
      /\ Totals[2] \in Nat /\ Totals[2]' \in Nat /\ Totals[2] <= Totals[2]'
  BY DEF Totals, Counters, Coherent, TypeOK
<1>3. ASSUME NEW q \in Poll, NEW type
      PROVE  /\ Count(answer[q].recent, type)' = Count(answer[q].recent, type)
             /\ Count(answer[q].recent, type) \in Nat
  BY AnswerCountSame, CountNat DEF Coherent
<1>4. ReadsCounted'
  <2>1. ASSUME NEW q \in Poll \ disturbed, ppc[q] \in {"n", "divide", "totals"},
               NEW type \in {"ACCEPTED", "REJECTED"}
        PROVE  Count(answer[q].recent, type)' <= CountOf(type)'
    <3>1. Count(answer[q].recent, type) <= CountOf(type)
      BY <2>1 DEF ReadsCounted
    <3>2. /\ CountOf(type) <= CountOf(type)'
          /\ CountOf(type) \in Nat /\ CountOf(type)' \in Nat
      BY <1>1 DEF CountOf, Counters
    <3>3. /\ Count(answer[q].recent, type)' = Count(answer[q].recent, type)
          /\ Count(answer[q].recent, type) \in Nat
      BY <1>3
    <3> QED
      BY <3>1, <3>2, <3>3
  <2> QED
    BY <2>1 DEF ReadsCounted
<1>5. AnswersCounted'
  <2>1. ASSUME NEW q \in Poll \ disturbed, ppc[q] = "answered"
        PROVE  /\ Count(answer[q].recent, "ACCEPTED")' <= answer[q].totals[1]
               /\ answer[q].totals[1] <= Totals[1]'
               /\ Count(answer[q].recent, "REJECTED")' <= answer[q].totals[2]
               /\ answer[q].totals[2] <= Totals[2]'
    <3>1. /\ Count(answer[q].recent, "ACCEPTED") <= answer[q].totals[1]
          /\ answer[q].totals[1] <= Totals[1]
          /\ Count(answer[q].recent, "REJECTED") <= answer[q].totals[2]
          /\ answer[q].totals[2] <= Totals[2]
      BY <2>1 DEF AnswersCounted
    <3>2. answer[q].totals[1] \in Nat /\ answer[q].totals[2] \in Nat
      BY DEF Coherent, TypeOK, Answers
    <3>3. /\ Count(answer[q].recent, "ACCEPTED")' = Count(answer[q].recent, "ACCEPTED")
          /\ Count(answer[q].recent, "REJECTED")' = Count(answer[q].recent, "REJECTED")
      BY <1>3
    <3> QED
      BY <1>2, <3>1, <3>2, <3>3
  <2> QED
    BY <2>1 DEF AnswersCounted
<1> QED
  BY <1>4, <1>5

\* Steps after which every poll under way is disturbed.
LEMMA ReadsDisturbed ==
  ASSUME Polling' \subseteq disturbed'
  PROVE  ReadsCounted' /\ AnswersCounted'
<1>1. \A q \in Poll \ disturbed' : ppc'[q] = "idle"
  BY DEF Polling
<1> QED
  BY <1>1 DEF ReadsCounted, AnswersCounted

\* A thread of a POST under way is the only one.
LEMMA Alone ==
  ASSUME OneEvent, NEW p \in Event, epc[p] \notin {"idle", "done"}
  PROVE  /\ PostsUnderWay = {p}
         /\ \A o \in Event \ {p} : epc[o] \in {"idle", "done"}
         /\ Counted = IF epc[p] \in {"ms", "n", "append"} THEN {p} ELSE {}
<1>1. PostsUnderWay = {p}
  BY DEF OneEvent, PostsUnderWay
<1>2. \A o \in Event \ {p} : epc[o] \in {"idle", "done"}
  BY <1>1 DEF PostsUnderWay
<1>3. Counted = IF epc[p] \in {"ms", "n", "append"} THEN {p} ELSE {}
  BY <1>2 DEF Counted
<1> QED
  BY <1>1, <1>2, <1>3

\* Initially nothing is under way and nothing is counted.
LEMMA InitSerial == Init => Serial
<1> SUFFICES ASSUME Init PROVE Serial
  OBVIOUS
<1> USE DEF Init, ServerInit, PageInit
<1>1. Coherent
  BY InitCoherent
<1>2. OneEvent /\ LoadsCurrent
  BY DEF OneEvent, LoadsCurrent, PostsUnderWay
<1>3. EventsCounted
  <2>1. \A type : Count(events, type) = 0
    BY TallyEmpty, CountTally
  <2>2. \A type : CountOf(type) \in Nat
    BY <1>1, CountNat DEF Coherent
  <2>3. Counted = {}
    BY DEF Counted
  <2> QED
    BY <2>1, <2>2, <2>3 DEF EventsCounted
<1>4. ReadsCounted /\ AnswersCounted
  BY DEF ReadsCounted, AnswersCounted
<1> QED
  BY <1>2, <1>3, <1>4 DEF Serial

\* Steps that move no thread of an event on.
LEMMA StillSerial ==
  ASSUME Serial, epc' = epc, loaded' = loaded, counter' = counter, events' = events,
         event' = event
  PROVE  OneEvent' /\ LoadsCurrent' /\ EventsCounted'
<1> USE DEF Serial
<1>1. PostsUnderWay' = PostsUnderWay /\ Counted' = Counted
  BY DEF PostsUnderWay, Counted
<1>2. OneEvent' /\ LoadsCurrent'
  BY <1>1 DEF OneEvent, LoadsCurrent
<1>3. EventsCounted'
  BY <1>1 DEF EventsCounted, Count, CountOf
<1> QED
  BY <1>2, <1>3

\* A POST that begins while no other one is under way.
LEMMA BeginEventSerial ==
  ASSUME Coherent, Coherent', Serial, PostsUnderWay = {}, NEW p \in Event, BeginEvent(p)
  PROVE  Serial'
<1> USE DEF Serial
<1>1. /\ epc[p] = "idle"
      /\ epc' = [epc EXCEPT ![p] = IF event'[p].type = "ACCEPTED" THEN "accepted"
                                   ELSE "rejected"]
  BY DEF BeginEvent
<1>2. /\ events' = events /\ counter' = counter /\ loaded' = loaded /\ ppc' = ppc
      /\ answer' = answer /\ disturbed' = disturbed
      /\ \A o \in Event \ {p} : event'[o] = event[o]
  BY DEF BeginEvent, pollVars, Coherent, TypeOK
<1>3. /\ epc'[p] \in {"accepted", "rejected"}
      /\ \A o \in Event \ {p} : epc'[o] = epc[o] /\ epc[o] \in {"idle", "done"}
  BY <1>1 DEF PostsUnderWay, Coherent, TypeOK
<1>4. PostsUnderWay' = {p} /\ Counted' = {}
  BY <1>3 DEF PostsUnderWay, Counted
<1>5. \A o \in Kept : event'[o] = event[o]
  BY <1>1, <1>2 DEF Kept
<1>6. OneEvent'
  BY <1>4 DEF OneEvent
<1>7. LoadsCurrent'
  <2>1. \A o \in Event : loaded[o] = Absent
    BY <1>1, <1>3 DEF Coherent, ThreadsCoherent, Counters
  <2> QED
    BY <1>2, <2>1 DEF LoadsCurrent
<1>8. EventsCounted'
  <2>1. ASSUME NEW type \in {"ACCEPTED", "REJECTED"}
        PROVE  Count(events, type)' <= CountOf(type)'
    <3>1. Count(events, type)' = Count(events, type)
      BY <1>2, <1>5, FeedCountSame DEF Coherent
    <3>2. CountOf(type)' = CountOf(type)
      BY <1>2 DEF CountOf
    <3> QED
      BY <3>1, <3>2 DEF EventsCounted
  <2> QED
    BY <1>4, <2>1 DEF EventsCounted
<1>9. ReadsCounted' /\ AnswersCounted'
  <2>1. \A c \in Counters : counter[c] <= counter'[c]
    BY <1>2 DEF Coherent, TypeOK
  <2> QED
    BY <1>2, <1>5, <2>1, ReadsFrame
<1> QED
  BY <1>6, <1>7, <1>8, <1>9

\* What is loaded is the count, and nobody else changes it.
LEMMA LoadSerial ==
  ASSUME Coherent, Coherent', Serial, NEW p \in Event, Load(p)
  PROVE  Serial'
<1> USE DEF Serial
<1>1. /\ loaded' = [loaded EXCEPT ![p] = counter[epc[p]]]
      /\ events' = events /\ counter' = counter /\ event' = event
      /\ epc' = epc /\ ppc' = ppc /\ answer' = answer /\ disturbed' = disturbed
  BY DEF Load, pollVars, ghosts
<1>2. PostsUnderWay' = PostsUnderWay /\ Counted' = Counted
  BY <1>1 DEF PostsUnderWay, Counted
<1>3. OneEvent'
  BY <1>2 DEF OneEvent
<1>4. LoadsCurrent'
  BY <1>1 DEF LoadsCurrent, Coherent, TypeOK
<1>5. EventsCounted'
  BY <1>1, <1>2 DEF EventsCounted, Count, CountOf
<1>6. ReadsCounted' /\ AnswersCounted'
  <2>1. \A c \in Counters : counter[c] <= counter'[c]
    BY <1>1 DEF Coherent, TypeOK
  <2> QED
    BY <1>1, <2>1, ReadsFrame
<1> QED
  BY <1>3, <1>4, <1>5, <1>6

\* The event of the thread is counted, and no other.
LEMMA StoreSerial ==
  ASSUME Coherent, Coherent', Serial, NEW p \in Event, Store(p)
  PROVE  Serial'
<1> USE DEF Serial
<1>1. /\ epc[p] \in Counters /\ loaded[p] # Absent
      /\ counter' = [counter EXCEPT ![epc[p]] = loaded[p] + Increment(event[p], epc[p])]
      /\ loaded' = [loaded EXCEPT ![p] = Absent]
      /\ epc' = [epc EXCEPT ![p] = After(event[p], epc[p])]
      /\ events' = events /\ event' = event
      /\ ppc' = ppc /\ answer' = answer /\ disturbed' = disturbed
  BY DEF Store, pollVars, ghosts
<1>2. /\ \A o \in Event \ {p} : epc[o] \in {"idle", "done"}
      /\ Counted = IF epc[p] \in {"ms", "n", "append"} THEN {p} ELSE {}
  BY <1>1, Alone DEF Counters
<1>3. /\ epc'[p] \in {"ms", "n", "append"} /\ \A o \in Event \ {p} : epc'[o] = epc[o]
  BY <1>1, AfterUpdate DEF Coherent, TypeOK
<1>4. PostsUnderWay' = {p} /\ Counted' = {p}
  BY <1>2, <1>3 DEF PostsUnderWay, Counted
<1>5. /\ counter'[epc[p]] = counter[epc[p]] + Increment(event[p], epc[p])
      /\ \A c \in Counters \ {epc[p]} : counter'[c] = counter[c]
      /\ Increment(event[p], epc[p]) \in Nat
      /\ epc[p] # "ms" => Increment(event[p], epc[p]) = 1
  <2>1. loaded[p] = counter[epc[p]]
    BY <1>1 DEF LoadsCurrent
  <2>2. counter \in [Counters -> Nat]
    BY DEF Coherent, TypeOK
  <2> QED
    BY <1>1, <2>1, <2>2, AfterUpdate
<1>6. /\ \A c \in Counters : counter[c] \in Nat /\ counter[c] <= counter'[c]
      /\ epc[p] # "ms" => counter'[epc[p]] = counter[epc[p]] + 1
  <2>1. counter \in [Counters -> Nat]
    BY DEF Coherent, TypeOK
  <2>2. counter[epc[p]] \in Nat /\ counter[epc[p]] <= counter'[epc[p]]
    BY <1>1, <1>5, <2>1
  <2>3. \A c \in Counters : counter[c] \in Nat /\ counter[c] <= counter'[c]
    <3>1. ASSUME NEW c \in Counters, c # epc[p]
          PROVE  counter[c] \in Nat /\ counter[c] <= counter'[c]
      BY <1>5, <2>1, <3>1
    <3> QED
      BY <2>2, <3>1
  <2> QED
    BY <1>5, <2>3
<1>7. OneEvent'
  BY <1>4 DEF OneEvent
<1>8. LoadsCurrent'
  <2>1. \A o \in Event \ {p} : loaded[o] = Absent
    BY <1>2 DEF Coherent, ThreadsCoherent, Counters
  <2>2. \A o \in Event : loaded'[o] = Absent
    BY <1>1, <2>1 DEF Coherent, TypeOK
  <2> QED
    BY <2>2 DEF LoadsCurrent
<1>9. EventsCounted'
  <2>1. ASSUME NEW type \in {"ACCEPTED", "REJECTED"}
        PROVE  /\ Count(events, type)' = Count(events, type) /\ Count(events, type) \in Nat
               /\ CountOf(type) \in Nat /\ CountOf(type) <= CountOf(type)'
               /\ CountOf(type)' \in Nat
               /\ Count(events, type) <= CountOf(type)
    <3>1. Count(events, type)' = Count(events, type)
      BY <1>1, FeedCountSame DEF Coherent
    <3>2. Count(events, type) \in Nat /\ CountOf(type) \in Nat
      BY CountNat DEF Coherent
    <3>3. CountOf(type) <= CountOf(type)' /\ CountOf(type)' \in Nat
      BY <1>6 DEF CountOf, Counters, Coherent, TypeOK
    <3>4. Count(events, type) <= CountOf(type)
      BY DEF EventsCounted
    <3> QED
      BY <3>1, <3>2, <3>3, <3>4
  <2>2. ASSUME NEW type \in {"ACCEPTED", "REJECTED"}
        PROVE  Count(events, type)' <= CountOf(type)'
    BY <2>1
  <2>3. Count(events, event[p].type)' < CountOf(event[p].type)'
    <3>1. event[p].type \in {"ACCEPTED", "REJECTED"}
      BY <1>1, AfterUpdate DEF Records
    <3>2. CASE epc[p] \in {"accepted", "rejected"}
      <4>1. CountOf(event[p].type)' = CountOf(event[p].type) + 1
        BY <1>1, <1>6, <3>2 DEF CountOf, Coherent, ThreadsCoherent
      <4> QED
        BY <1>1, <2>1, <3>1, <4>1
    <3>3. CASE epc[p] \in {"ms", "n"}
      <4>1. Count(events, event[p].type) < CountOf(event[p].type)
        BY <1>2, <3>3 DEF EventsCounted
      <4> QED
        BY <1>1, <2>1, <3>1, <4>1
    <3> QED
      BY <1>1, <3>2, <3>3 DEF Counters
  <2> QED
    BY <1>1, <1>4, <2>2, <2>3 DEF EventsCounted
<1>10. ReadsCounted' /\ AnswersCounted'
  BY <1>1, <1>6, ReadsFrame
<1> QED
  BY <1>7, <1>8, <1>9, <1>10

\* The event counted is appended: counts and feed agree again.
LEMMA AppendSerial ==
  ASSUME Coherent, Coherent', Serial, NEW p \in Event, AppendEvent(p)
  PROVE  Serial'
<1> USE DEF Serial
<1>1. /\ epc[p] = "append"
      /\ events' = LastOf(Append(events, p), FeedMax)
      /\ epc' = [epc EXCEPT ![p] = "done"]
      /\ counter' = counter /\ event' = event /\ loaded' = loaded
      /\ ppc' = ppc /\ answer' = answer /\ disturbed' = disturbed
  BY DEF AppendEvent, pollVars, ghosts
<1>2. /\ \A o \in Event \ {p} : epc[o] \in {"idle", "done"}
      /\ Counted = {p}
  BY <1>1, Alone
<1>3. epc'[p] = "done" /\ \A o \in Event \ {p} : epc'[o] = epc[o]
  BY <1>1 DEF Coherent, TypeOK
<1>4. PostsUnderWay' = {} /\ Counted' = {}
  BY <1>2, <1>3 DEF PostsUnderWay, Counted
<1>5. OneEvent'
  BY <1>4 DEF OneEvent
<1>6. LoadsCurrent'
  <2>1. \A o \in Event : loaded[o] = Absent
    BY <1>1, <1>2 DEF Coherent, ThreadsCoherent, Counters
  <2> QED
    BY <1>1, <2>1 DEF LoadsCurrent
<1>7. EventsCounted'
  <2>1. ASSUME NEW type \in {"ACCEPTED", "REJECTED"}
        PROVE  Count(events, type)' <= CountOf(type)'
    <3>1. events \in Seq(Event) /\ FeedMax \in Nat
      BY ServerAssumption DEF Coherent, TypeOK
    <3>2. Append(events, p) \in Seq(Event)
      BY <3>1, AppendProperties
    <3>3. Tally(event, events', type) <= Tally(event, Append(events, p), type)
      BY <1>1, <3>1, <3>2, TallyLastOf
    <3>4. Tally(event, Append(events, p), type) =
            IF event[p].type = type THEN Tally(event, events, type) + 1
            ELSE Tally(event, events, type)
      BY <3>1, TallyAppend
    <3>5. Count(events, type)' = Tally(event, events', type)
      BY <1>1, CountTally
    <3>6. Count(events, type) = Tally(event, events, type)
      BY CountTally
    <3>7. Tally(event, events', type) \in Nat
      BY TallyType DEF Coherent, TypeOK
    <3>8. Count(events, type) \in Nat /\ CountOf(type) \in Nat
      BY CountNat DEF Coherent
    <3>9. CountOf(type)' = CountOf(type)
      BY <1>1 DEF CountOf
    <3>10. /\ Count(events, type) <= CountOf(type)
           /\ event[p].type = type => Count(events, type) < CountOf(type)
      BY <1>2 DEF EventsCounted
    <3> QED
      BY <3>3, <3>4, <3>5, <3>6, <3>7, <3>8, <3>9, <3>10
  <2> QED
    BY <1>4, <2>1 DEF EventsCounted
<1>8. ReadsCounted' /\ AnswersCounted'
  <2>1. \A c \in Counters : counter[c] <= counter'[c]
    BY <1>1 DEF Coherent, TypeOK
  <2> QED
    BY <1>1, <2>1, ReadsFrame
<1> QED
  BY <1>5, <1>6, <1>7, <1>8
\* A poll reads: what it has read has been counted.
LEMMA PollStepSerial ==
  ASSUME Coherent, Coherent', Serial, NEW q \in Poll, PollStep(q)
  PROVE  Serial'
<1> USE DEF Serial
<1>1. /\ events' = events /\ counter' = counter /\ event' = event
      /\ epc' = epc /\ loaded' = loaded /\ disturbed' = disturbed
      /\ \A o \in Poll \ {q} : ppc'[o] = ppc[o] /\ answer'[o] = answer[o]
  BY PollStepCases DEF Coherent
<1>2. \/ /\ ppc[q] = "recent" /\ ppc'[q] = "n"
         /\ answer'[q].recent = LastOf(events, RecentMax)
      \/ /\ ppc[q] = "n" /\ answer' = answer
         /\ ppc'[q] = IF counter["n"] = 0 THEN "totals" ELSE "divide"
      \/ /\ ppc[q] = "divide" /\ answer' = answer
         /\ ppc'[q] = IF counter["n"] = 0 THEN "failed" ELSE "totals"
      \/ /\ ppc[q] = "totals" /\ ppc'[q] = "answered"
         /\ answer'[q].recent = answer[q].recent
         /\ answer'[q].totals = Totals
  BY PollStepCases DEF Coherent
<1>3. OneEvent' /\ LoadsCurrent' /\ EventsCounted'
  BY <1>1, StillSerial
<1>4. Totals' = Totals
  BY <1>1 DEF Totals
<1>5. \A o \in Kept : event'[o] = event[o]
  BY <1>1
<1>6. ASSUME NEW o \in Poll \ {q}, NEW type
      PROVE  Count(answer[o].recent, type)' = Count(answer[o].recent, type)
  BY <1>1, <1>5, AnswerCountSame DEF Coherent
<1>7. ASSUME NEW type, ppc[q] # "recent"
      PROVE  Count(answer[q].recent, type)' = Count(answer[q].recent, type)
  <2>1. answer'[q].recent = answer[q].recent
    BY <1>2, <1>7
  <2> QED
    BY <1>1, <2>1, CountTally
<1>8. ASSUME NEW type \in {"ACCEPTED", "REJECTED"}, ppc[q] = "recent"
      PROVE  Count(answer[q].recent, type)' <= CountOf(type)
  <2>1. answer'[q].recent = LastOf(events, RecentMax)
    BY <1>2, <1>8
  <2>2. events \in Seq(Event) /\ RecentMax \in Nat
    BY ServerAssumption DEF Coherent, TypeOK
  <2>3. Tally(event, LastOf(events, RecentMax), type) <= Tally(event, events, type)
    BY <2>2, TallyLastOf
  <2>4. Count(answer[q].recent, type)' = Tally(event, LastOf(events, RecentMax), type)
    BY <1>1, <2>1, CountTally
  <2>5. Tally(event, events, type) = Count(events, type)
    BY CountTally
  <2>6. Count(events, type) <= CountOf(type)
    BY DEF EventsCounted
  <2>7. Tally(event, LastOf(events, RecentMax), type) \in Nat
    BY RecentProperties, TallyType DEF Coherent
  <2>8. Count(events, type) \in Nat /\ CountOf(type) \in Nat
    BY CountNat DEF Coherent
  <2> QED
    BY <2>3, <2>4, <2>5, <2>6, <2>7, <2>8
<1>9. ReadsCounted'
  <2>1. ASSUME NEW o \in Poll \ disturbed, ppc'[o] \in {"n", "divide", "totals"},
               NEW type \in {"ACCEPTED", "REJECTED"}
        PROVE  Count(answer[o].recent, type)' <= CountOf(type)'
    <3>1. CountOf(type)' = CountOf(type)
      BY <1>1 DEF CountOf
    <3>2. CASE o # q
      <4>1. Count(answer[o].recent, type) <= CountOf(type)
        BY <1>1, <2>1, <3>2 DEF ReadsCounted
      <4>2. Count(answer[o].recent, type)' = Count(answer[o].recent, type)
        BY <1>6, <3>2
      <4> QED
        BY <3>1, <4>1, <4>2
    <3>3. CASE o = q /\ ppc[q] = "recent"
      <4>1. Count(answer[q].recent, type)' <= CountOf(type)
        BY <1>8, <3>3
      <4> QED
        BY <3>1, <3>3, <4>1
    <3>4. CASE o = q /\ ppc[q] # "recent"
      <4>1. Count(answer[q].recent, type) <= CountOf(type)
        BY <1>2, <2>1, <3>4 DEF ReadsCounted
      <4>2. Count(answer[q].recent, type)' = Count(answer[q].recent, type)
        BY <1>7, <3>4
      <4> QED
        BY <3>1, <3>4, <4>1, <4>2
    <3> QED
      BY <3>2, <3>3, <3>4
  <2> QED
    BY <1>1, <2>1 DEF ReadsCounted
<1>10. AnswersCounted'
  <2>1. ASSUME NEW o \in Poll \ disturbed, ppc'[o] = "answered"
        PROVE  /\ Count(answer[o].recent, "ACCEPTED")' <= answer'[o].totals[1]
               /\ answer'[o].totals[1] <= Totals'[1]
               /\ Count(answer[o].recent, "REJECTED")' <= answer'[o].totals[2]
               /\ answer'[o].totals[2] <= Totals'[2]
    <3>1. CASE o # q
      <4>1. /\ Count(answer[o].recent, "ACCEPTED")' = Count(answer[o].recent, "ACCEPTED")
            /\ Count(answer[o].recent, "REJECTED")' = Count(answer[o].recent, "REJECTED")
        BY <1>6, <3>1
      <4>2. ppc[o] = "answered" /\ answer'[o] = answer[o]
        BY <1>1, <2>1, <3>1
      <4>3. /\ Count(answer[o].recent, "ACCEPTED") <= answer[o].totals[1]
            /\ answer[o].totals[1] <= Totals[1]
            /\ Count(answer[o].recent, "REJECTED") <= answer[o].totals[2]
            /\ answer[o].totals[2] <= Totals[2]
        BY <4>2 DEF AnswersCounted
      <4> QED
        BY <1>4, <4>1, <4>2, <4>3
    <3>2. CASE o = q
      <4>1. ppc[q] = "totals" /\ answer'[q].totals = Totals
        BY <1>2, <2>1, <3>2
      <4>2. /\ Count(answer[q].recent, "ACCEPTED")' = Count(answer[q].recent, "ACCEPTED")
            /\ Count(answer[q].recent, "REJECTED")' = Count(answer[q].recent, "REJECTED")
        BY <1>7, <4>1
      <4>3. /\ Count(answer[q].recent, "ACCEPTED") <= CountOf("ACCEPTED")
            /\ Count(answer[q].recent, "REJECTED") <= CountOf("REJECTED")
        BY <3>2, <4>1 DEF ReadsCounted
      <4>4. CountOf("ACCEPTED") = Totals[1] /\ CountOf("REJECTED") = Totals[2]
        BY DEF CountOf, Totals
      <4>5. Totals[1] <= Totals[1] /\ Totals[2] <= Totals[2]
        <5>1. counter["accepted"] \in Nat /\ counter["rejected"] \in Nat
          BY DEF Coherent, TypeOK, Counters
        <5> QED
          BY <5>1 DEF Totals
      <4> QED
        BY <1>4, <3>2, <4>1, <4>2, <4>3, <4>4, <4>5
    <3> QED
      BY <3>1, <3>2
  <2> QED
    BY <1>1, <2>1 DEF AnswersCounted
<1> QED
  BY <1>3, <1>9, <1>10

\* A new poll has read nothing.
\* A new poll has read nothing.
LEMMA TickSerial ==
  ASSUME Coherent, Serial, NEW q \in Poll, BeginPoll(q)
  PROVE  Serial'
<1> USE DEF Serial
<1>1. /\ events' = events /\ counter' = counter /\ event' = event
      /\ epc' = epc /\ loaded' = loaded /\ answer' = answer
      /\ ppc' = [ppc EXCEPT ![q] = "recent"]
      /\ disturbed \subseteq disturbed'
  BY DEF BeginPoll, eventVars
<1>2. ppc'[q] = "recent" /\ \A o \in Poll \ {q} : ppc'[o] = ppc[o]
  BY <1>1 DEF Coherent, TypeOK
<1>3. OneEvent' /\ LoadsCurrent' /\ EventsCounted'
  BY <1>1, StillSerial
<1>4. /\ \A o \in Poll \ disturbed' : o \in Poll \ disturbed
      /\ \A o \in Poll : ppc'[o] # "recent" => ppc'[o] = ppc[o]
  BY <1>1, <1>2
<1>5. ASSUME NEW o \in Poll
      PROVE  \A type : Count(answer[o].recent, type)' = Count(answer[o].recent, type)
  BY <1>1 DEF Count
<1>6. ReadsCounted'
  <2>1. \A type : CountOf(type)' = CountOf(type)
    BY <1>1 DEF CountOf
  <2> QED
    BY <1>4, <1>5, <2>1 DEF ReadsCounted
<1>7. AnswersCounted'
  <2>1. Totals' = Totals
    BY <1>1 DEF Totals
  <2> QED
    BY <1>1, <1>4, <1>5, <2>1 DEF AnswersCounted
<1> QED
  BY <1>3, <1>6, <1>7

\* A poll ends, shown or not.
LEMMA EndPollSerial ==
  ASSUME Coherent, Coherent', Serial, NEW q \in Poll, EndPoll(q)
  PROVE  Serial'
<1> USE DEF Serial
<1>1. /\ events' = events /\ counter' = counter /\ event' = event
      /\ epc' = epc /\ loaded' = loaded
      /\ disturbed' = disturbed \ {q} /\ ppc'[q] = "idle"
      /\ \A o \in Poll \ {q} : ppc'[o] = ppc[o] /\ answer'[o] = answer[o]
  BY EndPollFrame
<1>2. OneEvent' /\ LoadsCurrent' /\ EventsCounted'
  BY <1>1, StillSerial
<1>3. Totals' = Totals
  BY <1>1 DEF Totals
<1>4. \A o \in Kept : event'[o] = event[o]
  BY <1>1
<1>5. ASSUME NEW o \in Poll \ {q}, NEW type
      PROVE  Count(answer[o].recent, type)' = Count(answer[o].recent, type)
  BY <1>1, <1>4, AnswerCountSame DEF Coherent
<1>6. ReadsCounted'
  <2>1. ASSUME NEW o \in Poll \ disturbed', ppc'[o] \in {"n", "divide", "totals"},
               NEW type \in {"ACCEPTED", "REJECTED"}
        PROVE  Count(answer[o].recent, type)' <= CountOf(type)'
    <3>1. o \in Poll \ {q} /\ o \notin disturbed /\ ppc[o] = ppc'[o]
      BY <1>1, <2>1
    <3>2. Count(answer[o].recent, type) <= CountOf(type)
      BY <2>1, <3>1 DEF ReadsCounted
    <3>3. Count(answer[o].recent, type)' = Count(answer[o].recent, type)
      BY <1>5, <3>1
    <3>4. CountOf(type)' = CountOf(type)
      BY <1>1 DEF CountOf
    <3> QED
      BY <3>2, <3>3, <3>4
  <2> QED
    BY <2>1 DEF ReadsCounted
<1>7. AnswersCounted'
  <2>1. ASSUME NEW o \in Poll \ disturbed', ppc'[o] = "answered"
        PROVE  /\ Count(answer[o].recent, "ACCEPTED")' <= answer'[o].totals[1]
               /\ answer'[o].totals[1] <= Totals'[1]
               /\ Count(answer[o].recent, "REJECTED")' <= answer'[o].totals[2]
               /\ answer'[o].totals[2] <= Totals'[2]
    <3>1. /\ o \in Poll \ {q} /\ o \notin disturbed /\ ppc[o] = "answered"
          /\ answer'[o] = answer[o]
      BY <1>1, <2>1
    <3>2. /\ Count(answer[o].recent, "ACCEPTED")' = Count(answer[o].recent, "ACCEPTED")
          /\ Count(answer[o].recent, "REJECTED")' = Count(answer[o].recent, "REJECTED")
      BY <1>5, <3>1
    <3>3. /\ Count(answer[o].recent, "ACCEPTED") <= answer[o].totals[1]
          /\ answer[o].totals[1] <= Totals[1]
          /\ Count(answer[o].recent, "REJECTED") <= answer[o].totals[2]
          /\ answer[o].totals[2] <= Totals[2]
      BY <3>1 DEF AnswersCounted
    <3> QED
      BY <1>3, <3>1, <3>2, <3>3
  <2> QED
    BY <2>1 DEF AnswersCounted
<1> QED
  BY <1>2, <1>6, <1>7

\* A reset begins when no POST is under way, and disturbs the polls that are.
\* A reset begins and disturbs the polls that are under way.
LEMMA BeginResetSerial ==
  ASSUME Serial, NEW r \in Reset, BeginReset(r)
  PROVE  Serial'
<1>1. /\ disturbed' = disturbed \union Polling
      /\ events' = events /\ counter' = counter /\ event' = event
      /\ epc' = epc /\ loaded' = loaded /\ ppc' = ppc
  BY DEF BeginReset, eventVars, pollVars
<1>2. OneEvent' /\ LoadsCurrent' /\ EventsCounted'
  BY <1>1, StillSerial
<1>3. Polling' \subseteq disturbed'
  BY <1>1 DEF Polling
<1> QED
  BY <1>2, <1>3, ReadsDisturbed DEF Serial

\* No event is under way, and the feed is empty: nothing in it is not counted.
LEMMA EmptySerial ==
  ASSUME Coherent', PostsUnderWay' = {}, events' = <<>>, Polling' \subseteq disturbed'
  PROVE  Serial'
<1>1. OneEvent'
  BY DEF OneEvent
<1>2. LoadsCurrent'
  BY DEF LoadsCurrent, Coherent, ThreadsCoherent, PostsUnderWay, Counters
<1>3. EventsCounted'
  <2>1. ASSUME NEW type \in {"ACCEPTED", "REJECTED"}
        PROVE  Count(events, type)' <= CountOf(type)'
    <3>1. Count(events, type)' = 0
      BY TallyEmpty, CountTally
    <3>2. CountOf(type)' \in Nat
      BY DEF CountOf, Coherent, TypeOK, Counters
    <3> QED
      BY <3>1, <3>2
  <2>2. Counted' = {}
    BY DEF Counted, PostsUnderWay
  <2> QED
    BY <2>1, <2>2 DEF EventsCounted
<1> QED
  BY <1>1, <1>2, <1>3, ReadsDisturbed DEF Serial

\* A reset clears the events, or one counter, while no event is under way.
LEMMA ResetSerial ==
  ASSUME Coherent', AveragesCoherent, PostsUnderWay = {}, events' = <<>>,
         NEW r \in Reset, ResetStep(r)
  PROVE  Serial'
<1>1. /\ ppc' = ppc /\ epc' = epc /\ disturbed' = disturbed /\ r \in ResetsUnderWay
  BY DEF ResetStep, ClearEvents, ZeroCounter, eventVars, pollVars, ghosts, ResetsUnderWay
<1>2. PostsUnderWay' = {} /\ Polling' \subseteq disturbed'
  BY <1>1 DEF PostsUnderWay, Polling, AveragesCoherent
<1> QED
  BY <1>2, EmptySerial

\* A restart ends every thread and disturbs every poll.
LEMMA CrashSerial ==
  ASSUME Coherent', Crash
  PROVE  Serial'
<1>1. /\ events' = <<>>
      /\ epc' = [p \in Event |-> IF p \in PostsUnderWay THEN "done" ELSE epc[p]]
      /\ ppc' = [q \in Poll |-> IF ppc[q] \in {"idle", "answered"} THEN ppc[q] ELSE "failed"]
      /\ disturbed' = disturbed \union Polling
  BY DEF Crash, RestartServer
<1>2. PostsUnderWay' = {} /\ Polling' \subseteq disturbed'
  BY <1>1 DEF PostsUnderWay, Polling
<1> QED
  BY <1>1, <1>2, EmptySerial

\* Steps that no thread of the server takes.
LEMMA QuietSerial ==
  ASSUME Coherent, Coherent', Serial, epc' = epc, loaded' = loaded, counter' = counter,
         events' = events, event' = event, ppc' = ppc, answer' = answer,
         disturbed' = disturbed
  PROVE  Serial'
<1>1. OneEvent' /\ LoadsCurrent' /\ EventsCounted'
  BY StillSerial
<1>2. \A c \in Counters : counter[c] <= counter'[c]
  BY DEF Coherent, TypeOK
<1>3. ReadsCounted' /\ AnswersCounted'
  BY <1>2, ReadsFrame DEF Serial
<1> QED
  BY <1>1, <1>3 DEF Serial

\* Every step preserves Serial as long as no event overlaps anything that writes, and
\* a reset that clears while no event is under way establishes it.
LEMMA StepSerial ==
  /\ Coherent /\ AveragesCoherent /\ SeparateWhileApart /\ SerialWhileExact
  /\ [Next]_vars
  => SerialWhileExact'
<1> SUFFICES ASSUME Coherent, AveragesCoherent, SeparateWhileApart, SerialWhileExact,
                    [Next]_vars, exact'
             PROVE  apart' /\ Serial'
  BY DEF SerialWhileExact
<1>1. Coherent'
  BY StepCoherent
<1>2. ASSUME NEW p \in Event, BeginEvent(p)
      PROVE  apart' /\ Serial'
  <2>1. exact /\ PostsUnderWay = {} /\ Clearing = {}
    BY <1>2 DEF BeginEvent
  <2>2. apart' = (apart /\ Clearing = {})
    BY <1>2 DEF BeginEvent
  <2>3. apart /\ Serial
    BY <2>1 DEF SerialWhileExact
  <2>4. Serial'
    BY <1>1, <1>2, <2>1, <2>3, BeginEventSerial
  <2> QED
    BY <2>1, <2>2, <2>3, <2>4
<1>3. ASSUME NEW p \in Event, EventStep(p)
      PROVE  apart' /\ Serial'
  <2>1. exact' = exact /\ apart' = apart
    BY <1>3 DEF EventStep, Load, Store, AppendEvent, ghosts
  <2>2. apart /\ Serial
    BY <2>1 DEF SerialWhileExact
  <2>3. Serial'
    BY <1>1, <1>3, <2>2, LoadSerial, StoreSerial, AppendSerial DEF EventStep
  <2> QED
    BY <2>1, <2>2, <2>3
<1>4. ASSUME NEW q \in Poll, PollStep(q) \/ Tick(q) \/ ShowAnswer(q) \/ SkipTick(q)
      PROVE  apart' /\ Serial'
  <2>1. exact' = exact /\ apart' = apart
    BY <1>4 DEF PollStep, Tick, BeginPoll, ShowAnswer, SkipTick, EndPoll, ghosts
  <2>2. apart /\ Serial
    BY <2>1 DEF SerialWhileExact
  <2>3. Serial'
    BY <1>1, <1>4, <2>2, PollStepSerial, TickSerial, EndPollSerial
    DEF Tick, ShowAnswer, SkipTick
  <2> QED
    BY <2>1, <2>2, <2>3
<1>5. ASSUME NEW r \in Reset, PressReset(r) \/ ShowReset(r)
      PROVE  apart' /\ Serial'
  <2>1. exact' = exact /\ apart' = apart
    BY <1>5 DEF PressReset, BeginReset, ShowReset, ghosts
  <2>2. apart /\ Serial
    BY <2>1 DEF SerialWhileExact
  <2>3. CASE PressReset(r)
    BY <2>1, <2>2, <2>3, BeginResetSerial DEF PressReset
  <2>4. CASE ShowReset(r)
    <3>1. /\ epc' = epc /\ loaded' = loaded /\ counter' = counter /\ events' = events
          /\ event' = event /\ ppc' = ppc /\ answer' = answer /\ disturbed' = disturbed
      BY <2>4 DEF ShowReset, eventVars, pollVars, ghosts
    <3> QED
      BY <1>1, <2>1, <2>2, <3>1, QuietSerial
  <2> QED
    BY <1>5, <2>3, <2>4
<1>6. ASSUME NEW r \in Reset, ClearEvents(r)
      PROVE  apart' /\ Serial'
  <2>1. PostsUnderWay = {} /\ events' = <<>>
    BY <1>6 DEF ClearEvents
  <2>2. apart'
    BY <1>6, <2>1 DEF ClearEvents
  <2>3. Serial'
    BY <1>1, <1>6, <2>1, ResetSerial DEF ResetStep
  <2> QED
    BY <2>2, <2>3
<1>7. ASSUME NEW r \in Reset, ZeroCounter(r)
      PROVE  apart' /\ Serial'
  <2>1. exact' = exact /\ apart' = apart /\ events' = events /\ r \in Clearing
    BY <1>7 DEF ZeroCounter, ghosts, Clearing
  <2>2. apart /\ Separate
    BY <2>1 DEF SerialWhileExact, SeparateWhileApart
  <2>3. PostsUnderWay = {} /\ events' = <<>>
    BY <2>1, <2>2 DEF Separate, ResetsClear
  <2>4. Serial'
    BY <1>1, <1>7, <2>3, ResetSerial DEF ResetStep
  <2> QED
    BY <2>1, <2>2, <2>4
<1>8. CASE Crash
  <2>1. apart'
    BY <1>8 DEF Crash, RestartServer
  <2> QED
    BY <1>1, <1>8, <2>1, CrashSerial
<1>9. CASE UNCHANGED vars
  <2>1. exact
    BY <1>9, StillGhosts
  <2>2. apart /\ Serial
    BY <2>1 DEF SerialWhileExact
  <2>3. /\ epc' = epc /\ loaded' = loaded /\ counter' = counter /\ events' = events
        /\ event' = event /\ ppc' = ppc /\ answer' = answer /\ disturbed' = disturbed
    BY <1>9 DEF vars, serverVars, eventVars, pollVars, ghosts
  <2>4. Serial'
    BY <1>1, <2>2, <2>3, QuietSerial
  <2> QED
    BY <1>9, <2>2, <2>4, StillGhosts
<1> QED
  BY <1>2, <1>3, <1>4, <1>5, <1>6, <1>7, <1>8, <1>9 DEF Next, Server, Page, ResetStep

\* Until events overlap anything that writes the server serves one after the other, and
\* again from the next reset on that none overlaps.
THEOREM SerialInvariance == Spec => []SerialWhileExact
<1>1. Init => SerialWhileExact
  BY InitSerial DEF SerialWhileExact, Init, ServerInit
<1> QED
  BY <1>1, StepSerial, CoherentInvariance, AveragesInvariance, SeparateInvariance, PTL
  DEF Spec

\* The average of an answer that no reset overlaps exists, whatever else overlaps; and
\* while the server is exact the answer counts every event it shows, and its counts
\* were true (dashboard.py:59-69, 76-95).
THEOREM AnswersHold == Spec => []AnswersCoherent
<1>1. AveragesCoherent /\ SerialWhileExact => AnswersCoherent
  BY DEF AveragesCoherent, SerialWhileExact, Serial, AnswersCoherent
<1> QED
  BY <1>1, AveragesInvariance, SerialInvariance, PTL
-----------------------------------------------------------------------------
(***************************************************************************)
(* While it is exact the server is an atomic log of events.                *)
(***************************************************************************)
LogAccepted == IF Clearing # {} THEN 0 ELSE counter["accepted"]
LogRejected == IF Clearing # {} THEN 0 ELSE counter["rejected"]
logValues   == <<LogAccepted, LogRejected, LogFeed>>
logView     == <<LogAccepted, LogRejected, LogFeed, exact>>

\* The feed of the log: the server's, with the event that is counted and not yet appended.
LEMMA LogFeedIs ==
  /\ Counted = {} => LogFeed = events
  /\ \A p \in Event : Counted = {p} => LogFeed = LastOf(Append(events, p), FeedMax)
  /\ Counted' = {} => LogFeed' = events'
  /\ \A p \in Event : Counted' = {p} => LogFeed' = LastOf(Append(events', p), FeedMax)
<1>1. \A p \in Event : (CHOOSE x \in {p} : TRUE) = p
  OBVIOUS
<1>2. Counted = {} => LogFeed = events
  BY DEF LogFeed
<1>3. ASSUME NEW p \in Event, Counted = {p}
      PROVE  LogFeed = LastOf(Append(events, p), FeedMax)
  BY <1>1, <1>3 DEF LogFeed
<1>4. Counted' = {} => LogFeed' = events'
  BY DEF LogFeed
<1>5. ASSUME NEW p \in Event, Counted' = {p}
      PROVE  LogFeed' = LastOf(Append(events', p), FeedMax)
  BY <1>1, <1>5 DEF LogFeed, LastOf
<1> QED
  BY <1>2, <1>3, <1>4, <1>5

\* An event is counted: it is in the log.
LEMMA StoreLogs ==
  ASSUME Coherent, Separate, Serial, NEW p \in Event, Store(p)
  PROVE  Log!Accept(p) \/ Log!Reject(p) \/ UNCHANGED logValues
<1>1. /\ epc[p] \in Counters /\ loaded[p] # Absent
      /\ counter' = [counter EXCEPT ![epc[p]] = loaded[p] + Increment(event[p], epc[p])]
      /\ epc' = [epc EXCEPT ![p] = After(event[p], epc[p])]
      /\ events' = events /\ rpc' = rpc
  BY DEF Store
<1>2. /\ Clearing = {} /\ \A o \in Event \ {p} : epc[o] \in {"idle", "done"}
      /\ Counted = IF epc[p] \in {"ms", "n", "append"} THEN {p} ELSE {}
  BY <1>1, Alone, Writing DEF Counters, Serial
<1>3. /\ epc'[p] \in {"ms", "n", "append"} /\ \A o \in Event \ {p} : epc'[o] = epc[o]
  BY <1>1, AfterUpdate DEF Coherent, TypeOK
<1>4. Counted' = {p} /\ Clearing' = {}
  BY <1>1, <1>2, <1>3 DEF Counted, Clearing
<1>5. /\ counter'[epc[p]] = counter[epc[p]] + Increment(event[p], epc[p])
      /\ \A c \in Counters \ {epc[p]} : counter'[c] = counter[c]
      /\ epc[p] # "ms" => Increment(event[p], epc[p]) = 1
  BY <1>1, AfterUpdate DEF Serial, LoadsCurrent, Coherent, TypeOK
<1>6. LogFeed' = LastOf(Append(events, p), FeedMax)
  BY <1>1, <1>4, LogFeedIs
<1>7. CASE epc[p] \in {"ms", "n"}
  <2>1. LogFeed = LastOf(Append(events, p), FeedMax)
    BY <1>2, <1>7, LogFeedIs
  <2>2. LogAccepted' = LogAccepted /\ LogRejected' = LogRejected
    BY <1>2, <1>4, <1>5, <1>7 DEF LogAccepted, LogRejected, Counters
  <2> QED
    BY <1>6, <2>1, <2>2 DEF logValues
<1>8. CASE epc[p] \in {"accepted", "rejected"}
  <2>1. LogFeed = events
    BY <1>2, <1>8, LogFeedIs
  <2>2. LogFeed' = IF Len(LogFeed) < FeedMax THEN Append(LogFeed, p)
                   ELSE Append(Tail(LogFeed), p)
    <3>1. events \in Seq(Event) /\ Len(events) <= FeedMax /\ FeedMax \in Nat \ {0}
      BY ServerAssumption DEF Coherent, TypeOK
    <3> QED
      BY <1>6, <2>1, <3>1, LastOfAppend
  <2>3. CASE epc[p] = "accepted"
    <3>1. LogAccepted' = LogAccepted + 1 /\ LogRejected' = LogRejected
      BY <1>2, <1>4, <1>5, <2>3 DEF LogAccepted, LogRejected, Counters
    <3> QED
      BY <2>2, <3>1 DEF Log!Accept, Log!Keep, LogAccepted, LogRejected
  <2>4. CASE epc[p] = "rejected"
    <3>1. LogRejected' = LogRejected + 1 /\ LogAccepted' = LogAccepted
      BY <1>2, <1>4, <1>5, <2>4 DEF LogAccepted, LogRejected, Counters
    <3> QED
      BY <2>2, <3>1 DEF Log!Reject, Log!Keep, LogAccepted, LogRejected
  <2> QED
    BY <1>8, <2>3, <2>4
<1> QED
  BY <1>1, <1>7, <1>8 DEF Counters

\* Appending what was counted changes nothing in the log.
LEMMA AppendLogs ==
  ASSUME Coherent, Serial, NEW p \in Event, AppendEvent(p)
  PROVE  UNCHANGED logValues
<1>1. /\ epc[p] = "append"
      /\ events' = LastOf(Append(events, p), FeedMax)
      /\ epc' = [epc EXCEPT ![p] = "done"]
      /\ counter' = counter /\ rpc' = rpc
  BY DEF AppendEvent
<1>2. /\ \A o \in Event \ {p} : epc[o] \in {"idle", "done"}
      /\ Counted = {p}
  BY <1>1, Alone DEF Serial
<1>3. Counted' = {}
  BY <1>1, <1>2 DEF Counted, Coherent, TypeOK
<1>4. LogFeed = LastOf(Append(events, p), FeedMax) /\ LogFeed' = events'
  BY <1>2, <1>3, LogFeedIs
<1>5. LogAccepted' = LogAccepted /\ LogRejected' = LogRejected
  BY <1>1 DEF LogAccepted, LogRejected, Clearing
<1> QED
  BY <1>1, <1>4, <1>5 DEF logValues

\* Steps that neither count nor clear.
LEMMA QuietLogs ==
  ASSUME events' = events, counter' = counter, Counted' = Counted, Clearing' = Clearing
  PROVE  UNCHANGED logValues
<1>1. LogFeed' = LogFeed
  BY DEF LogFeed, LastOf
<1>2. LogAccepted' = LogAccepted /\ LogRejected' = LogRejected
  BY DEF LogAccepted, LogRejected
<1> QED
  BY <1>1, <1>2 DEF logValues

\* The first step of a reset clears the log ...
LEMMA ClearLogs ==
  ASSUME Coherent, PostsUnderWay = {}, NEW r \in Reset, ClearEvents(r)
  PROVE  LogAccepted' = 0 /\ LogRejected' = 0 /\ LogFeed' = <<>>
<1>1. /\ rpc' = [rpc EXCEPT ![r] = "accepted"]
      /\ events' = <<>> /\ epc' = epc
  BY DEF ClearEvents, eventVars
<1>2. r \in Clearing'
  BY <1>1 DEF Clearing, Counters, Coherent, TypeOK
<1>3. Counted' = {}
  BY <1>1 DEF Counted, PostsUnderWay
<1>4. LogFeed' = <<>>
  BY <1>1, <1>3, LogFeedIs
<1> QED
  BY <1>2, <1>4 DEF LogAccepted, LogRejected

\* ... and the others change nothing in it.
LEMMA ZeroLogs ==
  ASSUME Separate, Separate', NEW r \in Reset, ZeroCounter(r)
  PROVE  UNCHANGED logValues
<1>1. rpc[r] \in Counters /\ events' = events /\ epc' = epc /\ since' = since
  BY DEF ZeroCounter, eventVars, ghosts
<1>2. r \in Clearing /\ since = {} /\ Counted' = Counted
  BY <1>1 DEF Clearing, Separate, ResetsClear, Counted
<1>3. LogFeed' = LogFeed
  BY <1>1, <1>2 DEF LogFeed, LastOf
<1>4. LogAccepted = 0 /\ LogRejected = 0
  BY <1>2 DEF LogAccepted, LogRejected
<1>5. LogAccepted' = 0 /\ LogRejected' = 0
  <2>1. Clearing' = {} => \A c \in Counters : counter'[c] = 0
    BY <1>1, <1>2 DEF Separate, ResetsClear
  <2> QED
    BY <2>1 DEF LogAccepted, LogRejected, Counters
<1> QED
  BY <1>3, <1>4, <1>5 DEF logValues

\* A restart clears the log.
LEMMA CrashLogs ==
  ASSUME Crash
  PROVE  LogAccepted' = 0 /\ LogRejected' = 0 /\ LogFeed' = <<>>
<1>1. /\ events' = <<>> /\ counter' = [c \in Counters |-> 0]
      /\ epc' = [p \in Event |-> IF p \in PostsUnderWay THEN "done" ELSE epc[p]]
  BY DEF Crash, RestartServer
<1>2. Counted' = {}
  BY <1>1 DEF Counted, PostsUnderWay
<1>3. LogFeed' = <<>>
  BY <1>1, <1>2, LogFeedIs
<1> QED
  BY <1>1, <1>3 DEF LogAccepted, LogRejected, Counters

\* An event that begins, a load, a poll and the page change nothing in the log.
LEMMA OtherLogs ==
  ASSUME Coherent,
         \/ \E p \in Event : BeginEvent(p) \/ Load(p)
         \/ \E q \in Poll : PollStep(q)
         \/ Page
         \/ UNCHANGED vars
  PROVE  UNCHANGED logValues
<1>1. ASSUME NEW p \in Event, BeginEvent(p) PROVE UNCHANGED logValues
  <2>1. /\ epc[p] = "idle" /\ events' = events /\ counter' = counter /\ rpc' = rpc
        /\ epc' = [epc EXCEPT ![p] = IF event'[p].type = "ACCEPTED" THEN "accepted"
                                     ELSE "rejected"]
    BY <1>1 DEF BeginEvent
  <2>2. Counted' = Counted /\ Clearing' = Clearing
    BY <2>1 DEF Counted, Clearing, Coherent, TypeOK
  <2> QED
    BY <2>1, <2>2, QuietLogs
<1>2. ASSUME NEW p \in Event, Load(p) PROVE UNCHANGED logValues
  <2>1. events' = events /\ counter' = counter /\ rpc' = rpc /\ epc' = epc
    BY <1>2 DEF Load
  <2>2. Counted' = Counted /\ Clearing' = Clearing
    BY <2>1 DEF Counted, Clearing
  <2> QED
    BY <2>1, <2>2, QuietLogs
<1>3. ASSUME NEW q \in Poll, PollStep(q) PROVE UNCHANGED logValues
  <2>1. events' = events /\ counter' = counter /\ rpc' = rpc /\ epc' = epc
    BY <1>3, PollStepCases DEF Coherent
  <2>2. Counted' = Counted /\ Clearing' = Clearing
    BY <2>1 DEF Counted, Clearing
  <2> QED
    BY <2>1, <2>2, QuietLogs
<1>4. CASE Page
  <2>1. events' = events /\ counter' = counter /\ epc' = epc
    BY <1>4 DEF Page, Tick, BeginPoll, ShowAnswer, SkipTick, EndPoll, PressReset, BeginReset,
                ShowReset, eventVars
  <2>2. Clearing' = Clearing
    <3>1. ASSUME NEW r \in Reset, PressReset(r) \/ ShowReset(r)
          PROVE  Clearing' = Clearing
      BY <3>1 DEF PressReset, BeginReset, ShowReset, Clearing, Counters, Coherent, TypeOK
    <3>2. ASSUME NEW q \in Poll, Tick(q) \/ ShowAnswer(q) \/ SkipTick(q)
          PROVE  Clearing' = Clearing
      BY <3>2 DEF Tick, BeginPoll, ShowAnswer, SkipTick, EndPoll, Clearing
    <3> QED
      BY <1>4, <3>1, <3>2 DEF Page
  <2>3. Counted' = Counted
    BY <2>1 DEF Counted
  <2> QED
    BY <2>1, <2>2, <2>3, QuietLogs
<1>5. CASE UNCHANGED vars
  <2>1. events' = events /\ counter' = counter /\ epc' = epc /\ rpc' = rpc
    BY <1>5 DEF vars, serverVars, eventVars
  <2>2. Counted' = Counted /\ Clearing' = Clearing
    BY <2>1 DEF Counted, Clearing
  <2> QED
    BY <2>1, <2>2, QuietLogs
<1> QED
  BY <1>1, <1>2, <1>3, <1>4, <1>5

\* Only the clearing of a reset and a restart make the server exact again.
LEMMA ExactBefore ==
  ASSUME [Next]_vars, exact', ~ (\E r \in Reset : ClearEvents(r)), ~ Crash
  PROVE  exact
<1>1. CASE \E p \in Event : BeginEvent(p)
  BY <1>1 DEF BeginEvent
<1>2. CASE UNCHANGED ghosts
  BY <1>2 DEF ghosts
<1>3. CASE \E q \in Poll : BeginPoll(q) \/ EndPoll(q)
  BY <1>3 DEF BeginPoll, EndPoll
<1>4. CASE \E r \in Reset : BeginReset(r)
  BY <1>4 DEF BeginReset
<1>5. \/ \E p \in Event : BeginEvent(p)
      \/ UNCHANGED ghosts
      \/ \E q \in Poll : BeginPoll(q) \/ EndPoll(q)
      \/ \E r \in Reset : BeginReset(r)
  <2>1. CASE Server
    BY <2>1 DEF Server, EventStep, Load, Store, AppendEvent, PollStep, ResetStep, ZeroCounter
  <2>2. CASE Page
    BY <2>2 DEF Page, Tick, ShowAnswer, SkipTick, PressReset, ShowReset
  <2>3. CASE UNCHANGED vars
    BY <2>3 DEF vars, serverVars
  <2> QED
    BY <2>1, <2>2, <2>3 DEF Next
<1> QED
  BY <1>1, <1>2, <1>3, <1>4, <1>5

\* Every step is a step of the log or changes nothing there.
LEMMA StepLogs ==
  /\ Coherent /\ Coherent' /\ SeparateWhileApart /\ SeparateWhileApart'
  /\ SerialWhileExact /\ SerialWhileExact' /\ [Next]_vars
  => Log!Next \/ UNCHANGED logView
<1> SUFFICES ASSUME Coherent, Coherent', SeparateWhileApart, SeparateWhileApart',
                    SerialWhileExact, SerialWhileExact', [Next]_vars
             PROVE  Log!Next \/ UNCHANGED logView
  OBVIOUS
<1>1. exact \in BOOLEAN /\ exact' \in BOOLEAN
  BY DEF Coherent, TypeOK
<1>2. CASE ~ exact'
  BY <1>1, <1>2 DEF Log!Next, Log!Spoil
<1>3. CASE exact' /\ ((\E r \in Reset : ClearEvents(r)) \/ Crash)
  <2>1. ASSUME NEW r \in Reset, ClearEvents(r), exact' PROVE PostsUnderWay = {}
    BY <2>1 DEF ClearEvents
  <2>2. LogAccepted' = 0 /\ LogRejected' = 0 /\ LogFeed' = <<>>
    BY <1>3, <2>1, ClearLogs, CrashLogs
  <2>3. exact' = TRUE
    BY <1>1, <1>3
  <2> QED
    BY <2>2, <2>3 DEF Log!Next, Log!Clear, LogAccepted, LogRejected
<1>4. CASE exact' /\ ~ (\E r \in Reset : ClearEvents(r)) /\ ~ Crash
  <2>1. exact
    BY <1>4, ExactBefore
  <2>2. exact' = exact
    BY <1>1, <1>4, <2>1
  <2>3. Separate /\ Separate' /\ Serial
    BY <1>4, <2>1 DEF SeparateWhileApart, SerialWhileExact
  <2>4. (\E p \in Event : Log!Accept(p) \/ Log!Reject(p)) \/ UNCHANGED logValues
    BY <1>4, <2>3, StoreLogs, AppendLogs, ZeroLogs, OtherLogs
    DEF Next, Server, EventStep, ResetStep
  <2>5. CASE \E p \in Event : Log!Accept(p) \/ Log!Reject(p)
    BY <2>1, <2>2, <2>5 DEF Log!Next, Log!Count
  <2>6. CASE UNCHANGED logValues
    BY <2>2, <2>6 DEF logValues, logView
  <2> QED
    BY <2>4, <2>5, <2>6
<1> QED
  BY <1>2, <1>3, <1>4

\* The server implements the log: an event is counted and kept at once, a reset
\* or a restart clears everything at once (dashboard.py:59-69, 98-106), until events
\* overlap what writes, and again from the next reset on that no event overlaps.
THEOREM LogHolds == Spec => LogKept
<1>1. Init => Log!Init
  BY DEF Init, ServerInit, Log!Init, LogFeed, Counted, Clearing, Counters
<1>2. /\ Coherent /\ Coherent' /\ SeparateWhileApart /\ SeparateWhileApart'
      /\ SerialWhileExact /\ SerialWhileExact' /\ [Next]_vars
      => [Log!Next]_<<IF Clearing # {} THEN 0 ELSE counter["accepted"],
                      IF Clearing # {} THEN 0 ELSE counter["rejected"], LogFeed, exact>>
  BY StepLogs DEF logView, LogAccepted, LogRejected
<1> QED
  BY <1>1, <1>2, CoherentInvariance, SeparateInvariance, SerialInvariance, PTL
  DEF Spec, LogKept, Log!Spec
-----------------------------------------------------------------------------
(***************************************************************************)
(* The banner flashes for every critical event, if the clock moves between *)
(* two events and no event leaves the feed or an answer: an event that has *)
(* left before the page polls can make nothing flash.                      *)
(***************************************************************************)
Roomy == Event \subseteq 1 .. RecentMax /\ Event \subseteq 1 .. FeedMax

\* The events of an extended sequence.
LEMMA SeqSetFacts ==
  /\ SeqSet(<<>>) = {}
  /\ \A S : \A s \in Seq(S) : \A x \in S : SeqSet(Append(s, x)) = SeqSet(s) \union {x}
<1>1. SeqSet(<<>>) = {}
  BY DEF SeqSet
<1>2. ASSUME NEW S, NEW s \in Seq(S), NEW x \in S
      PROVE  SeqSet(Append(s, x)) = SeqSet(s) \union {x}
  <2> DEFINE w == Append(s, x)
  <2>1. /\ w \in Seq(S) /\ Len(w) = Len(s) + 1 /\ Len(s) \in Nat
        /\ \A i \in 1 .. Len(s) : w[i] = s[i]
        /\ w[Len(s) + 1] = x
    BY AppendProperties
  <2> HIDE DEF w
  <2>2. DOMAIN w = 1 .. Len(s) + 1 /\ DOMAIN s = 1 .. Len(s)
    BY <2>1
  <2>3. SeqSet(w) \subseteq SeqSet(s) \union {x}
    BY <2>1, <2>2 DEF SeqSet
  <2>4. SeqSet(s) \subseteq SeqSet(w)
    BY <2>1, <2>2 DEF SeqSet
  <2>5. x \in SeqSet(w)
    BY <2>1, <2>2 DEF SeqSet
  <2> QED
    BY <2>3, <2>4, <2>5 DEF w
<1> QED
  BY <1>1, <1>2

\* What does not exceed its bound is returned whole.
LEMMA LastOfAll ==
  ASSUME NEW S, NEW s \in Seq(S), NEW max \in Nat, Len(s) <= max
  PROVE  LastOf(s, max) = s
<1>1. ~ (Len(s) > max)
  OBVIOUS
<1>2. LastOf(s, max) = SubSeq(s, 1, Len(s))
  BY <1>1 DEF LastOf
<1> QED
  BY <1>2, SubSeqFull

\* The feed is no longer than its last event's number.
LEMMA FeedFits ==
  ASSUME Coherent, FeedOrdered, Roomy
  PROVE  Len(events) \in Nat /\ Len(events) <= RecentMax
<1>1. events \in Seq(Event) /\ Len(events) \in Nat /\ RecentMax \in Nat
  BY ServerAssumption DEF Coherent, TypeOK
<1>2. CASE Len(events) = 0
  BY <1>1, <1>2
<1>3. CASE Len(events) > 0
  <2>1. Len(events) \in DOMAIN events
    BY <1>1, <1>3
  <2>2. events[Len(events)] >= Len(events)
    BY <2>1 DEF FeedOrdered
  <2>3. events[Len(events)] \in Event
    BY <1>1, <2>1
  <2>4. events[Len(events)] \in 1 .. RecentMax
    BY <2>3 DEF Roomy
  <2> QED
    BY <1>1, <2>2, <2>4
<1> QED
  BY <1>1, <1>2, <1>3

\* Kept events carry numbers and stamps.
LEMMA KeptFacts ==
  ASSUME Coherent
  PROVE  /\ SeqSet(events) \subseteq Kept
         /\ \A q \in Poll : SeqSet(answer[q].recent) \subseteq Kept
         /\ \A p \in Event : p \in Nat
         /\ \A p \in Event : epc[p] # "idle" =>
              event[p].timestamp \in Nat /\ event[p].timestamp <= clock
         /\ \A p \in Kept : p \in Event /\ epc[p] # "idle" /\ p \notin PostsUnderWay
         /\ lastCriticalSeen \in Nat /\ clock \in Nat
<1>1. SeqSet(events) \subseteq Kept /\ \A q \in Poll : SeqSet(answer[q].recent) \subseteq Kept
  BY DEF Coherent, FeedCoherent, SeqSet
<1>2. \A p \in Event : p \in Nat
  BY ServerAssumption
<1>3. \A p \in Event : epc[p] # "idle" =>
        event[p].timestamp \in Nat /\ event[p].timestamp <= clock
  BY DEF Coherent, ThreadsCoherent, Records
<1>4. \A p \in Kept : p \in Event /\ epc[p] # "idle" /\ p \notin PostsUnderWay
  BY DEF Kept, PostsUnderWay
<1> QED
  BY <1>1, <1>2, <1>3, <1>4 DEF Coherent, TypeOK

\* Initially there is nothing to be out of order.
LEMMA InitInOrder == Init => InOrder
<1> SUFFICES ASSUME Init PROVE InOrder
  OBVIOUS
<1> USE DEF Init, ServerInit, PageInit
<1>1. StampsOrdered /\ FeedOrdered
  BY DEF StampsOrdered, FeedOrdered, PostsUnderWay
<1>2. AnswersComplete /\ AllNoticed
  BY SeqSetFacts DEF AnswersComplete, AllNoticed, Blank
<1> QED
  BY <1>1, <1>2 DEF InOrder

\* Steps that leave the feed, the polls and the page alone and lose no event.
LEMMA OrderFrame ==
  ASSUME Coherent, InOrder, events' = events, answer' = answer,
         ppc' = ppc, disturbed' = disturbed, noticed' = noticed,
         lastCriticalSeen' = lastCriticalSeen, \A p \in Kept : event'[p] = event[p]
  PROVE  FeedOrdered' /\ AnswersComplete' /\ AllNoticed'
<1>1. SeqSet(events)' = SeqSet(events)
  OBVIOUS
<1>2. FeedOrdered' /\ AnswersComplete'
  <2>1. FeedOrdered'
    BY DEF InOrder, FeedOrdered
  <2>2. AnswersComplete
    BY DEF InOrder
  <2>3. AnswersComplete'
    BY <2>2 DEF AnswersComplete
  <2> QED
    BY <2>1, <2>3
<1>3. AllNoticed'
  <2>1. \A p \in SeqSet(events) : event'[p] = event[p]
    BY KeptFacts
  <2> QED
    BY <1>1, <2>1 DEF InOrder, AllNoticed, IsCritical
<1> QED
  BY <1>2, <1>3

\* Steps in which no event begins and the page remembers no more.
LEMMA StampsFrame ==
  ASSUME StampsOrdered, event' = event, clock' = clock,
         lastCriticalSeen' = lastCriticalSeen, PostsUnderWay' \subseteq PostsUnderWay,
         \A p \in Event : epc'[p] = "idle" <=> epc[p] = "idle"
  PROVE  StampsOrdered'
BY DEF StampsOrdered

\* A new event has a stamp of its own, newer than all before.
LEMMA BeginEventInOrder ==
  ASSUME Coherent, Coherent', InOrder, ~ Overlap, 0 \notin StampSteps,
         NEW p \in Event, BeginEvent(p), UNCHANGED pageVars
  PROVE  InOrder'
<1>1. /\ epc[p] = "idle" /\ \A o \in Event : o < p => epc[o] # "idle"
      /\ epc' = [epc EXCEPT ![p] = IF event'[p].type = "ACCEPTED" THEN "accepted"
                                   ELSE "rejected"]
      /\ events' = events /\ ppc' = ppc /\ answer' = answer /\ disturbed' = disturbed
      /\ noticed' = noticed /\ lastCriticalSeen' = lastCriticalSeen
  BY DEF BeginEvent, pollVars, pageVars
<1>2. PICK body \in Bodies, step \in StampSteps :
        clock' = clock + step /\ event' = [event EXCEPT ![p] = Normalised(body, clock')]
  BY DEF BeginEvent
<1>3. clock' \in Nat /\ clock' > clock /\ clock \in Nat
  BY <1>2, ServerAssumption DEF Coherent, TypeOK
<1>4. event'[p].timestamp = clock'
  BY <1>2, <1>3, NormalisedType DEF Coherent, TypeOK
<1>5. /\ \A o \in Event \ {p} : event'[o] = event[o] /\ epc'[o] = epc[o]
      /\ epc'[p] \in {"accepted", "rejected"}
  BY <1>1, <1>2 DEF Coherent, TypeOK
<1>6. PostsUnderWay' = {p}
  <2>1. PostsUnderWay = {}
    BY DEF BeginEvent
  <2> QED
    BY <1>5, <2>1 DEF PostsUnderWay
<1>7. StampsOrdered'
  <2>1. \A o \in Event : o > p => epc[o] = "idle"
    BY <1>1, KeptFacts DEF InOrder, StampsOrdered
  <2>2. ASSUME NEW o \in Event, NEW r \in Event, o < r, epc'[r] # "idle"
        PROVE  epc'[o] # "idle" /\ event'[o].timestamp < event'[r].timestamp
    <3>1. CASE r = p
      <4>1. o # p /\ epc[o] # "idle" /\ event'[o] = event[o] /\ epc'[o] = epc[o]
        BY <1>1, <1>5, <2>2, <3>1, KeptFacts
      <4>2. event[o].timestamp \in Nat /\ event[o].timestamp <= clock
        BY <4>1, KeptFacts
      <4> QED
        BY <1>3, <1>4, <3>1, <4>1, <4>2
    <3>2. CASE r # p
      <4>1. epc[r] # "idle" /\ event'[r] = event[r]
        BY <1>5, <2>2, <3>2
      <4>2. epc[o] # "idle" /\ event[o].timestamp < event[r].timestamp
        BY <2>2, <4>1 DEF InOrder, StampsOrdered
      <4>3. o # p
        BY <1>1, <4>2
      <4> QED
        BY <1>5, <4>1, <4>2, <4>3
    <3> QED
      BY <3>1, <3>2
  <2>3. lastCriticalSeen <= clock /\ lastCriticalSeen \in Nat
    BY KeptFacts DEF InOrder, StampsOrdered
  <2>4. \A o \in Event : epc'[o] # "idle" => o <= p
    BY <1>5, <2>1, KeptFacts
  <2>5. \A o \in Event : epc'[o] # "idle" => event'[o].timestamp > 0
    BY <1>3, <1>4, <1>5 DEF InOrder, StampsOrdered
  <2>6. lastCriticalSeen' < event'[p].timestamp /\ lastCriticalSeen' <= clock'
    BY <1>1, <1>3, <1>4, <2>3
  <2> QED
    BY <1>6, <2>2, <2>4, <2>5, <2>6 DEF StampsOrdered
<1>8. \A o \in Kept : event'[o] = event[o]
  BY <1>1, <1>5 DEF Kept
<1> QED
  BY <1>1, <1>7, <1>8, OrderFrame DEF InOrder

\* Counting an event touches no order.
LEMMA UpdateInOrder ==
  ASSUME Coherent, InOrder, NEW p \in Event, Load(p) \/ Store(p), UNCHANGED pageVars
  PROVE  InOrder'
<1>1. /\ events' = events /\ ppc' = ppc /\ answer' = answer /\ disturbed' = disturbed
      /\ noticed' = noticed /\ lastCriticalSeen' = lastCriticalSeen
      /\ event' = event /\ clock' = clock
  BY DEF Load, Store, pollVars, ghosts, pageVars
<1>2. epc[p] \in Counters /\ epc'[p] \notin {"idle", "done"}
      /\ \A o \in Event \ {p} : epc'[o] = epc[o]
  <2>1. CASE Load(p)
    BY <2>1 DEF Load, Counters
  <2>2. CASE Store(p)
    BY <2>2, AfterUpdate DEF Store, Coherent, TypeOK
  <2> QED
    BY <2>1, <2>2
<1>3. PostsUnderWay' = PostsUnderWay /\ \A o \in Event : epc'[o] = "idle" <=> epc[o] = "idle"
  BY <1>2 DEF PostsUnderWay, Counters
<1> QED
  BY <1>1, <1>3, OrderFrame, StampsFrame DEF InOrder

\* The event appended is the newest, and none leaves the feed.
LEMMA AppendInOrder ==
  ASSUME Coherent, InOrder, Roomy, NEW p \in Event, AppendEvent(p),
         UNCHANGED pageVars
  PROVE  InOrder'
<1> USE DEF InOrder
<1>1. /\ epc[p] = "append"
      /\ events' = LastOf(Append(events, p), FeedMax)
      /\ epc' = [epc EXCEPT ![p] = "done"]
      /\ event' = event /\ clock' = clock
      /\ ppc' = ppc /\ answer' = answer /\ disturbed' = disturbed
      /\ noticed' = noticed /\ lastCriticalSeen' = lastCriticalSeen
  BY DEF AppendEvent, pollVars, ghosts, pageVars
<1>2. p \in PostsUnderWay /\ p \in Nat /\ p \in 1 .. FeedMax
  BY <1>1, KeptFacts DEF PostsUnderWay, Roomy
<1>3. \A o \in Kept : o \in Nat /\ o < p
  <2>1. \A o \in Kept : o <= p
    BY <1>2, KeptFacts DEF StampsOrdered
  <2>2. \A o \in Kept : o # p
    BY <1>1 DEF Kept
  <2>3. \A o \in Kept : o \in Nat
    BY KeptFacts
  <2>4. p \in Nat
    BY <1>2
  <2> QED
    BY <2>1, <2>2, <2>3, <2>4
<1>4. events \in Seq(Event) /\ Len(events) \in Nat /\ FeedMax \in Nat
  BY ServerAssumption DEF Coherent, TypeOK
<1>5. Len(events) < p
  <2>1. CASE Len(events) = 0
    BY <1>2, <2>1
  <2>2. CASE Len(events) > 0
    <3>1. Len(events) \in DOMAIN events
      BY <1>4, <2>2
    <3>2. events[Len(events)] >= Len(events)
      BY <3>1 DEF FeedOrdered
    <3>3. events[Len(events)] \in Kept
      BY <3>1 DEF Coherent, FeedCoherent
    <3> QED
      BY <1>2, <1>3, <1>4, <3>2, <3>3
  <2> QED
    BY <1>4, <2>1, <2>2
<1> DEFINE w == Append(events, p)
<1>6. /\ w \in Seq(Event) /\ Len(w) = Len(events) + 1
      /\ \A i \in 1 .. Len(events) : w[i] = events[i]
      /\ w[Len(events) + 1] = p
      /\ SeqSet(w) = SeqSet(events) \union {p}
  BY <1>4, AppendProperties, SeqSetFacts
<1>7. events' = LastOf(w, FeedMax)
  BY <1>1
<1> HIDE DEF w
<1>8. events' = w
  <2>1. Len(w) <= FeedMax
    BY <1>2, <1>4, <1>5, <1>6
  <2> QED
    BY <1>4, <1>6, <1>7, <2>1, LastOfAll
<1>9. FeedOrdered'
  <2>1. ASSUME NEW i \in 1 .. Len(events) + 1
        PROVE  w[i] >= i /\ \A j \in 1 .. i - 1 : w[j] < w[i]
    <3>1. CASE i = Len(events) + 1
      <4>1. w[i] = p /\ i <= p
        BY <1>2, <1>4, <1>5, <1>6, <3>1
      <4>2. ASSUME NEW j \in 1 .. i - 1 PROVE w[j] < p
        <5>1. j \in DOMAIN events /\ w[j] = events[j]
          BY <1>4, <1>6, <3>1, <4>2
        <5>2. events[j] \in Kept
          BY <5>1 DEF Coherent, FeedCoherent
        <5> QED
          BY <1>3, <5>1, <5>2
      <4> QED
        BY <1>2, <1>4, <4>1, <4>2
    <3>2. CASE i # Len(events) + 1
      <4>1. i \in DOMAIN events /\ w[i] = events[i]
        BY <1>4, <1>6, <2>1, <3>2
      <4>2. \A j \in 1 .. i - 1 : w[j] = events[j]
        BY <1>4, <1>6, <4>1
      <4> QED
        BY <4>1, <4>2 DEF FeedOrdered
    <3> QED
      BY <3>1, <3>2
  <2>2. DOMAIN w = 1 .. Len(events) + 1
    BY <1>4, <1>6
  <2> QED
    BY <1>8, <2>1, <2>2 DEF FeedOrdered
<1>10. SeqSet(events)' = SeqSet(events) \union {p}
  BY <1>6, <1>8
<1>11. AnswersComplete'
  <2>1. ASSUME NEW q \in Poll
        PROVE  /\ \A a \in SeqSet(answer[q].recent), o \in SeqSet(events) \union {p} :
                    o <= a => o \in SeqSet(answer[q].recent)
               /\ q \notin disturbed => SeqSet(answer[q].recent) \subseteq SeqSet(events)
               /\ ppc[q] \in {"idle", "recent"} => answer[q].recent = <<>>
    <3>1. \A a \in SeqSet(answer[q].recent) : ~ (p <= a)
      BY <1>2, <1>3, KeptFacts
    <3> QED
      BY <3>1 DEF AnswersComplete
  <2>2. \A q \in Poll : SeqSet(answer[q].recent)' = SeqSet(answer[q].recent)
    BY <1>1
  <2> QED
    BY <1>1, <1>10, <2>1, <2>2 DEF AnswersComplete
<1>12. AllNoticed'
  <2>1. ~ (event[p].timestamp <= lastCriticalSeen)
    BY <1>1, <1>2, KeptFacts DEF StampsOrdered
  <2> QED
    BY <1>1, <1>10, <2>1 DEF AllNoticed, IsCritical
<1>13. StampsOrdered'
  <2>1. /\ PostsUnderWay' \subseteq PostsUnderWay
        /\ \A o \in Event : epc'[o] = "idle" <=> epc[o] = "idle"
    BY <1>1 DEF PostsUnderWay, Coherent, TypeOK
  <2> QED
    BY <1>1, <2>1, StampsFrame
<1> QED
  BY <1>9, <1>11, <1>12, <1>13

\* Steps of a poll or of a reset that leave the feed, the events and the page alone.
LEMMA SameEvents ==
  ASSUME InOrder, events' = events, event' = event, epc' = epc, clock' = clock,
         noticed' = noticed, lastCriticalSeen' = lastCriticalSeen
  PROVE  StampsOrdered' /\ FeedOrdered' /\ AllNoticed'
<1>1. StampsOrdered'
  BY StampsFrame DEF InOrder, PostsUnderWay
<1>2. FeedOrdered'
  BY DEF InOrder, FeedOrdered
<1>3. SeqSet(events)' = SeqSet(events)
  OBVIOUS
<1>4. AllNoticed'
  BY <1>3 DEF InOrder, AllNoticed, IsCritical
<1> QED
  BY <1>1, <1>2, <1>4

\* An answer holds the whole feed.
LEMMA PollStepInOrder ==
  ASSUME Coherent, InOrder, Roomy, NEW q \in Poll, PollStep(q), UNCHANGED pageVars
  PROVE  InOrder'
<1>1. /\ events' = events /\ event' = event /\ clock' = clock /\ epc' = epc
      /\ disturbed' = disturbed
      /\ \A o \in Poll \ {q} : ppc'[o] = ppc[o] /\ answer'[o] = answer[o]
  BY PollStepCases DEF Coherent
<1>2. /\ ppc'[q] \notin {"idle", "recent"}
      /\ \/ answer'[q].recent = LastOf(events, RecentMax)
         \/ answer'[q].recent = answer[q].recent
  BY PollStepCases DEF Coherent
<1>3. noticed' = noticed /\ lastCriticalSeen' = lastCriticalSeen
  BY DEF pageVars
<1>4. StampsOrdered' /\ FeedOrdered' /\ AllNoticed'
  BY <1>1, <1>3, SameEvents
<1>5. LastOf(events, RecentMax) = events
  <2>1. events \in Seq(Event) /\ RecentMax \in Nat
    BY ServerAssumption DEF Coherent, TypeOK
  <2> QED
    BY <2>1, FeedFits, LastOfAll DEF InOrder
<1>6. AnswersComplete'
  <2>1. SeqSet(events)' = SeqSet(events)
    BY <1>1
  <2>2. ASSUME NEW o \in Poll
        PROVE  /\ \A a \in SeqSet(answer'[o].recent), e \in SeqSet(events) :
                    e <= a => e \in SeqSet(answer'[o].recent)
               /\ o \notin disturbed => SeqSet(answer'[o].recent) \subseteq SeqSet(events)
               /\ ppc'[o] \in {"idle", "recent"} => answer'[o].recent = <<>>
    <3>1. CASE o # q \/ answer'[o].recent = answer[o].recent
      BY <1>1, <1>2, <3>1 DEF InOrder, AnswersComplete
    <3>2. CASE o = q /\ answer'[o].recent = events
      BY <1>2, <3>2
    <3> QED
      BY <1>2, <1>5, <3>1, <3>2
  <2> QED
    BY <1>1, <2>1, <2>2 DEF AnswersComplete
<1> QED
  BY <1>4, <1>6 DEF InOrder

\* A new poll has no answer yet.
LEMMA TickInOrder ==
  ASSUME Coherent, InOrder, NEW q \in Poll, BeginPoll(q), UNCHANGED pageVars
  PROVE  InOrder'
<1>1. /\ events' = events /\ event' = event /\ clock' = clock /\ epc' = epc
      /\ answer' = answer /\ disturbed \subseteq disturbed'
      /\ ppc[q] = "idle" /\ ppc' = [ppc EXCEPT ![q] = "recent"]
  BY DEF BeginPoll, eventVars
<1>2. noticed' = noticed /\ lastCriticalSeen' = lastCriticalSeen
  BY DEF pageVars
<1>3. StampsOrdered' /\ FeedOrdered' /\ AllNoticed'
  BY <1>1, <1>2, SameEvents
<1>4. AnswersComplete'
  <2>1. \A o \in Poll : ppc'[o] \in {"idle", "recent"} => ppc[o] \in {"idle", "recent"}
    BY <1>1 DEF Coherent, TypeOK
  <2>2. AnswersComplete
    BY DEF InOrder
  <2> QED
    BY <1>1, <2>1, <2>2 DEF AnswersComplete
<1> QED
  BY <1>3, <1>4 DEF InOrder

\* A poll ends.
LEMMA EndPollAnswers ==
  ASSUME Coherent, AnswersComplete, NEW q \in Poll, EndPoll(q)
  PROVE  AnswersComplete'
<1>1. /\ events' = events /\ disturbed' = disturbed \ {q}
      /\ ppc'[q] = "idle" /\ answer'[q].recent = <<>>
      /\ \A o \in Poll \ {q} : ppc'[o] = ppc[o] /\ answer'[o] = answer[o]
  BY EndPollFrame
<1>2. SeqSet(events)' = SeqSet(events)
  BY <1>1
<1>3. ASSUME NEW o \in Poll
      PROVE  /\ \A a \in SeqSet(answer'[o].recent), e \in SeqSet(events) :
                  e <= a => e \in SeqSet(answer'[o].recent)
             /\ o \notin disturbed' => SeqSet(answer'[o].recent) \subseteq SeqSet(events)
             /\ ppc'[o] \in {"idle", "recent"} => answer'[o].recent = <<>>
  <2>1. CASE o = q
    BY <1>1, <2>1, SeqSetFacts
  <2>2. CASE o # q
    BY <1>1, <2>2 DEF AnswersComplete
  <2> QED
    BY <2>1, <2>2
<1> QED
  BY <1>2, <1>3 DEF AnswersComplete

\* A poll that fails shows nothing.
LEMMA SkipTickInOrder ==
  ASSUME Coherent, InOrder, NEW q \in Poll, SkipTick(q)
  PROVE  InOrder'
<1>1. EndPoll(q) /\ noticed' = noticed /\ lastCriticalSeen' = lastCriticalSeen
  BY DEF SkipTick, pageVars
<1>2. events' = events /\ event' = event /\ epc' = epc /\ clock' = clock
  BY <1>1, EndPollFrame
<1> QED
  BY <1>1, <1>2, EndPollAnswers, SameEvents DEF InOrder

\* When the page flashes it has noticed every critical event up to the newest.
LEMMA ShowAnswerInOrder ==
  ASSUME Coherent, InOrder, NEW q \in Poll, ShowAnswer(q)
  PROVE  InOrder'
<1> USE DEF InOrder
<1>1. /\ EndPoll(q)
      /\ \/ /\ ~ Flashes(q) /\ noticed' = noticed
            /\ lastCriticalSeen' = lastCriticalSeen
         \/ /\ Flashes(q) /\ noticed' = noticed \union Criticals(answer[q])
            /\ lastCriticalSeen' = Newest(answer[q])
  BY ShowAnswerFrame
<1>2. events' = events /\ event' = event /\ epc' = epc /\ clock' = clock
  BY <1>1, EndPollFrame
<1>3. AnswersComplete'
  BY <1>1, EndPollAnswers
<1>4. CASE ~ Flashes(q)
  BY <1>1, <1>2, <1>3, <1>4, SameEvents
<1>5. CASE Flashes(q)
  <2>1. Criticals(answer[q]) # {}
    BY <1>5 DEF Flashes
  <2>2. PICK n \in Criticals(answer[q]) : Newest(answer[q]) = event[n].timestamp
    BY <2>1, NewestIsCritical
  <2>3. n \in SeqSet(answer[q].recent) /\ n \in Kept
    BY <2>1, <2>2, NewestIsCritical DEF Criticals, SeqSet
  <2>4. event[n].timestamp \in Nat /\ event[n].timestamp <= clock /\ n \in Event
    BY <2>3, KeptFacts
  <2>5. lastCriticalSeen' = event[n].timestamp
    BY <1>1, <1>5, <2>2
  <2>6. StampsOrdered'
    <3>1. PostsUnderWay' = PostsUnderWay
      BY <1>2 DEF PostsUnderWay
    <3>2. ASSUME NEW p \in PostsUnderWay PROVE event[n].timestamp < event[p].timestamp
      <4>1. p \in Event /\ epc[p] # "idle" /\ p # n
        BY <2>3, <3>2, KeptFacts DEF PostsUnderWay
      <4>2. n <= p
        BY <2>3, <3>2, KeptFacts DEF StampsOrdered
      <4>3. n < p
        BY <2>4, <4>1, <4>2, KeptFacts
      <4> QED
        BY <2>4, <4>1, <4>3 DEF StampsOrdered
    <3> QED
      BY <1>2, <2>4, <2>5, <3>1, <3>2 DEF StampsOrdered
  <2>7. FeedOrdered'
    BY <1>2 DEF FeedOrdered
  <2>8. AllNoticed'
    <3>1. ASSUME NEW p \in SeqSet(events), IsCritical(p),
                 event[p].timestamp <= event[n].timestamp
          PROVE  p \in Criticals(answer[q])
      <4>1. p \in Event /\ p \in Nat /\ n \in Nat /\ epc[p] # "idle"
        BY <2>3, KeptFacts
      <4>2. p <= n
        <5>1. ASSUME n < p PROVE FALSE
          <6>1. event[n].timestamp < event[p].timestamp
            BY <2>4, <4>1, <5>1 DEF StampsOrdered
          <6>2. event[p].timestamp \in Nat
            BY <4>1, KeptFacts
          <6> QED
            BY <2>4, <3>1, <6>1, <6>2
        <5> QED
          BY <4>1, <5>1
      <4>3. p \in SeqSet(answer[q].recent)
        BY <2>3, <4>2 DEF AnswersComplete
      <4> QED
        BY <3>1, <4>3 DEF Criticals, SeqSet
    <3>2. SeqSet(events)' = SeqSet(events) /\ noticed' = noticed \union Criticals(answer[q])
      BY <1>1, <1>2, <1>5
    <3> QED
      BY <1>2, <2>5, <3>1, <3>2 DEF AllNoticed, IsCritical
  <2> QED
    BY <1>3, <2>6, <2>7, <2>8
<1> QED
  BY <1>4, <1>5

\* A reset disturbs the polls under way and empties the feed.
LEMMA ResetInOrder ==
  ASSUME Coherent, AveragesCoherent, InOrder, NEW r \in Reset,
         BeginReset(r) \/ ResetStep(r), UNCHANGED pageVars
  PROVE  InOrder'
<1>1. /\ event' = event /\ clock' = clock /\ epc' = epc /\ ppc' = ppc /\ answer' = answer
      /\ noticed' = noticed /\ lastCriticalSeen' = lastCriticalSeen
      /\ disturbed \subseteq disturbed' /\ events' \in {events, <<>>}
  BY DEF BeginReset, ResetStep, ClearEvents, ZeroCounter, eventVars, pollVars, ghosts,
         pageVars
<1>2. CASE events' = events
  <2>1. AnswersComplete
    BY DEF InOrder
  <2>2. AnswersComplete'
    BY <1>1, <1>2, <2>1 DEF AnswersComplete
  <2> QED
    BY <1>1, <1>2, <2>2, SameEvents DEF InOrder
<1>3. CASE events' = <<>> /\ ClearEvents(r)
  <2>1. StampsOrdered'
    BY <1>1, StampsFrame DEF InOrder, PostsUnderWay
  <2>2. FeedOrdered'
    BY <1>3 DEF FeedOrdered
  <2>3. SeqSet(events)' = {}
    BY <1>3, SeqSetFacts
  <2>4. AllNoticed'
    BY <2>3 DEF AllNoticed
  <2>5. \A q \in Poll \ disturbed' : answer[q].recent = <<>>
    <3>1. Polling \subseteq disturbed
      BY <1>3 DEF ClearEvents, AveragesCoherent, ResetsUnderWay
    <3>2. \A q \in Poll \ disturbed' : ppc[q] = "idle"
      BY <1>1, <3>1 DEF Polling
    <3> QED
      BY <3>2 DEF InOrder, AnswersComplete
  <2>6. AnswersComplete'
    <3>1. AnswersComplete
      BY DEF InOrder
    <3>2. ASSUME NEW q \in Poll \ disturbed'
          PROVE  SeqSet(answer'[q].recent) = {}
      BY <1>1, <2>5, SeqSetFacts
    <3> QED
      BY <1>1, <2>3, <3>1, <3>2 DEF AnswersComplete
  <2> QED
    BY <2>1, <2>2, <2>4, <2>6 DEF InOrder
<1> QED
  BY <1>1, <1>2, <1>3 DEF BeginReset, ResetStep, ZeroCounter

\* A page that hears of a reset has flashed for nothing: any event is newer.
LEMMA ShowResetInOrder ==
  ASSUME Coherent, InOrder, NEW r \in Reset, ShowReset(r)
  PROVE  InOrder'
<1> USE DEF InOrder
<1>1. /\ events' = events /\ event' = event /\ clock' = clock /\ epc' = epc
      /\ ppc' = ppc /\ answer' = answer /\ disturbed' = disturbed
      /\ lastCriticalSeen' = 0
  BY DEF ShowReset, eventVars, pollVars, ghosts
<1>2. StampsOrdered'
  <2>1. PostsUnderWay' = PostsUnderWay
    BY <1>1 DEF PostsUnderWay
  <2>2. \A p \in PostsUnderWay : p \in Event /\ epc[p] # "idle"
    BY DEF PostsUnderWay
  <2>3. 0 <= clock /\ \A p \in PostsUnderWay : 0 < event[p].timestamp
    BY <2>2, KeptFacts DEF StampsOrdered
  <2> QED
    BY <1>1, <2>1, <2>3 DEF StampsOrdered
<1>3. FeedOrdered'
  BY <1>1 DEF FeedOrdered
<1>4. AnswersComplete'
  BY <1>1 DEF AnswersComplete
<1>5. AllNoticed'
  <2>1. \A p \in SeqSet(events) : p \in Event /\ epc[p] # "idle"
    BY KeptFacts
  <2>2. \A p \in SeqSet(events) : ~ (event[p].timestamp <= 0)
    BY <2>1, KeptFacts DEF StampsOrdered
  <2>3. SeqSet(events)' = SeqSet(events)
    BY <1>1
  <2> QED
    BY <1>1, <2>2, <2>3 DEF AllNoticed
<1> QED
  BY <1>2, <1>3, <1>4, <1>5

\* A restart leaves an empty feed.
LEMMA CrashInOrder ==
  ASSUME Coherent, InOrder, Crash
  PROVE  InOrder'
<1> USE DEF InOrder
<1>1. /\ events' = <<>> /\ event' = event /\ clock' = clock /\ answer' = answer
      /\ epc' = [p \in Event |-> IF p \in PostsUnderWay THEN "done" ELSE epc[p]]
      /\ ppc' = [q \in Poll |-> IF ppc[q] \in {"idle", "answered"} THEN ppc[q] ELSE "failed"]
      /\ disturbed' = disturbed \union Polling
      /\ noticed' = noticed /\ lastCriticalSeen' = lastCriticalSeen
  BY DEF Crash, RestartServer
<1>2. StampsOrdered'
  <2>1. /\ PostsUnderWay' = {}
        /\ \A p \in Event : epc'[p] = "idle" <=> epc[p] = "idle"
    BY <1>1 DEF PostsUnderWay
  <2> QED
    BY <1>1, <2>1, StampsFrame
<1>3. FeedOrdered'
  BY <1>1 DEF FeedOrdered
<1>4. SeqSet(events)' = {}
  BY <1>1, SeqSetFacts
<1>5. AllNoticed'
  BY <1>4 DEF AllNoticed
<1>6. AnswersComplete'
  <2>1. \A q \in Poll \ disturbed' : ppc[q] = "idle"
    BY <1>1 DEF Polling
  <2>2. \A q \in Poll \ disturbed' : answer[q].recent = <<>>
    BY <2>1, <1>1 DEF AnswersComplete
  <2>3. \A q \in Poll : ppc'[q] \in {"idle", "recent"} => ppc[q] = "idle"
    BY <1>1
  <2>4. \A q \in Poll : ppc'[q] \in {"idle", "recent"} => answer'[q].recent = <<>>
    BY <1>1, <2>3 DEF AnswersComplete
  <2>5. \A q \in Poll \ disturbed' : SeqSet(answer'[q].recent) = {}
    BY <1>1, <2>2, SeqSetFacts
  <2> QED
    BY <1>4, <2>4, <2>5 DEF AnswersComplete
<1> QED
  BY <1>2, <1>3, <1>5, <1>6

\* Every step preserves InOrder, if POSTs do not overlap, stamps grow and no event
\* leaves the feed or the answers.
LEMMA StepInOrder ==
  ASSUME ~ Overlap, 0 \notin StampSteps, Roomy
  PROVE  Coherent /\ Coherent' /\ AveragesCoherent /\ InOrder /\ [Next]_vars => InOrder'
<1> SUFFICES ASSUME Coherent, Coherent', AveragesCoherent, InOrder, [Next]_vars
             PROVE  InOrder'
  OBVIOUS
<1>1. CASE Server
  <2>1. ASSUME NEW p \in Event, BeginEvent(p) \/ EventStep(p), UNCHANGED pageVars
        PROVE  InOrder'
    BY <2>1, BeginEventInOrder, UpdateInOrder, AppendInOrder DEF EventStep
  <2>2. ASSUME NEW q \in Poll, PollStep(q), UNCHANGED pageVars
        PROVE  InOrder'
    BY <2>2, PollStepInOrder
  <2>3. ASSUME NEW r \in Reset, ResetStep(r), UNCHANGED pageVars
        PROVE  InOrder'
    BY <2>3, ResetInOrder
  <2> QED
    BY <1>1, <2>1, <2>2, <2>3 DEF Server
<1>2. CASE Page
  <2>1. ASSUME NEW q \in Poll, Tick(q) \/ ShowAnswer(q) \/ SkipTick(q)
        PROVE  InOrder'
    BY <2>1, TickInOrder, ShowAnswerInOrder, SkipTickInOrder DEF Tick
  <2>2. ASSUME NEW r \in Reset, PressReset(r) \/ ShowReset(r)
        PROVE  InOrder'
    BY <2>2, ResetInOrder, ShowResetInOrder DEF PressReset
  <2> QED
    BY <1>2, <2>1, <2>2 DEF Page
<1>3. CASE Crash
  BY <1>3, CrashInOrder
<1>4. CASE UNCHANGED vars
  <2>1. /\ events' = events /\ event' = event /\ clock' = clock /\ epc' = epc
        /\ ppc' = ppc /\ answer' = answer /\ disturbed' = disturbed
        /\ noticed' = noticed /\ lastCriticalSeen' = lastCriticalSeen
    BY <1>4 DEF vars, serverVars, eventVars, pollVars, ghosts, pageVars
  <2>2. AnswersComplete'
    BY <2>1 DEF InOrder, AnswersComplete
  <2> QED
    BY <2>1, <2>2, SameEvents DEF InOrder
<1> QED
  BY <1>1, <1>2, <1>3, <1>4 DEF Next

\* An answer that no reset overlaps makes the banner flash exactly if it holds a
\* critical event the page has not flashed for (index.html:179), if POSTs do not
\* overlap, the clock moves between two of them and no event leaves an answer.
LEMMA FlashIffNew ==
  ASSUME Coherent, InOrder, NEW q \in Poll \ disturbed
  PROVE  Flashes(q) <=> Criticals(answer[q]) \ noticed # {}
<1>1. ASSUME NEW p \in Criticals(answer[q]), p \notin noticed
      PROVE  Flashes(q)
  <2>1. p \in SeqSet(events) /\ IsCritical(p)
    BY <1>1 DEF InOrder, AnswersComplete, Criticals, SeqSet
  <2>2. ~ (event[p].timestamp <= lastCriticalSeen)
    BY <1>1, <2>1 DEF InOrder, AllNoticed
  <2>3. event[p].timestamp \in Nat /\ lastCriticalSeen \in Nat
    BY <2>1, KeptFacts
  <2>4. event[p].timestamp > lastCriticalSeen
    BY <2>2, <2>3
  <2> QED
    BY <1>1, <2>4 DEF Flashes
<1>2. Flashes(q) => Criticals(answer[q]) \ noticed # {}
  BY FlashIsNew
<1> QED
  BY <1>1, <1>2

\* "Flash the status banner on a NEW critical event" (index.html:179-187): if POSTs
\* do not overlap, stamps grow and no event leaves the answers, an answer makes the
\* banner flash exactly for critical events the page has not flashed for.
THEOREM FlashesHold ==
  ASSUME ~ Overlap, 0 \notin StampSteps, Roomy
  PROVE  Spec => FlashesOnNew
<1>1. Coherent /\ Coherent' /\ AveragesCoherent /\ InOrder /\ [Next]_vars => InOrder'
  BY StepInOrder
<1>2. Coherent /\ InOrder =>
        \A q \in Poll \ disturbed :
          ShowAnswer(q) => (Flashes(q) <=> Criticals(answer[q]) \ noticed # {})
  BY FlashIffNew
<1>3. Spec => []InOrder
  BY <1>1, InitInOrder, CoherentInvariance, AveragesInvariance, PTL DEF Spec
<1> QED
  BY <1>2, <1>3, CoherentInvariance, PTL DEF FlashesOnNew
=============================================================================
