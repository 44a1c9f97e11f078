------------------------------ MODULE EventLog ------------------------------
(***************************************************************************)
(* What the dashboard's server promises: as long as the log is exact, an   *)
(* event is counted and kept in the feed at once.  Requests that overlap   *)
(* may spoil it, and it may then show anything; a clear that nothing       *)
(* overlaps makes it exact again, whatever was lost before.                *)
(***************************************************************************)
EXTENDS Naturals, Sequences

CONSTANTS Event, FeedMax

VARIABLES accepted, rejected, feed, exact

Init == accepted = 0 /\ rejected = 0 /\ feed = <<>> /\ exact = TRUE

\* The deque drops its oldest event when it is full.
Keep(p) ==
  feed' = IF Len(feed) < FeedMax THEN Append(feed, p) ELSE Append(Tail(feed), p)

Accept(p) == accepted' = accepted + 1 /\ UNCHANGED rejected /\ Keep(p)
Reject(p) == rejected' = rejected + 1 /\ UNCHANGED accepted /\ Keep(p)

Count(p) == (Accept(p) \/ Reject(p)) /\ exact /\ UNCHANGED exact

Clear == accepted' = 0 /\ rejected' = 0 /\ feed' = <<>> /\ exact' = TRUE

Spoil == exact' = FALSE

Next == (\E p \in Event : Count(p)) \/ Clear \/ Spoil

Spec == Init /\ [][Next]_<<accepted, rejected, feed, exact>>
=============================================================================
