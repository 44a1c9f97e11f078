\* Two events, a poll and a reset that overlap as they like; the feed holds one event.
SPECIFICATION Spec
INVARIANTS TypeOK AnswersCoherent ResetStartsFromZero NothingInvented
PROPERTIES LogKept
CONSTANTS
  Event = {1, 2}
  Poll = {q1}
  Reset = {b1}
  Bodies <- MCBodies
  FeedMax = 1
  RecentMax = 1
  StampSteps = {1}
  Overlap = TRUE
  Absent = Absent
  MaxClears = 1
