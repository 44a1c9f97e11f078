\* Two forged packets reported one after the other, two polls and a reset.
SPECIFICATION LiveSpec
PROPERTIES FlashesOnNew NeverFlashesAgain PageCatchesUp
CONSTANTS
  Event = {1, 2}
  Poll = {q1, q2}
  Reset = {b1}
  Bodies <- MCForged
  FeedMax = 2
  RecentMax = 2
  StampSteps = {1}
  Overlap = FALSE
  Absent = Absent
  MaxClears = 1
