\* A packet reported while the reset button is pressed.
SPECIFICATION Spec
INVARIANTS DemoStartsFromZero
CONSTANTS
  Event = {1}
  Poll = {q1}
  Reset = {b1}
  Bodies <- MCBodies
  FeedMax = 1
  RecentMax = 1
  StampSteps = {1}
  Overlap = TRUE
  Absent = Absent
  MaxClears = 1
