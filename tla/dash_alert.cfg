\* Two forged packets reported while the server is slow.
SPECIFICATION Spec
PROPERTIES FlashesOnNew
CONSTANTS
  Event = {1, 2}
  Poll = {q1}
  Reset = {}
  Bodies <- MCBodies
  FeedMax = 2
  RecentMax = 2
  StampSteps = {1}
  Overlap = TRUE
  Absent = Absent
  MaxClears = 0
