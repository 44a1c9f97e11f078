\* A dashboard that may be slow, hang or reset the connection at any point.
SPECIFICATION LiveSpec
INVARIANTS TypeOK HoldBounded DeadDashboardIsCheap BacklogBounded
PROPERTIES PostReturns
CONSTANTS
  Timeout = 3
  MaxChunks = 2
  MaxBacklog = 2
