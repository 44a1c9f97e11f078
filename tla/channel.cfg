\* Three runs on two ports, so that one of them uses a port again; answers late,
\* lost, reordered or once duplicated.
SPECIFICATION LiveSpec
INVARIANTS TypeOK GivesUpOnlyWhenLate ResponseIsEarned
PROPERTIES SenderEnds
CONSTANTS
  Run = {r1, r2, r3}
  Port = {p1, p2}
  Timeout = 1
  MaxDup = 1
  Nobody = Nobody
