\* Loss, damage, a plaintext sender, a slow satellite clock
\* and a restart of the satellite.
SPECIFICATION Spec
\* The satellite waits in recvfrom for ever once the last datagram is gone.
CHECK_DEADLOCK FALSE
INVARIANTS TypeOK ExpiredNeverExecuted GuardRemembersExecuted AckFollowsExecution
CONSTANTS
  g1 = g1
  p1 = p1
  Ground = {g1}
  Legacy = {p1}
  CryptoMayFail = FALSE
  Window = 2
  Lossy = TRUE
  DupKeys = FALSE
  DupData = FALSE
  Damaging = TRUE
  DamagedHeaders <- MCDamagedHeaders
  StartTime = 4
  MaxNow = 5
  SatSkew <- MCSkew
  MaxBoots = 2
  MaxEpochs = 3
  NoKey = NoKey
  NoPeer = NoPeer
