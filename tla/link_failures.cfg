\* Two sessions, failing OpenSSL calls and a restart of the satellite.
SPECIFICATION Spec
\* The satellite waits in recvfrom for ever once the last datagram is gone.
CHECK_DEADLOCK FALSE
SYMMETRY Symmetry
INVARIANTS OnlySealedExecuted AtMostOncePerGuard AtMostOnce
PROPERTIES PromiseKept GuardFollowsSession
CONSTANTS
  g1 = g1
  g2 = g2
  Ground = {g1, g2}
  Legacy = {}
  CryptoMayFail = TRUE
  Window = 1
  Lossy = FALSE
  DupKeys = FALSE
  DupData = FALSE
  Damaging = FALSE
  DamagedHeaders = {}
  StartTime = 2
  MaxNow = 2
  SatSkew = 0
  MaxBoots = 2
  MaxEpochs = 3
  NoKey = NoKey
  NoPeer = NoPeer
