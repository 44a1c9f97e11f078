\* The public key is delivered twice: README and source promise no replays.
SPECIFICATION Spec
\* The satellite waits in recvfrom for ever once the last datagram is gone.
CHECK_DEADLOCK FALSE
INVARIANTS AtMostOnce
CONSTANTS
  g1 = g1
  Ground = {g1}
  Legacy = {}
  CryptoMayFail = FALSE
  Window = 1
  Lossy = FALSE
  DupKeys = TRUE
  DupData = FALSE
  Damaging = FALSE
  DamagedHeaders = {}
  StartTime = 2
  MaxNow = 2
  SatSkew = 0
  MaxBoots = 1
  MaxEpochs = 3
  NoKey = NoKey
  NoPeer = NoPeer
