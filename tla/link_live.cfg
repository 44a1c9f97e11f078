\* Two ground stations on a faultless network; the satellite's clock is ahead, so
\* that every packet is exactly as old as the window when it arrives.
SPECIFICATION LiveSpec
\* The satellite waits in recvfrom for ever once the last datagram is gone.
CHECK_DEADLOCK FALSE
PROPERTIES HandshakeEnds ValidCommandExecuted
CONSTANTS
  g1 = g1
  g2 = g2
  Ground = {g1, g2}
  Legacy = {}
  CryptoMayFail = FALSE
  Window = 1
  Lossy = FALSE
  DupKeys = FALSE
  DupData = FALSE
  Damaging = FALSE
  DamagedHeaders = {}
  StartTime = 2
  MaxNow = 2
  SatSkew = 1
  MaxBoots = 1
  MaxEpochs = 3
  NoKey = NoKey
  NoPeer = NoPeer
