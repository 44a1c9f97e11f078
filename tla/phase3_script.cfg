\* The demonstration on a faultless network, as slow as the window allows.
SPECIFICATION LiveSpec
\* The satellite exits after four datagrams.
CHECK_DEADLOCK FALSE
INVARIANTS ScriptVerdicts
PROPERTIES DemonstrationEnds
CONSTANTS
  g1 = g1
  Ground = {g1}
  Legacy = {}
  CryptoMayFail = FALSE
  Window = 2
  Lossy = FALSE
  DupKeys = FALSE
  DupData = FALSE
  Damaging = FALSE
  DamagedHeaders = {}
  StartTime = 4
  MaxNow = 6
  NoKey = NoKey
