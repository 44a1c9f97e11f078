\* Loss, damage, duplicated public keys, failing OpenSSL calls and a plaintext
\* sender.  The script sends its first packet twice itself.
SPECIFICATION Spec
\* The satellite exits after four datagrams.
CHECK_DEADLOCK FALSE
INVARIANTS TypeOK
PROPERTIES PromiseKept
CONSTANTS
  g1 = g1
  p1 = p1
  Ground = {g1}
  Legacy = {p1}
  CryptoMayFail = TRUE
  Window = 2
  Lossy = TRUE
  DupKeys = TRUE
  DupData = FALSE
  Damaging = TRUE
  DamagedHeaders = {}
  StartTime = 4
  MaxNow = 4
  NoKey = NoKey
