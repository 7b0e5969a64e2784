SPECIFICATION Spec
CONSTANTS
  MaxSegLen = 2
  ChanCap = 2
  GbnWindow = 1
  SynMaxRetry = 1
  SendLens = {2}
  MaxSends = 1
  MaxConnects = 2
  Disconnects = TRUE
  Reconnects = FALSE
  Timers = {t1}
  Pacing = {}
  RecvLens = {1}
INVARIANTS StreamInv HandshakeAgreement SentAreBuffered
PROPERTIES ImplementsStream ExpectNeverRewinds
CHECK_DEADLOCK FALSE
