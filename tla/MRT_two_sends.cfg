SPECIFICATION Spec
CONSTANTS
  MaxSegLen = 2
  ChanCap = 2
  GbnWindow = 1
  SynMaxRetry = 1
  SendLens = {2}
  MaxSends = 2
  MaxConnects = 1
  Disconnects = FALSE
  Reconnects = FALSE
  Timers = {t1, t2}
  Pacing = {"slowpoll", "slowtimer"}
  RecvLens = {1}
INVARIANTS TypeOK
PROPERTIES ImplementsStream AckedWereAccepted
SYMMETRY TimerSymmetry
CHECK_DEADLOCK FALSE
