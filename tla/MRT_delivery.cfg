SPECIFICATION FairSpec
CONSTANTS
  MaxSegLen = 2
  ChanCap = 1
  GbnWindow = 1
  SynMaxRetry = 1
  SendLens = {3}
  MaxSends = 1
  MaxConnects = 1
  Disconnects = TRUE
  Reconnects = FALSE
  Timers = {t1}
  Pacing = {"slowpoll", "slowtimer", "atomiccount"}
  RecvLens = {}
PROPERTIES EventuallyDelivered  CallsReturn
CHECK_DEADLOCK FALSE
