SPECIFICATION FairSpec
CONSTANTS
  p1 = p1
  p2 = p2
  f1 = f1
  Peers = {p1, p2}
  IpLen <- SameLen
  MAX_PEER_NUM = 2
  NoIP = NoIP
  Garbled = Garbled
  Files = {f1}
  Sockets = {1, 2}
  NoSocket = NoSocket
  NoPeer = NoPeer
  MaxVersion = 1
  MaxBoots <- Once
  Reporters = {p1}
  Leaving = {}
  Fragile = {p1}
  InCap = 1
  OutCap = 1
  PEER_ALIVE_INTERVAL = 0
  Prompt = TRUE
PROPERTIES  ReportsSpread
CHECK_DEADLOCK FALSE
