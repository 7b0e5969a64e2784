SPECIFICATION Spec
CONSTANTS
  p1 = p1
  p2 = p2
  f1 = f1
  Peers = {p1, p2}
  IpLen <- SameLen
  MAX_PEER_NUM = 2
  NoIP = NoIP
  Garbled = Garbled
  Files = {f1}
  Sockets = {1, 2}
  NoSocket = NoSocket
  NoPeer = NoPeer
  MaxVersion = 2
  MaxBoots <- P1Twice
  Reporters = {p1}
  Leaving = {p1}
  Fragile = {}
  InCap = 1
  OutCap = 1
  PEER_ALIVE_INTERVAL = 0
  Prompt = TRUE
INVARIANTS TypeOK SocketsAreOwned 
CHECK_DEADLOCK FALSE
