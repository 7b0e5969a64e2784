SPECIFICATION FairSpec
CONSTANTS
  Links = {"LAB2", "MRT-MNP", "MNP-MRT", "MNP-ON", "ON-MNP", "ON-ON", "P2P", "P2T", "T2P"}
  Threads = {"a", "b"}
  Writers <- WritersOf
  Turns = {TRUE, FALSE}
  SIZE = 2
  FSIZE = 2
  Bodies <- SomeBodies
  Files <- SomeFiles
  MaxMsgs = 2
  Cap = 5
INVARIANTS TypeOK NothingForged
PROPERTIES ImplementsFrames
CHECK_DEADLOCK FALSE
