SPECIFICATION FairSpec
CONSTANTS
  pieces_of_2 = pieces_of_2
  short = short
  Files = {pieces_of_2, short}
  Holders <- Counts
  Sizes <- Lengths
  Edited = {short}
  Written = {short}
  MaxTime = 2
  MaxEvents = 1
  Remote = {short}
  BIGFILE_THRES = 0
  CleanHeap = FALSE
INVARIANTS TypeOK  ThreadsHaveTask OneTaskPerFile 
CHECK_DEADLOCK FALSE
PROPERTIES TaskIsServed
