SPECIFICATION FairSpec
CONSTANTS
  Node <- FourNodes
  Slots = 5
  Cost <- StarCost
  INFINITE_COST = 999
  LinkCap = 1
  Late = {4}
  Segments <- OneToFour
  Dist <- StarDist
PROPERTIES  Converges SegmentsArrive
