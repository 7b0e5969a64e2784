SPECIFICATION Spec
CONSTANTS
  Node <- FourNodes
  Slots = 3
  Cost <- DetourCost
  INFINITE_COST = 999
  LinkCap = 1
  Late = {}
  Segments <- ThreeToFour
  Dist <- DetourDist
INVARIANTS RoutingInv LoopFree RoutesLead CostsAreSound
