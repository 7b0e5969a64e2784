SPECIFICATION FairSpec
CONSTANTS
  Nodes = {1, 2, 3}
  Edges <- Triangle
  MaxFd = 3
  MaxStarts <- Once
  MaxMnp <- MnpOn1And2
  Stopping = {2}
  Prompt = TRUE
  CloseIsQuick = TRUE
INVARIANTS TypeOK 
PROPERTIES AllConnected OverlayForms LossIsNoticed
CHECK_DEADLOCK FALSE
