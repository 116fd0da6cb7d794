SPECIFICATION FairSyncSpec
CONSTANTS
  Node = {n1, n2}
  Signer = {n1, n2}
  MaxVertices = 3
  Writer = {n1, n2}
  Root = root
  MaxRetries = 1
  MaxInFlight = 1
  Lossy = TRUE
CHECK_DEADLOCK FALSE
INVARIANTS
  AcceptIsComplete
  HeldIsSigned
PROPERTIES
  Synchronises
  TrafficDiesDown
