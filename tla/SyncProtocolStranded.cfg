SPECIFICATION SyncSpec
CONSTANTS
  Node = {n1, n2, n3}
  Signer = {n1, n2, n3}
  MaxVertices = 1
  Writer = {n1}
  Root = root
  MaxRetries = 3
  MaxInFlight = 1
  Lossy = FALSE
CHECK_DEADLOCK FALSE
INVARIANT NothingStranded
