SPECIFICATION SpecAll
CONSTANTS
  MaxVertices = 5
  Root = 0
  AclOps <- AdminOps
  AclGrantWins = TRUE
  OpOf <- MCOpOf
  GrantWins = FALSE
  SetWins = TRUE
  GroupAction <- MCGroupAction
CHECK_DEADLOCK FALSE
INVARIANTS
  ReplayFromPrefix
  ConflictsResolved
PROPERTIES
  ScanReturns
  GrantsHold
