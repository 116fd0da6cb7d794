SPECIFICATION SpecAll
CONSTANTS
  MaxVertices = 3
  Root = 0
  AclOps <- AdminOps
  AclGrantWins = TRUE
  OpOf <- MCAclOps
  GrantWins = FALSE
  SetWins = TRUE
  GroupAction <- MCGroupAction
CHECK_DEADLOCK FALSE
PROPERTY ScanReturns
