SPECIFICATION SpecAll
CONSTANTS
  MaxVertices = 2
  Root = 0
  AclOps <- AllOps
  AclGrantWins = FALSE
  OpOf <- MCOpOf
  GrantWins = FALSE
  SetWins = TRUE
  GroupAction <- MCGroupAction
CHECK_DEADLOCK FALSE
INVARIANT ACLConvergence
