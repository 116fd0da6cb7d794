SPECIFICATION SpecAll
CONSTANTS
  Hash = {1, 2, 3, 4}
  Root = 0
  Replica = {r1, r2, r3}
  Querying = {r1}
SYMMETRY Symmetry
CHECK_DEADLOCK FALSE
INVARIANTS
  CausallyClosed
  SortsAreLinear
  FrontierIsHeads
  CausalityCacheSound
  
PROPERTIES
  LocalVertexSeesAll
