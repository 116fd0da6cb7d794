SPECIFICATION SpecAll
CONSTANTS
    p1 = p1
    p2 = p2
    p3 = p3
    p4 = p4
    v = v
    Peer <- MCPeer
    Replica <- MCPeer
    Hash <- MCHash
    Signers <- MCSigners
    Credentials <- MCSigners
    Rotated <- MCRotated
    ThresholdPct = 51
    Copy = {r1, r2}
    MaxVertices = 4
    OverlapBound = 2
    ThrowBound = 2
SYMMETRY Symmetry
CHECK_DEADLOCK FALSE
INVARIANTS
    AggregateVerifies
    FinalizedShareSigner
    StatesFaithful
PROPERTY
    SignaturesNeverDrop
