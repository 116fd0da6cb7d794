SPECIFICATION SpecAll
CONSTANTS
    Candidate <- Attested
    Overflow = {"b1"}
    DegradedEligible = {}
    Evidence <- RelayEvidence
    Label <- RelayLabel
    RequiredReservations = 2
    RequiredOperatorGroups = 2
    MaxPerOperatorGroup = 2
    MaxConcurrentReservations = 2
    MaxQueuedOperations = 2
    Rank <- AttestedRank
    MaxRequested = 2
    MaxMishaps = 1
    Relay = {"r1", "r2"}
    Target = 1
    NodeClosest = TRUE
    MaxStarts = 2
    MaxPolicies = 3
    MaxRuns = 3
    MaxCalls = 1
    MaxWarm = 1
    MaxFaults = 1
INVARIANTS
    ReservationsTracked
    LivePolicyOwned
PROPERTIES
    DiversityKept
    OperationsSettle
CHECK_DEADLOCK FALSE
