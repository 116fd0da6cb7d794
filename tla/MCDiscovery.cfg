SPECIFICATION Spec
CONSTANTS
    Client = {"c", "d"}
    Member = {"c"}
    Namespace = {"here", "there"}
    Slot = {1, 2}
    MaxClients = 1
    MaxRequests = 2
    MaxPerNamespace = 1
    Window = 2
    MaxOutstanding = 1
    ChallengeTtl = 2
    MaxTime = 2
    MaxCalls = 3
    MaxIssued = 1
    Owner = {"p"}
    Unnamed = "unnamed"
    BootstrapAddress = {"b1"}
    OtherAddress = {"b2", "o"}
    OwnerOf <- Owners
    RetryDelays = 1
    MaxHosts = 2
    MaxRaces = 1
INVARIANTS
    PresenceIsTruthful
    AdmissionIsFair
    NothingLeftOpen
    ReferencesAgree
PROPERTIES
    FindingsKept
    DialsAreSound
CHECK_DEADLOCK FALSE
