SPECIFICATION SpecAll
CONSTANTS
    Messages = 4
    Generations = 3
    MaxSubscribers = 2
    Capacity = 1
    Object = {"o1", "o2"}
    Kind = {"sync"}
    MaxQueues = 2
    MaxCalls = 3
    MaxStarts = 2
    Peer = {"p1", "p2"}
    Relay = {"r1"}
    Backend = {"b1", "b2"}
    MaxAttempts = 2
    MaxEvents = 2
    MaxLifecycles = 2
    MaxThrows = 1
INVARIANTS
    AntiEntropyAlive
    ObservationAlive
    QueueSound
PROPERTIES
    StoppedDrains
    RecoveryEnds
    ImplementsMailbox
    EveryMessageProcessed
CHECK_DEADLOCK FALSE
