SPECIFICATION Spec
INVARIANTS
    CleanedUp
    VerdictsEarned
PROPERTIES
    NostrIsFaithful
    CallsSettle
    JoinerCatchesUp
CHECK_DEADLOCK FALSE
