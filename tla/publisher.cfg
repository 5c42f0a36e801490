CONSTANTS
    QueueMaxLength = 2
    MaxFragments = 4
    MaxConnections = 2
    MaxHeartbeats = 1
SPECIFICATION FairSpec
INVARIANTS
    QueueIsNewest
    ServerUnderstands
    NoGapOnConnection
    ReadyIsCurrent
PROPERTIES
    ImplementsDelivery
    CloseEnds
    StreamEnds
    EventuallyReady
CHECK_DEADLOCK FALSE
