CONSTANTS
    c1 = c1
    c2 = c2
    x = x
    Relay = Relay
    None = None
    Conns <- TwoConns
    Publishers <- TwoConns
    Spectators <- SecondConn
    Streams <- OneStream
    MaxConnections = 2
    MaxFragments = 1
    Lasting <- SecondConn
    MaxHeartbeats = 1
SPECIFICATION FairSpec
INVARIANTS
    OpenSourceIsRegistered
    EntryHasPublisher
    CountsConnections
    RepliesInOrder
PROPERTIES
    LeavingReleases
    ImplementsOwnership
CHECK_DEADLOCK FALSE
