CONSTANTS
    r1 = r1
    r2 = r2
    s1 = s1
    s2 = s2
    None = None
    Relays <- OneRelay
    Spectators <- TwoSpectators
    Stallers <- OneSpectator
    FragmentBufferMaxLength = 1
SPECIFICATION FairSpec
PROPERTIES
    NobodyWaitsForever
    ClosedRelayEnds
    AbandonedRelayCloses
CHECK_DEADLOCK FALSE
