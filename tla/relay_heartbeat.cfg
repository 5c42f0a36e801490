CONSTANTS
    r1 = r1
    r2 = r2
    s1 = s1
    s2 = s2
    None = None
    Relays <- OneRelay
    Spectators <- OneSpectator
    Stallers <- Nobody
    FragmentBufferMaxLength = 1
SPECIFICATION FairSpec
PROPERTIES
    HeartbeatsEnd
CHECK_DEADLOCK FALSE
