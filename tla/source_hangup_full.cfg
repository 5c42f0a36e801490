CONSTANTS
    s1 = s1
    s2 = s2
    owner = owner
    thief = thief
    NoOne = NoOne
    Spectators <- TwoSpectators
    Leavers <- OneLeaver
    Stallers <- Nobody
    Closers <- TwoClosers
    MaxFragments = 1
    FragmentBufferMaxLength = 1
    MaxInitialOptions <- AllInitial
    LimiterEnabled = FALSE
SPECIFICATION FairSpec
PROPERTIES
    CloseReachesAll
CHECK_DEADLOCK FALSE
