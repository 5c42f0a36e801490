CONSTANTS
    s1 = s1
    s2 = s2
    owner = owner
    thief = thief
    NoOne = NoOne
    Spectators <- TwoSpectators
    Leavers <- OneLeaver
    Stallers <- OneStaller
    Closers <- TwoClosers
    MaxFragments = 2
    FragmentBufferMaxLength = 1
    MaxInitialOptions <- AllOrOneInitial
    LimiterEnabled = TRUE
SPECIFICATION FairSpec
INVARIANTS
    NoSilentLoss
    BufferIsRecent
    NobodyLeftBehind
PROPERTIES
    ImplementsDelivery
    CloseReachesAllUnlessWedged
    EverybodyStopsUnlessWedged
    HangUpReleasesUnlessWedged
CHECK_DEADLOCK FALSE
