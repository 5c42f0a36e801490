CONSTANTS
    r1 = r1
    r2 = r2
    s1 = s1
    s2 = s2
    None = None
    Relays <- TwoRelays
    Spectators <- TwoSpectators
    Stallers <- TwoSpectators
    FragmentBufferMaxLength = 1
SPECIFICATION Spec
SYMMETRY RelaySymmetry
INVARIANTS
    OneOpenRelay
    NobodyLeftBehind
CHECK_DEADLOCK FALSE
