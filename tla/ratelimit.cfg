CONSTANTS
    a = a
    b = b
    IPs <- TwoIPs
    MaxRequestsPerSecond = 2
    RequestBurst = 3
    CleanupIntervalSeconds = 2
    MaxTime = 4
SPECIFICATION Spec
SYMMETRY IPSymmetry
INVARIANTS
    RateIsLimited
    RefusesOnlyExcess
PROPERTIES
    ImplementsTokenBucket
CHECK_DEADLOCK FALSE
