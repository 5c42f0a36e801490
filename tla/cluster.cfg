CONSTANTS
    a = a
    b = b
    v = v
    NoServer = NoServer
    Servers <- TwoServers
    Spectators <- OneSpectator
    PushAllowed <- TwoServers
    RelayFrom <- EachOther
    RefreshInterval = 1
    AnnounceDelay = 0
SPECIFICATION FairSpec
INVARIANTS
    RegisteredWhileOpen
    NobodyWaitsForItself
    RelaysFollowConfiguration
PROPERTIES
    AbandonedRelaysClose
    RegistryFollows
