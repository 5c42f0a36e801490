CONSTANTS
    MaxSegments = 4
    EmptySegments <- SecondEmpty
    PlaylistSize = 2
SPECIFICATION FairSpec
INVARIANTS
    SentWithoutGap
    NothingHeldBack
    PlaylistIsRecent
PROPERTIES
    EverythingIsSent
CHECK_DEADLOCK FALSE
