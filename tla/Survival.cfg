SPECIFICATION FairSpec
CONSTANTS
    NumPaths = 3
    Edge = "e1"
    TestType = "live-live"
    Paths <- LabPaths
    LossyPaths <- AllButOne
    Entries <- LabEntries
    Deduplicate <- LabDeduplicate
    MaxPackets = 4
    MaxLag = 2
    WINDOW_SIZE = 3
    IDX_MOD = 8
    SEQ_MOD = 8
CHECK_DEADLOCK FALSE
INVARIANTS
    SurvivorIsDelivered
PROPERTIES
    EventuallyReceived
