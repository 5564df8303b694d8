SPECIFICATION Spec
CONSTANTS
    NumPaths = 2
    Edge = "e1"
    TestType = "live-live"
    Paths <- LabPaths
    LossyPaths <- AllPaths
    Entries <- SwitchedEntries
    Deduplicate <- LabDeduplicate
    MaxPackets = 5
    MaxLag = 5
    WINDOW_SIZE = 2
    IDX_MOD = 2
    SEQ_MOD = 4
CHECK_DEADLOCK FALSE
INVARIANTS
    TypeOK
    AtMostOnceToHost
    LossIsExplained
    OnePacketPerSeqNo
PROPERTIES
    ImplementsChannel
