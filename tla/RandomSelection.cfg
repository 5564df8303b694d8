SPECIFICATION Spec
CONSTANTS
    TestType = "random"
    NumPaths = 2
    Simulated = FALSE
    HostPackets <- Traffic
    Functions <- LabFunctions
    Peer <- LabPeer
    Steering <- LabSteering
    DestSegment <- LabDestSegment
    FunctionOf <- LabFunctionOf
    HostPort <- LabHostPort
    TransitEntry <- LabTransitEntry
    NoTlv = NoTlv
    NoInner = NoInner
    NoStamp = NoStamp
    NoSegment = NoSegment
    Unspecified = Unspecified
    Nowhere = Nowhere
    WINDOW_SIZE = 4
    IDX_MOD = 8
    SEQ_MOD = 16
CHECK_DEADLOCK FALSE
INVARIANTS
    NothingStranded
