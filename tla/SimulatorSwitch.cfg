SPECIFICATION FairSpec
CONSTANTS
    Offsets = {4, 5, 15}
    NumPorts = 3
    Groups <- EdgeGroups
    Verdicts <- EdgeVerdicts
    EgressMarks = FALSE
    MaxLeaked = 2
CHECK_DEADLOCK FALSE
INVARIANTS
    HeaderIsAccounted
    OnlyDropsLeak
PROPERTIES
    ImplementsSwitch
