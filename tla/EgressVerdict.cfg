SPECIFICATION Spec
CONSTANTS
    Offsets = {5}
    NumPorts = 3
    Groups <- EdgeGroups
    Verdicts <- EdgeVerdicts
    EgressMarks = TRUE
    MaxLeaked = 2
CHECK_DEADLOCK FALSE
INVARIANTS
    DroppedCopiesStay
