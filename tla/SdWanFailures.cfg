SPECIFICATION Spec
CONSTANTS
    Paths = {1, 2}
    Mode = "tcp"
    CliFails = TRUE
    CheckInterval = 2
    ProbeInterval = 3
    TargetLatency = 2
    Threshold = 3
    MaxAge = 2
    MaxSamples = 1
    MaxInFlight = 1
CHECK_DEADLOCK FALSE
PROPERTIES
    OrphanStays
    BackupLeftOnlyByFailure
