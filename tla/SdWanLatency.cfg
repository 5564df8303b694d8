SPECIFICATION FairSpec
CONSTANTS
    Paths = {1, 2}
    Mode = "latency"
    CliFails = FALSE
    CheckInterval = 2
    ProbeInterval = 3
    TargetLatency = 2
    Threshold = 3
    MaxAge = 4
    MaxSamples = 2
    MaxInFlight = 1
CHECK_DEADLOCK FALSE
INVARIANTS
    OneTimer
    CopiesAreMeasured
    HandlesMatchTables
    RoutesAgree
    MeasuresMatchMode
    OnlyFirstGapIsCarried
    PipelineExists
PROPERTIES
    ChosenPathWasHeard
    ImplementsRouteControl
    AnswersMoveWithFlow
