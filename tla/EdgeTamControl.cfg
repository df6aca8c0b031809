SPECIFICATION ControlSpec
CONSTANTS
    InitialModes = {"pointcloud"}
    MaxGeneration = 2
    MaxCalls = 2
    DiagnosticsDepth = 1
    None = None
INVARIANTS NeverActiveUnloaded LoadingIsOwed
PROPERTIES AnswersAnnounceNewest
CHECK_DEADLOCK FALSE
