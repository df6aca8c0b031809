SPECIFICATION Spec
CONSTANTS
    ClearDuration = 2
    Timeout = 3
    ReplanDelay = 1
    RecoverDelay = 1
    Confirmation = 2
    EscapeGrace = 2
    StartupGrace = 4
INVARIANT LatchedStaysEmergencyStop
