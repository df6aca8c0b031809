SPECIFICATION PipelineSpec
CONSTANTS
    MinDelay = 1
    MaxDelay = 10
    NoFrame = NoFrame
    QueueSize = 1
    Commands = {"pause_resume", "stop", "restart", "seek", "start"}
    Plans <- MCPlans
CHECK_DEADLOCK FALSE
INVARIANT EndIsEarned
PROPERTIES EveryRunEnds StaleGeometryGoes
