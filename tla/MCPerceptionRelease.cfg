SPECIFICATION PerceptionSpec
CONSTANTS
    None = None
    Models = {"n", "s"}
    Unknown = "unknown"
    MaxGeneration = 2
    DepthModes = {"video_depth", "fast_depth", "mast3r_slam", "st4rtrack", "hybrid", "rgbd"}
    MaxMethodRequests = 2
    MaxCalls = 5
    MaxKeyframes = 3
    LoopClosure = TRUE
    WarmupFrames = 1
    CalibrationFrames = 2
    Factors = {0, 1, 2}
    Spread = 2
    WindowFrames = 4
    MinValidFrames = 3
    AlignmentHold = 1
    LastStamp = 3
    LastStampAgain = 1
    QueueSize = 1
    MaxDataAge = 1
    ResetThreshold = 1
    ObstacleModes = {"edgetam", "pointcloud", "yolo"}
    MaxModeRequests = 2
    TrackIds = {1}
    MaxTrackMissing = 1
    MinimumDynamicHits = 3
    ReleaseUpdates = 5
    Objects = {1}
    PersonHits = 3
    MaxPersonMissing = 2
    CloudHold = 1
    MaskHold = 1
    CenterHold = 1
    Anchored = TRUE
    Warmup = 2
    TagHold = 1
    MaxFits = 2
    MaxCommands = 2
    MinDelay = 1
    MaxDelay = 4
    MaxUpdates = 2
    MaxRuntimes = 1
    LastTick = 3
    Interval = 1
    MaxId = 2
    HandHits = 2
    MaximumOccludedFrames = 1
    MaximumMissedFrames = 2
    MaximumTentativeMisses = 0
    MinimumMotionHits = 1
    HandHold = 1
    TemporalHold = 1
INVARIANT
    ReleaseIsDebounced
CHECK_DEADLOCK FALSE
