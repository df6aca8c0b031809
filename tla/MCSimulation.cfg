SPECIFICATION SimulationSpec
CONSTANTS
    None = None
    Gone = Gone
    Goals = {1, 2}
    Threads = 2
    Duration = 1
    IsaacCubes = {"a", "b"}
    MaxBridgeEvents = 3
    Sides = {"left", "right"}
    MaxHomes = 2
    MaxCommands = 4
    NumCubes = 1
    Attempts = 2
    MaxReplans = 2
    GraspModes = {"physical", "auto", "magnetic"}
    PlannerModes = {"moveit", "dynamic"}
    MaxTaskEvents = 2
    LastStamp = 4
    CloudEvery = 1
    Timeout = 1
    Tolerance = 1
    ClearUpdates = 2
    MaximumFrames = 2
    Keep = 2
    LastTick = 3
    MaxEdits = 2
    History = 2
    Transit = 1
INVARIANT AnswersAreHonest
PROPERTIES
    GoalsAreAnswered
    FollowsTheScene
    NothingUnwanted
    CloudsAreOfTheirTime
CHECK_DEADLOCK FALSE
