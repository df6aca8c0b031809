SPECIFICATION Spec
CONSTANTS
    SideOrder <- LeftOnly
    CrisisRetries = 0
    RouteRetries = 0
    RouteRefreshes = 0
    TargetRetries = 0
    WaitingRetries = 0
    Commands = {"left_target", "home", "pause", "resume", "reset", "moveit"}
    Budgets <- ArmBudgets
    MaxGoals = 2
INVARIANTS
    TypeOK
    StopLeavesNothing
    AnswerOwed
CHECK_DEADLOCK FALSE
