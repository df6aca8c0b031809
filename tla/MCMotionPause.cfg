SPECIFICATION Spec
CONSTANTS
    SideOrder <- LeftOnly
    CrisisRetries = 0
    RouteRetries = 0
    RouteRefreshes = 0
    TargetRetries = 0
    WaitingRetries = 0
    Commands = {"left_target"}
    Budgets <- PauseBudgets
    MaxGoals = 1
PROPERTIES
    OnlyEscapesPassPause
CHECK_DEADLOCK FALSE
