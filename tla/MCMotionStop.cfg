SPECIFICATION Spec
CONSTANTS
    SideOrder <- LeftOnly
    CrisisRetries = 0
    RouteRetries = 0
    RouteRefreshes = 0
    TargetRetries = 0
    WaitingRetries = 0
    Commands = {"left_target"}
    Budgets <- StopBudgets
    MaxGoals = 2
INVARIANTS
    StopCancelsMotion
CHECK_DEADLOCK FALSE
