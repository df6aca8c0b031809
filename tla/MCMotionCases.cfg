SPECIFICATION CasesSpec
CONSTANTS
    SideOrder <- BothArms
    CrisisRetries = 0
    RouteRetries = 0
    RouteRefreshes = 0
    TargetRetries = 0
    WaitingRetries = 0
    Commands = {"both_targets"}
    Budgets <- PairBudgets
    MaxGoals = 1
INVARIANTS
    TargetsAccounted
    RouteHasWaypoints
PROPERTY EndsVisibly
CHECK_DEADLOCK FALSE
