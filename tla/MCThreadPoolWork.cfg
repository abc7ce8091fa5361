SPECIFICATION Spec
CONSTANTS
    p1 = p1
    p2 = p2
    None = None
    Pushers <- MCPushers
    Count = 2
    MaxPushes = 6
    MaxRuns = 2
INVARIANT
    WorkRunsOnce
CHECK_DEADLOCK FALSE
