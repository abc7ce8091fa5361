SPECIFICATION FairSpec
CONSTANTS
    p1 = p1
    p2 = p2
    None = None
    Pushers <- MCPushers
    Count = 2
    MaxPushes = 5
    MaxRuns = 2
INVARIANTS
    NoLostWakeup
    Balanced
    JoinedBeforeFree
    IdleRunsOnce
PROPERTIES
    IdleRuns
    JoinEnds
CHECK_DEADLOCK FALSE
