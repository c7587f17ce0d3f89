SPECIFICATION Spec
CONSTANTS
    q1 = q1
    q2 = q2
    q3 = q3
    t1 = t1
    t2 = t2
    Requests <- MCRequests
    IdOf <- MCIdOf
    TargetOf <- MCTargetOf
    PushRequests <- MCPushRequests
    RunRequests <- MCRunRequests
    Branches <- MCBranches
    SafeBranches <- MCSafeBranches
    AllowCurrent = TRUE
    MaxCrashes = 1
    MaxActs = 2
CHECK_DEADLOCK FALSE
PROPERTY
    NeverDiscards
