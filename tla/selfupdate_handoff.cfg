SPECIFICATION Spec
CONSTANTS
    u1 = u1
    u2 = u2
    Updates <- MCUpdates
    Changes <- MCUpdates
    CommitOf <- MCCommitOf
    MaxRequests = 2
    MaxCrashes = 1
    MaxActs = 2
PROPERTY
    HandoffIsCarriedOut
CHECK_DEADLOCK FALSE
