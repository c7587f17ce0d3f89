SPECIFICATION Spec
CONSTANTS
    u1 = u1
    u2 = u2
    Updates <- MCUpdates
    Changes <- MCUpdates
    CommitOf <- MCCommitOf
    MaxRequests = 2
    MaxCrashes = 1
    MaxActs = 2
INVARIANTS
    ActiveIsPromoted
    ActiveIsVerified
PROPERTY
    VerdictIsObserved
CHECK_DEADLOCK FALSE
