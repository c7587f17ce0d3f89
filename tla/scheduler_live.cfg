SPECIFICATION FairSpec
CONSTANTS
    Names <- FewNames
    RepoOf <- FewRepoOf
    Repo = {"A", "B"}
    Barrier = {"m1"}
    MaxWorkers = 2
    MaxPending = 2
    MaxFaults = 1
PROPERTIES
    EventuallyAnswered
CHECK_DEADLOCK FALSE
