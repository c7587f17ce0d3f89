SPECIFICATION Spec
CONSTANTS
    Names <- MCNames
    RepoOf <- MCRepoOf
    Repo = {"A", "B", "C"}
    Barrier = {"m1"}
    MaxWorkers = 2
    MaxPending = 4
    MaxFaults = 2
PROPERTIES
    NeverRerun
CHECK_DEADLOCK FALSE
