SPECIFICATION Spec
CONSTANTS
    Names <- MCNames
    Retention = 1
    MaxFaults = 2
INVARIANTS
    OneRemoteResult
CHECK_DEADLOCK FALSE
