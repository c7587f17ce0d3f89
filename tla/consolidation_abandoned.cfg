SPECIFICATION ConsolidationSpec
CONSTANTS
    Labels = {"keeper", "rival", "legacy"}
    Keeper = "keeper"
    Production = {"keeper", "rival"}
    Identities <- MCIdentities
    Files = {"f1", "f2", "f3", "f4"}
    LabelOf <- MCLabelOf
    KeeperFile = "f1"
    MaxAdmitted = 1
    MaxFaults = 2
INVARIANT
    NothingAbandoned
CHECK_DEADLOCK FALSE
