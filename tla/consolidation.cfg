SPECIFICATION ConsolidationSpec
CONSTANTS
    Labels = {"keeper", "rival", "legacy"}
    Keeper = "keeper"
    Production = {"keeper", "rival"}
    Identities <- MCIdentities
    Files = {"f1", "f2", "f3", "f4"}
    LabelOf <- MCLabelOf
    KeeperFile = "f1"
    MaxAdmitted = 2
    MaxFaults = 2
INVARIANTS
    InstallsInQuiet
    OldOwnerStaysRetired
PROPERTIES
    NoClaimantTakesOver
    RollbackRestores
CHECK_DEADLOCK FALSE
