SPECIFICATION FairSpec
CONSTANTS
    Names <- MCNames
    Retention = 1
    MaxFaults = 4
INVARIANTS
    DeletedIsAnswered
    AnswerSurvives
PROPERTIES
    AnswerStands
    EventuallyRetired
CHECK_DEADLOCK FALSE
