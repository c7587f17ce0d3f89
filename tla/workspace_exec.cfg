\* Two commands on one job: the second loaded the job before the first finished.
SPECIFICATION Spec
CONSTANTS
  Jobs = {j1}
  Workers = {w1, w2}
  Outside = Outside
  None = None
  Torn = Torn
  Touching = TRUE
  Overlap <- MCOverlap
  MaxEdits = 2
  MaxTarget = 3
  MaxCommands = 2
  MaxFailures = 0
PROPERTIES
  IntegratedIsFinal
CHECK_DEADLOCK FALSE
