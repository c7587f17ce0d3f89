\* Overlapping jobs under concurrent commands, a death and a lost push answer.
SPECIFICATION Spec
CONSTANTS
  Jobs = {j1, j2}
  Workers = {w1, w2}
  Outside = Outside
  None = None
  Torn = Torn
  Touching = TRUE
  Overlap <- MCOverlap
  MaxEdits = 2
  MaxTarget = 3
  MaxCommands = 3
  MaxFailures = 1
SYMMETRY Symmetry
INVARIANTS
  ReconciledBeforeIntegrated
  EditsLandOnce
  ReceiptTellsTarget
  ReleasedIsIntegrated
CHECK_DEADLOCK FALSE
