\* The plan changes between a run and a repeated upload of the same request.
SPECIFICATION Spec
CONSTANTS
  operation = operation
  first = first
  again = again
  other = other
  legacy = legacy
  p1 = p1
  p2 = p2
  Broken = Broken
  None = None
  Ids = {t1, t2}
  Contents = {first, again}
  Ops = {operation}
  OpOf <- MCOpOf
  Asks <- MCAsks
  Plans = {p1, p2}
  MaxSubmits = 2
  MaxFailures = 1
  MaxChanges = 1
INVARIANTS
  RejectedNeverRan
CHECK_DEADLOCK FALSE
