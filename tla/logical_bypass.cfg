\* resolve_write_plan raises for a moment, then answers again.
SPECIFICATION Spec
CONSTANTS
  operation = operation
  first = first
  again = again
  other = other
  legacy = legacy
  p1 = p1
  p2 = p2
  Broken = Broken
  None = None
  Ids = {t1, t2}
  Contents = {first, again}
  Ops = {operation}
  OpOf <- MCOpOf
  Asks <- MCAsks
  Plans = {p1, Broken}
  MaxSubmits = 2
  MaxFailures = 0
  MaxChanges = 2
INVARIANTS
  NeverRunTwice
CHECK_DEADLOCK FALSE
