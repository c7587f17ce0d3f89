\* One operation under two transport ids, sent in two ways, and a request without
\* operation_id; resolving the plan raises for a moment.
SPECIFICATION Spec
CONSTANTS
  operation = operation
  first = first
  again = again
  other = other
  legacy = legacy
  p1 = p1
  p2 = p2
  Broken = Broken
  None = None
  Ids = {t1, t2}
  Contents = {first, other, legacy}
  Ops = {operation}
  OpOf <- MCOpOf
  Asks <- MCAsks
  Plans = {p1, Broken}
  MaxSubmits = 2
  MaxFailures = 1
  MaxChanges = 2
INVARIANTS
  OneRunPerOperation
  ReplayTellsOriginal
PROPERTIES
  EventuallyAnswered
CHECK_DEADLOCK FALSE
