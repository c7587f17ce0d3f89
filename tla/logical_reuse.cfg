\* A transport id that only ever got a replayed verdict is used again.
SPECIFICATION Spec
CONSTANTS
  operation = operation
  first = first
  again = again
  other = other
  legacy = legacy
  p1 = p1
  p2 = p2
  Broken = Broken
  None = None
  Ids = {t1, t2}
  Contents = {first, legacy}
  Ops = {operation}
  OpOf <- MCOpOf
  Asks <- MCAsks
  Plans = {p1}
  MaxSubmits = 3
  MaxFailures = 0
  MaxChanges = 0
PROPERTIES
  AnswersItsBytes
CHECK_DEADLOCK FALSE
