\* Two conversations and two browsers on one job, with two operations.
SPECIFICATION FairSpec
CONSTANTS
  Jobs = {j1}
  Holders = {h1, h2}
  Browsers = {b1, b2}
  Keys = {k1, k2}
  None = None
INVARIANTS
  HeldOrOffered
  NonceSpentOnce
  SuccessorReconciles
PROPERTIES
  NeverWedged
CHECK_DEADLOCK FALSE
