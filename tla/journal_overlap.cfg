\* Two daemons that overlap: every mailbox lock file was replaced.
SPECIFICATION Spec
CONSTANTS
  plain = plain
  gated = gated
  big = big
  prompt = prompt
  None = None
  Requests = {r1}
  Bytes = {plain, gated}
  Daemons = {d1, d2}
  Payloads = {prompt}
  Oversize = {}
  Verdicts <- MCVerdicts
  MaxActive = 1
  Exclusive = FALSE
  StableClaims = TRUE
  MaxSubmits = 2
  MaxStops = 2
  MaxClicks = 1
INVARIANTS
  AtMostOnce
PROPERTIES
  ContainedBeforeForgotten
  ImplementsLifecycle
CHECK_DEADLOCK FALSE
