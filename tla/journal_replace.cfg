\* A client that replaces its request while the bridge works on it.
SPECIFICATION Spec
CONSTANTS
  plain = plain
  gated = gated
  big = big
  prompt = prompt
  None = None
  Requests = {r1}
  Bytes = {plain, gated}
  Daemons = {d1}
  Payloads = {prompt}
  Oversize = {}
  Verdicts <- MCVerdicts
  MaxActive = 1
  Exclusive = TRUE
  StableClaims = TRUE
  MaxSubmits = 2
  MaxStops = 0
  MaxClicks = 0
PROPERTY
  RemovedIsAnswered
CHECK_DEADLOCK FALSE
