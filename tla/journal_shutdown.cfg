\* One plain request and an orderly shutdown.
SPECIFICATION Spec
CONSTANTS
  plain = plain
  gated = gated
  big = big
  prompt = prompt
  None = None
  Requests = {r1}
  Bytes = {plain}
  Daemons = {d1}
  Payloads = {prompt}
  Oversize = {}
  Verdicts <- MCVerdicts
  MaxActive = 1
  Exclusive = TRUE
  StableClaims = TRUE
  MaxSubmits = 1
  MaxStops = 1
  MaxClicks = 0
INVARIANT
  CompletedRanToEnd
CHECK_DEADLOCK FALSE
