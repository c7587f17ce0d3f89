\* One request whose run_shell may raise with the command running.
SPECIFICATION Spec
CONSTANTS
  plain = plain
  gated = gated
  big = big
  prompt = prompt
  None = None
  Requests = {r1}
  Bytes = {plain}
  Daemons = {d1}
  Payloads = {prompt}
  Oversize = {}
  Verdicts <- MCVerdicts
  MaxActive = 1
  Exclusive = TRUE
  StableClaims = TRUE
  MaxSubmits = 1
  MaxStops = 1
  MaxClicks = 0
PROPERTY
  ForgottenIsContained
CHECK_DEADLOCK FALSE
