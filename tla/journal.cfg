\* One daemon at a time; crashes, shutdowns, transport and disk errors; two
\* payloads the operator may be asked about.
SPECIFICATION FairSpec
CONSTANTS
  plain = plain
  gated = gated
  big = big
  prompt = prompt
  None = None
  Requests = {r1}
  Bytes = {plain, gated, big}
  Daemons = {d1}
  Payloads = {prompt, prompt2}
  Oversize = {big}
  Verdicts <- MCVerdicts
  MaxActive = 1
  Exclusive = TRUE
  StableClaims = TRUE
  MaxSubmits = 2
  MaxStops = 2
  MaxClicks = 2
PROPERTIES
  ApprovedBeforeStarted
  AnsweredBeforeDeleted
  EventuallyAnswered
  ShutdownCompletes
CHECK_DEADLOCK FALSE
