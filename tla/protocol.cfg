\* Two requests, two payloads and one that is malformed, five messages.
SPECIFICATION ProtocolSpec
CONSTANTS
  Requests = {r1, r2}
  Payloads = {p1, p2, bad}
  Malformed = {bad}
  MaxMessages = 5
  Absent = Absent
INVARIANTS
  ExecutedOnce
  IndeterminateNeverCompletes
CHECK_DEADLOCK FALSE
