\* A request_id reused with other arguments while the first is indeterminate.
SPECIFICATION ProtocolSpec
CONSTANTS
  Requests = {r1}
  Payloads = {p1, p2, bad}
  Malformed = {bad}
  MaxMessages = 3
  Absent = Absent
INVARIANT FailedNeverRan
CHECK_DEADLOCK FALSE
