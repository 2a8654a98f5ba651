SPECIFICATION Spec
CONSTANTS
  r1 = r1
  r2 = r2
  p1 = p1
  p2 = p2
  Requests = {r1, r2}
  Payloads = {p1, p2}
  Truncated = Truncated
  TTL = 3
  ProcessingTimeout = 1
  FailedRetryBackoff = 1
  MaxTime = 4
  MaxFaults = 1
SYMMETRY Symmetry
CHECK_DEADLOCK FALSE
INVARIANTS ReplayIsOwn ExecutionExclusive SucceedsOnce
PROPERTIES SuccessIsKept
