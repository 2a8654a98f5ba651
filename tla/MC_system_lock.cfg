SPECIFICATION Spec
CONSTANTS
  o1 = o1
  o2 = o2
  Operations = {o1, o2}
  NoOperation = NoOperation
  Lease = 6
  RenewInterval = 2
  TTL = 7
  Stall = 1
  MaxTime = 9
  MaxFaults = 1
SYMMETRY Symmetry
CHECK_DEADLOCK FALSE
INVARIANTS LeaseExclusive
PROPERTIES CreatorIsRenewed
