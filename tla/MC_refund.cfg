SPECIFICATION FairSpec
CONSTANTS
  a1 = a1
  a2 = a2
  Admins = {a1, a2}
  MaxFaults = 2
CHECK_DEADLOCK FALSE
INVARIANTS RefundExclusive RefundsWithinFaults DeductionsWithinFaults
PROPERTIES OnlyRefundSteps RefundEnds
