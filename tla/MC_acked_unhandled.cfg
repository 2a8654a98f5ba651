SPECIFICATION Spec
CONSTANTS
  w1 = w1
  w2 = w2
  bal = bal
  sub = sub
  Orders = {bal}
  SubOrders = {}
  Workers = {w1, w2}
  NoOrder = NoOrder
  MaxPending = 1
  MaxOrders = 1
  MaxFaults = 1
SYMMETRY Symmetry
CHECK_DEADLOCK FALSE
INVARIANTS AckedMeansHandled
