SPECIFICATION FairSpec
CONSTANTS
  w1 = w1
  w2 = w2
  bal = bal
  sub = sub
  Orders = {bal, sub}
  SubOrders = {sub}
  Workers = {w1, w2}
  NoOrder = NoOrder
  MaxPending = 1
  MaxOrders = 1
  MaxFaults = 1
CHECK_DEADLOCK FALSE
INVARIANTS FulfillmentExclusive DeliveredMeansGranted ExtensionsWithinFaults NothingWithoutPayment PaymentSurvives
PROPERTIES DeliveryIsFinal PromiseSpec PaidIsSettled
