---------------------- MODULE PaymentFulfillmentProofs ----------------------
(***************************************************************************)
(* The safety properties of PaymentFulfillment hold for any set of orders  *)
(* and workers, any pending limit and any number of faults.                *)
(***************************************************************************)
EXTENDS PaymentFulfillment, TLAPS

\* The statements of a request that creates its order.
CreatorPCs == {"insert", "invoke", "createFail"}

\* The statements reached only after confirmPayment saw the right amount,
\* or RetryFulfillment saw paid_at.
ConfirmedPCs == CriticalPCs \cup {"toPaid", "already", "exec", "lock", "audit", "reset"}

\* What the position of a worker says about its order.
WorkerInv ==
  \A w \in Workers :
    /\ pc[w] # "idle" => ord[w] \in Orders
    /\ pc[w] \in ConfirmedPCs => upstream[ord[w]] = "paid"
    /\ pc[w] \in CreatorPCs => upstream[ord[w]] = "none"
    /\ pc[w] = "insert" => status[ord[w]] = "NONE"
    /\ pc[w] \notin {"idle", "insert"} => status[ord[w]] # "NONE"
    /\ pc[w] \in CriticalPCs \ {"fail"} => status[ord[w]] = "RECHARGING"
    /\ pc[w] = "fail" => status[ord[w]] \in {"RECHARGING"} \cup DeliveredStatuses
    /\ pc[w] = "audit" => status[ord[w]] \in DeliveredStatuses

\* What a fulfilling worker has already achieved.
FulfillingInv ==
  \A w \in Workers :
    /\ pc[w] \in {"lookup", "createCode", "redeem", "rebate"} => ord[w] \notin SubOrders
    /\ pc[w] \in {"subCheck", "assign"} => ord[w] \in SubOrders
    /\ pc[w] = "rebate" => code[ord[w]] = "used"
    /\ pc[w] = "complete" /\ ord[w] \notin SubOrders => code[ord[w]] = "used"
    /\ pc[w] = "complete" /\ ord[w] \in SubOrders => granted[ord[w]] >= 1
    /\ pc[w] \in {"subCheck", "assign", "fail"} /\ ord[w] \in SubOrders
         => granted[ord[w]] <= faults

\* Only one request creates an order.
CreatorExclusive ==
  \A v, w \in Workers :
    /\ pc[v] \in CreatorPCs
    /\ pc[w] \in CreatorPCs
    /\ ord[v] = ord[w]
    => v = w

\* How the status of an order, its payment and its benefit hang together.
OrderInv ==
  \A o \in Orders :
    /\ status[o] = "NONE" => upstream[o] = "none"
    /\ \/ granted[o] > 0
       \/ paidAt[o]
       \/ status[o] \in {"PAID", "RECHARGING"} \cup DeliveredStatuses
       => upstream[o] = "paid"
    /\ paidAt[o] => status[o] \in {"PAID", "RECHARGING", "FAILED"} \cup DeliveredStatuses

BalanceInv ==
  \A o \in Orders \ SubOrders :
    /\ granted[o] = IF code[o] = "used" THEN 1 ELSE 0
    /\ status[o] \in DeliveredStatuses => code[o] = "used"
    /\ "AFFILIATE_REBATE" \in audit[o] => code[o] = "used"
    /\ rebate[o] <= (IF "AFFILIATE_REBATE" \in audit[o] THEN 1 ELSE 0)

SubscriptionInv ==
  \A o \in SubOrders :
    /\ rebate[o] = 0
    /\ "SUBSCRIPTION_SUCCESS" \in audit[o] => granted[o] >= 1
    /\ status[o] \in DeliveredStatuses => granted[o] >= 1
    /\ granted[o] <= faults + 1
    /\ status[o] \notin {"RECHARGING"} \cup DeliveredStatuses => granted[o] <= faults

IInv ==
  /\ TypeOK
  /\ WorkerInv
  /\ FulfillingInv
  /\ FulfillmentExclusive
  /\ CreatorExclusive
  /\ OrderInv
  /\ BalanceInv
  /\ SubscriptionInv
-----------------------------------------------------------------------------
(* Preservation of IInv, action by action. *)

LEMMA CreateCountStep ==
  ASSUME IInv, NEW w \in Workers, NEW o \in Orders, CreateCount(w, o)
  PROVE  IInv'
<1> USE OrdersAssumption, BoundsAssumption DEF IInv, CreateCount, Opened, Start,
     orderVars, benefitVars, workerVars, Outcome, Results, SetStatus, SetStatusIf
<1>1. TypeOK'
  BY DEF TypeOK, Payments, Ops, AuditActions, PCs, CriticalPCs, Statuses,
       RefundStatuses
<1>2. WorkerInv' /\ FulfillingInv'
  BY DEF TypeOK, WorkerInv, FulfillingInv, FulfillmentExclusive,
       CreatorExclusive, OrderInv, BalanceInv, SubscriptionInv, PCs, CriticalPCs,
       CreatorPCs, ConfirmedPCs, Statuses, RefundStatuses, DeliveredStatuses
<1>3. FulfillmentExclusive' /\ CreatorExclusive'
  BY DEF TypeOK, WorkerInv, FulfillmentExclusive, CreatorExclusive, PCs,
       CriticalPCs, CreatorPCs, ConfirmedPCs, Statuses, RefundStatuses,
       DeliveredStatuses
<1>4. OrderInv' /\ BalanceInv' /\ SubscriptionInv'
  BY DEF TypeOK, WorkerInv, FulfillingInv, OrderInv, BalanceInv,
       SubscriptionInv, PCs, CriticalPCs, CreatorPCs, ConfirmedPCs, Statuses,
       RefundStatuses, DeliveredStatuses
<1> QED
  BY <1>1, <1>2, <1>3, <1>4 DEF IInv

LEMMA CreateInsertStep ==
  ASSUME IInv, NEW w \in Workers, NEW r \in Results, CreateInsert(w, r)
  PROVE  IInv'
<1> USE OrdersAssumption, BoundsAssumption DEF IInv, CreateInsert, Goto, Return,
     orderVars, benefitVars, workerVars, Outcome, Results, SetStatus, SetStatusIf
<1>1. TypeOK'
  <2> USE DEF TypeOK, Payments, Ops, AuditActions, PCs, CriticalPCs, Statuses,
       RefundStatuses
  <2>1. status' \in [Orders -> Statuses] /\ pc' \in [Workers -> PCs]
    OBVIOUS
  <2>2. acked' \in [Orders -> BOOLEAN] /\ op' \in [Workers -> Ops]
    OBVIOUS
  <2>3. ord' \in [Workers -> Orders \cup {NoOrder}] /\ faults' \in 0 .. MaxFaults
    OBVIOUS
  <2>4. /\ paidAt' \in [Orders -> BOOLEAN] /\ due' \in [Orders -> BOOLEAN]
        /\ fresh' \in [Orders -> BOOLEAN] /\ upstream' \in [Orders -> Payments]
    OBVIOUS
  <2>5. /\ code' \in [Orders -> {"absent", "unused", "used"}]
        /\ granted' \in [Orders -> Nat] /\ rebate' \in [Orders -> Nat]
        /\ audit' \in [Orders -> SUBSET AuditActions]
    OBVIOUS
  <2> QED
    BY <2>1, <2>2, <2>3, <2>4, <2>5
<1>2. WorkerInv' /\ FulfillingInv'
  BY DEF TypeOK, WorkerInv, FulfillingInv, FulfillmentExclusive,
       CreatorExclusive, OrderInv, BalanceInv, SubscriptionInv, PCs, CriticalPCs,
       CreatorPCs, ConfirmedPCs, Statuses, RefundStatuses, DeliveredStatuses
<1>3. FulfillmentExclusive' /\ CreatorExclusive'
  BY DEF TypeOK, WorkerInv, FulfillmentExclusive, CreatorExclusive, PCs,
       CriticalPCs, CreatorPCs, ConfirmedPCs, Statuses, RefundStatuses,
       DeliveredStatuses
<1>4. OrderInv' /\ BalanceInv' /\ SubscriptionInv'
  BY DEF TypeOK, WorkerInv, FulfillingInv, OrderInv, BalanceInv,
       SubscriptionInv, PCs, CriticalPCs, CreatorPCs, ConfirmedPCs, Statuses,
       RefundStatuses, DeliveredStatuses
<1> QED
  BY <1>1, <1>2, <1>3, <1>4 DEF IInv

LEMMA InvokeOkStep ==
  ASSUME IInv, NEW w \in Workers, InvokeOk(w)
  PROVE  IInv'
<1> USE OrdersAssumption, BoundsAssumption DEF IInv, InvokeOk, Return,
     orderVars, benefitVars, workerVars, Outcome, Results, SetStatus, SetStatusIf
<1>1. TypeOK'
  <2> USE DEF TypeOK, Payments, Ops, AuditActions, PCs, CriticalPCs, Statuses,
       RefundStatuses
  <2>1. status' \in [Orders -> Statuses] /\ pc' \in [Workers -> PCs]
    OBVIOUS
  <2>2. acked' \in [Orders -> BOOLEAN] /\ op' \in [Workers -> Ops]
    OBVIOUS
  <2>3. ord' \in [Workers -> Orders \cup {NoOrder}] /\ faults' \in 0 .. MaxFaults
    OBVIOUS
  <2>4. /\ paidAt' \in [Orders -> BOOLEAN] /\ due' \in [Orders -> BOOLEAN]
        /\ fresh' \in [Orders -> BOOLEAN] /\ upstream' \in [Orders -> Payments]
    OBVIOUS
  <2>5. /\ code' \in [Orders -> {"absent", "unused", "used"}]
        /\ granted' \in [Orders -> Nat] /\ rebate' \in [Orders -> Nat]
        /\ audit' \in [Orders -> SUBSET AuditActions]
    OBVIOUS
  <2> QED
    BY <2>1, <2>2, <2>3, <2>4, <2>5
<1>2. WorkerInv' /\ FulfillingInv'
  BY DEF TypeOK, WorkerInv, FulfillingInv, FulfillmentExclusive,
       CreatorExclusive, OrderInv, BalanceInv, SubscriptionInv, PCs, CriticalPCs,
       CreatorPCs, ConfirmedPCs, Statuses, RefundStatuses, DeliveredStatuses
<1>3. FulfillmentExclusive' /\ CreatorExclusive'
  BY DEF TypeOK, WorkerInv, FulfillmentExclusive, CreatorExclusive, PCs,
       CriticalPCs, CreatorPCs, ConfirmedPCs, Statuses, RefundStatuses,
       DeliveredStatuses
<1>4. OrderInv' /\ BalanceInv' /\ SubscriptionInv'
  BY DEF TypeOK, WorkerInv, FulfillingInv, OrderInv, BalanceInv,
       SubscriptionInv, PCs, CriticalPCs, CreatorPCs, ConfirmedPCs, Statuses,
       RefundStatuses, DeliveredStatuses
<1> QED
  BY <1>1, <1>2, <1>3, <1>4 DEF IInv

LEMMA InvokeFailStep ==
  ASSUME IInv, NEW w \in Workers, InvokeFail(w)
  PROVE  IInv'
<1> USE OrdersAssumption, BoundsAssumption DEF IInv, InvokeFail, Goto,
     orderVars, benefitVars, workerVars, Outcome, Results, SetStatus, SetStatusIf
<1>1. TypeOK'
  BY DEF TypeOK, Payments, Ops, AuditActions, PCs, CriticalPCs, Statuses,
       RefundStatuses
<1>2. WorkerInv' /\ FulfillingInv'
  BY DEF TypeOK, WorkerInv, FulfillingInv, FulfillmentExclusive,
       CreatorExclusive, OrderInv, BalanceInv, SubscriptionInv, PCs, CriticalPCs,
       CreatorPCs, ConfirmedPCs, Statuses, RefundStatuses, DeliveredStatuses
<1>3. FulfillmentExclusive' /\ CreatorExclusive'
  BY DEF TypeOK, WorkerInv, FulfillmentExclusive, CreatorExclusive, PCs,
       CriticalPCs, CreatorPCs, ConfirmedPCs, Statuses, RefundStatuses,
       DeliveredStatuses
<1>4. OrderInv' /\ BalanceInv' /\ SubscriptionInv'
  BY DEF TypeOK, WorkerInv, FulfillingInv, OrderInv, BalanceInv,
       SubscriptionInv, PCs, CriticalPCs, CreatorPCs, ConfirmedPCs, Statuses,
       RefundStatuses, DeliveredStatuses
<1> QED
  BY <1>1, <1>2, <1>3, <1>4 DEF IInv

LEMMA CreateFailStep ==
  ASSUME IInv, NEW w \in Workers, NEW r \in Results, CreateFail(w, r)
  PROVE  IInv'
<1> USE OrdersAssumption, BoundsAssumption DEF IInv, CreateFail, Return,
     orderVars, benefitVars, workerVars, Outcome, Results, SetStatus, SetStatusIf
<1>1. TypeOK'
  <2> USE DEF TypeOK, Payments, Ops, AuditActions, PCs, CriticalPCs, Statuses,
       RefundStatuses
  <2>1. status' \in [Orders -> Statuses] /\ pc' \in [Workers -> PCs]
    OBVIOUS
  <2>2. acked' \in [Orders -> BOOLEAN] /\ op' \in [Workers -> Ops]
    OBVIOUS
  <2>3. ord' \in [Workers -> Orders \cup {NoOrder}] /\ faults' \in 0 .. MaxFaults
    OBVIOUS
  <2>4. /\ paidAt' \in [Orders -> BOOLEAN] /\ due' \in [Orders -> BOOLEAN]
        /\ fresh' \in [Orders -> BOOLEAN]
    OBVIOUS
  <2>5. upstream' \in [Orders -> Payments]
    OBVIOUS
  <2>6. /\ code' \in [Orders -> {"absent", "unused", "used"}]
        /\ granted' \in [Orders -> Nat] /\ rebate' \in [Orders -> Nat]
        /\ audit' \in [Orders -> SUBSET AuditActions]
    OBVIOUS
  <2> QED
    BY <2>1, <2>2, <2>3, <2>4, <2>5, <2>6
<1>2. WorkerInv' /\ FulfillingInv'
  BY DEF TypeOK, WorkerInv, FulfillingInv, FulfillmentExclusive,
       CreatorExclusive, OrderInv, BalanceInv, SubscriptionInv, PCs, CriticalPCs,
       CreatorPCs, ConfirmedPCs, Statuses, RefundStatuses, DeliveredStatuses
<1>3. FulfillmentExclusive' /\ CreatorExclusive'
  BY DEF TypeOK, WorkerInv, FulfillmentExclusive, CreatorExclusive, PCs,
       CriticalPCs, CreatorPCs, ConfirmedPCs, Statuses, RefundStatuses,
       DeliveredStatuses
<1>4. OrderInv' /\ BalanceInv' /\ SubscriptionInv'
  BY DEF TypeOK, WorkerInv, FulfillingInv, OrderInv, BalanceInv,
       SubscriptionInv, PCs, CriticalPCs, CreatorPCs, ConfirmedPCs, Statuses,
       RefundStatuses, DeliveredStatuses
<1> QED
  BY <1>1, <1>2, <1>3, <1>4 DEF IInv

LEMMA PayStep ==
  ASSUME IInv, NEW o \in Orders, Pay(o)
  PROVE  IInv'
<1> USE OrdersAssumption, BoundsAssumption DEF IInv, Pay, orderVars,
     benefitVars, workerVars, Outcome, Results, SetStatus, SetStatusIf
<1>1. TypeOK'
  BY DEF TypeOK, Payments, Ops, AuditActions, PCs, CriticalPCs, Statuses,
       RefundStatuses
<1>2. WorkerInv' /\ FulfillingInv'
  BY DEF TypeOK, WorkerInv, FulfillingInv, FulfillmentExclusive,
       CreatorExclusive, OrderInv, BalanceInv, SubscriptionInv, PCs, CriticalPCs,
       CreatorPCs, ConfirmedPCs, Statuses, RefundStatuses, DeliveredStatuses
<1>3. FulfillmentExclusive' /\ CreatorExclusive'
  BY DEF TypeOK, WorkerInv, FulfillmentExclusive, CreatorExclusive, PCs,
       CriticalPCs, CreatorPCs, ConfirmedPCs, Statuses, RefundStatuses,
       DeliveredStatuses
<1>4. OrderInv' /\ BalanceInv' /\ SubscriptionInv'
  BY DEF TypeOK, WorkerInv, FulfillingInv, OrderInv, BalanceInv,
       SubscriptionInv, PCs, CriticalPCs, CreatorPCs, ConfirmedPCs, Statuses,
       RefundStatuses, DeliveredStatuses
<1> QED
  BY <1>1, <1>2, <1>3, <1>4 DEF IInv

LEMMA TimesOutStep ==
  ASSUME IInv, NEW o \in Orders, TimesOut(o)
  PROVE  IInv'
<1> USE OrdersAssumption, BoundsAssumption DEF IInv, TimesOut, orderVars,
     benefitVars, workerVars, Outcome, Results, SetStatus, SetStatusIf
<1>1. TypeOK'
  BY DEF TypeOK, Payments, Ops, AuditActions, PCs, CriticalPCs, Statuses,
       RefundStatuses
<1>2. WorkerInv' /\ FulfillingInv'
  BY DEF TypeOK, WorkerInv, FulfillingInv, FulfillmentExclusive,
       CreatorExclusive, OrderInv, BalanceInv, SubscriptionInv, PCs, CriticalPCs,
       CreatorPCs, ConfirmedPCs, Statuses, RefundStatuses, DeliveredStatuses
<1>3. FulfillmentExclusive' /\ CreatorExclusive'
  BY DEF TypeOK, WorkerInv, FulfillmentExclusive, CreatorExclusive, PCs,
       CriticalPCs, CreatorPCs, ConfirmedPCs, Statuses, RefundStatuses,
       DeliveredStatuses
<1>4. OrderInv' /\ BalanceInv' /\ SubscriptionInv'
  BY DEF TypeOK, WorkerInv, FulfillingInv, OrderInv, BalanceInv,
       SubscriptionInv, PCs, CriticalPCs, CreatorPCs, ConfirmedPCs, Statuses,
       RefundStatuses, DeliveredStatuses
<1> QED
  BY <1>1, <1>2, <1>3, <1>4 DEF IInv

LEMMA GraceElapsesStep ==
  ASSUME IInv, NEW o \in Orders, GraceElapses(o)
  PROVE  IInv'
<1> USE OrdersAssumption, BoundsAssumption DEF IInv, GraceElapses, orderVars,
     benefitVars, workerVars, Outcome, Results, SetStatus, SetStatusIf
<1>1. TypeOK'
  BY DEF TypeOK, Payments, Ops, AuditActions, PCs, CriticalPCs, Statuses,
       RefundStatuses
<1>2. WorkerInv' /\ FulfillingInv'
  BY DEF TypeOK, WorkerInv, FulfillingInv, FulfillmentExclusive,
       CreatorExclusive, OrderInv, BalanceInv, SubscriptionInv, PCs, CriticalPCs,
       CreatorPCs, ConfirmedPCs, Statuses, RefundStatuses, DeliveredStatuses
<1>3. FulfillmentExclusive' /\ CreatorExclusive'
  BY DEF TypeOK, WorkerInv, FulfillmentExclusive, CreatorExclusive, PCs,
       CriticalPCs, CreatorPCs, ConfirmedPCs, Statuses, RefundStatuses,
       DeliveredStatuses
<1>4. OrderInv' /\ BalanceInv' /\ SubscriptionInv'
  BY DEF TypeOK, WorkerInv, FulfillingInv, OrderInv, BalanceInv,
       SubscriptionInv, PCs, CriticalPCs, CreatorPCs, ConfirmedPCs, Statuses,
       RefundStatuses, DeliveredStatuses
<1> QED
  BY <1>1, <1>2, <1>3, <1>4 DEF IInv

LEMMA RefundMovesStep ==
  ASSUME IInv, NEW o \in Orders, RefundMoves(o)
  PROVE  IInv'
<1> USE OrdersAssumption, BoundsAssumption DEF IInv, RefundMoves, RefundStep,
     RefundableStatuses, orderVars, benefitVars, workerVars, Outcome, Results,
     SetStatus, SetStatusIf
<1>1. TypeOK'
  BY DEF TypeOK, Payments, Ops, AuditActions, PCs, CriticalPCs, Statuses,
       RefundStatuses
<1>2. WorkerInv' /\ FulfillingInv'
  BY DEF TypeOK, WorkerInv, FulfillingInv, FulfillmentExclusive,
       CreatorExclusive, OrderInv, BalanceInv, SubscriptionInv, PCs, CriticalPCs,
       CreatorPCs, ConfirmedPCs, Statuses, RefundStatuses, DeliveredStatuses
<1>3. FulfillmentExclusive' /\ CreatorExclusive'
  BY DEF TypeOK, WorkerInv, FulfillmentExclusive, CreatorExclusive, PCs,
       CriticalPCs, CreatorPCs, ConfirmedPCs, Statuses, RefundStatuses,
       DeliveredStatuses
<1>4. OrderInv' /\ BalanceInv' /\ SubscriptionInv'
  BY DEF TypeOK, WorkerInv, FulfillingInv, OrderInv, BalanceInv,
       SubscriptionInv, PCs, CriticalPCs, CreatorPCs, ConfirmedPCs, Statuses,
       RefundStatuses, DeliveredStatuses
<1> QED
  BY <1>1, <1>2, <1>3, <1>4 DEF IInv

LEMMA WebhookStartStep ==
  ASSUME IInv, NEW w \in Workers, NEW o \in Orders, WebhookStart(w, o)
  PROVE  IInv'
<1> USE OrdersAssumption, BoundsAssumption DEF IInv, WebhookStart, Start,
     orderVars, benefitVars, workerVars, Outcome, Results, SetStatus, SetStatusIf
<1>1. TypeOK'
  BY DEF TypeOK, Payments, Ops, AuditActions, PCs, CriticalPCs, Statuses,
       RefundStatuses
<1>2. WorkerInv' /\ FulfillingInv'
  BY DEF TypeOK, WorkerInv, FulfillingInv, FulfillmentExclusive,
       CreatorExclusive, OrderInv, BalanceInv, SubscriptionInv, PCs, CriticalPCs,
       CreatorPCs, ConfirmedPCs, Statuses, RefundStatuses, DeliveredStatuses
<1>3. FulfillmentExclusive' /\ CreatorExclusive'
  BY DEF TypeOK, WorkerInv, FulfillmentExclusive, CreatorExclusive, PCs,
       CriticalPCs, CreatorPCs, ConfirmedPCs, Statuses, RefundStatuses,
       DeliveredStatuses
<1>4. OrderInv' /\ BalanceInv' /\ SubscriptionInv'
  BY DEF TypeOK, WorkerInv, FulfillingInv, OrderInv, BalanceInv,
       SubscriptionInv, PCs, CriticalPCs, CreatorPCs, ConfirmedPCs, Statuses,
       RefundStatuses, DeliveredStatuses
<1> QED
  BY <1>1, <1>2, <1>3, <1>4 DEF IInv

LEMMA RetryStartStep ==
  ASSUME IInv, NEW w \in Workers, NEW o \in Orders, RetryStart(w, o)
  PROVE  IInv'
<1> USE OrdersAssumption, BoundsAssumption DEF IInv, RetryStart, Start,
     orderVars, benefitVars, workerVars, Outcome, Results, SetStatus, SetStatusIf
<1>1. TypeOK'
  BY DEF TypeOK, Payments, Ops, AuditActions, PCs, CriticalPCs, Statuses,
       RefundStatuses
<1>2. WorkerInv' /\ FulfillingInv'
  BY DEF TypeOK, WorkerInv, FulfillingInv, FulfillmentExclusive,
       CreatorExclusive, OrderInv, BalanceInv, SubscriptionInv, PCs, CriticalPCs,
       CreatorPCs, ConfirmedPCs, Statuses, RefundStatuses, DeliveredStatuses
<1>3. FulfillmentExclusive' /\ CreatorExclusive'
  BY DEF TypeOK, WorkerInv, FulfillmentExclusive, CreatorExclusive, PCs,
       CriticalPCs, CreatorPCs, ConfirmedPCs, Statuses, RefundStatuses,
       DeliveredStatuses
<1>4. OrderInv' /\ BalanceInv' /\ SubscriptionInv'
  BY DEF TypeOK, WorkerInv, FulfillingInv, OrderInv, BalanceInv,
       SubscriptionInv, PCs, CriticalPCs, CreatorPCs, ConfirmedPCs, Statuses,
       RefundStatuses, DeliveredStatuses
<1> QED
  BY <1>1, <1>2, <1>3, <1>4 DEF IInv

LEMMA CancelStartStep ==
  ASSUME IInv, NEW w \in Workers, NEW o \in Orders, CancelStart(w, o)
  PROVE  IInv'
<1> USE OrdersAssumption, BoundsAssumption DEF IInv, CancelStart, Start,
     orderVars, benefitVars, workerVars, Outcome, Results, SetStatus, SetStatusIf
<1>1. TypeOK'
  BY DEF TypeOK, Payments, Ops, AuditActions, PCs, CriticalPCs, Statuses,
       RefundStatuses
<1>2. WorkerInv' /\ FulfillingInv'
  BY DEF TypeOK, WorkerInv, FulfillingInv, FulfillmentExclusive,
       CreatorExclusive, OrderInv, BalanceInv, SubscriptionInv, PCs, CriticalPCs,
       CreatorPCs, ConfirmedPCs, Statuses, RefundStatuses, DeliveredStatuses
<1>3. FulfillmentExclusive' /\ CreatorExclusive'
  BY DEF TypeOK, WorkerInv, FulfillmentExclusive, CreatorExclusive, PCs,
       CriticalPCs, CreatorPCs, ConfirmedPCs, Statuses, RefundStatuses,
       DeliveredStatuses
<1>4. OrderInv' /\ BalanceInv' /\ SubscriptionInv'
  BY DEF TypeOK, WorkerInv, FulfillingInv, OrderInv, BalanceInv,
       SubscriptionInv, PCs, CriticalPCs, CreatorPCs, ConfirmedPCs, Statuses,
       RefundStatuses, DeliveredStatuses
<1> QED
  BY <1>1, <1>2, <1>3, <1>4 DEF IInv

LEMMA ExpireStartStep ==
  ASSUME IInv, NEW w \in Workers, NEW o \in Orders, ExpireStart(w, o)
  PROVE  IInv'
<1> USE OrdersAssumption, BoundsAssumption DEF IInv, ExpireStart, Start,
     orderVars, benefitVars, workerVars, Outcome, Results, SetStatus, SetStatusIf
<1>1. TypeOK'
  BY DEF TypeOK, Payments, Ops, AuditActions, PCs, CriticalPCs, Statuses,
       RefundStatuses
<1>2. WorkerInv' /\ FulfillingInv'
  BY DEF TypeOK, WorkerInv, FulfillingInv, FulfillmentExclusive,
       CreatorExclusive, OrderInv, BalanceInv, SubscriptionInv, PCs, CriticalPCs,
       CreatorPCs, ConfirmedPCs, Statuses, RefundStatuses, DeliveredStatuses
<1>3. FulfillmentExclusive' /\ CreatorExclusive'
  BY DEF TypeOK, WorkerInv, FulfillmentExclusive, CreatorExclusive, PCs,
       CriticalPCs, CreatorPCs, ConfirmedPCs, Statuses, RefundStatuses,
       DeliveredStatuses
<1>4. OrderInv' /\ BalanceInv' /\ SubscriptionInv'
  BY DEF TypeOK, WorkerInv, FulfillingInv, OrderInv, BalanceInv,
       SubscriptionInv, PCs, CriticalPCs, CreatorPCs, ConfirmedPCs, Statuses,
       RefundStatuses, DeliveredStatuses
<1> QED
  BY <1>1, <1>2, <1>3, <1>4 DEF IInv

LEMMA VerifyStartStep ==
  ASSUME IInv, NEW w \in Workers, NEW o \in Orders, VerifyStart(w, o)
  PROVE  IInv'
<1> USE OrdersAssumption, BoundsAssumption DEF IInv, VerifyStart, Start,
     orderVars, benefitVars, workerVars, Outcome, Results, SetStatus, SetStatusIf
<1>1. TypeOK'
  BY DEF TypeOK, Payments, Ops, AuditActions, PCs, CriticalPCs, Statuses,
       RefundStatuses
<1>2. WorkerInv' /\ FulfillingInv'
  BY DEF TypeOK, WorkerInv, FulfillingInv, FulfillmentExclusive,
       CreatorExclusive, OrderInv, BalanceInv, SubscriptionInv, PCs, CriticalPCs,
       CreatorPCs, ConfirmedPCs, Statuses, RefundStatuses, DeliveredStatuses
<1>3. FulfillmentExclusive' /\ CreatorExclusive'
  BY DEF TypeOK, WorkerInv, FulfillmentExclusive, CreatorExclusive, PCs,
       CriticalPCs, CreatorPCs, ConfirmedPCs, Statuses, RefundStatuses,
       DeliveredStatuses
<1>4. OrderInv' /\ BalanceInv' /\ SubscriptionInv'
  BY DEF TypeOK, WorkerInv, FulfillingInv, OrderInv, BalanceInv,
       SubscriptionInv, PCs, CriticalPCs, CreatorPCs, ConfirmedPCs, Statuses,
       RefundStatuses, DeliveredStatuses
<1> QED
  BY <1>1, <1>2, <1>3, <1>4 DEF IInv

LEMMA QueryStep ==
  ASSUME IInv, NEW w \in Workers, NEW r \in Results, Query(w, r)
  PROVE  IInv'
<1> USE OrdersAssumption, BoundsAssumption DEF IInv, Query, NotPaid, Goto,
     Return, orderVars, benefitVars, workerVars, Outcome, Results, SetStatus,
     SetStatusIf
<1>1. TypeOK'
  <2> USE DEF TypeOK, Payments, Ops, AuditActions, PCs, CriticalPCs, Statuses,
       RefundStatuses
  <2>1. status' \in [Orders -> Statuses] /\ pc' \in [Workers -> PCs]
    OBVIOUS
  <2>2. acked' \in [Orders -> BOOLEAN] /\ op' \in [Workers -> Ops]
    OBVIOUS
  <2>3. ord' \in [Workers -> Orders \cup {NoOrder}] /\ faults' \in 0 .. MaxFaults
    OBVIOUS
  <2>4. /\ paidAt' \in [Orders -> BOOLEAN] /\ due' \in [Orders -> BOOLEAN]
        /\ fresh' \in [Orders -> BOOLEAN] /\ upstream' \in [Orders -> Payments]
    OBVIOUS
  <2>5. /\ code' \in [Orders -> {"absent", "unused", "used"}]
        /\ granted' \in [Orders -> Nat] /\ rebate' \in [Orders -> Nat]
        /\ audit' \in [Orders -> SUBSET AuditActions]
    OBVIOUS
  <2> QED
    BY <2>1, <2>2, <2>3, <2>4, <2>5
<1>2. WorkerInv' /\ FulfillingInv'
  BY DEF TypeOK, WorkerInv, FulfillingInv, FulfillmentExclusive,
       CreatorExclusive, OrderInv, BalanceInv, SubscriptionInv, PCs, CriticalPCs,
       CreatorPCs, ConfirmedPCs, Statuses, RefundStatuses, DeliveredStatuses
<1>3. FulfillmentExclusive' /\ CreatorExclusive'
  BY DEF TypeOK, WorkerInv, FulfillmentExclusive, CreatorExclusive, PCs,
       CriticalPCs, CreatorPCs, ConfirmedPCs, Statuses, RefundStatuses,
       DeliveredStatuses
<1>4. OrderInv' /\ BalanceInv' /\ SubscriptionInv'
  BY DEF TypeOK, WorkerInv, FulfillingInv, OrderInv, BalanceInv,
       SubscriptionInv, PCs, CriticalPCs, CreatorPCs, ConfirmedPCs, Statuses,
       RefundStatuses, DeliveredStatuses
<1> QED
  BY <1>1, <1>2, <1>3, <1>4 DEF IInv

LEMMA PersistStep ==
  ASSUME IInv, NEW w \in Workers, NEW r \in Results, Persist(w, r)
  PROVE  IInv'
<1> USE OrdersAssumption, BoundsAssumption DEF IInv, Persist, Goto, orderVars,
     benefitVars, workerVars, Outcome, Results, SetStatus, SetStatusIf
<1>1. TypeOK'
  <2> USE DEF TypeOK, Payments, Ops, AuditActions, PCs, CriticalPCs, Statuses,
       RefundStatuses
  <2>1. status' \in [Orders -> Statuses] /\ pc' \in [Workers -> PCs]
    OBVIOUS
  <2>2. acked' \in [Orders -> BOOLEAN] /\ op' \in [Workers -> Ops]
    OBVIOUS
  <2>3. ord' \in [Workers -> Orders \cup {NoOrder}] /\ faults' \in 0 .. MaxFaults
    OBVIOUS
  <2>4. /\ paidAt' \in [Orders -> BOOLEAN] /\ due' \in [Orders -> BOOLEAN]
        /\ fresh' \in [Orders -> BOOLEAN] /\ upstream' \in [Orders -> Payments]
    OBVIOUS
  <2>5. /\ code' \in [Orders -> {"absent", "unused", "used"}]
        /\ granted' \in [Orders -> Nat] /\ rebate' \in [Orders -> Nat]
        /\ audit' \in [Orders -> SUBSET AuditActions]
    OBVIOUS
  <2> QED
    BY <2>1, <2>2, <2>3, <2>4, <2>5
<1>2. WorkerInv' /\ FulfillingInv'
  BY DEF TypeOK, WorkerInv, FulfillingInv, FulfillmentExclusive,
       CreatorExclusive, OrderInv, BalanceInv, SubscriptionInv, PCs, CriticalPCs,
       CreatorPCs, ConfirmedPCs, Statuses, RefundStatuses, DeliveredStatuses
<1>3. FulfillmentExclusive' /\ CreatorExclusive'
  BY DEF TypeOK, WorkerInv, FulfillmentExclusive, CreatorExclusive, PCs,
       CriticalPCs, CreatorPCs, ConfirmedPCs, Statuses, RefundStatuses,
       DeliveredStatuses
<1>4. OrderInv' /\ BalanceInv' /\ SubscriptionInv'
  BY DEF TypeOK, WorkerInv, FulfillingInv, OrderInv, BalanceInv,
       SubscriptionInv, PCs, CriticalPCs, CreatorPCs, ConfirmedPCs, Statuses,
       RefundStatuses, DeliveredStatuses
<1> QED
  BY <1>1, <1>2, <1>3, <1>4 DEF IInv

LEMMA CloseStep ==
  ASSUME IInv, NEW w \in Workers, Close(w)
  PROVE  IInv'
<1> USE OrdersAssumption, BoundsAssumption DEF IInv, Close, NotPaid, Goto,
     Return, orderVars, benefitVars, workerVars, Outcome, Results, SetStatus,
     SetStatusIf
<1>1. TypeOK'
  <2> USE DEF TypeOK, Payments, Ops, AuditActions, PCs, CriticalPCs, Statuses,
       RefundStatuses
  <2>1. status' \in [Orders -> Statuses] /\ pc' \in [Workers -> PCs]
    OBVIOUS
  <2>2. acked' \in [Orders -> BOOLEAN] /\ op' \in [Workers -> Ops]
    OBVIOUS
  <2>3. ord' \in [Workers -> Orders \cup {NoOrder}] /\ faults' \in 0 .. MaxFaults
    OBVIOUS
  <2>4. /\ paidAt' \in [Orders -> BOOLEAN] /\ due' \in [Orders -> BOOLEAN]
        /\ fresh' \in [Orders -> BOOLEAN] /\ upstream' \in [Orders -> Payments]
    OBVIOUS
  <2>5. /\ code' \in [Orders -> {"absent", "unused", "used"}]
        /\ granted' \in [Orders -> Nat] /\ rebate' \in [Orders -> Nat]
        /\ audit' \in [Orders -> SUBSET AuditActions]
    OBVIOUS
  <2> QED
    BY <2>1, <2>2, <2>3, <2>4, <2>5
<1>2. WorkerInv' /\ FulfillingInv'
  BY DEF TypeOK, WorkerInv, FulfillingInv, FulfillmentExclusive,
       CreatorExclusive, OrderInv, BalanceInv, SubscriptionInv, PCs, CriticalPCs,
       CreatorPCs, ConfirmedPCs, Statuses, RefundStatuses, DeliveredStatuses
<1>3. FulfillmentExclusive' /\ CreatorExclusive'
  BY DEF TypeOK, WorkerInv, FulfillmentExclusive, CreatorExclusive, PCs,
       CriticalPCs, CreatorPCs, ConfirmedPCs, Statuses, RefundStatuses,
       DeliveredStatuses
<1>4. OrderInv' /\ BalanceInv' /\ SubscriptionInv'
  BY DEF TypeOK, WorkerInv, FulfillingInv, OrderInv, BalanceInv,
       SubscriptionInv, PCs, CriticalPCs, CreatorPCs, ConfirmedPCs, Statuses,
       RefundStatuses, DeliveredStatuses
<1> QED
  BY <1>1, <1>2, <1>3, <1>4 DEF IInv

LEMMA CancelUpdStep ==
  ASSUME IInv, NEW w \in Workers, NEW r \in Results, CancelUpd(w, r)
  PROVE  IInv'
<1> USE OrdersAssumption, BoundsAssumption DEF IInv, CancelUpd, Cancellable,
     CancelStatus, Return, orderVars, benefitVars, workerVars, Outcome, Results,
     SetStatus, SetStatusIf
<1>1. TypeOK'
  <2> USE DEF TypeOK, Payments, Ops, AuditActions, PCs, CriticalPCs, Statuses,
       RefundStatuses
  <2>1. status' \in [Orders -> Statuses] /\ pc' \in [Workers -> PCs]
    OBVIOUS
  <2>2. acked' \in [Orders -> BOOLEAN] /\ op' \in [Workers -> Ops]
    OBVIOUS
  <2>3. ord' \in [Workers -> Orders \cup {NoOrder}] /\ faults' \in 0 .. MaxFaults
    OBVIOUS
  <2>4. /\ paidAt' \in [Orders -> BOOLEAN] /\ due' \in [Orders -> BOOLEAN]
        /\ fresh' \in [Orders -> BOOLEAN] /\ upstream' \in [Orders -> Payments]
    OBVIOUS
  <2>5. /\ code' \in [Orders -> {"absent", "unused", "used"}]
        /\ granted' \in [Orders -> Nat] /\ rebate' \in [Orders -> Nat]
        /\ audit' \in [Orders -> SUBSET AuditActions]
    OBVIOUS
  <2> QED
    BY <2>1, <2>2, <2>3, <2>4, <2>5
<1>2. WorkerInv' /\ FulfillingInv'
  BY DEF TypeOK, WorkerInv, FulfillingInv, FulfillmentExclusive,
       CreatorExclusive, OrderInv, BalanceInv, SubscriptionInv, PCs, CriticalPCs,
       CreatorPCs, ConfirmedPCs, Statuses, RefundStatuses, DeliveredStatuses
<1>3. FulfillmentExclusive' /\ CreatorExclusive'
  BY DEF TypeOK, WorkerInv, FulfillmentExclusive, CreatorExclusive, PCs,
       CriticalPCs, CreatorPCs, ConfirmedPCs, Statuses, RefundStatuses,
       DeliveredStatuses
<1>4. OrderInv' /\ BalanceInv' /\ SubscriptionInv'
  BY DEF TypeOK, WorkerInv, FulfillingInv, OrderInv, BalanceInv,
       SubscriptionInv, PCs, CriticalPCs, CreatorPCs, ConfirmedPCs, Statuses,
       RefundStatuses, DeliveredStatuses
<1> QED
  BY <1>1, <1>2, <1>3, <1>4 DEF IInv

LEMMA ConfirmStep ==
  ASSUME IInv, NEW w \in Workers, NEW r \in Results, Confirm(w, r)
  PROVE  IInv'
<1> USE OrdersAssumption, BoundsAssumption DEF IInv, Confirm, AmountMatches,
     Goto, Return, orderVars, benefitVars, workerVars, Outcome, Results, SetStatus,
     SetStatusIf
<1>1. TypeOK'
  <2> USE DEF TypeOK, Payments, Ops, AuditActions, PCs, CriticalPCs, Statuses,
       RefundStatuses
  <2>1. status' \in [Orders -> Statuses] /\ pc' \in [Workers -> PCs]
    OBVIOUS
  <2>2. acked' \in [Orders -> BOOLEAN] /\ op' \in [Workers -> Ops]
    OBVIOUS
  <2>3. ord' \in [Workers -> Orders \cup {NoOrder}] /\ faults' \in 0 .. MaxFaults
    OBVIOUS
  <2>4. /\ paidAt' \in [Orders -> BOOLEAN] /\ due' \in [Orders -> BOOLEAN]
        /\ fresh' \in [Orders -> BOOLEAN] /\ upstream' \in [Orders -> Payments]
    OBVIOUS
  <2>5. /\ code' \in [Orders -> {"absent", "unused", "used"}]
        /\ granted' \in [Orders -> Nat] /\ rebate' \in [Orders -> Nat]
        /\ audit' \in [Orders -> SUBSET AuditActions]
    OBVIOUS
  <2> QED
    BY <2>1, <2>2, <2>3, <2>4, <2>5
<1>2. WorkerInv' /\ FulfillingInv'
  BY DEF TypeOK, WorkerInv, FulfillingInv, FulfillmentExclusive,
       CreatorExclusive, OrderInv, BalanceInv, SubscriptionInv, PCs, CriticalPCs,
       CreatorPCs, ConfirmedPCs, Statuses, RefundStatuses, DeliveredStatuses
<1>3. FulfillmentExclusive' /\ CreatorExclusive'
  BY DEF TypeOK, WorkerInv, FulfillmentExclusive, CreatorExclusive, PCs,
       CriticalPCs, CreatorPCs, ConfirmedPCs, Statuses, RefundStatuses,
       DeliveredStatuses
<1>4. OrderInv' /\ BalanceInv' /\ SubscriptionInv'
  BY DEF TypeOK, WorkerInv, FulfillingInv, OrderInv, BalanceInv,
       SubscriptionInv, PCs, CriticalPCs, CreatorPCs, ConfirmedPCs, Statuses,
       RefundStatuses, DeliveredStatuses
<1> QED
  BY <1>1, <1>2, <1>3, <1>4 DEF IInv

LEMMA ToPaidStep ==
  ASSUME IInv, NEW w \in Workers, NEW r \in Results, ToPaid(w, r)
  PROVE  IInv'
<1> USE OrdersAssumption, BoundsAssumption DEF IInv, ToPaid, Payable, Goto,
     Return, orderVars, benefitVars, workerVars, Outcome, Results, SetStatus,
     SetStatusIf
<1>1. TypeOK'
  <2> USE DEF TypeOK, Payments, Ops, AuditActions, PCs, CriticalPCs, Statuses,
       RefundStatuses
  <2>1. status' \in [Orders -> Statuses] /\ pc' \in [Workers -> PCs]
    OBVIOUS
  <2>2. acked' \in [Orders -> BOOLEAN] /\ op' \in [Workers -> Ops]
    OBVIOUS
  <2>3. ord' \in [Workers -> Orders \cup {NoOrder}] /\ faults' \in 0 .. MaxFaults
    OBVIOUS
  <2>4. /\ paidAt' \in [Orders -> BOOLEAN] /\ due' \in [Orders -> BOOLEAN]
        /\ fresh' \in [Orders -> BOOLEAN] /\ upstream' \in [Orders -> Payments]
    OBVIOUS
  <2>5. /\ code' \in [Orders -> {"absent", "unused", "used"}]
        /\ granted' \in [Orders -> Nat] /\ rebate' \in [Orders -> Nat]
        /\ audit' \in [Orders -> SUBSET AuditActions]
    OBVIOUS
  <2> QED
    BY <2>1, <2>2, <2>3, <2>4, <2>5
<1>2. WorkerInv' /\ FulfillingInv'
  BY DEF TypeOK, WorkerInv, FulfillingInv, FulfillmentExclusive,
       CreatorExclusive, OrderInv, BalanceInv, SubscriptionInv, PCs, CriticalPCs,
       CreatorPCs, ConfirmedPCs, Statuses, RefundStatuses, DeliveredStatuses
<1>3. FulfillmentExclusive'
  BY DEF TypeOK, WorkerInv, FulfillmentExclusive, CreatorExclusive, PCs,
       CriticalPCs, CreatorPCs, ConfirmedPCs, Statuses, RefundStatuses,
       DeliveredStatuses
<1>5. CreatorExclusive'
  BY DEF TypeOK, WorkerInv, FulfillmentExclusive, CreatorExclusive, PCs,
       CriticalPCs, CreatorPCs, ConfirmedPCs, Statuses, RefundStatuses,
       DeliveredStatuses
<1>4. OrderInv' /\ BalanceInv' /\ SubscriptionInv'
  BY DEF TypeOK, WorkerInv, FulfillingInv, OrderInv, BalanceInv,
       SubscriptionInv, PCs, CriticalPCs, CreatorPCs, ConfirmedPCs, Statuses,
       RefundStatuses, DeliveredStatuses
<1> QED
  BY <1>1, <1>2, <1>3, <1>4, <1>5 DEF IInv

LEMMA AlreadyStep ==
  ASSUME IInv, NEW w \in Workers, NEW r \in Results, Already(w, r)
  PROVE  IInv'
<1> USE OrdersAssumption, BoundsAssumption DEF IInv, Already, Goto, Return,
     orderVars, benefitVars, workerVars, Outcome, Results, SetStatus, SetStatusIf
<1>1. TypeOK'
  <2> USE DEF TypeOK, Payments, Ops, AuditActions, PCs, CriticalPCs, Statuses,
       RefundStatuses
  <2>1. status' \in [Orders -> Statuses] /\ pc' \in [Workers -> PCs]
    OBVIOUS
  <2>2. acked' \in [Orders -> BOOLEAN] /\ op' \in [Workers -> Ops]
    OBVIOUS
  <2>3. ord' \in [Workers -> Orders \cup {NoOrder}] /\ faults' \in 0 .. MaxFaults
    OBVIOUS
  <2>4. /\ paidAt' \in [Orders -> BOOLEAN] /\ due' \in [Orders -> BOOLEAN]
        /\ fresh' \in [Orders -> BOOLEAN] /\ upstream' \in [Orders -> Payments]
    OBVIOUS
  <2>5. /\ code' \in [Orders -> {"absent", "unused", "used"}]
        /\ granted' \in [Orders -> Nat] /\ rebate' \in [Orders -> Nat]
        /\ audit' \in [Orders -> SUBSET AuditActions]
    OBVIOUS
  <2> QED
    BY <2>1, <2>2, <2>3, <2>4, <2>5
<1>2. WorkerInv'
  BY DEF TypeOK, WorkerInv, FulfillingInv, FulfillmentExclusive,
       CreatorExclusive, OrderInv, BalanceInv, SubscriptionInv, PCs, CriticalPCs,
       CreatorPCs, ConfirmedPCs, Statuses, RefundStatuses, DeliveredStatuses
<1>5. FulfillingInv'
  BY DEF TypeOK, WorkerInv, FulfillingInv, FulfillmentExclusive,
       CreatorExclusive, OrderInv, BalanceInv, SubscriptionInv, PCs, CriticalPCs,
       CreatorPCs, ConfirmedPCs, Statuses, RefundStatuses, DeliveredStatuses
<1>3. FulfillmentExclusive' /\ CreatorExclusive'
  BY DEF TypeOK, WorkerInv, FulfillmentExclusive, CreatorExclusive, PCs,
       CriticalPCs, CreatorPCs, ConfirmedPCs, Statuses, RefundStatuses,
       DeliveredStatuses
<1>4. OrderInv' /\ BalanceInv' /\ SubscriptionInv'
  BY DEF TypeOK, WorkerInv, FulfillingInv, OrderInv, BalanceInv,
       SubscriptionInv, PCs, CriticalPCs, CreatorPCs, ConfirmedPCs, Statuses,
       RefundStatuses, DeliveredStatuses
<1> QED
  BY <1>1, <1>2, <1>3, <1>4, <1>5 DEF IInv

LEMMA ExecStep ==
  ASSUME IInv, NEW w \in Workers, NEW r \in Results, Exec(w, r)
  PROVE  IInv'
<1> USE OrdersAssumption, BoundsAssumption DEF IInv, Exec, Goto, Return,
     orderVars, benefitVars, workerVars, Outcome, Results, SetStatus, SetStatusIf
<1>1. TypeOK'
  <2> USE DEF TypeOK, Payments, Ops, AuditActions, PCs, CriticalPCs, Statuses,
       RefundStatuses
  <2>1. status' \in [Orders -> Statuses] /\ pc' \in [Workers -> PCs]
    OBVIOUS
  <2>2. acked' \in [Orders -> BOOLEAN]
    OBVIOUS
  <2>6. op' \in [Workers -> Ops]
    OBVIOUS
  <2>3. ord' \in [Workers -> Orders \cup {NoOrder}] /\ faults' \in 0 .. MaxFaults
    OBVIOUS
  <2>4. /\ paidAt' \in [Orders -> BOOLEAN] /\ due' \in [Orders -> BOOLEAN]
        /\ fresh' \in [Orders -> BOOLEAN] /\ upstream' \in [Orders -> Payments]
    OBVIOUS
  <2>5. /\ code' \in [Orders -> {"absent", "unused", "used"}]
        /\ granted' \in [Orders -> Nat] /\ rebate' \in [Orders -> Nat]
        /\ audit' \in [Orders -> SUBSET AuditActions]
    OBVIOUS
  <2> QED
    BY <2>1, <2>2, <2>3, <2>4, <2>5, <2>6
<1>2. WorkerInv' /\ FulfillingInv'
  BY DEF TypeOK, WorkerInv, FulfillingInv, FulfillmentExclusive,
       CreatorExclusive, OrderInv, BalanceInv, SubscriptionInv, PCs, CriticalPCs,
       CreatorPCs, ConfirmedPCs, Statuses, RefundStatuses, DeliveredStatuses
<1>3. FulfillmentExclusive' /\ CreatorExclusive'
  BY DEF TypeOK, WorkerInv, FulfillmentExclusive, CreatorExclusive, PCs,
       CriticalPCs, CreatorPCs, ConfirmedPCs, Statuses, RefundStatuses,
       DeliveredStatuses
<1>4. OrderInv' /\ BalanceInv' /\ SubscriptionInv'
  BY DEF TypeOK, WorkerInv, FulfillingInv, OrderInv, BalanceInv,
       SubscriptionInv, PCs, CriticalPCs, CreatorPCs, ConfirmedPCs, Statuses,
       RefundStatuses, DeliveredStatuses
<1> QED
  BY <1>1, <1>2, <1>3, <1>4 DEF IInv

LEMMA LockStep ==
  ASSUME IInv, NEW w \in Workers, NEW r \in Results, Lock(w, r)
  PROVE  IInv'
<1> USE OrdersAssumption, BoundsAssumption DEF IInv, Lock, Lockable, Goto,
     Return, orderVars, benefitVars, workerVars, Outcome, Results, SetStatus,
     SetStatusIf
<1>1. TypeOK'
  <2> USE DEF TypeOK, Payments, Ops, AuditActions, PCs, CriticalPCs, Statuses,
       RefundStatuses
  <2>1. status' \in [Orders -> Statuses] /\ pc' \in [Workers -> PCs]
    OBVIOUS
  <2>2. acked' \in [Orders -> BOOLEAN] /\ op' \in [Workers -> Ops]
    OBVIOUS
  <2>3. ord' \in [Workers -> Orders \cup {NoOrder}] /\ faults' \in 0 .. MaxFaults
    OBVIOUS
  <2>4. /\ paidAt' \in [Orders -> BOOLEAN] /\ due' \in [Orders -> BOOLEAN]
        /\ fresh' \in [Orders -> BOOLEAN] /\ upstream' \in [Orders -> Payments]
    OBVIOUS
  <2>5. /\ code' \in [Orders -> {"absent", "unused", "used"}]
        /\ granted' \in [Orders -> Nat] /\ rebate' \in [Orders -> Nat]
        /\ audit' \in [Orders -> SUBSET AuditActions]
    OBVIOUS
  <2> QED
    BY <2>1, <2>2, <2>3, <2>4, <2>5
<1>2. WorkerInv' /\ FulfillingInv'
  BY DEF TypeOK, WorkerInv, FulfillingInv, FulfillmentExclusive,
       CreatorExclusive, OrderInv, BalanceInv, SubscriptionInv, PCs, CriticalPCs,
       CreatorPCs, ConfirmedPCs, Statuses, RefundStatuses, DeliveredStatuses
<1>3. FulfillmentExclusive' /\ CreatorExclusive'
  BY DEF TypeOK, WorkerInv, FulfillmentExclusive, CreatorExclusive, PCs,
       CriticalPCs, CreatorPCs, ConfirmedPCs, Statuses, RefundStatuses,
       DeliveredStatuses
<1>4. OrderInv' /\ BalanceInv' /\ SubscriptionInv'
  BY DEF TypeOK, WorkerInv, FulfillingInv, OrderInv, BalanceInv,
       SubscriptionInv, PCs, CriticalPCs, CreatorPCs, ConfirmedPCs, Statuses,
       RefundStatuses, DeliveredStatuses
<1> QED
  BY <1>1, <1>2, <1>3, <1>4 DEF IInv

LEMMA LookupStep ==
  ASSUME IInv, NEW w \in Workers, NEW r \in Results, Lookup(w, r)
  PROVE  IInv'
<1> USE OrdersAssumption, BoundsAssumption DEF IInv, Lookup,
     ResolveRedeemAction, Goto, orderVars, benefitVars, workerVars, Outcome, Results,
     SetStatus, SetStatusIf
<1>1. TypeOK'
  <2> USE DEF TypeOK, Payments, Ops, AuditActions, PCs, CriticalPCs, Statuses,
       RefundStatuses
  <2>1. status' \in [Orders -> Statuses] /\ pc' \in [Workers -> PCs]
    OBVIOUS
  <2>2. acked' \in [Orders -> BOOLEAN] /\ op' \in [Workers -> Ops]
    OBVIOUS
  <2>3. ord' \in [Workers -> Orders \cup {NoOrder}] /\ faults' \in 0 .. MaxFaults
    OBVIOUS
  <2>4. /\ paidAt' \in [Orders -> BOOLEAN] /\ due' \in [Orders -> BOOLEAN]
        /\ fresh' \in [Orders -> BOOLEAN] /\ upstream' \in [Orders -> Payments]
    OBVIOUS
  <2>5. /\ code' \in [Orders -> {"absent", "unused", "used"}]
        /\ granted' \in [Orders -> Nat] /\ rebate' \in [Orders -> Nat]
        /\ audit' \in [Orders -> SUBSET AuditActions]
    OBVIOUS
  <2> QED
    BY <2>1, <2>2, <2>3, <2>4, <2>5
<1>2. WorkerInv' /\ FulfillingInv'
  BY DEF TypeOK, WorkerInv, FulfillingInv, FulfillmentExclusive,
       CreatorExclusive, OrderInv, BalanceInv, SubscriptionInv, PCs, CriticalPCs,
       CreatorPCs, ConfirmedPCs, Statuses, RefundStatuses, DeliveredStatuses
<1>3. FulfillmentExclusive' /\ CreatorExclusive'
  BY DEF TypeOK, WorkerInv, FulfillmentExclusive, CreatorExclusive, PCs,
       CriticalPCs, CreatorPCs, ConfirmedPCs, Statuses, RefundStatuses,
       DeliveredStatuses
<1>4. OrderInv' /\ BalanceInv' /\ SubscriptionInv'
  BY DEF TypeOK, WorkerInv, FulfillingInv, OrderInv, BalanceInv,
       SubscriptionInv, PCs, CriticalPCs, CreatorPCs, ConfirmedPCs, Statuses,
       RefundStatuses, DeliveredStatuses
<1> QED
  BY <1>1, <1>2, <1>3, <1>4 DEF IInv

LEMMA CreateCodeStep ==
  ASSUME IInv, NEW w \in Workers, NEW r \in Results, CreateCode(w, r)
  PROVE  IInv'
<1> USE OrdersAssumption, BoundsAssumption DEF IInv, CreateCode, Goto,
     orderVars, benefitVars, workerVars, Outcome, Results, SetStatus, SetStatusIf
<1>1. TypeOK'
  <2> USE DEF TypeOK, Payments, Ops, AuditActions, PCs, CriticalPCs, Statuses,
       RefundStatuses
  <2>1. status' \in [Orders -> Statuses] /\ pc' \in [Workers -> PCs]
    OBVIOUS
  <2>2. acked' \in [Orders -> BOOLEAN] /\ op' \in [Workers -> Ops]
    OBVIOUS
  <2>3. ord' \in [Workers -> Orders \cup {NoOrder}] /\ faults' \in 0 .. MaxFaults
    OBVIOUS
  <2>4. /\ paidAt' \in [Orders -> BOOLEAN] /\ due' \in [Orders -> BOOLEAN]
        /\ fresh' \in [Orders -> BOOLEAN] /\ upstream' \in [Orders -> Payments]
    OBVIOUS
  <2>5. /\ code' \in [Orders -> {"absent", "unused", "used"}]
        /\ granted' \in [Orders -> Nat] /\ rebate' \in [Orders -> Nat]
        /\ audit' \in [Orders -> SUBSET AuditActions]
    OBVIOUS
  <2> QED
    BY <2>1, <2>2, <2>3, <2>4, <2>5
<1>2. WorkerInv' /\ FulfillingInv'
  BY DEF TypeOK, WorkerInv, FulfillingInv, FulfillmentExclusive,
       CreatorExclusive, OrderInv, BalanceInv, SubscriptionInv, PCs, CriticalPCs,
       CreatorPCs, ConfirmedPCs, Statuses, RefundStatuses, DeliveredStatuses
<1>3. FulfillmentExclusive' /\ CreatorExclusive'
  BY DEF TypeOK, WorkerInv, FulfillmentExclusive, CreatorExclusive, PCs,
       CriticalPCs, CreatorPCs, ConfirmedPCs, Statuses, RefundStatuses,
       DeliveredStatuses
<1>4. OrderInv' /\ BalanceInv' /\ SubscriptionInv'
  BY DEF TypeOK, WorkerInv, FulfillingInv, OrderInv, BalanceInv,
       SubscriptionInv, PCs, CriticalPCs, CreatorPCs, ConfirmedPCs, Statuses,
       RefundStatuses, DeliveredStatuses
<1> QED
  BY <1>1, <1>2, <1>3, <1>4 DEF IInv

LEMMA RedeemStep ==
  ASSUME IInv, NEW w \in Workers, NEW r \in Results, Redeem(w, r)
  PROVE  IInv'
<1> USE OrdersAssumption, BoundsAssumption DEF IInv, Redeem, UseCode, Goto,
     orderVars, benefitVars, workerVars, Outcome, Results, SetStatus, SetStatusIf
<1>1. TypeOK'
  <2> USE DEF TypeOK, Payments, Ops, AuditActions, PCs, CriticalPCs, Statuses,
       RefundStatuses
  <2>1. status' \in [Orders -> Statuses] /\ pc' \in [Workers -> PCs]
    OBVIOUS
  <2>2. acked' \in [Orders -> BOOLEAN] /\ op' \in [Workers -> Ops]
    OBVIOUS
  <2>3. ord' \in [Workers -> Orders \cup {NoOrder}] /\ faults' \in 0 .. MaxFaults
    OBVIOUS
  <2>4. /\ paidAt' \in [Orders -> BOOLEAN] /\ due' \in [Orders -> BOOLEAN]
        /\ fresh' \in [Orders -> BOOLEAN] /\ upstream' \in [Orders -> Payments]
    OBVIOUS
  <2>5. /\ code' \in [Orders -> {"absent", "unused", "used"}]
        /\ audit' \in [Orders -> SUBSET AuditActions]
    OBVIOUS
  <2>6. granted' \in [Orders -> Nat]
    <3>1. ord[w] \in Orders
      BY DEF WorkerInv
    <3> QED
      BY <3>1
  <2>7. rebate' \in [Orders -> Nat]
    OBVIOUS
  <2> QED
    BY <2>1, <2>2, <2>3, <2>4, <2>5, <2>6, <2>7
<1>2. WorkerInv' /\ FulfillingInv'
  BY DEF TypeOK, WorkerInv, FulfillingInv, FulfillmentExclusive,
       CreatorExclusive, OrderInv, BalanceInv, SubscriptionInv, PCs, CriticalPCs,
       CreatorPCs, ConfirmedPCs, Statuses, RefundStatuses, DeliveredStatuses
<1>3. FulfillmentExclusive' /\ CreatorExclusive'
  BY DEF TypeOK, WorkerInv, FulfillmentExclusive, CreatorExclusive, PCs,
       CriticalPCs, CreatorPCs, ConfirmedPCs, Statuses, RefundStatuses,
       DeliveredStatuses
<1>4. OrderInv' /\ BalanceInv' /\ SubscriptionInv'
  BY DEF TypeOK, WorkerInv, FulfillingInv, OrderInv, BalanceInv,
       SubscriptionInv, PCs, CriticalPCs, CreatorPCs, ConfirmedPCs, Statuses,
       RefundStatuses, DeliveredStatuses
<1> QED
  BY <1>1, <1>2, <1>3, <1>4 DEF IInv

LEMMA RebateStep ==
  ASSUME IInv, NEW w \in Workers, NEW r \in Results, Rebate(w, r)
  PROVE  IInv'
<1> USE OrdersAssumption, BoundsAssumption DEF IInv, Rebate, Unclaimed, Goto,
     orderVars, benefitVars, workerVars, Outcome, Results, SetStatus, SetStatusIf
<1>1. TypeOK'
  <2> USE DEF TypeOK, Payments, Ops, AuditActions, PCs, CriticalPCs, Statuses,
       RefundStatuses
  <2>1. status' \in [Orders -> Statuses] /\ pc' \in [Workers -> PCs]
    OBVIOUS
  <2>2. acked' \in [Orders -> BOOLEAN] /\ op' \in [Workers -> Ops]
    OBVIOUS
  <2>3. ord' \in [Workers -> Orders \cup {NoOrder}] /\ faults' \in 0 .. MaxFaults
    OBVIOUS
  <2>4. /\ paidAt' \in [Orders -> BOOLEAN] /\ due' \in [Orders -> BOOLEAN]
        /\ fresh' \in [Orders -> BOOLEAN] /\ upstream' \in [Orders -> Payments]
    OBVIOUS
  <2>5. /\ code' \in [Orders -> {"absent", "unused", "used"}]
        /\ audit' \in [Orders -> SUBSET AuditActions]
    OBVIOUS
  <2>6. granted' \in [Orders -> Nat]
    OBVIOUS
  <2>7. rebate' \in [Orders -> Nat]
    <3>1. ord[w] \in Orders
      BY DEF WorkerInv
    <3> QED
      BY <3>1
  <2> QED
    BY <2>1, <2>2, <2>3, <2>4, <2>5, <2>6, <2>7
<1>2. WorkerInv' /\ FulfillingInv'
  BY DEF TypeOK, WorkerInv, FulfillingInv, FulfillmentExclusive,
       CreatorExclusive, OrderInv, BalanceInv, SubscriptionInv, PCs, CriticalPCs,
       CreatorPCs, ConfirmedPCs, Statuses, RefundStatuses, DeliveredStatuses
<1>3. FulfillmentExclusive' /\ CreatorExclusive'
  BY DEF TypeOK, WorkerInv, FulfillmentExclusive, CreatorExclusive, PCs,
       CriticalPCs, CreatorPCs, ConfirmedPCs, Statuses, RefundStatuses,
       DeliveredStatuses
<1>4. OrderInv' /\ BalanceInv' /\ SubscriptionInv'
  BY DEF TypeOK, WorkerInv, FulfillingInv, OrderInv, BalanceInv,
       SubscriptionInv, PCs, CriticalPCs, CreatorPCs, ConfirmedPCs, Statuses,
       RefundStatuses, DeliveredStatuses
<1> QED
  BY <1>1, <1>2, <1>3, <1>4 DEF IInv

LEMMA SubCheckStep ==
  ASSUME IInv, NEW w \in Workers, NEW r \in Results, SubCheck(w, r)
  PROVE  IInv'
<1> USE OrdersAssumption, BoundsAssumption DEF IInv, SubCheck, HasAuditLog,
     Goto, orderVars, benefitVars, workerVars, Outcome, Results, SetStatus,
     SetStatusIf
<1>1. TypeOK'
  <2> USE DEF TypeOK, Payments, Ops, AuditActions, PCs, CriticalPCs, Statuses,
       RefundStatuses
  <2>1. status' \in [Orders -> Statuses] /\ pc' \in [Workers -> PCs]
    OBVIOUS
  <2>2. acked' \in [Orders -> BOOLEAN] /\ op' \in [Workers -> Ops]
    OBVIOUS
  <2>3. ord' \in [Workers -> Orders \cup {NoOrder}] /\ faults' \in 0 .. MaxFaults
    OBVIOUS
  <2>4. /\ paidAt' \in [Orders -> BOOLEAN] /\ due' \in [Orders -> BOOLEAN]
        /\ fresh' \in [Orders -> BOOLEAN] /\ upstream' \in [Orders -> Payments]
    OBVIOUS
  <2>5. /\ code' \in [Orders -> {"absent", "unused", "used"}]
        /\ granted' \in [Orders -> Nat] /\ rebate' \in [Orders -> Nat]
        /\ audit' \in [Orders -> SUBSET AuditActions]
    OBVIOUS
  <2> QED
    BY <2>1, <2>2, <2>3, <2>4, <2>5
<1>2. WorkerInv' /\ FulfillingInv'
  BY DEF TypeOK, WorkerInv, FulfillingInv, FulfillmentExclusive,
       CreatorExclusive, OrderInv, BalanceInv, SubscriptionInv, PCs, CriticalPCs,
       CreatorPCs, ConfirmedPCs, Statuses, RefundStatuses, DeliveredStatuses
<1>3. FulfillmentExclusive' /\ CreatorExclusive'
  BY DEF TypeOK, WorkerInv, FulfillmentExclusive, CreatorExclusive, PCs,
       CriticalPCs, CreatorPCs, ConfirmedPCs, Statuses, RefundStatuses,
       DeliveredStatuses
<1>4. OrderInv' /\ BalanceInv' /\ SubscriptionInv'
  BY DEF TypeOK, WorkerInv, FulfillingInv, OrderInv, BalanceInv,
       SubscriptionInv, PCs, CriticalPCs, CreatorPCs, ConfirmedPCs, Statuses,
       RefundStatuses, DeliveredStatuses
<1> QED
  BY <1>1, <1>2, <1>3, <1>4 DEF IInv

LEMMA AssignStep ==
  ASSUME IInv, NEW w \in Workers, NEW r \in Results, Assign(w, r)
  PROVE  IInv'
<1> USE OrdersAssumption, BoundsAssumption DEF IInv, Assign, Goto, orderVars,
     benefitVars, workerVars, Outcome, Results, SetStatus, SetStatusIf
<1>1. TypeOK'
  <2> USE DEF TypeOK, Payments, Ops, AuditActions, PCs, CriticalPCs, Statuses,
       RefundStatuses
  <2>1. status' \in [Orders -> Statuses] /\ pc' \in [Workers -> PCs]
    OBVIOUS
  <2>2. acked' \in [Orders -> BOOLEAN] /\ op' \in [Workers -> Ops]
    OBVIOUS
  <2>3. ord' \in [Workers -> Orders \cup {NoOrder}] /\ faults' \in 0 .. MaxFaults
    OBVIOUS
  <2>4. /\ paidAt' \in [Orders -> BOOLEAN] /\ due' \in [Orders -> BOOLEAN]
        /\ fresh' \in [Orders -> BOOLEAN] /\ upstream' \in [Orders -> Payments]
    OBVIOUS
  <2>5. /\ code' \in [Orders -> {"absent", "unused", "used"}]
        /\ audit' \in [Orders -> SUBSET AuditActions]
    OBVIOUS
  <2>6. granted' \in [Orders -> Nat]
    <3>1. ord[w] \in Orders
      BY DEF WorkerInv
    <3> QED
      BY <3>1
  <2>7. rebate' \in [Orders -> Nat]
    OBVIOUS
  <2> QED
    BY <2>1, <2>2, <2>3, <2>4, <2>5, <2>6, <2>7
<1>2. WorkerInv' /\ FulfillingInv'
  BY DEF TypeOK, WorkerInv, FulfillingInv, FulfillmentExclusive,
       CreatorExclusive, OrderInv, BalanceInv, SubscriptionInv, PCs, CriticalPCs,
       CreatorPCs, ConfirmedPCs, Statuses, RefundStatuses, DeliveredStatuses
<1>3. FulfillmentExclusive' /\ CreatorExclusive'
  BY DEF TypeOK, WorkerInv, FulfillmentExclusive, CreatorExclusive, PCs,
       CriticalPCs, CreatorPCs, ConfirmedPCs, Statuses, RefundStatuses,
       DeliveredStatuses
<1>4. OrderInv' /\ BalanceInv' /\ SubscriptionInv'
  BY DEF TypeOK, WorkerInv, FulfillingInv, OrderInv, BalanceInv,
       SubscriptionInv, PCs, CriticalPCs, CreatorPCs, ConfirmedPCs, Statuses,
       RefundStatuses, DeliveredStatuses
<1> QED
  BY <1>1, <1>2, <1>3, <1>4 DEF IInv

LEMMA CompleteStep ==
  ASSUME IInv, NEW w \in Workers, NEW r \in Results, Complete(w, r)
  PROVE  IInv'
<1> USE OrdersAssumption, BoundsAssumption DEF IInv, Complete, StillRecharging,
     Goto, orderVars, benefitVars, workerVars, Outcome, Results, SetStatus,
     SetStatusIf
<1>1. TypeOK'
  <2> USE DEF TypeOK, Payments, Ops, AuditActions, PCs, CriticalPCs, Statuses,
       RefundStatuses
  <2>1. status' \in [Orders -> Statuses] /\ pc' \in [Workers -> PCs]
    OBVIOUS
  <2>2. acked' \in [Orders -> BOOLEAN] /\ op' \in [Workers -> Ops]
    OBVIOUS
  <2>3. ord' \in [Workers -> Orders \cup {NoOrder}] /\ faults' \in 0 .. MaxFaults
    OBVIOUS
  <2>4. /\ paidAt' \in [Orders -> BOOLEAN] /\ due' \in [Orders -> BOOLEAN]
        /\ fresh' \in [Orders -> BOOLEAN] /\ upstream' \in [Orders -> Payments]
    OBVIOUS
  <2>5. /\ code' \in [Orders -> {"absent", "unused", "used"}]
        /\ granted' \in [Orders -> Nat] /\ rebate' \in [Orders -> Nat]
        /\ audit' \in [Orders -> SUBSET AuditActions]
    OBVIOUS
  <2> QED
    BY <2>1, <2>2, <2>3, <2>4, <2>5
<1>2. WorkerInv' /\ FulfillingInv'
  BY DEF TypeOK, WorkerInv, FulfillingInv, FulfillmentExclusive,
       CreatorExclusive, OrderInv, BalanceInv, SubscriptionInv, PCs, CriticalPCs,
       CreatorPCs, ConfirmedPCs, Statuses, RefundStatuses, DeliveredStatuses
<1>3. FulfillmentExclusive' /\ CreatorExclusive'
  BY DEF TypeOK, WorkerInv, FulfillmentExclusive, CreatorExclusive, PCs,
       CriticalPCs, CreatorPCs, ConfirmedPCs, Statuses, RefundStatuses,
       DeliveredStatuses
<1>4. OrderInv' /\ BalanceInv' /\ SubscriptionInv'
  BY DEF TypeOK, WorkerInv, FulfillingInv, OrderInv, BalanceInv,
       SubscriptionInv, PCs, CriticalPCs, CreatorPCs, ConfirmedPCs, Statuses,
       RefundStatuses, DeliveredStatuses
<1> QED
  BY <1>1, <1>2, <1>3, <1>4 DEF IInv

LEMMA AuditStep ==
  ASSUME IInv, NEW w \in Workers, NEW r \in Results, Audit(w, r)
  PROVE  IInv'
<1> USE OrdersAssumption, BoundsAssumption DEF IInv, Audit, Return, orderVars,
     benefitVars, workerVars, Outcome, Results, SetStatus, SetStatusIf
<1>1. TypeOK'
  <2> USE DEF TypeOK, Payments, Ops, AuditActions, PCs, CriticalPCs, Statuses,
       RefundStatuses
  <2>1. status' \in [Orders -> Statuses] /\ pc' \in [Workers -> PCs]
    OBVIOUS
  <2>2. acked' \in [Orders -> BOOLEAN] /\ op' \in [Workers -> Ops]
    OBVIOUS
  <2>3. ord' \in [Workers -> Orders \cup {NoOrder}] /\ faults' \in 0 .. MaxFaults
    OBVIOUS
  <2>4. /\ paidAt' \in [Orders -> BOOLEAN] /\ due' \in [Orders -> BOOLEAN]
        /\ fresh' \in [Orders -> BOOLEAN] /\ upstream' \in [Orders -> Payments]
    OBVIOUS
  <2>5. /\ code' \in [Orders -> {"absent", "unused", "used"}]
        /\ granted' \in [Orders -> Nat] /\ rebate' \in [Orders -> Nat]
        /\ audit' \in [Orders -> SUBSET AuditActions]
    OBVIOUS
  <2> QED
    BY <2>1, <2>2, <2>3, <2>4, <2>5
<1>2. WorkerInv' /\ FulfillingInv'
  BY DEF TypeOK, WorkerInv, FulfillingInv, FulfillmentExclusive,
       CreatorExclusive, OrderInv, BalanceInv, SubscriptionInv, PCs, CriticalPCs,
       CreatorPCs, ConfirmedPCs, Statuses, RefundStatuses, DeliveredStatuses
<1>3. FulfillmentExclusive' /\ CreatorExclusive'
  BY DEF TypeOK, WorkerInv, FulfillmentExclusive, CreatorExclusive, PCs,
       CriticalPCs, CreatorPCs, ConfirmedPCs, Statuses, RefundStatuses,
       DeliveredStatuses
<1>4. OrderInv' /\ BalanceInv' /\ SubscriptionInv'
  BY DEF TypeOK, WorkerInv, FulfillingInv, OrderInv, BalanceInv,
       SubscriptionInv, PCs, CriticalPCs, CreatorPCs, ConfirmedPCs, Statuses,
       RefundStatuses, DeliveredStatuses
<1> QED
  BY <1>1, <1>2, <1>3, <1>4 DEF IInv

LEMMA FailStep ==
  ASSUME IInv, NEW w \in Workers, NEW r \in Results, Fail(w, r)
  PROVE  IInv'
<1> USE OrdersAssumption, BoundsAssumption DEF IInv, Fail, StillRecharging,
     Return, orderVars, benefitVars, workerVars, Outcome, Results, SetStatus,
     SetStatusIf
<1>1. TypeOK'
  <2> USE DEF TypeOK, Payments, Ops, AuditActions, PCs, CriticalPCs, Statuses,
       RefundStatuses
  <2>1. status' \in [Orders -> Statuses] /\ pc' \in [Workers -> PCs]
    OBVIOUS
  <2>2. acked' \in [Orders -> BOOLEAN] /\ op' \in [Workers -> Ops]
    OBVIOUS
  <2>3. ord' \in [Workers -> Orders \cup {NoOrder}] /\ faults' \in 0 .. MaxFaults
    OBVIOUS
  <2>4. /\ paidAt' \in [Orders -> BOOLEAN] /\ due' \in [Orders -> BOOLEAN]
        /\ fresh' \in [Orders -> BOOLEAN] /\ upstream' \in [Orders -> Payments]
    OBVIOUS
  <2>5. /\ code' \in [Orders -> {"absent", "unused", "used"}]
        /\ granted' \in [Orders -> Nat] /\ rebate' \in [Orders -> Nat]
        /\ audit' \in [Orders -> SUBSET AuditActions]
    OBVIOUS
  <2> QED
    BY <2>1, <2>2, <2>3, <2>4, <2>5
<1>2. WorkerInv' /\ FulfillingInv'
  BY DEF TypeOK, WorkerInv, FulfillingInv, FulfillmentExclusive,
       CreatorExclusive, OrderInv, BalanceInv, SubscriptionInv, PCs, CriticalPCs,
       CreatorPCs, ConfirmedPCs, Statuses, RefundStatuses, DeliveredStatuses
<1>3. FulfillmentExclusive' /\ CreatorExclusive'
  BY DEF TypeOK, WorkerInv, FulfillmentExclusive, CreatorExclusive, PCs,
       CriticalPCs, CreatorPCs, ConfirmedPCs, Statuses, RefundStatuses,
       DeliveredStatuses
<1>4. OrderInv' /\ BalanceInv' /\ SubscriptionInv'
  BY DEF TypeOK, WorkerInv, FulfillingInv, OrderInv, BalanceInv,
       SubscriptionInv, PCs, CriticalPCs, CreatorPCs, ConfirmedPCs, Statuses,
       RefundStatuses, DeliveredStatuses
<1> QED
  BY <1>1, <1>2, <1>3, <1>4 DEF IInv

LEMMA ResetStep ==
  ASSUME IInv, NEW w \in Workers, NEW r \in Results, Reset(w, r)
  PROVE  IInv'
<1> USE OrdersAssumption, BoundsAssumption DEF IInv, Reset, Goto, Return,
     orderVars, benefitVars, workerVars, Outcome, Results, SetStatus, SetStatusIf
<1>1. TypeOK'
  <2> USE DEF TypeOK, Payments, Ops, AuditActions, PCs, CriticalPCs, Statuses,
       RefundStatuses
  <2>1. status' \in [Orders -> Statuses] /\ pc' \in [Workers -> PCs]
    OBVIOUS
  <2>2. acked' \in [Orders -> BOOLEAN] /\ op' \in [Workers -> Ops]
    OBVIOUS
  <2>3. ord' \in [Workers -> Orders \cup {NoOrder}] /\ faults' \in 0 .. MaxFaults
    OBVIOUS
  <2>4. /\ paidAt' \in [Orders -> BOOLEAN] /\ due' \in [Orders -> BOOLEAN]
        /\ fresh' \in [Orders -> BOOLEAN] /\ upstream' \in [Orders -> Payments]
    OBVIOUS
  <2>5. /\ code' \in [Orders -> {"absent", "unused", "used"}]
        /\ granted' \in [Orders -> Nat] /\ rebate' \in [Orders -> Nat]
        /\ audit' \in [Orders -> SUBSET AuditActions]
    OBVIOUS
  <2> QED
    BY <2>1, <2>2, <2>3, <2>4, <2>5
<1>2. WorkerInv' /\ FulfillingInv'
  BY DEF TypeOK, WorkerInv, FulfillingInv, FulfillmentExclusive,
       CreatorExclusive, OrderInv, BalanceInv, SubscriptionInv, PCs, CriticalPCs,
       CreatorPCs, ConfirmedPCs, Statuses, RefundStatuses, DeliveredStatuses
<1>3. FulfillmentExclusive' /\ CreatorExclusive'
  BY DEF TypeOK, WorkerInv, FulfillmentExclusive, CreatorExclusive, PCs,
       CriticalPCs, CreatorPCs, ConfirmedPCs, Statuses, RefundStatuses,
       DeliveredStatuses
<1>4. OrderInv' /\ BalanceInv' /\ SubscriptionInv'
  BY DEF TypeOK, WorkerInv, FulfillingInv, OrderInv, BalanceInv,
       SubscriptionInv, PCs, CriticalPCs, CreatorPCs, ConfirmedPCs, Statuses,
       RefundStatuses, DeliveredStatuses
<1> QED
  BY <1>1, <1>2, <1>3, <1>4 DEF IInv

LEMMA CrashStep ==
  ASSUME IInv, NEW w \in Workers, Crash(w)
  PROVE  IInv'
<1> USE OrdersAssumption, BoundsAssumption DEF IInv, Crash, Return, orderVars,
     benefitVars, workerVars, Outcome, Results, SetStatus, SetStatusIf
<1>1. TypeOK'
  <2> USE DEF TypeOK, Payments, Ops, AuditActions, PCs, CriticalPCs, Statuses,
       RefundStatuses
  <2>1. status' \in [Orders -> Statuses] /\ pc' \in [Workers -> PCs]
    OBVIOUS
  <2>2. acked' \in [Orders -> BOOLEAN] /\ op' \in [Workers -> Ops]
    OBVIOUS
  <2>3. ord' \in [Workers -> Orders \cup {NoOrder}] /\ faults' \in 0 .. MaxFaults
    OBVIOUS
  <2>4. /\ paidAt' \in [Orders -> BOOLEAN] /\ due' \in [Orders -> BOOLEAN]
        /\ fresh' \in [Orders -> BOOLEAN] /\ upstream' \in [Orders -> Payments]
    OBVIOUS
  <2>5. /\ code' \in [Orders -> {"absent", "unused", "used"}]
        /\ granted' \in [Orders -> Nat] /\ rebate' \in [Orders -> Nat]
        /\ audit' \in [Orders -> SUBSET AuditActions]
    OBVIOUS
  <2> QED
    BY <2>1, <2>2, <2>3, <2>4, <2>5
<1>2. WorkerInv' /\ FulfillingInv'
  BY DEF TypeOK, WorkerInv, FulfillingInv, FulfillmentExclusive,
       CreatorExclusive, OrderInv, BalanceInv, SubscriptionInv, PCs, CriticalPCs,
       CreatorPCs, ConfirmedPCs, Statuses, RefundStatuses, DeliveredStatuses
<1>3. FulfillmentExclusive' /\ CreatorExclusive'
  BY DEF TypeOK, WorkerInv, FulfillmentExclusive, CreatorExclusive, PCs,
       CriticalPCs, CreatorPCs, ConfirmedPCs, Statuses, RefundStatuses,
       DeliveredStatuses
<1>4. OrderInv' /\ BalanceInv' /\ SubscriptionInv'
  BY DEF TypeOK, WorkerInv, FulfillingInv, OrderInv, BalanceInv,
       SubscriptionInv, PCs, CriticalPCs, CreatorPCs, ConfirmedPCs, Statuses,
       RefundStatuses, DeliveredStatuses
<1> QED
  BY <1>1, <1>2, <1>3, <1>4 DEF IInv

-----------------------------------------------------------------------------
(* The theorems. *)

LEMMA InitIInv == Init => IInv
  BY OrdersAssumption, BoundsAssumption
  DEF Init, IInv, TypeOK, WorkerInv, FulfillingInv, FulfillmentExclusive,
      CreatorExclusive, OrderInv, BalanceInv, SubscriptionInv, Statuses,
      RefundStatuses, DeliveredStatuses, CreatorPCs, ConfirmedPCs, PCs,
      CriticalPCs, Ops, Payments, AuditActions

LEMMA NextIInv == IInv /\ [Next]_vars => IInv'
<1> SUFFICES ASSUME IInv, [Next]_vars PROVE IInv'
  OBVIOUS
<1>1. ASSUME NEW o \in Orders, Pay(o)
      PROVE  IInv'
  BY <1>1, PayStep
<1>2. ASSUME NEW o \in Orders, TimesOut(o)
      PROVE  IInv'
  BY <1>2, TimesOutStep
<1>3. ASSUME NEW o \in Orders, GraceElapses(o)
      PROVE  IInv'
  BY <1>3, GraceElapsesStep
<1>4. ASSUME NEW o \in Orders, RefundMoves(o)
      PROVE  IInv'
  BY <1>4, RefundMovesStep
<1>5. ASSUME NEW w \in Workers, InvokeOk(w)
      PROVE  IInv'
  BY <1>5, InvokeOkStep
<1>6. ASSUME NEW w \in Workers, InvokeFail(w)
      PROVE  IInv'
  BY <1>6, InvokeFailStep
<1>7. ASSUME NEW w \in Workers, Close(w)
      PROVE  IInv'
  BY <1>7, CloseStep
<1>8. ASSUME NEW w \in Workers, Crash(w)
      PROVE  IInv'
  BY <1>8, CrashStep
<1>9. ASSUME NEW w \in Workers, NEW r \in Results, CreateInsert(w, r)
      PROVE  IInv'
  BY <1>9, CreateInsertStep
<1>10. ASSUME NEW w \in Workers, NEW r \in Results, CreateFail(w, r)
      PROVE  IInv'
  BY <1>10, CreateFailStep
<1>11. ASSUME NEW w \in Workers, NEW r \in Results, Query(w, r)
      PROVE  IInv'
  BY <1>11, QueryStep
<1>12. ASSUME NEW w \in Workers, NEW r \in Results, Persist(w, r)
      PROVE  IInv'
  BY <1>12, PersistStep
<1>13. ASSUME NEW w \in Workers, NEW r \in Results, CancelUpd(w, r)
      PROVE  IInv'
  BY <1>13, CancelUpdStep
<1>14. ASSUME NEW w \in Workers, NEW r \in Results, Confirm(w, r)
      PROVE  IInv'
  BY <1>14, ConfirmStep
<1>15. ASSUME NEW w \in Workers, NEW r \in Results, ToPaid(w, r)
      PROVE  IInv'
  BY <1>15, ToPaidStep
<1>16. ASSUME NEW w \in Workers, NEW r \in Results, Already(w, r)
      PROVE  IInv'
  BY <1>16, AlreadyStep
<1>17. ASSUME NEW w \in Workers, NEW r \in Results, Exec(w, r)
      PROVE  IInv'
  BY <1>17, ExecStep
<1>18. ASSUME NEW w \in Workers, NEW r \in Results, Lock(w, r)
      PROVE  IInv'
  BY <1>18, LockStep
<1>19. ASSUME NEW w \in Workers, NEW r \in Results, Lookup(w, r)
      PROVE  IInv'
  BY <1>19, LookupStep
<1>20. ASSUME NEW w \in Workers, NEW r \in Results, CreateCode(w, r)
      PROVE  IInv'
  BY <1>20, CreateCodeStep
<1>21. ASSUME NEW w \in Workers, NEW r \in Results, Redeem(w, r)
      PROVE  IInv'
  BY <1>21, RedeemStep
<1>22. ASSUME NEW w \in Workers, NEW r \in Results, Rebate(w, r)
      PROVE  IInv'
  BY <1>22, RebateStep
<1>23. ASSUME NEW w \in Workers, NEW r \in Results, SubCheck(w, r)
      PROVE  IInv'
  BY <1>23, SubCheckStep
<1>24. ASSUME NEW w \in Workers, NEW r \in Results, Assign(w, r)
      PROVE  IInv'
  BY <1>24, AssignStep
<1>25. ASSUME NEW w \in Workers, NEW r \in Results, Complete(w, r)
      PROVE  IInv'
  BY <1>25, CompleteStep
<1>26. ASSUME NEW w \in Workers, NEW r \in Results, Audit(w, r)
      PROVE  IInv'
  BY <1>26, AuditStep
<1>27. ASSUME NEW w \in Workers, NEW r \in Results, Fail(w, r)
      PROVE  IInv'
  BY <1>27, FailStep
<1>28. ASSUME NEW w \in Workers, NEW r \in Results, Reset(w, r)
      PROVE  IInv'
  BY <1>28, ResetStep
<1>29. ASSUME NEW w \in Workers, NEW o \in Orders, CreateCount(w, o)
      PROVE  IInv'
  BY <1>29, CreateCountStep
<1>30. ASSUME NEW w \in Workers, NEW o \in Orders, WebhookStart(w, o)
      PROVE  IInv'
  BY <1>30, WebhookStartStep
<1>31. ASSUME NEW w \in Workers, NEW o \in Orders, RetryStart(w, o)
      PROVE  IInv'
  BY <1>31, RetryStartStep
<1>32. ASSUME NEW w \in Workers, NEW o \in Orders, CancelStart(w, o)
      PROVE  IInv'
  BY <1>32, CancelStartStep
<1>33. ASSUME NEW w \in Workers, NEW o \in Orders, ExpireStart(w, o)
      PROVE  IInv'
  BY <1>33, ExpireStartStep
<1>34. ASSUME NEW w \in Workers, NEW o \in Orders, VerifyStart(w, o)
      PROVE  IInv'
  BY <1>34, VerifyStartStep
<1>35. CASE UNCHANGED vars
  BY <1>35 DEF vars, orderVars, benefitVars, workerVars, IInv, TypeOK, WorkerInv,
     FulfillingInv, FulfillmentExclusive, CreatorExclusive, OrderInv, BalanceInv,
     SubscriptionInv
<1> QED
  BY <1>1, <1>2, <1>3, <1>4, <1>5, <1>6, <1>7, <1>8, <1>9, <1>10, <1>11, <1>12,
     <1>13, <1>14, <1>15, <1>16, <1>17, <1>18, <1>19, <1>20, <1>21, <1>22,
     <1>23, <1>24, <1>25, <1>26, <1>27, <1>28, <1>29, <1>30, <1>31, <1>32,
     <1>33, <1>34, <1>35
  DEF Next, Environment, Step, Request

\* The invariant that carries all the others.
THEOREM FulfillmentInvariant == Spec => []IInv
<1>1. Init => IInv
  BY InitIInv
<1>2. IInv /\ [Next]_vars => IInv'
  BY NextIInv
<1> QED
  BY <1>1, <1>2, PTL DEF Spec

\* Every column, count and worker position keeps its type.
THEOREM TypeCorrect == Spec => []TypeOK
<1>1. IInv => TypeOK
  BY DEF IInv
<1> QED
  BY <1>1, FulfillmentInvariant, PTL

\* The RECHARGING status excludes concurrent fulfillment of an order.
THEOREM Exclusion == Spec => []FulfillmentExclusive
<1>1. IInv => FulfillmentExclusive
  BY DEF IInv
<1> QED
  BY <1>1, FulfillmentInvariant, PTL

\* A COMPLETED order, refunded later or not, was credited or extended.
THEOREM Delivery == Spec => []DeliveredMeansGranted
<1>1. IInv => DeliveredMeansGranted
  BY OrdersAssumption
  DEF IInv, TypeOK, BalanceInv, SubscriptionInv, DeliveredMeansGranted
<1> QED
  BY <1>1, FulfillmentInvariant, PTL

\* At most one rebate per order, and only for a credited one.
THEOREM SingleRebate == Spec => []RebateOnce
<1>1. IInv => RebateOnce
  BY OrdersAssumption DEF IInv, TypeOK, BalanceInv, SubscriptionInv, RebateOnce
<1> QED
  BY <1>1, FulfillmentInvariant, PTL

\* No benefit and no paid status without the captured amount.
THEOREM PaymentFirst == Spec => []NothingWithoutPayment
<1>1. IInv => NothingWithoutPayment
  BY DEF IInv, OrderInv, NothingWithoutPayment
<1> QED
  BY <1>1, FulfillmentInvariant, PTL

\* A recorded payment is not lost to a cancellation, expiry or failed creation.
THEOREM PaymentKept == Spec => []PaymentSurvives
<1>1. IInv => PaymentSurvives
  BY DEF IInv, OrderInv, PaymentSurvives
<1> QED
  BY <1>1, FulfillmentInvariant, PTL

\* A subscription order is extended at most once more than faults happened.
THEOREM ExtensionBound == Spec => []ExtensionsWithinFaults
<1>1. IInv => ExtensionsWithinFaults
  BY DEF IInv, TypeOK, SubscriptionInv, ExtensionsWithinFaults
<1> QED
  BY <1>1, FulfillmentInvariant, PTL

\* A step never takes an order out of the delivered statuses.
LEMMA DeliveryFinalStep ==
  ASSUME IInv, [Next]_vars, NEW p \in Orders, status[p] \in DeliveredStatuses
  PROVE  status'[p] \in DeliveredStatuses
<1> USE DEF IInv, TypeOK, DeliveredStatuses, RefundStatuses
<1>1. ASSUME NEW o \in Orders, Pay(o)
      PROVE  status'[p] \in DeliveredStatuses
  BY <1>1 DEF Pay, orderVars
<1>2. ASSUME NEW o \in Orders, TimesOut(o)
      PROVE  status'[p] \in DeliveredStatuses
  BY <1>2 DEF TimesOut
<1>3. ASSUME NEW o \in Orders, GraceElapses(o)
      PROVE  status'[p] \in DeliveredStatuses
  BY <1>3 DEF GraceElapses
<1>4. ASSUME NEW o \in Orders, RefundMoves(o)
      PROVE  status'[p] \in DeliveredStatuses
  BY <1>4 DEF RefundMoves, RefundStep, SetStatus
<1>5. ASSUME NEW w \in Workers, InvokeOk(w)
      PROVE  status'[p] \in DeliveredStatuses
  BY <1>5 DEF InvokeOk, orderVars
<1>6. ASSUME NEW w \in Workers, InvokeFail(w)
      PROVE  status'[p] \in DeliveredStatuses
  BY <1>6 DEF InvokeFail, orderVars
<1>7. ASSUME NEW w \in Workers, Close(w)
      PROVE  status'[p] \in DeliveredStatuses
  BY <1>7 DEF Close, orderVars
<1>8. ASSUME NEW w \in Workers, Crash(w)
      PROVE  status'[p] \in DeliveredStatuses
  BY <1>8 DEF Crash, orderVars
<1>9. ASSUME NEW w \in Workers, NEW r \in Results, CreateInsert(w, r)
      PROVE  status'[p] \in DeliveredStatuses
  BY <1>9 DEF CreateInsert, SetStatusIf, SetStatus, WorkerInv
<1>10. ASSUME NEW w \in Workers, NEW r \in Results, CreateFail(w, r)
      PROVE  status'[p] \in DeliveredStatuses
  BY <1>10 DEF CreateFail, SetStatusIf, SetStatus, WorkerInv, OrderInv, CreatorPCs
<1>11. ASSUME NEW w \in Workers, NEW r \in Results, Query(w, r)
      PROVE  status'[p] \in DeliveredStatuses
  BY <1>11 DEF Query, orderVars
<1>12. ASSUME NEW w \in Workers, NEW r \in Results, Persist(w, r)
      PROVE  status'[p] \in DeliveredStatuses
  BY <1>12 DEF Persist
<1>13. ASSUME NEW w \in Workers, NEW r \in Results, CancelUpd(w, r)
      PROVE  status'[p] \in DeliveredStatuses
  BY <1>13 DEF CancelUpd, Cancellable, SetStatusIf, SetStatus
<1>14. ASSUME NEW w \in Workers, NEW r \in Results, Confirm(w, r)
      PROVE  status'[p] \in DeliveredStatuses
  BY <1>14 DEF Confirm, orderVars
<1>15. ASSUME NEW w \in Workers, NEW r \in Results, ToPaid(w, r)
      PROVE  status'[p] \in DeliveredStatuses
  BY <1>15 DEF ToPaid, Payable, SetStatusIf, SetStatus
<1>16. ASSUME NEW w \in Workers, NEW r \in Results, Already(w, r)
      PROVE  status'[p] \in DeliveredStatuses
  BY <1>16 DEF Already, orderVars
<1>17. ASSUME NEW w \in Workers, NEW r \in Results, Exec(w, r)
      PROVE  status'[p] \in DeliveredStatuses
  BY <1>17 DEF Exec, orderVars
<1>18. ASSUME NEW w \in Workers, NEW r \in Results, Lock(w, r)
      PROVE  status'[p] \in DeliveredStatuses
  BY <1>18 DEF Lock, Lockable, SetStatusIf, SetStatus
<1>19. ASSUME NEW w \in Workers, NEW r \in Results, Lookup(w, r)
      PROVE  status'[p] \in DeliveredStatuses
  BY <1>19 DEF Lookup, orderVars
<1>20. ASSUME NEW w \in Workers, NEW r \in Results, CreateCode(w, r)
      PROVE  status'[p] \in DeliveredStatuses
  BY <1>20 DEF CreateCode, orderVars
<1>21. ASSUME NEW w \in Workers, NEW r \in Results, Redeem(w, r)
      PROVE  status'[p] \in DeliveredStatuses
  BY <1>21 DEF Redeem, orderVars
<1>22. ASSUME NEW w \in Workers, NEW r \in Results, Rebate(w, r)
      PROVE  status'[p] \in DeliveredStatuses
  BY <1>22 DEF Rebate, orderVars
<1>23. ASSUME NEW w \in Workers, NEW r \in Results, SubCheck(w, r)
      PROVE  status'[p] \in DeliveredStatuses
  BY <1>23 DEF SubCheck, orderVars
<1>24. ASSUME NEW w \in Workers, NEW r \in Results, Assign(w, r)
      PROVE  status'[p] \in DeliveredStatuses
  BY <1>24 DEF Assign, orderVars
<1>25. ASSUME NEW w \in Workers, NEW r \in Results, Complete(w, r)
      PROVE  status'[p] \in DeliveredStatuses
  BY <1>25 DEF Complete, StillRecharging, SetStatusIf, SetStatus
<1>26. ASSUME NEW w \in Workers, NEW r \in Results, Audit(w, r)
      PROVE  status'[p] \in DeliveredStatuses
  BY <1>26 DEF Audit, orderVars
<1>27. ASSUME NEW w \in Workers, NEW r \in Results, Fail(w, r)
      PROVE  status'[p] \in DeliveredStatuses
  BY <1>27 DEF Fail, StillRecharging, SetStatusIf, SetStatus
<1>28. ASSUME NEW w \in Workers, NEW r \in Results, Reset(w, r)
      PROVE  status'[p] \in DeliveredStatuses
  BY <1>28 DEF Reset, SetStatusIf, SetStatus
<1>29. ASSUME NEW w \in Workers, NEW o \in Orders, CreateCount(w, o)
      PROVE  status'[p] \in DeliveredStatuses
  BY <1>29 DEF CreateCount, orderVars
<1>30. ASSUME NEW w \in Workers, NEW o \in Orders, WebhookStart(w, o)
      PROVE  status'[p] \in DeliveredStatuses
  BY <1>30 DEF WebhookStart, orderVars
<1>31. ASSUME NEW w \in Workers, NEW o \in Orders, RetryStart(w, o)
      PROVE  status'[p] \in DeliveredStatuses
  BY <1>31 DEF RetryStart, orderVars
<1>32. ASSUME NEW w \in Workers, NEW o \in Orders, CancelStart(w, o)
      PROVE  status'[p] \in DeliveredStatuses
  BY <1>32 DEF CancelStart, orderVars
<1>33. ASSUME NEW w \in Workers, NEW o \in Orders, ExpireStart(w, o)
      PROVE  status'[p] \in DeliveredStatuses
  BY <1>33 DEF ExpireStart, orderVars
<1>34. ASSUME NEW w \in Workers, NEW o \in Orders, VerifyStart(w, o)
      PROVE  status'[p] \in DeliveredStatuses
  BY <1>34 DEF VerifyStart, orderVars
<1>35. CASE UNCHANGED vars
  BY <1>35 DEF vars, orderVars
<1> QED
  BY <1>1, <1>2, <1>3, <1>4, <1>5, <1>6, <1>7, <1>8, <1>9, <1>10, <1>11, <1>12,
     <1>13, <1>14, <1>15, <1>16, <1>17, <1>18, <1>19, <1>20, <1>21, <1>22,
     <1>23, <1>24, <1>25, <1>26, <1>27, <1>28, <1>29, <1>30, <1>31, <1>32,
     <1>33, <1>34, <1>35
  DEF Next, Environment, Step, Request

\* No step, in particular no late markFailed, retry or callback, reopens a
\* delivered order.
THEOREM FinalDelivery == Spec => DeliveryIsFinal
<1>1. IInv /\ [Next]_vars
        => [\A o \in Orders : status[o] \in DeliveredStatuses
                                => status'[o] \in DeliveredStatuses]_vars
  BY DeliveryFinalStep
<1> QED
  BY <1>1, FulfillmentInvariant, PTL DEF Spec, DeliveryIsFinal

-----------------------------------------------------------------------------
(* The code keeps the promise of PaymentPromise. *)

\* A step that captures nothing and credits no balance order is a stutter.
LEMMA PromiseUnmoved ==
  ASSUME \A o \in BalanceOrders : /\ (upstream'[o] = "paid") = (upstream[o] = "paid")
                                  /\ granted'[o] = granted[o]
  PROVE  [Promise!Next]_(Promise!vars)
  BY DEF Promise!vars

\* A payment of the right amount is a capture, another payment a stutter.
LEMMA PayPromised ==
  ASSUME IInv, NEW o \in Orders, Pay(o)
  PROVE  [Promise!Next]_(Promise!vars)
<1> USE DEF IInv, TypeOK, Pay, benefitVars, BalanceOrders
<1>1. CASE o \in BalanceOrders /\ upstream'[o] = "paid"
  <2>1. Promise!Capture(o)
    BY <1>1 DEF Promise!Capture
  <2> QED
    BY <1>1, <2>1 DEF Promise!Next
<1>2. CASE ~(o \in BalanceOrders /\ upstream'[o] = "paid")
  BY <1>2, PromiseUnmoved
<1> QED
  BY <1>1, <1>2

\* A redemption that marks the code used is the one delivery.
LEMMA RedeemPromised ==
  ASSUME IInv, NEW w \in Workers, NEW r \in Results, Redeem(w, r)
  PROVE  [Promise!Next]_(Promise!vars)
<1>1. ord[w] \in BalanceOrders /\ upstream[ord[w]] = "paid"
  BY DEF IInv, WorkerInv, FulfillingInv, Redeem, ConfirmedPCs, CriticalPCs,
       BalanceOrders
<1>2. PICK o \in BalanceOrders : o = ord[w]
  BY <1>1
<1>3. CASE code[o] = "unused" /\ r # "lost"
  <2>1. granted[o] = 0
    BY <1>3 DEF IInv, BalanceInv, BalanceOrders
  <2>2. granted' = [granted EXCEPT ![o] = granted[o] + 1] /\ upstream' = upstream
    BY <1>2, <1>3 DEF Redeem
  <2>3. granted' = [granted EXCEPT ![o] = 1]
    BY <2>1, <2>2
  <2>4. Promise!Deliver(o)
    BY <1>1, <1>2, <2>1, <2>2, <2>3 DEF Promise!Deliver, IInv, TypeOK, BalanceOrders
  <2> QED
    BY <2>4 DEF Promise!Next
<1>4. CASE ~(code[o] = "unused" /\ r # "lost")
  BY <1>2, <1>4, PromiseUnmoved DEF Redeem
<1> QED
  BY <1>3, <1>4

LEMMA PromiseStep == IInv /\ [Next]_vars => [Promise!Next]_(Promise!vars)
<1> SUFFICES ASSUME IInv, [Next]_vars PROVE [Promise!Next]_(Promise!vars)
  OBVIOUS
<1> USE DEF IInv
<1>1. ASSUME NEW o \in Orders, Pay(o)
      PROVE  [Promise!Next]_(Promise!vars)
  BY <1>1, PayPromised
<1>2. ASSUME NEW o \in Orders, TimesOut(o)
      PROVE  [Promise!Next]_(Promise!vars)
  BY <1>2, PromiseUnmoved DEF TimesOut, benefitVars
<1>3. ASSUME NEW o \in Orders, GraceElapses(o)
      PROVE  [Promise!Next]_(Promise!vars)
  BY <1>3, PromiseUnmoved DEF GraceElapses, benefitVars
<1>4. ASSUME NEW o \in Orders, RefundMoves(o)
      PROVE  [Promise!Next]_(Promise!vars)
  BY <1>4, PromiseUnmoved DEF RefundMoves, benefitVars
<1>5. ASSUME NEW w \in Workers, InvokeOk(w)
      PROVE  [Promise!Next]_(Promise!vars)
  BY <1>5, PromiseUnmoved DEF InvokeOk, WorkerInv, CreatorPCs, TypeOK,
       benefitVars, BalanceOrders
<1>6. ASSUME NEW w \in Workers, InvokeFail(w)
      PROVE  [Promise!Next]_(Promise!vars)
  BY <1>6, PromiseUnmoved DEF InvokeFail, benefitVars
<1>7. ASSUME NEW w \in Workers, Close(w)
      PROVE  [Promise!Next]_(Promise!vars)
  BY <1>7, PromiseUnmoved DEF Close, TypeOK, benefitVars, BalanceOrders
<1>8. ASSUME NEW w \in Workers, Crash(w)
      PROVE  [Promise!Next]_(Promise!vars)
  BY <1>8, PromiseUnmoved DEF Crash, WorkerInv, CreatorPCs, TypeOK, benefitVars,
       BalanceOrders
<1>9. ASSUME NEW w \in Workers, NEW r \in Results, CreateInsert(w, r)
      PROVE  [Promise!Next]_(Promise!vars)
  BY <1>9, PromiseUnmoved DEF CreateInsert, benefitVars
<1>10. ASSUME NEW w \in Workers, NEW r \in Results, CreateFail(w, r)
      PROVE  [Promise!Next]_(Promise!vars)
  BY <1>10, PromiseUnmoved DEF CreateFail, WorkerInv, CreatorPCs, TypeOK,
       benefitVars, BalanceOrders
<1>11. ASSUME NEW w \in Workers, NEW r \in Results, Query(w, r)
      PROVE  [Promise!Next]_(Promise!vars)
  BY <1>11, PromiseUnmoved DEF Query, benefitVars
<1>12. ASSUME NEW w \in Workers, NEW r \in Results, Persist(w, r)
      PROVE  [Promise!Next]_(Promise!vars)
  BY <1>12, PromiseUnmoved DEF Persist, benefitVars
<1>13. ASSUME NEW w \in Workers, NEW r \in Results, CancelUpd(w, r)
      PROVE  [Promise!Next]_(Promise!vars)
  BY <1>13, PromiseUnmoved DEF CancelUpd, benefitVars
<1>14. ASSUME NEW w \in Workers, NEW r \in Results, Confirm(w, r)
      PROVE  [Promise!Next]_(Promise!vars)
  BY <1>14, PromiseUnmoved DEF Confirm, benefitVars
<1>15. ASSUME NEW w \in Workers, NEW r \in Results, ToPaid(w, r)
      PROVE  [Promise!Next]_(Promise!vars)
  BY <1>15, PromiseUnmoved DEF ToPaid, benefitVars
<1>16. ASSUME NEW w \in Workers, NEW r \in Results, Already(w, r)
      PROVE  [Promise!Next]_(Promise!vars)
  BY <1>16, PromiseUnmoved DEF Already, benefitVars
<1>17. ASSUME NEW w \in Workers, NEW r \in Results, Exec(w, r)
      PROVE  [Promise!Next]_(Promise!vars)
  BY <1>17, PromiseUnmoved DEF Exec, benefitVars
<1>18. ASSUME NEW w \in Workers, NEW r \in Results, Lock(w, r)
      PROVE  [Promise!Next]_(Promise!vars)
  BY <1>18, PromiseUnmoved DEF Lock, benefitVars
<1>19. ASSUME NEW w \in Workers, NEW r \in Results, Lookup(w, r)
      PROVE  [Promise!Next]_(Promise!vars)
  BY <1>19, PromiseUnmoved DEF Lookup, benefitVars
<1>20. ASSUME NEW w \in Workers, NEW r \in Results, CreateCode(w, r)
      PROVE  [Promise!Next]_(Promise!vars)
  BY <1>20, PromiseUnmoved DEF CreateCode, benefitVars
<1>21. ASSUME NEW w \in Workers, NEW r \in Results, Redeem(w, r)
      PROVE  [Promise!Next]_(Promise!vars)
  BY <1>21, RedeemPromised
<1>22. ASSUME NEW w \in Workers, NEW r \in Results, Rebate(w, r)
      PROVE  [Promise!Next]_(Promise!vars)
  BY <1>22, PromiseUnmoved DEF Rebate, benefitVars
<1>23. ASSUME NEW w \in Workers, NEW r \in Results, SubCheck(w, r)
      PROVE  [Promise!Next]_(Promise!vars)
  BY <1>23, PromiseUnmoved DEF SubCheck, benefitVars
<1>24. ASSUME NEW w \in Workers, NEW r \in Results, Assign(w, r)
      PROVE  [Promise!Next]_(Promise!vars)
  BY <1>24, PromiseUnmoved DEF Assign, FulfillingInv, WorkerInv, TypeOK,
       benefitVars, BalanceOrders
<1>25. ASSUME NEW w \in Workers, NEW r \in Results, Complete(w, r)
      PROVE  [Promise!Next]_(Promise!vars)
  BY <1>25, PromiseUnmoved DEF Complete, benefitVars
<1>26. ASSUME NEW w \in Workers, NEW r \in Results, Audit(w, r)
      PROVE  [Promise!Next]_(Promise!vars)
  BY <1>26, PromiseUnmoved DEF Audit, benefitVars
<1>27. ASSUME NEW w \in Workers, NEW r \in Results, Fail(w, r)
      PROVE  [Promise!Next]_(Promise!vars)
  BY <1>27, PromiseUnmoved DEF Fail, benefitVars
<1>28. ASSUME NEW w \in Workers, NEW r \in Results, Reset(w, r)
      PROVE  [Promise!Next]_(Promise!vars)
  BY <1>28, PromiseUnmoved DEF Reset, benefitVars
<1>29. ASSUME NEW w \in Workers, NEW o \in Orders, CreateCount(w, o)
      PROVE  [Promise!Next]_(Promise!vars)
  BY <1>29, PromiseUnmoved DEF CreateCount, benefitVars
<1>30. ASSUME NEW w \in Workers, NEW o \in Orders, WebhookStart(w, o)
      PROVE  [Promise!Next]_(Promise!vars)
  BY <1>30, PromiseUnmoved DEF WebhookStart, benefitVars
<1>31. ASSUME NEW w \in Workers, NEW o \in Orders, RetryStart(w, o)
      PROVE  [Promise!Next]_(Promise!vars)
  BY <1>31, PromiseUnmoved DEF RetryStart, benefitVars
<1>32. ASSUME NEW w \in Workers, NEW o \in Orders, CancelStart(w, o)
      PROVE  [Promise!Next]_(Promise!vars)
  BY <1>32, PromiseUnmoved DEF CancelStart, benefitVars
<1>33. ASSUME NEW w \in Workers, NEW o \in Orders, ExpireStart(w, o)
      PROVE  [Promise!Next]_(Promise!vars)
  BY <1>33, PromiseUnmoved DEF ExpireStart, benefitVars
<1>34. ASSUME NEW w \in Workers, NEW o \in Orders, VerifyStart(w, o)
      PROVE  [Promise!Next]_(Promise!vars)
  BY <1>34, PromiseUnmoved DEF VerifyStart, benefitVars
<1>35. CASE UNCHANGED vars
  BY <1>35, PromiseUnmoved DEF vars, benefitVars
<1> QED
  BY <1>1, <1>2, <1>3, <1>4, <1>5, <1>6, <1>7, <1>8, <1>9, <1>10, <1>11, <1>12,
     <1>13, <1>14, <1>15, <1>16, <1>17, <1>18, <1>19, <1>20, <1>21, <1>22,
     <1>23, <1>24, <1>25, <1>26, <1>27, <1>28, <1>29, <1>30, <1>31, <1>32,
     <1>33, <1>34, <1>35
  DEF Next, Environment, Step, Request

\* A balance order is captured once, and credited once and only if captured.
THEOREM KeepsPromise == Spec => PromiseSpec
<1>1. Init => Promise!Init
  BY DEF Init, Promise!Init, BalanceOrders
<1>2. IInv /\ [Next]_vars => [Promise!Next]_(Promise!vars)
  BY PromiseStep
<1> QED
  BY <1>1, <1>2, FulfillmentInvariant, PTL DEF Spec, PromiseSpec, Promise!Spec
=============================================================================
