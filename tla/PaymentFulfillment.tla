------------------------- MODULE PaymentFulfillment -------------------------
(***************************************************************************)
(* The life of payment orders up to delivery: order creation, provider     *)
(* callbacks, the expiry job, cancellation, active verification, admin     *)
(* retry, and the fulfillment of balance and subscription orders           *)
(* (service/payment_order.go, payment_fulfillment.go,                      *)
(* payment_order_lifecycle.go).                                            *)
(*                                                                         *)
(* A worker is one goroutine serving one request, callback or loop         *)
(* iteration of the expiry job.  Its steps are the database statements,    *)
(* transactions and provider calls of the code, one action each: between   *)
(* two of them every other worker may run.  A statement can fail with no   *)
(* effect ("lost") or fail after its effect was committed ("late": a       *)
(* cancelled context, a broken connection, or an error of a read that      *)
(* follows the commit in the same call); a worker may also die between two *)
(* statements.  MaxFaults bounds how many such faults happen in all.       *)
(***************************************************************************)
EXTENDS Naturals, FiniteSets, OrderStatus

CONSTANTS Orders,       \* the orders of one user
          SubOrders,    \* those of them that buy a subscription
          Workers,      \* goroutines serving requests at the same time
          NoOrder,      \* the order of an idle worker
          MaxPending,   \* PaymentConfig.MaxPendingOrders
          MaxOrders,    \* bound on the orders created
          MaxFaults     \* bound on failed statements and dead workers

ASSUME OrdersAssumption == SubOrders \subseteq Orders /\ NoOrder \notin Orders
ASSUME BoundsAssumption == {MaxPending, MaxOrders, MaxFaults} \subseteq Nat

VARIABLES
  status,    \* payment_orders.status
  paidAt,    \* payment_orders.paid_at is set
  due,       \* payment_orders.expires_at has passed
  fresh,     \* payment_orders.updated_at is within paymentGraceMinutes
  code,      \* the redeem code named by the order's recharge_code
  granted,   \* times the benefit was delivered: balance credits, extensions
  rebate,    \* times an inviter rebate was accrued for the order
  audit,     \* the rows of payment_audit_logs that the code reads back
  upstream,  \* the payment at the provider
  acked,     \* a callback for the order was answered with success
  pc, ord, op, \* per worker: next statement, its order, the request served
  faults     \* faults so far

orderVars   == <<status, paidAt, due, fresh>>
benefitVars == <<code, granted, rebate, audit>>
workerVars  == <<pc, ord, op, acked>>
vars == <<orderVars, benefitVars, upstream, workerVars, faults>>

BalanceOrders == Orders \ SubOrders

Ops == {"none", "create", "webhook", "retry", "cancel", "expire", "verify"}
AuditActions == {"SUBSCRIPTION_SUCCESS", "AFFILIATE_REBATE", "PAYMENT_AFTER_EXPIRY"}
Payments == {"none", "open", "paid", "mispaid", "closed"}

\* Holding the RECHARGING lock of an order.
CriticalPCs == {"lookup", "createCode", "redeem", "rebate", "subCheck", "assign",
                "complete", "fail"}
PCs == {"idle", "insert", "invoke", "createFail", "confirm", "toPaid", "already",
        "exec", "lock", "audit", "reset", "query", "persist", "close", "cancelUpd"}
         \cup CriticalPCs

TypeOK ==
  /\ status \in [Orders -> Statuses]
  /\ paidAt \in [Orders -> BOOLEAN]
  /\ due \in [Orders -> BOOLEAN]
  /\ fresh \in [Orders -> BOOLEAN]
  /\ code \in [Orders -> {"absent", "unused", "used"}]
  /\ granted \in [Orders -> Nat]
  /\ rebate \in [Orders -> Nat]
  /\ audit \in [Orders -> SUBSET AuditActions]
  /\ upstream \in [Orders -> Payments]
  /\ acked \in [Orders -> BOOLEAN]
  /\ pc \in [Workers -> PCs]
  /\ ord \in [Workers -> Orders \cup {NoOrder}]
  /\ op \in [Workers -> Ops]
  /\ faults \in 0 .. MaxFaults

Init ==
  /\ status = [o \in Orders |-> "NONE"]
  /\ paidAt = [o \in Orders |-> FALSE]
  /\ due = [o \in Orders |-> FALSE]
  /\ fresh = [o \in Orders |-> TRUE]
  /\ code = [o \in Orders |-> "absent"]
  /\ granted = [o \in Orders |-> 0]
  /\ rebate = [o \in Orders |-> 0]
  /\ audit = [o \in Orders |-> {}]
  /\ upstream = [o \in Orders |-> "none"]
  /\ acked = [o \in Orders |-> FALSE]
  /\ pc = [w \in Workers |-> "idle"]
  /\ ord = [w \in Workers |-> NoOrder]
  /\ op = [w \in Workers |-> "none"]
  /\ faults = 0

-----------------------------------------------------------------------------
(* How a worker moves and how a statement can end.                         *)

Start(w, o, request, label) ==
  /\ pc[w] = "idle"
  /\ pc' = [pc EXCEPT ![w] = label]
  /\ ord' = [ord EXCEPT ![w] = o]
  /\ op' = [op EXCEPT ![w] = request]
  /\ UNCHANGED acked

Goto(w, label) ==
  /\ pc' = [pc EXCEPT ![w] = label]
  /\ UNCHANGED <<ord, op, acked>>

\* The handler returns.  A callback is answered with success exactly when
\* HandlePaymentNotification returned nil; the provider then stops resending.
Return(w, nilError) ==
  /\ pc' = [pc EXCEPT ![w] = "idle"]
  /\ ord' = [ord EXCEPT ![w] = NoOrder]
  /\ op' = [op EXCEPT ![w] = "none"]
  /\ acked' = IF op[w] = "webhook" /\ nilError
              THEN [acked EXCEPT ![ord[w]] = TRUE] ELSE acked

Results == {"ok", "lost", "late"}

Outcome(r) ==
  IF r = "ok" THEN UNCHANGED faults
              ELSE faults < MaxFaults /\ faults' = faults + 1

\* Every update of the row also sets updated_at.
SetStatus(o, s) ==
  /\ status' = [status EXCEPT ![o] = s]
  /\ fresh' = [fresh EXCEPT ![o] = TRUE]

SetStatusIf(cond, o, s) ==
  IF cond THEN SetStatus(o, s) ELSE UNCHANGED <<status, fresh>>

-----------------------------------------------------------------------------
(* Order creation.                                                         *)

PendingOrders == {o \in Orders : status[o] = "PENDING"}
Opened == {o \in Orders : status[o] # "NONE" \/ \E w \in Workers : ord[w] = o}

\* createOrderInTx up to the count of checkPendingLimit, for an order that no
\* other request creates.  The transaction runs at the default READ
\* COMMITTED level and takes no lock on the user.
CreateCount(w, o) ==
  /\ o \notin Opened
  /\ Cardinality(Opened) < MaxOrders
  /\ Cardinality(PendingOrders) < MaxPending
  /\ Start(w, o, "create", "insert")
  /\ UNCHANGED <<orderVars, benefitVars, upstream, faults>>

\* The insert, the recharge code and the commit.
CreateInsert(w, r) ==
  /\ pc[w] = "insert"
  /\ Outcome(r)
  /\ SetStatusIf(r # "lost", ord[w], "PENDING")
  /\ IF r = "ok" THEN Goto(w, "invoke") ELSE Return(w, FALSE)
  /\ UNCHANGED <<paidAt, due, benefitVars, upstream>>

\* invokeProvider succeeds: the payer receives the payment.
InvokeOk(w) ==
  /\ pc[w] = "invoke"
  /\ upstream' = [upstream EXCEPT ![ord[w]] = "open"]
  /\ Return(w, TRUE)
  /\ UNCHANGED <<orderVars, benefitVars, faults>>

\* invokeProvider fails: configuration, CreatePayment, or the update that
\* stores the payment's details.
InvokeFail(w) ==
  /\ pc[w] = "invoke"
  /\ faults < MaxFaults
  /\ faults' = faults + 1
  /\ Goto(w, "createFail")
  /\ UNCHANGED <<orderVars, benefitVars, upstream>>

\* The unconditional FAILED of CreateOrder; its error is ignored.  The
\* provider may hold a payment after all (the failure came after it was
\* created); the payer can reach it, through the stored URL, once the
\* request has ended.
CreateFail(w, r) ==
  /\ pc[w] = "createFail"
  /\ Outcome(r)
  /\ SetStatusIf(r # "lost", ord[w], "FAILED")
  /\ \E u \in {"none", "open"} : upstream' = [upstream EXCEPT ![ord[w]] = u]
  /\ Return(w, FALSE)
  /\ UNCHANGED <<paidAt, due, benefitVars>>

-----------------------------------------------------------------------------
(* The payer, the provider and time.                                       *)

\* The payer pays: the amount of the order, or another one.
Pay(o) ==
  /\ upstream[o] = "open"
  /\ \E u \in {"paid", "mispaid"} : upstream' = [upstream EXCEPT ![o] = u]
  /\ UNCHANGED <<orderVars, benefitVars, workerVars, faults>>

\* expires_at passes.
TimesOut(o) ==
  /\ status[o] # "NONE" /\ ~due[o]
  /\ due' = [due EXCEPT ![o] = TRUE]
  /\ UNCHANGED <<status, paidAt, fresh, benefitVars, upstream, workerVars, faults>>

\* paymentGraceMinutes pass after the order expired.
GraceElapses(o) ==
  /\ status[o] = "EXPIRED" /\ fresh[o]
  /\ fresh' = [fresh EXCEPT ![o] = FALSE]
  /\ UNCHANGED <<status, paidAt, due, benefitVars, upstream, workerVars, faults>>

\* The refund flow moves a delivered order.
RefundMoves(o) ==
  /\ \E s \in RefundStatuses \cup {"COMPLETED"} :
        RefundStep(status[o], s) /\ SetStatus(o, s)
  /\ UNCHANGED <<paidAt, due, benefitVars, upstream, workerVars, faults>>

-----------------------------------------------------------------------------
(* The requests that start a worker.                                       *)

\* A success callback: the first, a resent one, or a duplicate.
WebhookStart(w, o) ==
  /\ upstream[o] \in {"paid", "mispaid"}
  /\ Start(w, o, "webhook", "confirm")
  /\ UNCHANGED <<orderVars, benefitVars, upstream, faults>>

\* RetryFulfillment up to its status checks.
RetryStart(w, o) ==
  /\ paidAt[o]
  /\ status[o] \in {"FAILED", "PAID"}
  /\ Start(w, o, "retry", "reset")
  /\ UNCHANGED <<orderVars, benefitVars, upstream, faults>>

\* CancelOrder and AdminCancelOrder.
CancelStart(w, o) ==
  /\ status[o] = "PENDING"
  /\ Start(w, o, "cancel", "query")
  /\ UNCHANGED <<orderVars, benefitVars, upstream, faults>>

\* One order of the list ExpireTimedOutOrders reads.
ExpireStart(w, o) ==
  /\ status[o] = "PENDING" /\ due[o]
  /\ Start(w, o, "expire", "query")
  /\ UNCHANGED <<orderVars, benefitVars, upstream, faults>>

\* VerifyOrderByOutTradeNo.
VerifyStart(w, o) ==
  /\ status[o] \in {"PENDING", "EXPIRED"}
  /\ Start(w, o, "verify", "query")
  /\ UNCHANGED <<orderVars, benefitVars, upstream, faults>>

-----------------------------------------------------------------------------
(* checkPaid and cancelCore.                                               *)

\* What follows a checkPaid that does not answer already_paid.
NotPaid(w) == IF op[w] = "verify" THEN Return(w, TRUE) ELSE Goto(w, "cancelUpd")

\* The provider lookup and QueryOrder.  An error, or a paid answer with an
\* invalid amount twice, counts as not paid.
Query(w, r) ==
  /\ pc[w] = "query"
  /\ r \in {"ok", "lost"}
  /\ Outcome(r)
  /\ \/ r = "lost" /\ NotPaid(w)
     \/ r = "ok" /\ upstream[ord[w]] \in {"paid", "mispaid"} /\ Goto(w, "persist")
     \/ r = "ok" /\ upstream[ord[w]] \notin {"paid", "mispaid"} /\ Goto(w, "close")
  /\ UNCHANGED <<orderVars, benefitVars, upstream>>

\* The unconditional update of payment_trade_no, made or not needed; its
\* error is logged.  It renews updated_at.
Persist(w, r) ==
  /\ pc[w] = "persist"
  /\ Outcome(r)
  /\ \/ UNCHANGED fresh
     \/ r # "lost" /\ fresh' = [fresh EXCEPT ![ord[w]] = TRUE]
  /\ Goto(w, "confirm")
  /\ UNCHANGED <<status, paidAt, due, benefitVars, upstream>>

\* CancelPayment closes an open payment, or the provider cannot close it.
Close(w) ==
  /\ pc[w] = "close"
  /\ \/ UNCHANGED upstream
     \/ /\ upstream[ord[w]] = "open"
        /\ upstream' = [upstream EXCEPT ![ord[w]] = "closed"]
  /\ NotPaid(w)
  /\ UNCHANGED <<orderVars, benefitVars, faults>>

CancellableUnguarded(o) == TRUE

\* The WHERE clause of the update in cancelCore, and the status it sets.
Cancellable(o) == status[o] = "PENDING"

CancelStatus(w) == IF op[w] = "expire" THEN "EXPIRED" ELSE "CANCELLED"

\* The conditional update of cancelCore.
CancelUpd(w, r) ==
  /\ pc[w] = "cancelUpd"
  /\ Outcome(r)
  /\ SetStatusIf(r # "lost" /\ Cancellable(ord[w]), ord[w], CancelStatus(w))
  /\ Return(w, r = "ok")
  /\ UNCHANGED <<paidAt, due, benefitVars, upstream>>

-----------------------------------------------------------------------------
(* HandlePaymentNotification, confirmPayment, toPaid, alreadyProcessed.    *)

AmountUnchecked(o) == TRUE

\* The paid amount is the order's, within the tolerance of its currency.
AmountMatches(o) == upstream[o] = "paid"

\* The lookup by out_trade_no fails with an error ("lost"), the second read
\* of the order returns nil ("late"), and a wrong amount is an error.
Confirm(w, r) ==
  /\ pc[w] = "confirm"
  /\ Outcome(r)
  /\ \/ r = "lost" /\ Return(w, FALSE)
     \/ r = "late" /\ Return(w, TRUE)
     \/ r = "ok" /\ AmountMatches(ord[w]) /\ Goto(w, "toPaid")
     \/ r = "ok" /\ ~AmountMatches(ord[w]) /\ Return(w, FALSE)
  /\ UNCHANGED <<orderVars, benefitVars, upstream>>

PayableWithoutCancelled(o) == \/ status[o] = "PENDING"
                              \/ status[o] = "EXPIRED" /\ fresh[o]

\* The WHERE clause of the update in toPaid.
Payable(o) == \/ status[o] \in {"PENDING", "CANCELLED"}
              \/ status[o] = "EXPIRED" /\ fresh[o]

ToPaid(w, r) ==
  /\ pc[w] = "toPaid"
  /\ Outcome(r)
  /\ LET o == ord[w]
         hit == Payable(o) /\ r # "lost"
     IN /\ SetStatusIf(hit, o, "PAID")
        /\ paidAt' = IF hit THEN [paidAt EXCEPT ![o] = TRUE] ELSE paidAt
        /\ \/ r # "ok" /\ Return(w, FALSE)
           \/ r = "ok" /\ Goto(w, IF hit THEN "exec" ELSE "already")
  /\ UNCHANGED <<due, benefitVars, upstream>>

\* alreadyProcessed; its read error ("late") is answered with nil, and
\* writeAuditLog ignores the error of its insert ("lost").
Already(w, r) ==
  /\ pc[w] = "already"
  /\ Outcome(r)
  /\ LET s == status[ord[w]]
     IN /\ audit' = IF s = "EXPIRED" /\ r = "ok"
                    THEN [audit EXCEPT ![ord[w]] = @ \cup {"PAYMENT_AFTER_EXPIRY"}]
                    ELSE audit
        /\ \/ r = "late" /\ Return(w, TRUE)
           \/ r # "late" /\ s = "FAILED" /\ Goto(w, "exec")
           \/ r # "late" /\ s # "FAILED" /\ Return(w, s \notin {"PAID", "RECHARGING"})
  /\ UNCHANGED <<orderVars, code, granted, rebate, upstream>>

-----------------------------------------------------------------------------
(* Fulfillment.                                                            *)

\* executeFulfillment and the reads of Execute*Fulfillment.
Exec(w, r) ==
  /\ pc[w] = "exec"
  /\ r \in {"ok", "lost"}
  /\ Outcome(r)
  /\ LET s == status[ord[w]]
     IN \/ r = "ok" /\ s \in {"PAID", "FAILED"} /\ Goto(w, "lock")
        \/ r = "ok" /\ s = "COMPLETED" /\ Return(w, TRUE)
        \/ (r = "lost" \/ s \notin {"PAID", "FAILED", "COMPLETED"}) /\ Return(w, FALSE)
  /\ UNCHANGED <<orderVars, benefitVars, upstream>>

LockableAgain(o) == status[o] \in {"PAID", "FAILED", "RECHARGING"}

\* The WHERE clause of the update to RECHARGING.
Lockable(o) == status[o] \in {"PAID", "FAILED"}

\* The conditional update to RECHARGING: the lock of the order.
Lock(w, r) ==
  /\ pc[w] = "lock"
  /\ Outcome(r)
  /\ LET o == ord[w]
         hit == Lockable(o) /\ r # "lost"
     IN /\ SetStatusIf(hit, o, "RECHARGING")
        /\ IF r = "ok" /\ hit
           THEN Goto(w, IF o \in SubOrders THEN "subCheck" ELSE "lookup")
           ELSE Return(w, r = "ok")
  /\ UNCHANGED <<paidAt, due, benefitVars, upstream>>

ResolveExistingAsDone(o, r) ==
  IF r = "lost" \/ code[o] = "absent" THEN "createCode" ELSE "rebate"

\* resolveRedeemAction: the step that follows the lookup of the code; a
\* lookup error means create.
ResolveRedeemAction(o, r) ==
  IF r = "lost" \/ code[o] = "absent" THEN "createCode"
  ELSE IF code[o] = "unused" THEN "redeem" ELSE "rebate"

\* GetByCode at the start of doBalance.
Lookup(w, r) ==
  /\ pc[w] = "lookup"
  /\ r \in {"ok", "lost"}
  /\ Outcome(r)
  /\ Goto(w, ResolveRedeemAction(ord[w], r))
  /\ UNCHANGED <<orderVars, benefitVars, upstream>>

\* CreateCode: the code column is unique.
CreateCode(w, r) ==
  /\ pc[w] = "createCode"
  /\ Outcome(r)
  /\ LET o == ord[w]
     IN /\ code' = IF code[o] = "absent" /\ r # "lost"
                   THEN [code EXCEPT ![o] = "unused"] ELSE code
        /\ Goto(w, IF r = "ok" /\ code[o] = "absent" THEN "redeem" ELSE "fail")
  /\ UNCHANGED <<orderVars, granted, rebate, audit, upstream>>

UseCodeOutsideTx(o, r) ==
  code' = IF code[o] = "unused" /\ r = "ok" THEN [code EXCEPT ![o] = "used"] ELSE code

\* Use: the code becomes used if it is unused and the transaction commits.
UseCode(o, r) ==
  code' = IF code[o] = "unused" /\ r # "lost"
          THEN [code EXCEPT ![o] = "used"] ELSE code

\* Redeem: one transaction marks the code used and credits the balance.
Redeem(w, r) ==
  /\ pc[w] = "redeem"
  /\ Outcome(r)
  /\ LET o == ord[w]
         hit == code[o] = "unused" /\ r # "lost"
     IN /\ UseCode(o, r)
        /\ granted' = IF hit THEN [granted EXCEPT ![o] = @ + 1] ELSE granted
        /\ Goto(w, IF hit /\ r = "ok" THEN "rebate" ELSE "fail")
  /\ UNCHANGED <<orderVars, rebate, audit, upstream>>

\* tryClaimAffiliateRebateAudit: the insert finds no earlier claim.
Unclaimed(o) == "AFFILIATE_REBATE" \notin audit[o]

\* applyAffiliateRebateForOrder: one transaction claims the audit row and
\* accrues the rebate, if the user was invited.
Rebate(w, r) ==
  /\ pc[w] = "rebate"
  /\ Outcome(r)
  /\ LET o == ord[w]
         claim == Unclaimed(o) /\ r # "lost"
     IN /\ audit' = IF claim THEN [audit EXCEPT ![o] = @ \cup {"AFFILIATE_REBATE"}]
                             ELSE audit
        /\ \E n \in {0, 1} :
              rebate' = IF claim THEN [rebate EXCEPT ![o] = @ + n] ELSE rebate
        /\ Goto(w, IF r = "ok" THEN "complete" ELSE "fail")
  /\ UNCHANGED <<orderVars, code, granted, upstream>>

HasAuditLog(o, action) == action \in audit[o]

\* doSub up to hasAuditLog, which reads an error as "no such row" ("late");
\* a missing or inactive group is an error ("lost").
SubCheck(w, r) ==
  /\ pc[w] = "subCheck"
  /\ Outcome(r)
  /\ Goto(w, IF r = "lost" THEN "fail"
             ELSE IF r = "ok" /\ HasAuditLog(ord[w], "SUBSCRIPTION_SUCCESS")
                  THEN "complete" ELSE "assign")
  /\ UNCHANGED <<orderVars, benefitVars, upstream>>

\* AssignOrExtendSubscription.
Assign(w, r) ==
  /\ pc[w] = "assign"
  /\ Outcome(r)
  /\ granted' = IF r = "lost" THEN granted ELSE [granted EXCEPT ![ord[w]] = @ + 1]
  /\ Goto(w, IF r = "ok" THEN "complete" ELSE "fail")
  /\ UNCHANGED <<orderVars, code, rebate, audit, upstream>>

StillRechargingUnchecked(o) == TRUE

\* The WHERE clause of the updates in markCompleted and markFailed.
StillRecharging(o) == status[o] = "RECHARGING"

\* The update of markCompleted.
Complete(w, r) ==
  /\ pc[w] = "complete"
  /\ Outcome(r)
  /\ SetStatusIf(r # "lost" /\ StillRecharging(ord[w]), ord[w], "COMPLETED")
  /\ Goto(w, IF r = "ok" THEN "audit" ELSE "fail")
  /\ UNCHANGED <<paidAt, due, benefitVars, upstream>>

\* The audit row of markCompleted, which ignores its error.
Audit(w, r) ==
  /\ pc[w] = "audit"
  /\ Outcome(r)
  /\ audit' = IF ord[w] \in SubOrders /\ r # "lost"
              THEN [audit EXCEPT ![ord[w]] = @ \cup {"SUBSCRIPTION_SUCCESS"}]
              ELSE audit
  /\ Return(w, TRUE)
  /\ UNCHANGED <<orderVars, code, granted, rebate, upstream>>

\* markFailed, whose own error is logged.
Fail(w, r) ==
  /\ pc[w] = "fail"
  /\ Outcome(r)
  /\ SetStatusIf(r # "lost" /\ StillRecharging(ord[w]), ord[w], "FAILED")
  /\ Return(w, FALSE)
  /\ UNCHANGED <<paidAt, due, benefitVars, upstream>>

\* The conditional update of RetryFulfillment; its row count is ignored.
Reset(w, r) ==
  /\ pc[w] = "reset"
  /\ Outcome(r)
  /\ SetStatusIf(r # "lost" /\ status[ord[w]] \in {"FAILED", "PAID"}, ord[w], "PAID")
  /\ IF r = "ok" THEN Goto(w, "exec") ELSE Return(w, FALSE)
  /\ UNCHANGED <<paidAt, due, benefitVars, upstream>>

\* The worker dies between two statements; a payment it was creating may be
\* open at the provider, its URL stored in the order.
Crash(w) ==
  /\ pc[w] # "idle"
  /\ faults < MaxFaults
  /\ faults' = faults + 1
  /\ \/ UNCHANGED upstream
     \/ /\ pc[w] \in {"invoke", "createFail"}
        /\ upstream' = [upstream EXCEPT ![ord[w]] = "open"]
  /\ Return(w, FALSE)
  /\ UNCHANGED <<orderVars, benefitVars>>

-----------------------------------------------------------------------------

\* The next statement of a request in progress.
Step(w) ==
  \/ InvokeOk(w)
  \/ InvokeFail(w)
  \/ Close(w)
  \/ \E r \in Results :
       \/ CreateInsert(w, r)
       \/ CreateFail(w, r)
       \/ Query(w, r)
       \/ Persist(w, r)
       \/ CancelUpd(w, r)
       \/ Confirm(w, r)
       \/ ToPaid(w, r)
       \/ Already(w, r)
       \/ Exec(w, r)
       \/ Lock(w, r)
       \/ Lookup(w, r)
       \/ CreateCode(w, r)
       \/ Redeem(w, r)
       \/ Rebate(w, r)
       \/ SubCheck(w, r)
       \/ Assign(w, r)
       \/ Complete(w, r)
       \/ Audit(w, r)
       \/ Fail(w, r)
       \/ Reset(w, r)

Request(w) ==
  \E o \in Orders :
       \/ CreateCount(w, o)
       \/ WebhookStart(w, o)
       \/ RetryStart(w, o)
       \/ CancelStart(w, o)
       \/ ExpireStart(w, o)
       \/ VerifyStart(w, o)

Environment ==
  \E o \in Orders : Pay(o) \/ TimesOut(o) \/ GraceElapses(o) \/ RefundMoves(o)

Next == Environment \/ \E w \in Workers : Step(w) \/ Request(w) \/ Crash(w)

Spec == Init /\ [][Next]_vars
-----------------------------------------------------------------------------
(* What fulfillment must guarantee.                                        *)

\* The RECHARGING status is a lock: whatever callbacks, polls and retries
\* run together, fail half-way or die, no two workers are between Lock and
\* the end of markCompleted or markFailed for the same order.
FulfillmentExclusive ==
  \A v, w \in Workers :
    /\ pc[v] \in CriticalPCs
    /\ pc[w] \in CriticalPCs
    /\ ord[v] = ord[w]
    => v = w

\* An order that is COMPLETED, or that the refund flow has since moved on,
\* was credited or extended: completion follows the redeemed code or the
\* assigned subscription on every path, the skips of resolveRedeemAction and
\* hasAuditLog after a half-done attempt included.
DeliveredMeansGranted ==
  \A o \in Orders : status[o] \in DeliveredStatuses => granted[o] >= 1

\* A subscription is extended a second time for the same order only at the
\* price of a fault: concurrent callbacks, polls and retries alone never do.
ExtensionsWithinFaults ==
  \A o \in SubOrders : granted[o] <= 1 + faults

\* The inviter's rebate is accrued at most once per order, however often
\* doBalance runs, and only after the balance was credited.
RebateOnce ==
  \A o \in Orders : rebate[o] <= 1 /\ (rebate[o] = 1 => granted[o] = 1)

\* No order delivers anything, and none is PAID, RECHARGING or delivered,
\* unless the provider captured exactly its amount: also not through the
\* FAILED status, which both an order that never opened and an order whose
\* fulfillment failed carry.
NothingWithoutPayment ==
  \A o \in Orders :
    granted[o] > 0 \/ paidAt[o] \/ status[o] \in {"PAID", "RECHARGING"} \cup DeliveredStatuses
      => upstream[o] = "paid"

\* Once toPaid recorded a payment, no cancellation, expiry or failed
\* creation takes the order out of the paid part of its life cycle.
PaymentSurvives ==
  \A o \in Orders :
    paidAt[o] => status[o] \in {"PAID", "RECHARGING", "FAILED"} \cup DeliveredStatuses

\* A delivered order never goes back to a status fulfillment accepts:
\* markFailed cannot undo a completion whose answer was lost, and no retry
\* or callback reopens an order under refund.
DeliveryIsFinal ==
  [][\A o \in Orders : status[o] \in DeliveredStatuses
                         => status'[o] \in DeliveredStatuses]_vars

\* The promise to the payer of a balance order: captured once, delivered
\* once and only if captured.
Promise ==
  INSTANCE PaymentPromise
    WITH Orders <- BalanceOrders,
         captured <- [o \in BalanceOrders |-> upstream[o] = "paid"],
         delivered <- [o \in BalanceOrders |-> granted[o]]

PromiseSpec == Promise!Spec

-----------------------------------------------------------------------------
(* Progress.  Server goroutines keep running, and the provider resends a    *)
(* callback until one is answered with success.                             *)

FairSpec ==
  /\ Spec
  /\ \A w \in Workers : WF_vars(Step(w))
  /\ \A o \in Orders : SF_vars(~acked[o] /\ \E w \in Workers : WebhookStart(w, o))

\* Until a fault happens, the payment of the right amount ends delivered, or
\* is reported as PAYMENT_AFTER_EXPIRY for an operator to settle.
PaidIsSettled ==
  \A o \in Orders :
    upstream[o] = "paid" ~> \/ status[o] \in DeliveredStatuses
                            \/ "PAYMENT_AFTER_EXPIRY" \in audit[o]
                            \/ faults > 0

-----------------------------------------------------------------------------
(* A statement of the webhook handler that the code does not keep; refuted  *)
(* by a run of its own.                                                     *)

\* handleNotify acknowledges a callback it could not process only for an
\* unknown order: an acknowledged payment has been recorded or reported.
AckedMeansHandled ==
  \A o \in Orders :
    acked[o] /\ upstream[o] = "paid" => status[o] \notin {"PENDING", "CANCELLED"}
=============================================================================
