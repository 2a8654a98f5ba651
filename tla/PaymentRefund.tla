--------------------------- MODULE PaymentRefund ---------------------------
(***************************************************************************)
(* The refund of one delivered order (service/payment_refund.go): the      *)
(* user's RequestRefund and the admin's PrepareRefund and ExecuteRefund,   *)
(* with the deduction of what the order delivered, the refund at the       *)
(* provider, the rollback of the deduction and the restored status.        *)
(*                                                                         *)
(* A statement fails with no effect ("lost") or after its effect ("late"), *)
(* MaxFaults times in all, as in PaymentFulfillment.  Amounts are          *)
(* abstracted to what the control flow asks of them: whether a refund is   *)
(* partial, and whether there is something to deduct.                      *)
(***************************************************************************)
EXTENDS Integers, OrderStatus

CONSTANTS Admins,        \* goroutines serving refund requests
          MaxFaults      \* bound on failed statements and dead workers

ASSUME RefundAssumption == MaxFaults \in Nat

VARIABLES
  status,        \* payment_orders.status
  sub,           \* what is left of the subscription it bought, if it did
  taken,         \* deductions made and not rolled back
  refunds,       \* refunds executed at the provider
  rollbackLog,   \* a REFUND_ROLLBACK_FAILED row is in payment_audit_logs
  pc, plan,      \* per admin: next statement and its RefundPlan
  faults

money == <<sub, taken, refunds>>
vars == <<status, money, rollbackLog, pc, plan, faults>>

\* Of a RefundPlan: the status Prepare read, whether less than the order's
\* amount is refunded, whether the deduction step applies.
Plans == [seen : RefundableStatuses, partial : BOOLEAN, deduct : BOOLEAN]
NoPlan == [seen |-> "COMPLETED", partial |-> FALSE, deduct |-> FALSE]

\* "long" outlives the deduction, "short" would expire by it, "expired" has
\* passed, "gone" was deleted by RevokeSubscription; "none" is the order of a
\* balance.
SubStates == {"none", "long", "short", "expired", "gone"}
Subscription == sub # "none"

\* Holding the REFUNDING lock.
HolderPCs == {"check", "deduct", "revoke", "gateway", "rollback", "rollbackLog",
              "restore", "refundFailed", "markOk"}
PCs == {"idle", "request", "lock"} \cup HolderPCs

TypeOK ==
  /\ status \in DeliveredStatuses
  /\ sub \in SubStates
  /\ taken \in Int
  /\ refunds \in Nat
  /\ rollbackLog \in BOOLEAN
  /\ pc \in [Admins -> PCs]
  /\ plan \in [Admins -> Plans]
  /\ faults \in 0 .. MaxFaults

Init ==
  /\ status = "COMPLETED"
  /\ sub \in {"none", "long"}
  /\ taken = 0
  /\ refunds = 0
  /\ rollbackLog = FALSE
  /\ pc = [a \in Admins |-> "idle"]
  /\ plan = [a \in Admins |-> NoPlan]
  /\ faults = 0

-----------------------------------------------------------------------------
Results == {"ok", "lost", "late"}

Outcome(r) ==
  IF r = "ok" THEN UNCHANGED faults
              ELSE faults < MaxFaults /\ faults' = faults + 1

Goto(a, label) ==
  /\ pc' = [pc EXCEPT ![a] = label]
  /\ UNCHANGED plan

Return(a) ==
  /\ pc' = [pc EXCEPT ![a] = "idle"]
  /\ plan' = [plan EXCEPT ![a] = NoPlan]

SetStatusIf(cond, s) == status' = IF cond THEN s ELSE status

-----------------------------------------------------------------------------
(* The user's request. *)

\* RequestRefund up to validateRefundRequest and the balance check.
RequestStart(a) ==
  /\ pc[a] = "idle"
  /\ ~Subscription
  /\ status = "COMPLETED"
  /\ Goto(a, "request")
  /\ UNCHANGED <<status, money, rollbackLog, faults>>

\* Its conditional update.
RequestUpd(a, r) ==
  /\ pc[a] = "request"
  /\ Outcome(r)
  /\ SetStatusIf(r # "lost" /\ status = "COMPLETED", "REFUND_REQUESTED")
  /\ Return(a)
  /\ UNCHANGED <<money, rollbackLog>>

-----------------------------------------------------------------------------
(* The admin's refund. *)

\* prepDeduct: whether there is something to deduct.  A balance is deducted
\* if it is positive when read; an active subscription by the order's days.
\* Without one, or when the user cannot be read, only a forced refund
\* continues, and deducts nothing.
Deductions ==
  IF Subscription THEN {sub \in {"long", "short"}} ELSE BOOLEAN

\* PrepareRefund, with or without the deduction of the benefit.
Prepare(a) ==
  /\ pc[a] = "idle"
  /\ status \in RefundableStatuses
  /\ \E partial \in BOOLEAN, deduct \in Deductions \cup {FALSE} :
        plan' = [plan EXCEPT ![a] = [seen |-> status, partial |-> partial,
                                     deduct |-> deduct]]
  /\ pc' = [pc EXCEPT ![a] = "lock"]
  /\ UNCHANGED <<status, money, rollbackLog, faults>>

LockableInAnyStatus == TRUE

\* The WHERE clause of the update to REFUNDING.
Lockable == status \in RefundableStatuses

\* The conditional update to REFUNDING at the start of ExecuteRefund.
Lock(a, r) ==
  /\ pc[a] = "lock"
  /\ Outcome(r)
  /\ SetStatusIf(r # "lost" /\ Lockable, "REFUNDING")
  /\ IF r = "ok" /\ Lockable
     THEN Goto(a, IF plan[a].deduct THEN "check" ELSE "gateway") ELSE Return(a)
  /\ UNCHANGED <<money, rollbackLog>>

\* hasAuditLog of REFUND_ROLLBACK_FAILED; an error reads as "no row".  With
\* a row the plan's deduction becomes 0.
Check(a, r) ==
  /\ pc[a] = "check"
  /\ r \in {"ok", "lost"}
  /\ Outcome(r)
  /\ IF r = "ok" /\ rollbackLog
     THEN /\ plan' = [plan EXCEPT ![a].deduct = FALSE]
          /\ pc' = [pc EXCEPT ![a] = "gateway"]
     ELSE Goto(a, "deduct")
  /\ UNCHANGED <<status, money, rollbackLog>>

\* DeductBalance, or ExtendSubscription with negative days: what would
\* expire is revoked next, what has expired or is gone is an error.
Deduct(a, r) ==
  /\ pc[a] = "deduct"
  /\ Outcome(r)
  /\ LET possible == ~Subscription \/ sub = "long"
         done == possible /\ r # "lost"
     IN /\ taken' = IF done THEN taken + 1 ELSE taken
        /\ \E left \in {"long", "short"} :
              sub' = IF done /\ Subscription THEN left ELSE sub
        /\ Goto(a, IF r = "ok" /\ possible THEN "gateway"
                   ELSE IF r = "ok" /\ sub = "short" THEN "revoke" ELSE "restore")
  /\ UNCHANGED <<status, refunds, rollbackLog>>

\* RevokeSubscription: the subscription is deleted.
Revoke(a, r) ==
  /\ pc[a] = "revoke"
  /\ Outcome(r)
  /\ LET done == sub # "gone" /\ r # "lost"
     IN /\ sub' = IF done THEN "gone" ELSE sub
        /\ taken' = IF done THEN taken + 1 ELSE taken
        /\ Goto(a, IF r = "ok" /\ done THEN "gateway" ELSE "restore")
  /\ UNCHANGED <<status, refunds, rollbackLog>>

\* handleGwFail starts with RollbackRefund.
GatewayFailed(a) == Goto(a, "rollback")

\* gwRefund.  An order without a trade number counts as refunded, the
\* provider may refuse, and "late" is a refund it executed and the caller
\* did not hear of.  Request numbers differ between attempts.
Gateway(a, r) ==
  /\ pc[a] = "gateway"
  /\ Outcome(r)
  /\ \/ /\ r = "ok"
        /\ \E n \in {0, 1} : refunds' = refunds + n
        /\ Goto(a, "markOk")
     \/ /\ r = "late"
        /\ refunds' = refunds + 1
        /\ GatewayFailed(a)
     \/ /\ r # "late"
        /\ UNCHANGED refunds
        /\ GatewayFailed(a)
  /\ UNCHANGED <<status, sub, taken, rollbackLog>>

RollbackAlwaysDue(a) == TRUE

\* The plan still carries a deduction: Check sets it to 0 when it skips.
RollbackDue(a) == plan[a].deduct

\* RollbackRefund: the deduction is given back; a deleted subscription
\* cannot be.
Rollback(a, r) ==
  /\ pc[a] = "rollback"
  /\ Outcome(r)
  /\ LET due == RollbackDue(a)
         done == due /\ r # "lost" /\ (Subscription => sub # "gone")
     IN /\ due \/ r = "ok"
        /\ taken' = IF done THEN taken - 1 ELSE taken
        /\ \E left \in {"long", "short"} :
              sub' = IF done /\ Subscription THEN left ELSE sub
        /\ Goto(a, IF r = "ok" /\ (due => done) THEN "restore" ELSE "rollbackLog")
  /\ UNCHANGED <<status, refunds, rollbackLog>>

\* The REFUND_ROLLBACK_FAILED row; writeAuditLog ignores its error.
RollbackLog(a, r) ==
  /\ pc[a] = "rollbackLog"
  /\ Outcome(r)
  /\ rollbackLog' = (rollbackLog \/ r # "lost")
  /\ Goto(a, "refundFailed")
  /\ UNCHANGED <<status, money>>

RestoredToRefunding(a) == "REFUNDING"

\* The status restoreStatus goes back to.
Restored(a) == IF plan[a].seen = "REFUND_REQUESTED" THEN "REFUND_REQUESTED" ELSE "COMPLETED"

\* restoreStatus: an unconditional update whose error is ignored.
Restore(a, r) ==
  /\ pc[a] = "restore"
  /\ Outcome(r)
  /\ SetStatusIf(r # "lost", Restored(a))
  /\ Return(a)
  /\ UNCHANGED <<money, rollbackLog>>

\* The unconditional REFUND_FAILED of handleGwFail.
RefundFailed(a, r) ==
  /\ pc[a] = "refundFailed"
  /\ Outcome(r)
  /\ SetStatusIf(r # "lost", "REFUND_FAILED")
  /\ Return(a)
  /\ UNCHANGED <<money, rollbackLog>>

\* markRefundOk.
MarkOk(a, r) ==
  /\ pc[a] = "markOk"
  /\ Outcome(r)
  /\ SetStatusIf(r # "lost", IF plan[a].partial THEN "PARTIALLY_REFUNDED" ELSE "REFUNDED")
  /\ Return(a)
  /\ UNCHANGED <<money, rollbackLog>>

\* The worker dies between two statements.
Crash(a) ==
  /\ pc[a] # "idle"
  /\ faults < MaxFaults
  /\ faults' = faults + 1
  /\ Return(a)
  /\ UNCHANGED <<status, money, rollbackLog>>

\* Time passes for the subscription.
SubAges ==
  /\ \/ sub = "long" /\ sub' = "short"
     \/ sub = "short" /\ sub' = "expired"
  /\ UNCHANGED <<status, taken, refunds, rollbackLog, pc, plan, faults>>

-----------------------------------------------------------------------------
Step(a) ==
  \E r \in Results :
    \/ RequestUpd(a, r)
    \/ Lock(a, r)
    \/ Check(a, r)
    \/ Deduct(a, r)
    \/ Revoke(a, r)
    \/ Gateway(a, r)
    \/ Rollback(a, r)
    \/ RollbackLog(a, r)
    \/ Restore(a, r)
    \/ RefundFailed(a, r)
    \/ MarkOk(a, r)

Next ==
  \/ SubAges
  \/ \E a \in Admins : Step(a) \/ RequestStart(a) \/ Prepare(a) \/ Crash(a)

Spec == Init /\ [][Next]_vars

-----------------------------------------------------------------------------
Holders == {a \in Admins : pc[a] \in HolderPCs}

\* REFUNDING is a lock: of all the admins refunding the order, one is
\* between the update to REFUNDING and the final status, and while it is
\* there the status stays REFUNDING, so its unconditional updates overwrite
\* nobody's.
RefundExclusive ==
  \A a, b \in Holders : a = b /\ status = "REFUNDING"

\* The provider refunds an order a second time only after a fault: a
\* finished refund is never refundable again, and two admins never both
\* reach the provider.
RefundsWithinFaults == refunds <= 1 + faults

\* What was deducted is given back at most once, and is deducted a second
\* time only after a fault: retries after a failed rollback skip the
\* deduction and then have nothing to roll back.
DeductionsWithinFaults == 0 <= taken /\ taken <= 1 + faults

\* Every change of the status is one the fulfillment specification expects
\* of the refund flow.
OnlyRefundSteps == [][status' = status \/ RefundStep(status, status')]_vars

\* Without faults, a balance order that is back to COMPLETED or to
\* REFUND_REQUESTED has its deduction given back, and no refund was paid.
RestoredMeansWhole ==
  /\ ~Subscription
  /\ faults = 0
  /\ Holders = {}
  /\ status \in {"COMPLETED", "REFUND_REQUESTED"}
  => taken = 0 /\ refunds = 0

-----------------------------------------------------------------------------
FairSpec == Spec /\ \A a \in Admins : WF_vars(Step(a))

\* Until a fault happens, a refund that took the lock gives it up with a
\* final or a refundable status.
RefundEnds == status = "REFUNDING" ~> status # "REFUNDING" \/ faults > 0
=============================================================================
