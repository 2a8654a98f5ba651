------------------------ MODULE PaymentRefundProofs ------------------------
(***************************************************************************)
(* The safety properties of PaymentRefund hold for any set of admins, for  *)
(* balance and subscription orders, and any number of faults.              *)
(***************************************************************************)
EXTENDS PaymentRefund, TLAPS

\* The statements of a holder before the provider executed its refund.
BeforeRefundPCs == HolderPCs \ {"markOk"}

\* The statements of a holder that has not deducted anything yet.
BeforeDeductionPCs == {"check", "deduct", "revoke"}

\* The provider has executed no more refunds than faults happened, unless
\* the order's one refund is being, or was, recorded.
RefundCount ==
  /\ refunds <= 1 + faults
  /\ status \in RefundableStatuses => refunds <= faults
  /\ \A a \in Admins : pc[a] \in BeforeRefundPCs => refunds <= faults

\* The same for deductions; a deleted subscription cannot be deducted again.
DeductionCount ==
  /\ 0 <= taken
  /\ taken <= 1 + faults
  /\ \/ sub = "gone"
     \/ /\ status \in RefundableStatuses => taken <= faults
        /\ \A a \in Admins :
             pc[a] \in BeforeDeductionPCs
                        \cup {"restore", "rollbackLog", "refundFailed"}
               => taken <= faults
        /\ \A a \in Admins :
             pc[a] \in {"gateway", "rollback"} /\ ~plan[a].deduct => taken <= faults

\* A holder that has yet to deduct has a plan that says so, only a
\* subscription is revoked, and a holder at the provider whose plan still
\* carries a deduction has made it.
Deducted ==
  \A a \in Admins :
    /\ pc[a] \in BeforeDeductionPCs => plan[a].deduct
    /\ pc[a] = "revoke" => Subscription
    /\ pc[a] \in {"gateway", "rollback"} /\ plan[a].deduct => taken >= 1

\* Without faults the balance is whole whenever the order is refundable.
FaultFreeBalance ==
  ~Subscription /\ faults = 0 =>
    /\ status \in RefundableStatuses => taken = 0 /\ refunds = 0
    /\ \A a \in Admins :
         /\ pc[a] \notin {"revoke", "rollbackLog", "refundFailed"}
         /\ pc[a] \in {"check", "deduct", "restore"} => taken = 0 /\ refunds = 0
         /\ pc[a] \in {"gateway", "rollback"}
              => refunds = 0 /\ taken = (IF plan[a].deduct THEN 1 ELSE 0)

IInv ==
  /\ TypeOK
  /\ RefundExclusive
  /\ RefundCount
  /\ DeductionCount
  /\ Deducted
  /\ FaultFreeBalance
-----------------------------------------------------------------------------
(* Preservation of IInv, action by action. *)

LEMMA SubAgesStep ==
  ASSUME IInv, SubAges
  PROVE  IInv'
<1> USE RefundAssumption DEF IInv, Subscription, SubAges, money
<1>1. TypeOK'
  BY DEF TypeOK, SubStates, Plans, NoPlan, PCs, HolderPCs,
     RefundableStatuses, DeliveredStatuses, RefundStatuses
<1>2. RefundExclusive'
  BY DEF TypeOK, RefundExclusive, Holders, PCs,
     HolderPCs, RefundableStatuses, DeliveredStatuses,
     RefundStatuses
<1>3. RefundCount'
  BY DEF TypeOK, RefundExclusive, RefundCount, Holders,
     BeforeRefundPCs, HolderPCs, RefundableStatuses,
     DeliveredStatuses, RefundStatuses
<1>4. DeductionCount' /\ Deducted'
  BY DEF TypeOK, RefundExclusive,
     DeductionCount, Deducted, Holders,
     BeforeDeductionPCs, NoPlan, Plans,
     HolderPCs, RefundableStatuses,
     DeliveredStatuses, RefundStatuses
<1>5. FaultFreeBalance'
  BY DEF TypeOK, RefundExclusive, FaultFreeBalance,
     Holders, NoPlan, Plans, HolderPCs, RefundableStatuses,
     DeliveredStatuses, RefundStatuses
<1> QED
  BY <1>1, <1>2, <1>3, <1>4, <1>5 DEF IInv

LEMMA RequestStartStep ==
  ASSUME IInv, NEW a \in Admins, RequestStart(a)
  PROVE  IInv'
<1> USE RefundAssumption DEF IInv, Subscription, RequestStart, Goto, money
<1>1. TypeOK'
  BY DEF TypeOK, SubStates, Plans, NoPlan, PCs, HolderPCs,
     RefundableStatuses, DeliveredStatuses, RefundStatuses
<1>2. RefundExclusive'
  BY DEF TypeOK, RefundExclusive, Holders, PCs,
     HolderPCs, RefundableStatuses, DeliveredStatuses,
     RefundStatuses
<1>3. RefundCount'
  BY DEF TypeOK, RefundExclusive, RefundCount, Holders,
     BeforeRefundPCs, HolderPCs, RefundableStatuses,
     DeliveredStatuses, RefundStatuses
<1>4. DeductionCount' /\ Deducted'
  BY DEF TypeOK, RefundExclusive,
     DeductionCount, Deducted, Holders,
     BeforeDeductionPCs, NoPlan, Plans,
     HolderPCs, RefundableStatuses,
     DeliveredStatuses, RefundStatuses
<1>5. FaultFreeBalance'
  BY DEF TypeOK, RefundExclusive, FaultFreeBalance,
     Holders, NoPlan, Plans, HolderPCs, RefundableStatuses,
     DeliveredStatuses, RefundStatuses
<1> QED
  BY <1>1, <1>2, <1>3, <1>4, <1>5 DEF IInv

LEMMA PrepareStep ==
  ASSUME IInv, NEW a \in Admins, Prepare(a)
  PROVE  IInv'
<1> USE RefundAssumption DEF IInv, Subscription, Prepare, Deductions, money
<1>1. TypeOK'
  <2>1. plan' \in [Admins -> Plans]
    <3>1. PICK partial \in BOOLEAN, deduct \in BOOLEAN :
            plan' = [plan EXCEPT ![a] = [seen |-> status, partial |-> partial,
                                         deduct |-> deduct]]
      OBVIOUS
    <3>2. [seen |-> status, partial |-> partial, deduct |-> deduct] \in Plans
      BY DEF Plans
    <3> QED
      BY <3>1, <3>2 DEF TypeOK
  <2>2. pc' \in [Admins -> PCs]
    BY DEF TypeOK, PCs, HolderPCs
  <2>3. status' \in DeliveredStatuses /\ faults' \in 0 .. MaxFaults
    BY DEF TypeOK, RefundableStatuses, DeliveredStatuses, RefundStatuses
  <2> QED
    BY <2>1, <2>2, <2>3 DEF TypeOK
<1>2. RefundExclusive'
  BY DEF TypeOK, RefundExclusive, Holders, PCs,
     HolderPCs, RefundableStatuses, DeliveredStatuses,
     RefundStatuses
<1>3. RefundCount'
  BY DEF TypeOK, RefundExclusive, RefundCount, Holders,
     BeforeRefundPCs, HolderPCs, RefundableStatuses,
     DeliveredStatuses, RefundStatuses
<1>4. DeductionCount' /\ Deducted'
  BY DEF TypeOK, RefundExclusive,
     DeductionCount, Deducted, Holders,
     BeforeDeductionPCs, NoPlan, Plans,
     HolderPCs, RefundableStatuses,
     DeliveredStatuses, RefundStatuses
<1>5. FaultFreeBalance'
  BY DEF TypeOK, RefundExclusive, FaultFreeBalance,
     Holders, NoPlan, Plans, HolderPCs, RefundableStatuses,
     DeliveredStatuses, RefundStatuses
<1> QED
  BY <1>1, <1>2, <1>3, <1>4, <1>5 DEF IInv

LEMMA CrashStep ==
  ASSUME IInv, NEW a \in Admins, Crash(a)
  PROVE  IInv'
<1> USE RefundAssumption DEF IInv, Subscription, Crash, Return, money
<1>1. TypeOK'
  BY DEF TypeOK, SubStates, Plans, NoPlan, PCs, HolderPCs,
     RefundableStatuses, DeliveredStatuses, RefundStatuses
<1>2. RefundExclusive'
  BY DEF TypeOK, RefundExclusive, Holders, PCs,
     HolderPCs, RefundableStatuses, DeliveredStatuses,
     RefundStatuses
<1>3. RefundCount'
  BY DEF TypeOK, RefundExclusive, RefundCount, Holders,
     BeforeRefundPCs, HolderPCs, RefundableStatuses,
     DeliveredStatuses, RefundStatuses
<1>4. DeductionCount' /\ Deducted'
  BY DEF TypeOK, RefundExclusive,
     DeductionCount, Deducted, Holders,
     BeforeDeductionPCs, NoPlan, Plans,
     HolderPCs, RefundableStatuses,
     DeliveredStatuses, RefundStatuses
<1>5. FaultFreeBalance'
  BY DEF TypeOK, RefundExclusive, FaultFreeBalance,
     Holders, NoPlan, Plans, HolderPCs, RefundableStatuses,
     DeliveredStatuses, RefundStatuses
<1> QED
  BY <1>1, <1>2, <1>3, <1>4, <1>5 DEF IInv

LEMMA RequestUpdStep ==
  ASSUME IInv, NEW a \in Admins, NEW r \in Results, RequestUpd(a, r)
  PROVE  IInv'
<1> USE RefundAssumption DEF IInv, Subscription, RequestUpd, Return, SetStatusIf, Outcome,
          Results, money
<1>1. TypeOK'
  BY DEF TypeOK, SubStates, Plans, NoPlan, PCs, HolderPCs,
     RefundableStatuses, DeliveredStatuses, RefundStatuses
<1>2. RefundExclusive'
  BY DEF TypeOK, RefundExclusive, Holders, PCs,
     HolderPCs, RefundableStatuses, DeliveredStatuses,
     RefundStatuses
<1>3. RefundCount'
  BY DEF TypeOK, RefundExclusive, RefundCount, Holders,
     BeforeRefundPCs, HolderPCs, RefundableStatuses,
     DeliveredStatuses, RefundStatuses
<1>4. DeductionCount' /\ Deducted'
  BY DEF TypeOK, RefundExclusive,
     DeductionCount, Deducted, Holders,
     BeforeDeductionPCs, NoPlan, Plans,
     HolderPCs, RefundableStatuses,
     DeliveredStatuses, RefundStatuses
<1>5. FaultFreeBalance'
  BY DEF TypeOK, RefundExclusive, FaultFreeBalance,
     Holders, NoPlan, Plans, HolderPCs, RefundableStatuses,
     DeliveredStatuses, RefundStatuses
<1> QED
  BY <1>1, <1>2, <1>3, <1>4, <1>5 DEF IInv

LEMMA LockStep ==
  ASSUME IInv, NEW a \in Admins, NEW r \in Results, Lock(a, r)
  PROVE  IInv'
<1> USE RefundAssumption DEF IInv, Subscription, Lock, Lockable, Goto, Return, SetStatusIf,
          Outcome, Results, money
<1>1. TypeOK'
  <2>1. plan' \in [Admins -> Plans]
    <3>1. NoPlan \in Plans
      BY DEF Plans, NoPlan, RefundableStatuses
    <3> QED
      BY <3>1 DEF TypeOK
  <2>2. pc' \in [Admins -> PCs]
    BY DEF TypeOK, PCs, HolderPCs
  <2>3. status' \in DeliveredStatuses /\ faults' \in 0 .. MaxFaults
    BY DEF TypeOK, RefundableStatuses, DeliveredStatuses, RefundStatuses
  <2> QED
    BY <2>1, <2>2, <2>3 DEF TypeOK
<1>2. RefundExclusive'
  BY DEF TypeOK, RefundExclusive, Holders, PCs,
     HolderPCs, RefundableStatuses, DeliveredStatuses,
     RefundStatuses
<1>3. RefundCount'
  BY DEF TypeOK, RefundExclusive, RefundCount, Holders,
     BeforeRefundPCs, HolderPCs, RefundableStatuses,
     DeliveredStatuses, RefundStatuses
<1>4. DeductionCount' /\ Deducted'
  BY DEF TypeOK, RefundExclusive,
     DeductionCount, Deducted, Holders,
     BeforeDeductionPCs, NoPlan, Plans,
     HolderPCs, RefundableStatuses,
     DeliveredStatuses, RefundStatuses
<1>5. FaultFreeBalance'
  BY DEF TypeOK, RefundExclusive, FaultFreeBalance,
     Holders, NoPlan, Plans, HolderPCs, RefundableStatuses,
     DeliveredStatuses, RefundStatuses
<1> QED
  BY <1>1, <1>2, <1>3, <1>4, <1>5 DEF IInv

LEMMA CheckStep ==
  ASSUME IInv, NEW a \in Admins, NEW r \in Results, Check(a, r)
  PROVE  IInv'
<1> USE RefundAssumption DEF IInv, Subscription, Check, Goto, Outcome, Results, money
<1>1. TypeOK'
  <2>1. plan' \in [Admins -> Plans]
    <3>1. plan[a] \in Plans
      BY DEF TypeOK
    <3>2. [plan[a] EXCEPT !.deduct = FALSE] \in Plans
      BY <3>1 DEF Plans
    <3> QED
      BY <3>1, <3>2 DEF TypeOK
  <2>2. pc' \in [Admins -> PCs]
    BY DEF TypeOK, PCs, HolderPCs
  <2>3. status' \in DeliveredStatuses /\ faults' \in 0 .. MaxFaults
    BY DEF TypeOK, RefundableStatuses, DeliveredStatuses, RefundStatuses
  <2> QED
    BY <2>1, <2>2, <2>3 DEF TypeOK
<1>2. RefundExclusive'
  BY DEF TypeOK, RefundExclusive, Holders, PCs,
     HolderPCs, RefundableStatuses, DeliveredStatuses,
     RefundStatuses
<1>3. RefundCount'
  BY DEF TypeOK, RefundExclusive, RefundCount, Holders,
     BeforeRefundPCs, HolderPCs, RefundableStatuses,
     DeliveredStatuses, RefundStatuses
<1>4. DeductionCount' /\ Deducted'
  BY DEF TypeOK, RefundExclusive,
     DeductionCount, Deducted, Holders,
     BeforeDeductionPCs, NoPlan, Plans,
     HolderPCs, RefundableStatuses,
     DeliveredStatuses, RefundStatuses
<1>5. FaultFreeBalance'
  BY DEF TypeOK, RefundExclusive, FaultFreeBalance,
     Holders, NoPlan, Plans, HolderPCs, RefundableStatuses,
     DeliveredStatuses, RefundStatuses
<1> QED
  BY <1>1, <1>2, <1>3, <1>4, <1>5 DEF IInv

LEMMA DeductStep ==
  ASSUME IInv, NEW a \in Admins, NEW r \in Results, Deduct(a, r)
  PROVE  IInv'
<1> USE RefundAssumption DEF IInv, Subscription, Deduct, Goto, Outcome, Results, money
<1>1. TypeOK'
  BY DEF TypeOK, SubStates, Plans, NoPlan, PCs, HolderPCs,
     RefundableStatuses, DeliveredStatuses, RefundStatuses
<1>2. RefundExclusive'
  BY DEF TypeOK, RefundExclusive, Holders, PCs,
     HolderPCs, RefundableStatuses, DeliveredStatuses,
     RefundStatuses
<1>3. RefundCount'
  BY DEF TypeOK, RefundExclusive, RefundCount, Holders,
     BeforeRefundPCs, HolderPCs, RefundableStatuses,
     DeliveredStatuses, RefundStatuses
<1>4. DeductionCount' /\ Deducted'
  BY DEF TypeOK, RefundExclusive,
     DeductionCount, Deducted, Holders,
     BeforeDeductionPCs, NoPlan, Plans,
     HolderPCs, RefundableStatuses,
     DeliveredStatuses, RefundStatuses
<1>5. FaultFreeBalance'
  <2> SUFFICES ASSUME ~Subscription', faults' = 0 PROVE FaultFreeBalance'
    BY DEF FaultFreeBalance
  <2>1. faults = 0 /\ r = "ok"
    BY DEF TypeOK
  <2>2. taken = 0 /\ refunds = 0 /\ plan[a].deduct
    BY <2>1 DEF FaultFreeBalance, Deducted, BeforeDeductionPCs
  <2>3. taken' = 1 /\ refunds' = 0 /\ plan' = plan /\ status' = status
    BY <2>1, <2>2
  <2>4. pc' = [pc EXCEPT ![a] = "gateway"]
    BY <2>1
  <2>5. \A b \in Admins \ {a} : pc'[b] \notin HolderPCs
    BY <2>4 DEF TypeOK, RefundExclusive, Holders, HolderPCs
  <2>6. pc'[a] = "gateway" /\ status' = "REFUNDING"
    BY <2>3, <2>4 DEF TypeOK, RefundExclusive, Holders, HolderPCs
  <2> QED
    BY <2>2, <2>3, <2>5, <2>6 DEF FaultFreeBalance, HolderPCs, RefundableStatuses
<1> QED
  BY <1>1, <1>2, <1>3, <1>4, <1>5 DEF IInv

LEMMA RevokeStep ==
  ASSUME IInv, NEW a \in Admins, NEW r \in Results, Revoke(a, r)
  PROVE  IInv'
<1> USE RefundAssumption DEF IInv, Subscription, Revoke, Goto, Outcome, Results, money
<1>1. TypeOK'
  BY DEF TypeOK, SubStates, Plans, NoPlan, PCs, HolderPCs,
     RefundableStatuses, DeliveredStatuses, RefundStatuses
<1>2. RefundExclusive'
  BY DEF TypeOK, RefundExclusive, Holders, PCs,
     HolderPCs, RefundableStatuses, DeliveredStatuses,
     RefundStatuses
<1>3. RefundCount'
  BY DEF TypeOK, RefundExclusive, RefundCount, Holders,
     BeforeRefundPCs, HolderPCs, RefundableStatuses,
     DeliveredStatuses, RefundStatuses
<1>4. DeductionCount' /\ Deducted'
  BY DEF TypeOK, RefundExclusive,
     DeductionCount, Deducted, Holders,
     BeforeDeductionPCs, NoPlan, Plans,
     HolderPCs, RefundableStatuses,
     DeliveredStatuses, RefundStatuses
<1>5. FaultFreeBalance'
  BY DEF TypeOK, RefundExclusive, FaultFreeBalance,
     Holders, NoPlan, Plans, HolderPCs, RefundableStatuses,
     DeliveredStatuses, RefundStatuses
<1> QED
  BY <1>1, <1>2, <1>3, <1>4, <1>5 DEF IInv

LEMMA GatewayStep ==
  ASSUME IInv, NEW a \in Admins, NEW r \in Results, Gateway(a, r)
  PROVE  IInv'
<1> USE RefundAssumption DEF IInv, Subscription, Gateway, GatewayFailed, Goto, Outcome,
          Results, money
<1>1. TypeOK'
  BY DEF TypeOK, SubStates, Plans, NoPlan, PCs, HolderPCs,
     RefundableStatuses, DeliveredStatuses, RefundStatuses
<1>2. RefundExclusive'
  BY DEF TypeOK, RefundExclusive, Holders, PCs,
     HolderPCs, RefundableStatuses, DeliveredStatuses,
     RefundStatuses
<1>3. RefundCount'
  BY DEF TypeOK, RefundExclusive, RefundCount, Holders,
     BeforeRefundPCs, HolderPCs, RefundableStatuses,
     DeliveredStatuses, RefundStatuses
<1>4. DeductionCount' /\ Deducted'
  BY DEF TypeOK, RefundExclusive,
     DeductionCount, Deducted, Holders,
     BeforeDeductionPCs, NoPlan, Plans,
     HolderPCs, RefundableStatuses,
     DeliveredStatuses, RefundStatuses
<1>5. FaultFreeBalance'
  BY DEF TypeOK, RefundExclusive, FaultFreeBalance,
     Holders, NoPlan, Plans, HolderPCs, RefundableStatuses,
     DeliveredStatuses, RefundStatuses
<1> QED
  BY <1>1, <1>2, <1>3, <1>4, <1>5 DEF IInv

LEMMA RollbackStep ==
  ASSUME IInv, NEW a \in Admins, NEW r \in Results, Rollback(a, r)
  PROVE  IInv'
<1> USE RefundAssumption DEF IInv, Subscription, Rollback, RollbackDue, Goto, Outcome,
          Results, money
<1>1. TypeOK'
  BY DEF TypeOK, SubStates, Plans, NoPlan, PCs, HolderPCs,
     RefundableStatuses, DeliveredStatuses, RefundStatuses
<1>2. RefundExclusive'
  BY DEF TypeOK, RefundExclusive, Holders, PCs,
     HolderPCs, RefundableStatuses, DeliveredStatuses,
     RefundStatuses
<1>3. RefundCount'
  BY DEF TypeOK, RefundExclusive, RefundCount, Holders,
     BeforeRefundPCs, HolderPCs, RefundableStatuses,
     DeliveredStatuses, RefundStatuses
<1>4. DeductionCount' /\ Deducted'
  BY DEF TypeOK, RefundExclusive,
     DeductionCount, Deducted, Holders,
     BeforeDeductionPCs, NoPlan, Plans,
     HolderPCs, RefundableStatuses,
     DeliveredStatuses, RefundStatuses
<1>5. FaultFreeBalance'
  BY DEF TypeOK, RefundExclusive, FaultFreeBalance,
     Holders, NoPlan, Plans, HolderPCs, RefundableStatuses,
     DeliveredStatuses, RefundStatuses
<1> QED
  BY <1>1, <1>2, <1>3, <1>4, <1>5 DEF IInv

LEMMA RollbackLogStep ==
  ASSUME IInv, NEW a \in Admins, NEW r \in Results, RollbackLog(a, r)
  PROVE  IInv'
<1> USE RefundAssumption DEF IInv, Subscription, RollbackLog, Goto, Outcome, Results, money
<1>1. TypeOK'
  BY DEF TypeOK, SubStates, Plans, NoPlan, PCs, HolderPCs,
     RefundableStatuses, DeliveredStatuses, RefundStatuses
<1>2. RefundExclusive'
  BY DEF TypeOK, RefundExclusive, Holders, PCs,
     HolderPCs, RefundableStatuses, DeliveredStatuses,
     RefundStatuses
<1>3. RefundCount'
  BY DEF TypeOK, RefundExclusive, RefundCount, Holders,
     BeforeRefundPCs, HolderPCs, RefundableStatuses,
     DeliveredStatuses, RefundStatuses
<1>4. DeductionCount' /\ Deducted'
  BY DEF TypeOK, RefundExclusive,
     DeductionCount, Deducted, Holders,
     BeforeDeductionPCs, NoPlan, Plans,
     HolderPCs, RefundableStatuses,
     DeliveredStatuses, RefundStatuses
<1>5. FaultFreeBalance'
  BY DEF TypeOK, RefundExclusive, FaultFreeBalance,
     Holders, NoPlan, Plans, HolderPCs, RefundableStatuses,
     DeliveredStatuses, RefundStatuses
<1> QED
  BY <1>1, <1>2, <1>3, <1>4, <1>5 DEF IInv

LEMMA RestoreStep ==
  ASSUME IInv, NEW a \in Admins, NEW r \in Results, Restore(a, r)
  PROVE  IInv'
<1> USE RefundAssumption DEF IInv, Subscription, Restore, Restored, Return, SetStatusIf,
          Outcome, Results, money
<1>1. TypeOK'
  BY DEF TypeOK, SubStates, Plans, NoPlan, PCs, HolderPCs,
     RefundableStatuses, DeliveredStatuses, RefundStatuses
<1>2. RefundExclusive'
  BY DEF TypeOK, RefundExclusive, Holders, PCs,
     HolderPCs, RefundableStatuses, DeliveredStatuses,
     RefundStatuses
<1>3. RefundCount'
  BY DEF TypeOK, RefundExclusive, RefundCount, Holders,
     BeforeRefundPCs, HolderPCs, RefundableStatuses,
     DeliveredStatuses, RefundStatuses
<1>4. DeductionCount' /\ Deducted'
  BY DEF TypeOK, RefundExclusive,
     DeductionCount, Deducted, Holders,
     BeforeDeductionPCs, NoPlan, Plans,
     HolderPCs, RefundableStatuses,
     DeliveredStatuses, RefundStatuses
<1>5. FaultFreeBalance'
  BY DEF TypeOK, RefundExclusive, FaultFreeBalance,
     Holders, NoPlan, Plans, HolderPCs, RefundableStatuses,
     DeliveredStatuses, RefundStatuses
<1> QED
  BY <1>1, <1>2, <1>3, <1>4, <1>5 DEF IInv

LEMMA RefundFailedStep ==
  ASSUME IInv, NEW a \in Admins, NEW r \in Results, RefundFailed(a, r)
  PROVE  IInv'
<1> USE RefundAssumption DEF IInv, Subscription, RefundFailed, Return, SetStatusIf, Outcome,
          Results, money
<1>1. TypeOK'
  BY DEF TypeOK, SubStates, Plans, NoPlan, PCs, HolderPCs,
     RefundableStatuses, DeliveredStatuses, RefundStatuses
<1>2. RefundExclusive'
  BY DEF TypeOK, RefundExclusive, Holders, PCs,
     HolderPCs, RefundableStatuses, DeliveredStatuses,
     RefundStatuses
<1>3. RefundCount'
  BY DEF TypeOK, RefundExclusive, RefundCount, Holders,
     BeforeRefundPCs, HolderPCs, RefundableStatuses,
     DeliveredStatuses, RefundStatuses
<1>4. DeductionCount' /\ Deducted'
  BY DEF TypeOK, RefundExclusive,
     DeductionCount, Deducted, Holders,
     BeforeDeductionPCs, NoPlan, Plans,
     HolderPCs, RefundableStatuses,
     DeliveredStatuses, RefundStatuses
<1>5. FaultFreeBalance'
  BY DEF TypeOK, RefundExclusive, FaultFreeBalance,
     Holders, NoPlan, Plans, HolderPCs, RefundableStatuses,
     DeliveredStatuses, RefundStatuses
<1> QED
  BY <1>1, <1>2, <1>3, <1>4, <1>5 DEF IInv

LEMMA MarkOkStep ==
  ASSUME IInv, NEW a \in Admins, NEW r \in Results, MarkOk(a, r)
  PROVE  IInv'
<1> USE RefundAssumption DEF IInv, Subscription, MarkOk, Return, SetStatusIf, Outcome,
          Results, money
<1>1. TypeOK'
  BY DEF TypeOK, SubStates, Plans, NoPlan, PCs, HolderPCs,
     RefundableStatuses, DeliveredStatuses, RefundStatuses
<1>2. RefundExclusive'
  BY DEF TypeOK, RefundExclusive, Holders, PCs,
     HolderPCs, RefundableStatuses, DeliveredStatuses,
     RefundStatuses
<1>3. RefundCount'
  BY DEF TypeOK, RefundExclusive, RefundCount, Holders,
     BeforeRefundPCs, HolderPCs, RefundableStatuses,
     DeliveredStatuses, RefundStatuses
<1>4. DeductionCount' /\ Deducted'
  BY DEF TypeOK, RefundExclusive,
     DeductionCount, Deducted, Holders,
     BeforeDeductionPCs, NoPlan, Plans,
     HolderPCs, RefundableStatuses,
     DeliveredStatuses, RefundStatuses
<1>5. FaultFreeBalance'
  BY DEF TypeOK, RefundExclusive, FaultFreeBalance,
     Holders, NoPlan, Plans, HolderPCs, RefundableStatuses,
     DeliveredStatuses, RefundStatuses
<1> QED
  BY <1>1, <1>2, <1>3, <1>4, <1>5 DEF IInv

-----------------------------------------------------------------------------
(* The theorems. *)

LEMMA InitIInv == Init => IInv
<1> SUFFICES ASSUME Init PROVE IInv
  OBVIOUS
<1> USE RefundAssumption DEF Init, Subscription
<1>1. TypeOK
  <2>1. NoPlan \in Plans
    BY DEF NoPlan, Plans, RefundableStatuses
  <2>2. status \in DeliveredStatuses /\ sub \in SubStates
    BY DEF DeliveredStatuses, SubStates
  <2>3. taken \in Int /\ refunds \in Nat /\ faults \in 0 .. MaxFaults
    OBVIOUS
  <2>4. pc \in [Admins -> PCs] /\ plan \in [Admins -> Plans]
    BY <2>1 DEF PCs
  <2>5. rollbackLog \in BOOLEAN
    OBVIOUS
  <2> QED
    BY <2>2, <2>3, <2>4, <2>5 DEF TypeOK
<1>2. RefundExclusive
  BY DEF RefundExclusive, Holders, HolderPCs
<1>3. RefundCount
  BY DEF RefundCount, BeforeRefundPCs, HolderPCs
<1>4. DeductionCount
  BY DEF DeductionCount, BeforeDeductionPCs
<1>5. Deducted
  BY DEF Deducted, BeforeDeductionPCs
<1>6. FaultFreeBalance
  BY DEF FaultFreeBalance
<1> QED
  BY <1>1, <1>2, <1>3, <1>4, <1>5, <1>6 DEF IInv

LEMMA NextIInv == IInv /\ [Next]_vars => IInv'
<1> SUFFICES ASSUME IInv, [Next]_vars PROVE IInv'
  OBVIOUS
<1>1. CASE SubAges
  BY <1>1, SubAgesStep
<1>2. ASSUME NEW a \in Admins, RequestStart(a)
      PROVE  IInv'
  BY <1>2, RequestStartStep
<1>3. ASSUME NEW a \in Admins, Prepare(a)
      PROVE  IInv'
  BY <1>3, PrepareStep
<1>4. ASSUME NEW a \in Admins, Crash(a)
      PROVE  IInv'
  BY <1>4, CrashStep
<1>5. ASSUME NEW a \in Admins, NEW r \in Results, RequestUpd(a, r)
      PROVE  IInv'
  BY <1>5, RequestUpdStep
<1>6. ASSUME NEW a \in Admins, NEW r \in Results, Lock(a, r)
      PROVE  IInv'
  BY <1>6, LockStep
<1>7. ASSUME NEW a \in Admins, NEW r \in Results, Check(a, r)
      PROVE  IInv'
  BY <1>7, CheckStep
<1>8. ASSUME NEW a \in Admins, NEW r \in Results, Deduct(a, r)
      PROVE  IInv'
  BY <1>8, DeductStep
<1>9. ASSUME NEW a \in Admins, NEW r \in Results, Revoke(a, r)
      PROVE  IInv'
  BY <1>9, RevokeStep
<1>10. ASSUME NEW a \in Admins, NEW r \in Results, Gateway(a, r)
      PROVE  IInv'
  BY <1>10, GatewayStep
<1>11. ASSUME NEW a \in Admins, NEW r \in Results, Rollback(a, r)
      PROVE  IInv'
  BY <1>11, RollbackStep
<1>12. ASSUME NEW a \in Admins, NEW r \in Results, RollbackLog(a, r)
      PROVE  IInv'
  BY <1>12, RollbackLogStep
<1>13. ASSUME NEW a \in Admins, NEW r \in Results, Restore(a, r)
      PROVE  IInv'
  BY <1>13, RestoreStep
<1>14. ASSUME NEW a \in Admins, NEW r \in Results, RefundFailed(a, r)
      PROVE  IInv'
  BY <1>14, RefundFailedStep
<1>15. ASSUME NEW a \in Admins, NEW r \in Results, MarkOk(a, r)
      PROVE  IInv'
  BY <1>15, MarkOkStep
<1>16. CASE UNCHANGED vars
  BY <1>16 DEF vars, money, IInv, TypeOK, RefundExclusive, RefundCount,
     DeductionCount, Deducted, FaultFreeBalance, Subscription, Holders
<1> QED
  BY <1>1, <1>2, <1>3, <1>4, <1>5, <1>6, <1>7, <1>8, <1>9, <1>10, <1>11, <1>12,
     <1>13, <1>14, <1>15, <1>16
  DEF Next, Step

\* The invariant that carries all the others.
THEOREM RefundInvariant == Spec => []IInv
<1>1. Init => IInv
  BY InitIInv
<1>2. IInv /\ [Next]_vars => IInv'
  BY NextIInv
<1> QED
  BY <1>1, <1>2, PTL DEF Spec

\* Every column, count and plan keeps its type.
THEOREM RefundTypeCorrect == Spec => []TypeOK
<1>1. IInv => TypeOK
  BY DEF IInv
<1> QED
  BY <1>1, RefundInvariant, PTL

\* REFUNDING excludes concurrent refunds of an order.
THEOREM RefundExclusion == Spec => []RefundExclusive
<1>1. IInv => RefundExclusive
  BY DEF IInv
<1> QED
  BY <1>1, RefundInvariant, PTL

\* A second refund at the provider takes a fault.
THEOREM RefundBound == Spec => []RefundsWithinFaults
<1>1. IInv => RefundsWithinFaults
  BY DEF IInv, RefundCount, RefundsWithinFaults
<1> QED
  BY <1>1, RefundInvariant, PTL

\* A second deduction takes a fault, and no rollback gives back too much.
THEOREM DeductionBound == Spec => []DeductionsWithinFaults
<1>1. IInv => DeductionsWithinFaults
  BY DEF IInv, DeductionCount, DeductionsWithinFaults
<1> QED
  BY <1>1, RefundInvariant, PTL

\* Without faults a restored balance order has lost nothing.
THEOREM RestoredWhole == Spec => []RestoredMeansWhole
<1>1. IInv => RestoredMeansWhole
  BY DEF IInv, FaultFreeBalance, RestoredMeansWhole, RefundableStatuses
<1> QED
  BY <1>1, RefundInvariant, PTL

\* Every status change is one the fulfillment specification expects.
LEMMA StatusStep ==
  ASSUME IInv, [Next]_vars
  PROVE  status' = status \/ RefundStep(status, status')
<1> USE DEF IInv, TypeOK, RefundExclusive, RefundStep, RefundableStatuses
<1>1. CASE SubAges
  BY <1>1 DEF SubAges, Holders, HolderPCs
<1>2. ASSUME NEW a \in Admins, RequestStart(a)
      PROVE  status' = status \/ RefundStep(status, status')
  BY <1>2 DEF RequestStart, Goto, Holders, HolderPCs
<1>3. ASSUME NEW a \in Admins, Prepare(a)
      PROVE  status' = status \/ RefundStep(status, status')
  BY <1>3 DEF Prepare, Deductions, Holders, HolderPCs
<1>4. ASSUME NEW a \in Admins, Crash(a)
      PROVE  status' = status \/ RefundStep(status, status')
  BY <1>4 DEF Crash, Return, Holders, HolderPCs
<1>5. ASSUME NEW a \in Admins, NEW r \in Results, RequestUpd(a, r)
      PROVE  status' = status \/ RefundStep(status, status')
  BY <1>5 DEF RequestUpd, Return, SetStatusIf, Holders, HolderPCs
<1>6. ASSUME NEW a \in Admins, NEW r \in Results, Lock(a, r)
      PROVE  status' = status \/ RefundStep(status, status')
  BY <1>6 DEF Lock, Lockable, Goto, Return, SetStatusIf, Holders, HolderPCs
<1>7. ASSUME NEW a \in Admins, NEW r \in Results, Check(a, r)
      PROVE  status' = status \/ RefundStep(status, status')
  BY <1>7 DEF Check, Goto, Holders, HolderPCs
<1>8. ASSUME NEW a \in Admins, NEW r \in Results, Deduct(a, r)
      PROVE  status' = status \/ RefundStep(status, status')
  BY <1>8 DEF Deduct, Goto, Holders, HolderPCs
<1>9. ASSUME NEW a \in Admins, NEW r \in Results, Revoke(a, r)
      PROVE  status' = status \/ RefundStep(status, status')
  BY <1>9 DEF Revoke, Goto, Holders, HolderPCs
<1>10. ASSUME NEW a \in Admins, NEW r \in Results, Gateway(a, r)
      PROVE  status' = status \/ RefundStep(status, status')
  BY <1>10 DEF Gateway, GatewayFailed, Goto, Holders, HolderPCs
<1>11. ASSUME NEW a \in Admins, NEW r \in Results, Rollback(a, r)
      PROVE  status' = status \/ RefundStep(status, status')
  BY <1>11 DEF Rollback, RollbackDue, Goto, Holders, HolderPCs
<1>12. ASSUME NEW a \in Admins, NEW r \in Results, RollbackLog(a, r)
      PROVE  status' = status \/ RefundStep(status, status')
  BY <1>12 DEF RollbackLog, Goto, Holders, HolderPCs
<1>13. ASSUME NEW a \in Admins, NEW r \in Results, Restore(a, r)
      PROVE  status' = status \/ RefundStep(status, status')
  BY <1>13 DEF Restore, Restored, Return, SetStatusIf, Holders, HolderPCs
<1>14. ASSUME NEW a \in Admins, NEW r \in Results, RefundFailed(a, r)
      PROVE  status' = status \/ RefundStep(status, status')
  BY <1>14 DEF RefundFailed, Return, SetStatusIf, Holders, HolderPCs
<1>15. ASSUME NEW a \in Admins, NEW r \in Results, MarkOk(a, r)
      PROVE  status' = status \/ RefundStep(status, status')
  BY <1>15 DEF MarkOk, Return, SetStatusIf, Holders, HolderPCs
<1>16. CASE UNCHANGED vars
  BY <1>16 DEF vars
<1> QED
  BY <1>1, <1>2, <1>3, <1>4, <1>5, <1>6, <1>7, <1>8, <1>9, <1>10, <1>11, <1>12,
     <1>13, <1>14, <1>15, <1>16
  DEF Next, Step

\* The refund flow moves the status only along RefundStep, which is all that
\* PaymentFulfillment assumes of it.
THEOREM RefundStepsOnly == Spec => OnlyRefundSteps
<1>1. IInv /\ [Next]_vars => [status' = status \/ RefundStep(status, status')]_vars
  BY StatusStep
<1> QED
  BY <1>1, RefundInvariant, PTL DEF Spec, OnlyRefundSteps
=============================================================================
