---------------------------- MODULE OrderStatus ----------------------------
(***************************************************************************)
(* The status column of payment_orders and the moves the refund flow makes *)
(* on it.  Shared by the fulfillment and the refund specifications.        *)
(* "NONE" stands for a row that has not been inserted yet.                 *)
(***************************************************************************)

RefundStatuses == {"REFUND_REQUESTED", "REFUNDING", "PARTIALLY_REFUNDED",
                   "REFUNDED", "REFUND_FAILED"}

Statuses == {"NONE", "PENDING", "PAID", "RECHARGING", "COMPLETED", "EXPIRED",
             "CANCELLED", "FAILED"} \cup RefundStatuses

\* psIsRefundStatus: the statuses in which fulfillment is refused.
IsRefundStatus(s) == s \in RefundStatuses

\* The statuses from which ExecuteRefund may take the REFUNDING lock.
RefundableStatuses == {"COMPLETED", "REFUND_REQUESTED", "REFUND_FAILED"}

\* The statuses of an order whose benefit has been delivered.
DeliveredStatuses == {"COMPLETED"} \cup RefundStatuses

\* Every status move of the refund flow: RequestRefund, the lock of
\* ExecuteRefund, restoreStatus, handleGwFail and markRefundOk.
RefundStep(s, t) ==
  \/ s = "COMPLETED" /\ t = "REFUND_REQUESTED"
  \/ s \in RefundableStatuses /\ t = "REFUNDING"
  \/ s = "REFUNDING" /\ t \in {"COMPLETED", "REFUND_REQUESTED", "REFUND_FAILED",
                               "REFUNDED", "PARTIALLY_REFUNDED"}
=============================================================================
