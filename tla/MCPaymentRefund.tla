--------------------------- MODULE MCPaymentRefund ---------------------------
(* Instances of PaymentRefund for TLC. *)
EXTENDS PaymentRefund

CONSTANTS a1, a2
==============================================================================
