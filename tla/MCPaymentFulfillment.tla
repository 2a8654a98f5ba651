------------------------ MODULE MCPaymentFulfillment ------------------------
(* Instances of PaymentFulfillment for TLC. *)
EXTENDS PaymentFulfillment, TLC

CONSTANTS w1, w2, bal, sub

\* Workers are interchangeable in the runs that check no liveness.
Symmetry == Permutations(Workers)
=============================================================================
