--------------------------- MODULE PaymentPromise ---------------------------
(***************************************************************************)
(* What the payment component promises for a set of orders, whatever       *)
(* callbacks, polls, retries and crashes happen: money is captured at most *)
(* once per order, the benefit is delivered only for a captured payment,   *)
(* and it is delivered at most once.                                       *)
(***************************************************************************)
CONSTANT Orders

VARIABLES captured,   \* the provider holds the exact amount of the order
          delivered   \* how many times the order's benefit was delivered

vars == <<captured, delivered>>

Init == /\ captured = [o \in Orders |-> FALSE]
        /\ delivered = [o \in Orders |-> 0]

Capture(o) == /\ ~captured[o]
              /\ captured' = [captured EXCEPT ![o] = TRUE]
              /\ UNCHANGED delivered

Deliver(o) == /\ captured[o]
              /\ delivered[o] = 0
              /\ delivered' = [delivered EXCEPT ![o] = 1]
              /\ UNCHANGED captured

Next == \E o \in Orders : Capture(o) \/ Deliver(o)

Spec == Init /\ [][Next]_vars
=============================================================================
