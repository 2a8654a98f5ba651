--------------------------- MODULE MCIdempotency ---------------------------
(* Instances of Idempotency for TLC. *)
EXTENDS Idempotency, TLC

CONSTANTS r1, r2, p1, p2

\* Requests are interchangeable.
Symmetry == Permutations(Requests)
=============================================================================
