---------------------------- MODULE MCSystemLock ----------------------------
(* Instances of SystemLock for TLC. *)
EXTENDS SystemLock, TLC

CONSTANTS o1, o2

\* Operations are interchangeable.
Symmetry == Permutations(Operations)
=============================================================================
