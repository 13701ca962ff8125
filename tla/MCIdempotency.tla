--------------------------- MODULE MCIdempotency ----------------------------
(* Idempotency on a small instance. *)
EXTENDS Idempotency, TLC

CONSTANTS a1, a2, k1, b1, b2

ThreadSymmetry == Permutations({a1, a2})
=============================================================================
