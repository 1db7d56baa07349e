--------------------------- MODULE MCIdempotency ---------------------------
(* Idempotency on small instances: the requests are interchangeable.  The   *)
(* bodies are not, as Init names one of them.                               *)
EXTENDS Idempotency, TLC

RequestSymmetry == Permutations(Requests)
=============================================================================
