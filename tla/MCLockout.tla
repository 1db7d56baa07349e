----------------------------- MODULE MCLockout -----------------------------
(* Lockout on small instances: the attempts are interchangeable. *)
EXTENDS Lockout, TLC

AttemptSymmetry == Permutations(Attempts)
=============================================================================
