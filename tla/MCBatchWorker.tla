--------------------------- MODULE MCBatchWorker ---------------------------
(* BatchWorker on small instances.  The events are interchangeable in the   *)
(* safety runs; the liveness run does without symmetry.                     *)
EXTENDS BatchWorker, TLC

EventSymmetry == Permutations(Events)
=============================================================================
