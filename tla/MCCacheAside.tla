---------------------------- MODULE MCCacheAside ----------------------------
(* CacheAside on small instances: readers, and writers, are interchangeable *)
(* in the safety runs; the liveness run does without symmetry.              *)
EXTENDS CacheAside, TLC

ClientSymmetry == Permutations(Readers) \cup Permutations(Writers)
=============================================================================
