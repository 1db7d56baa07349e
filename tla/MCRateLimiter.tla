---------------------------- MODULE MCRateLimiter ----------------------------
(* RateLimiter on small instances: requests, and users, are interchangeable.  *)
EXTENDS RateLimiter, TLC

ClientSymmetry == Permutations(Requests) \cup Permutations(Users)
=============================================================================
