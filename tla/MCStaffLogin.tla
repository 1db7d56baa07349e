---------------------------- MODULE MCStaffLogin ----------------------------
(* StaffLogin on small instances: requests are interchangeable.             *)
EXTENDS StaffLogin, TLC

RequestSymmetry == Permutations(Requests)
=============================================================================
