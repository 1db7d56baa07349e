------------------------------ MODULE MCGateway ------------------------------
(* Gateway on small instances: requests of a kind are interchangeable, and so *)
(* are tokens.                                                                *)
EXTENDS Gateway, TLC

RequestSymmetry ==
  Permutations(Requests) \cup Permutations(Plain) \cup Permutations(Tokens)
=============================================================================
