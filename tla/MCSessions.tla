---------------------------- MODULE MCSessions -----------------------------
(* Sessions on small instances: session ids, and requests, are              *)
(* interchangeable.  Three exchanges of one refresh token take four         *)
(* sessions, and neither time nor lost writes; for these there are two.     *)
EXTENDS Sessions, TLC

SessionSymmetry == Permutations(Sids) \cup Permutations(Requests)

FewSessions == now + lost = 0 \/ Cardinality({s \in Sids : Known(s)}) <= 2
=============================================================================
