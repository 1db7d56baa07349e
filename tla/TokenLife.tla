----------------------------- MODULE TokenLife ------------------------------
(***************************************************************************)
(* What a user of the gateways may rely on about the token pairs of one    *)
(* account, apart from how rows, blacklist and clocks bring it about: a    *)
(* pair is issued once, both tokens good, and a token that is refused is   *)
(* refused for good.  Sessions implements this.                            *)
(***************************************************************************)

CONSTANT Sids  \* the session ids, one for each pair

VARIABLES
  access,   \* access[s]: "none", "good" or "refused"
  refresh   \* refresh[s]: the same of the other token of the pair

pair == <<access, refresh>>

Init ==
  /\ access = [s \in Sids |-> "none"]
  /\ refresh = [s \in Sids |-> "none"]

Issue(s) ==
  /\ access[s] = "none" /\ refresh[s] = "none"
  /\ access' = [access EXCEPT ![s] = "good"]
  /\ refresh' = [refresh EXCEPT ![s] = "good"]

\* The tokens of a set, once good, are refused.
Refused(tokens, set) ==
  [s \in Sids |-> IF s \in set THEN "refused" ELSE tokens[s]]

Refuse(A, R) ==
  /\ \A s \in A : access[s] = "good"
  /\ \A s \in R : refresh[s] = "good"
  /\ access' = Refused(access, A)
  /\ refresh' = Refused(refresh, R)

Next ==
  \/ \E s \in Sids : Issue(s)
  \/ \E A, R \in SUBSET Sids : Refuse(A, R)

Spec == Init /\ [][Next]_pair

=============================================================================
