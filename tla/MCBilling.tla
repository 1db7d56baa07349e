----------------------------- MODULE MCBilling -----------------------------
(* Billing on small instances: a charge that matches both triggers for        *)
(* different reasons, one that matches none, and letters with short texts.    *)
(* Any two inputs come together: a request and a charge, two letters, ...     *)
EXTENDS Billing, TLC

MCContents == {[type |-> "charge", amount |-> 2], [type |-> "topup", amount |-> 1]}

MCTriggers ==
  {[action |-> "notification", threshold |-> {2}, minBalance |-> {}],
   [action |-> "adjust_balance", threshold |-> {}, minBalance |-> {1}]}

MCTexts == {<<"other">>, <<"other", Placeholder>>, <<Placeholder, "other">>}

TwoInputs ==
  Cardinality({r \in Requests : stage[r] = "new"})
    + Cardinality(log["charges"]) + Cardinality(log["email"]) <= 2

\* What is not there has no variants.
NoVariants ==
  /\ \A r \in Requests : stage[r] = "over" => kind[r] = "adjust"
  /\ \A c \in Charges : Plain(c) \notin log["charges"] => charge[c] = None
  /\ \A l \in Letters : Plain(l) \notin log["email"] => text[l] = None

MCInit == Init /\ TwoInputs /\ NoVariants

MCSpec == MCInit /\ [][Next]_vars /\ Fairness
=============================================================================
