------------------------------ MODULE Protection ------------------------------
(***************************************************************************)
(* How one sync classifies and matches the resting orders it read          *)
(* (botdca/protection.py and _matching_limit of botdca/live_service.py).   *)
(* A limit price is a function of the average entry and of the DCA step,   *)
(* so two prices are equal exactly when they were computed from the same   *)
(* set of entry executions (basis) and the same ladder step (level).       *)
(***************************************************************************)
EXTENDS Integers, FiniteSets

\* Mutant: several exits count as protection.
AssessSeveral(tps, orders, read, expected) ==
  IF tps = {} THEN "missing"
  ELSE IF \E i \in tps : orders[i].qty = expected /\ orders[i].qty >= read
       THEN "protected"
       ELSE "missing"

\* assess_protection for an open position of size read, with the take profit
\* the plan expects; tps is the set of resting take-profit orders.
\* OpenOrder.qty is the quantity ordered, not the quantity still unfilled.
Assess(tps, orders, read, expected) ==
  IF tps = {} THEN "missing"
  ELSE IF Cardinality(tps) > 1 THEN "ambiguous"
  ELSE IF \A i \in tps : orders[i].qty = expected /\ orders[i].qty >= read
       THEN "protected"
       ELSE "missing"

\* _matching_limit: the first resting order of the set with this quantity and
\* price; the empty set when there is none.
MatchingLimit(set, orders, qty, basis, level) ==
  LET same == {i \in set : /\ orders[i].qty = qty
                           /\ orders[i].basis = basis
                           /\ orders[i].level = level}
  IN  {i \in same : \A j \in same : i <= j}
===============================================================================
