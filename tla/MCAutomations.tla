--------------------------- MODULE MCAutomations ---------------------------
(* Automations for TLC: a rule with two times and one that ends early, and a *)
(* clock that is put back before time 3 and shows 1 again.                   *)
EXTENDS Automations, TLC

TwoRules == {{1, 2}, {1}}
PutBack == [t \in 0..MaxTime |-> IF t < 3 THEN t ELSE t - 2]
=============================================================================
