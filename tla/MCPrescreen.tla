---------------------------- MODULE MCPrescreen ----------------------------
(* Instances of Prescreen for TLC. *)
EXTENDS Prescreen, TLC

Own == [key |-> 0, ngl |-> 1, moe |-> 1]
Square == [key : {0}, ngl : {1, 2}, moe : {0, 1}]
Alone == {Own}
Bad == {[key |-> 0, ngl |-> 1, moe |-> 0]}
Symmetry == Permutations(Backends)
=============================================================================
