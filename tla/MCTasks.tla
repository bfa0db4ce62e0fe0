------------------------------ MODULE MCTasks ------------------------------
(* Instances of Tasks for TLC. *)
EXTENDS Tasks, TLC

Symmetry == Permutations(Ids) \cup Permutations(Stops)
=============================================================================
