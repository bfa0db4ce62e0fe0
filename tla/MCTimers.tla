------------------------------ MODULE MCTimers ------------------------------
(* Instances of Timers for TLC. *)
EXTENDS Timers, TLC

Symmetry == Permutations(Claims) \cup Permutations(Processes)
=============================================================================
