------------------------------- MODULE MCTune -------------------------------
(* Instances of Tune for TLC. *)
EXTENDS Tune, TLC

Symmetry == Permutations(Draw \ {Base}) \cup Permutations(Cands \ Draw)
=============================================================================
