---------------------------- MODULE MCSubagents ----------------------------
(* Instances of Subagents for TLC. *)
EXTENDS Subagents, TLC

Symmetry == Permutations(Background) \cup Permutations(Delegs \ Background) \cup Permutations(Replies)
=============================================================================
