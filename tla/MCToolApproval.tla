--------------------------- MODULE MCToolApproval ---------------------------
(* Instances of ToolApproval for TLC. *)
EXTENDS ToolApproval, TLC

Symmetry == Permutations(Requests) \cup Permutations(Replies)
=============================================================================
