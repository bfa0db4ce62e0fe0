--------------------------- MODULE MCServeProcess ---------------------------
(* Instances of ServeProcess for TLC. *)
EXTENDS ServeProcess, TLC

Symmetry == Permutations(Requests)
=============================================================================
