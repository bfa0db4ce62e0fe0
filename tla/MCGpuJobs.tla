----------------------------- MODULE MCGpuJobs -----------------------------
(* GpuJobs for TLC: the symmetry of the request identities. *)
EXTENDS GpuJobs, TLC

Symmetry == Permutations(ServeReqs) \cup Permutations(ScreenReqs)
=============================================================================
