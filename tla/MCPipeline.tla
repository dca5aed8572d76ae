----------------------------- MODULE MCPipeline -----------------------------
(* Two interchangeable workloads.                                          *)
EXTENDS Pipeline, TLC

Symmetry == Permutations(Workloads)
=============================================================================
