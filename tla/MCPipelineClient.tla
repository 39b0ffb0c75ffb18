-------------------------- MODULE MCPipelineClient --------------------------
(* Instances of PipelineClient for TLC. *)
EXTENDS PipelineClient, TLC

Symmetry == Permutations(Jobs)
=============================================================================
