--------------------------- MODULE MCPipelineRun ---------------------------
(* Instances of PipelineRun for TLC. *)
EXTENDS PipelineRun, TLC

Symmetry == Permutations(Clients) \cup Permutations(Slots)
=============================================================================
