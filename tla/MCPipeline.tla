----------------------------- MODULE MCPipeline -----------------------------
EXTENDS PipelineService, TLC
Symmetry == Permutations(Msg) \cup Permutations(Client) \cup Permutations(Server)
=============================================================================
