------------------------------ MODULE MCPipeline ------------------------------
(* Instances of Pipeline for TLC.                                          *)
EXTENDS PipelineRefinement, PipelineInvariant, TLC

CONSTANTS Crashes, Panics, LostReads, LostWrites, Flushes

MCMaxFaults ==
  [k \in FaultKinds |->
     CASE k = "crash" -> Crashes
       [] k = "panic" -> Panics
       [] k = "read"  -> LostReads
       [] k = "write" -> LostWrites
       [] k = "flush" -> Flushes]

Symmetry == Permutations(Submissions) \cup Permutations(Engines)
=============================================================================
