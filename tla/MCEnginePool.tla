----------------------------- MODULE MCEnginePool -----------------------------
(* Instances of EnginePool for TLC.                                        *)
EXTENDS EnginePool

\* A machine with one core.
OneCorePermits  == HeavyTasksThreads(1)
OneCorePoolSize == DefaultPoolSize(1)
=============================================================================
