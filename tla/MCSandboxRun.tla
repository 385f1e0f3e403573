---------------------------- MODULE MCSandboxRun -----------------------------
(* SandboxRun for TLC: half seconds, a limit below and one above a second.     *)
EXTENDS SandboxRun

HalfSeconds == {1, 3}
==============================================================================
