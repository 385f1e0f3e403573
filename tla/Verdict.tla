------------------------------- MODULE Verdict -------------------------------
(***************************************************************************)
(* How process_single_submission reads the end of a program: from what the *)
(* sandbox reports to the message of the response.                         *)
(***************************************************************************)
EXTENDS Integers, StatusRecord

\* What sandbox_runner reports: exit_code (-1 after a signal), signal,
\* wall_time_ms and is_oom.
SandboxResults ==
  [exit_code : Int, signal : Nat \union {None}, wall : Nat, oom : BOOLEAN]

\* The process that is waited for only passes on how the program ended, and
\* passes a signal on as an exit code above 128.
EffectiveSignal(result) ==
  IF result.signal # None THEN result.signal
  ELSE IF result.exit_code > 128 THEN result.exit_code - 128 ELSE None

\* The wall time is compared with the time limit of the payload, which may be
\* below the second that is granted at least.
OutOfTime(result, timelimit) ==
  LET signal == EffectiveSignal(result)
  IN  \/ signal = 24
      \/ signal = 9 /\ result.wall >= timelimit

\* Plausible bug: SIGKILL always stands for the OOM killer.
OutOfMemoryAnyKill(result, timelimit) ==
  result.oom \/ EffectiveSignal(result) = 9

OutOfMemory(result, timelimit) ==
  \/ result.oom
  \/ EffectiveSignal(result) = 9 /\ result.wall < timelimit

Crashed(result) ==
  \/ EffectiveSignal(result) \notin {None, 9, 24}
  \/ EffectiveSignal(result) = None /\ result.exit_code # 0

\* The message of the response, "none" when the output decides.
Message(result, timelimit) ==
  IF OutOfMemory(result, timelimit) THEN "memory_limit_error"
  ELSE IF OutOfTime(result, timelimit) THEN "time_limit_error"
  ELSE IF Crashed(result) THEN "run_time_error"
  ELSE "none"
==============================================================================
