----------------------------- MODULE SandboxRun ------------------------------
(***************************************************************************)
(* The processes of one submission: the compiler in compile_sandbox_runner *)
(* and, if it succeeds, the program in sandbox_runner, each with a control *)
(* group, a deadline and the guard that cleans up.                         *)
(*                                                                         *)
(* The compiler is a driver with the helpers it forks.  The program is the *)
(* first process of a PID namespace; an outer process forks it, waits for  *)
(* it and passes on how it ended.  The namespace ends with the program, so *)
(* what the program forks is not modelled, but that it may run out of      *)
(* memory.  Time is in ticks, read from the start of a runner.             *)
(***************************************************************************)
EXTENDS Verdict

CONSTANTS
  Second,      \* the ticks of 1000 ms
  TimeLimits,  \* the time limits of payloads, in ticks
  SetUpTime,   \* the longest time a runner takes until its child runs
  Burst,       \* how far cpu.max lets CPU time run ahead of the clock: a program
               \* on several CPUs spends the quota of a period at its beginning
  Retries,     \* how often the guard looks whether the group is empty
  MaxFaults    \* how many kernel calls may fail

ASSUME TimeAssumption ==
  /\ Second \in Nat \ {0} /\ TimeLimits \subseteq Nat /\ SetUpTime \in Nat /\ Burst \in Nat
  /\ Retries \in Nat \ {0} /\ MaxFaults \in Nat

Stages == {"compile", "run"}
Members(s) == IF s = "compile" THEN {"driver", "helper"} ELSE {"outer", "program"}
Processes == UNION {Members(s) : s \in Stages}
Exits == [code : Nat, signal : {None}] \union [code : {None}, signal : Nat]
Causes == {"exit", "crash", "cpu", "oom", "deadline", "set_up"}

ASSUME NoneAssumption == None \notin Int \union Exits \union Causes

VARIABLES
  timelimit,  \* of the payload
  stage,      \* the runner that is at work, "over" after the last one
  pc,         \* where the runner is
  outcome,    \* how it ends, None before: a result, an Err, a panic
  group,      \* the control groups of the two runners
  setup,      \* what this engine has made of /sys/fs/cgroup: "none" yet; groups
              \* with limits ("ok") or without controllers ("failed"); or, when
              \* cgroup2 could not be mounted on a tmpfs, a "plain" directory
  proc,       \* the processes: outside their group, inside, killed, dead
  exit,       \* how the program ended, None before
  status,     \* what the runner was told of its child, None before
  cause,      \* history: what ended the program
  now,        \* time since the runner was called
  spawned,    \* when its deadline was started, None before
  cpu,        \* the CPU time of the program
  oom,        \* whether the group's memory.events count an OOM kill
  result,     \* the SandboxResult, None before
  retries,    \* how often the guard will look again
  faults      \* history: the calls that failed

cgroups == <<group, setup>>
clock   == <<now, spawned, cpu>>
kernel  == <<proc, exit, cause, oom>>
vars    == <<timelimit, stage, pc, outcome, cgroups, kernel, status, clock, result, retries, faults>>

Alive(p) == proc[p] \in {"outside", "inside"}
Populated(s) == \E p \in Members(s) : proc[p] \in {"inside", "killed"}

\* A write to cgroup.kill, or its failure.
Killed(s) == [p \in Processes |-> IF p \in Members(s) /\ proc[p] = "inside" THEN "killed" ELSE proc[p]]

\* An interpreted language has no compiler.  Earlier submissions of the engine
\* may have set up the controllers, or have failed to.
Init ==
  /\ timelimit \in TimeLimits
  /\ stage \in Stages /\ pc = "group" /\ outcome = None
  /\ group = [s \in Stages |-> "none"] /\ setup \in {"none", "failed", "ok", "plain"}
  /\ proc = [p \in Processes |-> "none"]
  /\ exit = None /\ status = None /\ cause = None
  /\ now = 0 /\ spawned = None /\ cpu = 0
  /\ oom = FALSE /\ result = None /\ retries = 0 /\ faults = 0

Fault == faults < MaxFaults /\ faults' = faults + 1

\* What max(1000, payload.timelimit) makes of the limit; the compiler has 5 s.
Limit ==
  CASE stage = "compile"   -> 5 * Second
    [] timelimit >= Second -> timelimit
    [] OTHER               -> Second

\* RLIMIT_CPU is in whole seconds: the soft limit is cut off, the hard limit
\* is a second later.
CpuSoft == (Limit \div Second) * Second
CpuHard == CpuSoft + Second

(***************************************************************************)
(* Time                                                                    *)
(***************************************************************************)
\* Plausible bug: the deadline counts from the call of the runner.
DueEarly == now >= Limit + Second

\* timeout(time_limit + 1000)
Due == now >= spawned + Limit + Second

\* The end of time is a tick after the deadline, so that it always comes.  The
\* threads of a program may use several CPUs.
Tick ==
  /\ stage # "over"
  /\ IF spawned = None THEN now < SetUpTime ELSE now <= spawned + Limit + Second
  /\ now' = now + 1
  /\ IF proc["program"] = "inside"
     THEN cpu' \in cpu..CpuHard /\ cpu' <= now' - spawned + Burst
     ELSE cpu' = cpu
  /\ UNCHANGED <<timelimit, stage, pc, outcome, cgroups, kernel, status, spawned, result, retries, faults>>

(***************************************************************************)
(* The processes                                                           *)
(***************************************************************************)
\* A helper is where its driver is when it is forked.
Fork ==
  /\ Alive("driver") /\ proc["helper"] = "none"
  /\ proc' = [proc EXCEPT !["helper"] = proc["driver"]]
  /\ UNCHANGED <<timelimit, stage, pc, outcome, cgroups, exit, status, cause, oom, clock, result, retries, faults>>

\* Either process ends, a driver that is killed with code 1.
CompilerExits ==
  /\ \/ /\ Alive("driver") /\ proc' = [proc EXCEPT !["driver"] = "dead"]
        /\ \E code \in {0, 1} : exit' = [code |-> code, signal |-> None]
     \/ /\ Alive("helper") /\ proc' = [proc EXCEPT !["helper"] = "dead"]
        /\ exit' = exit
  /\ UNCHANGED <<timelimit, stage, pc, outcome, cgroups, status, cause, oom, clock, result, retries, faults>>

\* How the program ends, and what ended it.  The codes above 128 are those a
\* shell would use for a signal.
Ends(how, why) ==
  /\ proc["program"] = "inside"
  /\ proc' = [proc EXCEPT !["program"] = "dead"]
  /\ exit' = how
  /\ cause' = IF cause = "deadline" THEN cause ELSE why
  /\ UNCHANGED <<timelimit, stage, pc, outcome, cgroups, status, clock, result, retries, faults>>

ProgramExits ==
  /\ oom' = oom
  /\ \/ \E code \in {0, 1, 137, 152} : Ends([code |-> code, signal |-> None], "exit")
     \/ Ends([code |-> None, signal |-> 11], "crash")

\* SIGXCPU may be ignored, SIGKILL may not.
CpuLimit ==
  /\ oom' = oom
  /\ \/ cpu >= CpuSoft /\ Ends([code |-> None, signal |-> 24], "cpu")
     \/ cpu >= CpuHard /\ Ends([code |-> None, signal |-> 9], "cpu")

\* Out of memory the kernel kills the program, something it has forked, or the
\* outer process and so the program too.
OutOfMemoryKill ==
  /\ proc["program"] = "inside" /\ ~oom
  /\ oom' = TRUE
  /\ \/ Ends([code |-> None, signal |-> 9], "oom")
     \/ UNCHANGED <<timelimit, stage, pc, outcome, cgroups, proc, exit, status, cause, clock, result, retries, faults>>
     \/ /\ proc["outer"] = "inside"
        /\ proc' = [proc EXCEPT !["outer"] = "dead", !["program"] = "killed"]
        /\ status' = [code |-> None, signal |-> 9]
        /\ cause' = IF cause = "deadline" THEN cause ELSE "oom"
        /\ UNCHANGED <<timelimit, stage, pc, outcome, cgroups, exit, clock, result, retries, faults>>

\* Plausible bug: the outer process exits with the number of the signal.
PassedOnBare(how) == IF how.code # None THEN how.code ELSE how.signal

\* The code the outer process exits with.
PassedOn(how) == IF how.code # None THEN how.code ELSE 128 + how.signal

OuterExits ==
  /\ proc["outer"] = "inside" /\ proc["program"] = "dead"
  /\ proc' = [proc EXCEPT !["outer"] = "dead"]
  /\ status' = [code |-> PassedOn(exit), signal |-> None]
  /\ UNCHANGED <<timelimit, stage, pc, outcome, cgroups, exit, cause, oom, clock, result, retries, faults>>

\* A killed process is gone as soon as the kernel lets it.  The program is
\* killed with its parent (PR_SET_PDEATHSIG).
Dies(p) ==
  /\ proc[p] = "killed"
  /\ proc' = [proc EXCEPT ![p] = "dead",
                          !["program"] = IF p = "outer" /\ @ = "inside" THEN "killed" ELSE @]
  /\ UNCHANGED <<timelimit, stage, pc, outcome, cgroups, exit, status, cause, oom, clock, result, retries, faults>>

(***************************************************************************)
(* Both runners                                                            *)
(***************************************************************************)
\* A runner that has made its group leaves through the guard, on every way.
Leave(how) == pc' = "guard" /\ outcome' = how

\* Without a group there is nothing to clean up.
Return(how) ==
  /\ outcome' = how
  /\ IF stage = "compile" /\ how = "ok"
     THEN /\ stage' = "run" /\ pc' = "group" /\ now' = 0 /\ spawned' = None
          /\ exit' = None /\ oom' = FALSE
     ELSE /\ stage' = "over" /\ pc' = "end" /\ UNCHANGED <<now, spawned, exit, oom>>

\* What initialize_global_cgroups_once makes of the set-up, with the number of
\* calls that fail.  It mounts cgroup2, moves the engine into a group of its own
\* and delegates the controllers, once per engine whether or not that works.  If
\* it cannot mount on a tmpfs, all it writes then are files.
Initialized ==
  IF setup = "none" THEN {<<"ok", 0>>, <<"failed", 1>>, <<"plain", 1>>} ELSE {<<setup, 0>>}

\* sandbox_runner delegates the controllers again.
Delegated ==
  {<<IF d[1] = "failed" THEN "ok" ELSE d[1], d[2]>> : d \in Initialized}
  \union {<<d[1], d[2] + 1>> : d \in Initialized}

SetUp(outcomes, failing) ==
  \E d \in outcomes :
    /\ setup' = d[1] /\ faults' = faults + d[2] + failing /\ faults' <= MaxFaults

Prepared == IF stage = "run" THEN Delegated ELSE Initialized

\* create_dir_all of the group.
MakeGroup ==
  /\ pc = "group" /\ SetUp(Prepared, 0)
  /\ group' = [group EXCEPT ![stage] = "there"] /\ pc' = "limits"
  /\ UNCHANGED <<timelimit, stage, outcome, kernel, status, clock, result, retries>>

\* Before it delegates, sandbox_runner makes directories and panics when it cannot.
MakeGroupFails ==
  /\ pc = "group"
  /\ \/ SetUp(Prepared, 1) /\ Return("err")
     \/ stage = "run" /\ SetUp(Initialized, 1) /\ Return("panic")
  /\ UNCHANGED <<timelimit, group, proc, cause, status, cpu, result, retries>>

\* Plausible bug: the guard is made after the limits are written.
LimitsUnguarded ==
  /\ pc = "limits"
  /\ \/ setup # "failed" /\ pc' = "spawn" /\ UNCHANGED <<stage, outcome, faults, now, spawned, exit, oom>>
     \/ setup = "failed" /\ Return("panic") /\ UNCHANGED faults
     \/ Fault /\ Return("panic")
  /\ UNCHANGED <<timelimit, cgroups, proc, cause, status, cpu, result, retries>>

\* The limits of memory, CPU and processes and the mount points, each unwrapped:
\* without controllers a group has no file to write a limit to; in a plain
\* directory the writes make the files, and nothing is limited.
Limits ==
  /\ pc = "limits"
  /\ \/ setup # "failed" /\ pc' = "spawn" /\ UNCHANGED <<outcome, faults>>
     \/ setup = "failed" /\ Leave("panic") /\ UNCHANGED faults
     \/ Fault /\ Leave("panic")
  /\ UNCHANGED <<timelimit, stage, cgroups, kernel, status, clock, result, retries>>

SpawnFails ==
  /\ pc = "spawn" /\ Fault /\ Leave("err")
  /\ UNCHANGED <<timelimit, stage, cgroups, kernel, status, clock, result, retries>>

WaitFails ==
  /\ pc = "wait" /\ Fault /\ Leave("err")
  /\ UNCHANGED <<timelimit, stage, cgroups, kernel, status, clock, result, retries>>

\* The deadline is over before the end of the child is seen.
Deadline ==
  /\ pc = "wait" /\ Due
  /\ pc' = "kill"
  /\ cause' = "deadline"
  /\ UNCHANGED <<timelimit, stage, outcome, cgroups, proc, exit, oom, status, clock, result, retries, faults>>

\* cgroup.kill; a failure is logged.  In a plain directory it is a file, and
\* nobody is inside.  The compiler's runner returns then and drops the driver,
\* which does not end it.
KillGroup ==
  /\ pc = "kill"
  /\ \/ proc' = Killed(stage) /\ UNCHANGED faults
     \/ proc' = proc /\ Fault
  /\ IF stage = "compile" THEN Leave("rejected") ELSE pc' = "reap" /\ outcome' = outcome
  /\ UNCHANGED <<timelimit, stage, cgroups, exit, cause, oom, status, clock, result, retries>>

(***************************************************************************)
(* compile_sandbox_runner                                                  *)
(***************************************************************************)
SpawnCompiler ==
  /\ stage = "compile" /\ pc = "spawn"
  /\ proc' = [proc EXCEPT !["driver"] = "outside"] /\ pc' = "move"
  /\ UNCHANGED <<timelimit, stage, outcome, cgroups, exit, cause, oom, status, clock, result, retries, faults>>

\* The driver is moved into the group, without the helpers it has by now; in a
\* plain directory its number is written to a file.
Move ==
  /\ pc = "move"
  /\ proc' = [proc EXCEPT !["driver"] = IF @ = "outside" /\ setup # "plain" THEN "inside" ELSE @]
  /\ pc' = "wait" /\ spawned' = now
  /\ UNCHANGED <<timelimit, stage, outcome, cgroups, exit, cause, oom, status, now, cpu, result, retries, faults>>

\* The driver is killed and reaped.
MoveFails ==
  /\ pc = "move" /\ Fault
  /\ proc' = [proc EXCEPT !["driver"] = "dead"]
  /\ Leave("err")
  /\ UNCHANGED <<timelimit, stage, cgroups, exit, cause, oom, status, clock, result, retries>>

\* wait_with_output ends when the pipes are closed that the helper has, too.
Compiled ==
  /\ stage = "compile" /\ pc = "wait" /\ ~Alive("driver") /\ ~Alive("helper")
  /\ Leave(IF exit.code = 0 THEN "ok" ELSE "rejected")
  /\ UNCHANGED <<timelimit, stage, cgroups, kernel, status, clock, result, retries, faults>>

(***************************************************************************)
(* sandbox_runner                                                          *)
(***************************************************************************)
Spawned ==
  /\ pc' = "wait" /\ spawned' = now
  /\ UNCHANGED <<timelimit, stage, outcome, cgroups, oom, now, cpu, result, retries>>

\* Plausible bug: the outer process goes on when it cannot join the group.
SpawnUnjoined ==
  /\ stage = "run" /\ pc = "spawn" /\ Spawned
  /\ proc' = [proc EXCEPT !["outer"] = "inside", !["program"] = "inside"]
  /\ UNCHANGED <<exit, cause, status, faults>>

\* The outer process joins the group before it forks the program.
SpawnProgram ==
  /\ stage = "run" /\ pc = "spawn" /\ setup # "plain" /\ Spawned
  /\ proc' = [proc EXCEPT !["outer"] = "inside", !["program"] = "inside"]
  /\ UNCHANGED <<exit, cause, status, faults>>

\* A plain directory has no cgroup.procs, and open does not create it: the outer
\* process ends before it forks the program.
CannotJoin ==
  /\ stage = "run" /\ pc = "spawn" /\ setup = "plain" /\ Spawned
  /\ proc' = [proc EXCEPT !["outer"] = "dead", !["program"] = "dead"]
  /\ exit' = [code |-> 101, signal |-> None] /\ status' = exit' /\ cause' = "set_up"
  /\ UNCHANGED faults

\* The child cannot be isolated: the codes of _exit in pre_exec.
SetUpFails ==
  /\ stage = "run" /\ pc = "spawn" /\ setup # "plain" /\ Fault /\ Spawned
  /\ proc' = [proc EXCEPT !["outer"] = "inside", !["program"] = "dead"]
  /\ \E code \in {101, 130, 152} : exit' = [code |-> code, signal |-> None]
  /\ cause' = "set_up" /\ UNCHANGED status

ChildEnded ==
  /\ stage = "run" /\ pc = "wait" /\ status # None
  /\ pc' = "events"
  /\ UNCHANGED <<timelimit, stage, outcome, cgroups, kernel, status, clock, result, retries, faults>>

\* Plausible bug: child.wait().await instead.
ReapWaiting ==
  /\ pc = "reap" /\ proc["outer"] = "dead"
  /\ status' = [code |-> None, signal |-> 9]
  /\ pc' = "events"
  /\ UNCHANGED <<timelimit, stage, outcome, cgroups, kernel, clock, result, retries, faults>>

\* child.kill().await after the deadline; the status is made up.
Reap ==
  /\ pc = "reap"
  /\ proc' = [proc EXCEPT !["outer"] = "dead",
                          !["program"] = IF @ = "inside" THEN "killed" ELSE @]
  /\ status' = [code |-> None, signal |-> 9]
  /\ pc' = "events"
  /\ UNCHANGED <<timelimit, stage, outcome, cgroups, exit, cause, oom, clock, result, retries, faults>>

\* memory.events, or nothing if it cannot be read, and the result.
Events ==
  /\ pc = "events"
  /\ \E is_oom \in BOOLEAN :
       /\ IF is_oom = oom THEN faults' = faults ELSE oom /\ Fault
       /\ result' = [exit_code |-> IF status.code = None THEN -1 ELSE status.code,
                     signal |-> status.signal, wall |-> now, oom |-> is_oom]
  /\ Leave("ok")
  /\ UNCHANGED <<timelimit, stage, cgroups, kernel, status, clock, retries>>

(***************************************************************************)
(* CgroupGuard::drop                                                       *)
(***************************************************************************)
\* Plausible bug: the guard only waits.
GuardWaits ==
  /\ pc = "guard"
  /\ pc' = "poll" /\ retries' = Retries
  /\ UNCHANGED <<timelimit, stage, outcome, cgroups, kernel, status, clock, result, faults>>

GuardKills ==
  /\ pc = "guard"
  /\ \/ proc' = Killed(stage) /\ UNCHANGED faults
     \/ proc' = proc /\ Fault
  /\ pc' = "poll" /\ retries' = Retries
  /\ UNCHANGED <<timelimit, stage, outcome, cgroups, exit, cause, oom, status, clock, result>>

\* cgroup.events says that there are processes, or cannot be read; a plain
\* directory has none.
GuardPolls ==
  /\ pc = "poll" /\ retries > 0
  /\ IF setup = "plain" \/ Populated(stage) THEN UNCHANGED faults ELSE Fault
  /\ retries' = retries - 1
  /\ UNCHANGED <<timelimit, stage, pc, outcome, cgroups, kernel, status, clock, result>>

\* The kernel removes no group with processes in it, and no directory with files.
GuardRemoves ==
  /\ pc = "poll" /\ (retries = 0 \/ (setup # "plain" /\ ~Populated(stage)))
  /\ group' = [group EXCEPT ![stage] =
                  IF setup = "plain" \/ Populated(stage) THEN "left" ELSE "gone"]
  /\ Return(outcome)
  /\ UNCHANGED <<timelimit, setup, proc, cause, status, cpu, result, retries, faults>>

(***************************************************************************)
(* The specification                                                       *)
(***************************************************************************)
Runner ==
  \/ MakeGroup \/ MakeGroupFails \/ Limits \/ SpawnFails \/ WaitFails
  \/ Deadline \/ KillGroup \/ SpawnCompiler \/ Move \/ MoveFails \/ Compiled
  \/ SpawnProgram \/ CannotJoin \/ SetUpFails \/ ChildEnded \/ Reap \/ Events
  \/ GuardKills \/ GuardPolls \/ GuardRemoves

Kernel ==
  \/ Fork \/ CompilerExits \/ ProgramExits \/ CpuLimit \/ OutOfMemoryKill
  \/ OuterExits \/ \E p \in Processes : Dies(p)

Over == stage = "over" /\ UNCHANGED vars

Next == Tick \/ Runner \/ Kernel \/ Over

\* The engine goes on, time passes, killed processes die.  Compiler and program
\* need not end by themselves.
Fairness ==
  /\ WF_vars(Runner) /\ WF_vars(Tick) /\ WF_vars(OuterExits)
  /\ \A p \in Processes : WF_vars(Dies(p))

Spec == Init /\ [][Next]_vars /\ Fairness

(***************************************************************************)
(* Properties                                                              *)
(***************************************************************************)
Verdict == Message(result, timelimit)
Judged == result # None

\* The hard limit of CPU time is reached before the time limit may be over: the
\* whole seconds leave no room for what several CPUs use ahead of the clock.
Premature == cause = "cpu" /\ CpuHard < timelimit + Burst

\* A program stopped for its time, by the deadline or by the CPU limit, is told
\* so, unless it has been out of memory as well: the deadline, the CPU limit in
\* whole seconds, the burst that cpu.max allows and the comparison with the
\* payload's own limit fit together, but for the limits Premature names.
StoppedForTimeIsTold ==
  Judged /\ cause \in {"deadline", "cpu"} /\ ~Premature =>
    Verdict = IF result.oom THEN "memory_limit_error" ELSE "time_limit_error"

\* memory_limit_error is told only if the kernel counted an OOM kill, or if the
\* program exited with the code that a shell uses for SIGKILL, or if the SIGKILL
\* of the CPU limit came too early.
MemoryIsMemory ==
  Judged /\ Verdict = "memory_limit_error" =>
    oom \/ (cause = "exit" /\ exit.code = 137) \/ (Premature /\ exit.signal = 9)

\* time_limit_error is told only if the program has had its limit, or the whole
\* seconds of it in CPU time; or if it, or its set-up, exited with a code that
\* reads as a signal, or an OOM kill could not be read.
LimitWasGranted ==
  Judged /\ Verdict = "time_limit_error" =>
    \/ cause = "deadline" /\ now - spawned >= timelimit
    \/ cause = "cpu" /\ cpu >= CpuSoft
    \/ cause \in {"exit", "set_up"} /\ exit.code \in {137, 152}
    \/ cause = "oom" /\ ~result.oom

Done(s) == stage = "over" \/ (s = "compile" /\ stage = "run")

\* When a runner has returned, by whatever way and with one failing call, no
\* process of it runs on, except a helper the compiler forked before it was
\* moved into its group; and except, if cgroup2 could not be mounted, the
\* processes of a compiler that was given up, as there is no group to kill.
NoOrphan ==
  faults <= 1 =>
    \A s \in Stages : Done(s) =>
      \A p \in Members(s) : Alive(p) =>
        /\ proc[p] = "outside"
        /\ p = "helper" \/ (setup = "plain" /\ p = "driver" /\ outcome \in {"rejected", "err"})

\* A runner that has returned, with a panic too, has removed its group or has
\* tried to; it leaves one behind only if a process would not die, or a plain
\* directory that has no group in it.
GroupIsRemoved ==
  \A s \in Stages : Done(s) =>
    /\ group[s] # "there"
    /\ group[s] = "left" => setup = "plain" \/ retries = 0

(***************************************************************************)
(* What these properties rest on                                           *)
(***************************************************************************)
TypeOK ==
  /\ timelimit \in TimeLimits
  /\ stage \in Stages \union {"over"}
  /\ pc \in {"group", "limits", "spawn", "move", "wait", "kill", "reap", "events",
             "guard", "poll", "end"}
  /\ outcome \in {None, "ok", "rejected", "err", "panic"}
  /\ group \in [Stages -> {"none", "there", "left", "gone"}]
  /\ setup \in {"none", "failed", "ok", "plain"}
  /\ proc \in [Processes -> {"none", "outside", "inside", "killed", "dead"}]
  /\ exit \in Exits \union {None} /\ status \in Exits \union {None}
  /\ cause \in Causes \union {None}
  /\ now \in Nat /\ spawned \in Nat \union {None} /\ cpu \in Nat
  /\ oom \in BOOLEAN /\ result \in SandboxResults \union {None}
  /\ retries \in Nat /\ faults \in Nat

\* Where a runner can be in which stage, and what there is not yet.  A program
\* runs only in a group with limits, whatever became of the set-up; a compiler
\* is started without them if cgroup2 could not be mounted.
StagesInOrder ==
  /\ pc = "move" => stage = "compile"
  /\ pc \in {"reap", "events"} => stage = "run"
  /\ (pc = "end") = (stage = "over")
  /\ pc = "limits" => setup # "none"
  /\ pc \in {"spawn", "move", "wait", "kill", "reap", "events"} => setup \in {"ok", "plain"}
  /\ Alive("program") => setup = "ok"
  /\ pc \in {"group", "limits", "spawn"} =>
       /\ \A p \in Members(stage) : proc[p] = "none"
       /\ cause = None /\ status = None /\ spawned = None
  /\ stage = "compile" =>
       /\ proc["outer"] = "none" /\ proc["program"] = "none"
       /\ status = None /\ result = None /\ cpu = 0
       /\ cause # None => pc = "kill" \/ (pc \in {"guard", "poll"} /\ outcome = "rejected")
  /\ pc \in {"group", "limits", "spawn", "move", "wait", "kill", "reap", "events"} => result = None

\* The compiler's processes are over when the program's runner begins; the
\* program's parent is never outside its group nor outlived by the program; and
\* a guard that could kill, or had nothing to kill, polls for the dying only.
ProcessesInv ==
  /\ proc["driver"] = "outside" => pc = "move" \/ setup = "plain"
  /\ stage = "run" \/ (stage = "compile" /\ pc \in {"guard", "poll"} /\ outcome = "ok") =>
       ~Alive("driver") /\ ~Alive("helper")
  /\ proc["program"] # "none" => ~Alive("driver") /\ ~Alive("helper")
  /\ Alive("driver") /\ pc \in {"guard", "poll"} => outcome \in {"rejected", "err"}
  /\ proc["outer"] # "outside" /\ proc["program"] # "outside"
  /\ stage = "run" /\ pc \in {"wait", "kill", "reap"} => proc["program"] # "none"
  /\ status # None => proc["outer"] = "dead" /\ proc["program"] \in {"killed", "dead"}
  /\ proc["program"] = "killed" => proc["outer"] # "inside"
  /\ pc = "events" \/ (stage = "run" /\ pc \in {"guard", "poll"} /\ outcome = "ok") => status # None
  /\ pc = "guard" /\ faults = 0 => \A p \in Members(stage) : proc[p] # "inside"
  /\ pc = "poll" /\ faults <= 1 => \A p \in Members(stage) : proc[p] # "inside"
  /\ NoOrphan

\* What a program can have ended with, by what ended it.
ExitFits ==
  \/ cause = "deadline"
  \/ cause = "cpu" /\ cpu >= CpuSoft /\ exit = [code |-> None, signal |-> 24]
  \/ cause = "cpu" /\ cpu >= CpuHard /\ exit = [code |-> None, signal |-> 9]
  \/ cause = "oom" /\ oom /\ exit = [code |-> None, signal |-> 9]
  \/ cause = "crash" /\ exit = [code |-> None, signal |-> 11]
  \/ cause = "exit" /\ exit.code \in {0, 1, 137, 152}
  \/ cause = "set_up" /\ exit.code \in {101, 130, 152}

\* What the runner can have been told, by what ended the program.
StatusFits ==
  \/ cause = "deadline" /\ status = [code |-> None, signal |-> 9]
  \/ cause = "oom" /\ oom /\ status = [code |-> None, signal |-> 9]
  \/ cause # "deadline" /\ ExitFits /\ status = [code |-> PassedOn(exit), signal |-> None]

\* The time that has gone by, and how the result says it.
ResultFits ==
  /\ result.exit_code = (IF status.code = None THEN -1 ELSE status.code)
  /\ result.signal = status.signal
  /\ result.oom => oom
  /\ cause = "deadline" => result.wall >= Limit
  /\ cause = "cpu" /\ exit.signal = 9 => result.wall + Burst >= CpuHard

VerdictInv ==
  /\ cpu <= now + Burst
  /\ proc["program"] # "none" => spawned # None
  /\ pc \in {"kill", "reap"} => cause = "deadline"
  /\ pc = "wait" => spawned # None /\ cause # "deadline"
  /\ stage = "run" /\ cause = "deadline" => spawned # None /\ now - spawned >= Limit
  /\ proc["outer"] = "inside" /\ cause = "deadline" => pc \in {"kill", "reap"}
  /\ proc["program"] = "dead" /\ proc["outer"] = "inside" =>
       exit \in Exits /\ ExitFits
  /\ status # None /\ pc \notin {"kill", "reap"} => StatusFits
  /\ result # None =>
       /\ status # None /\ ResultFits
       /\ cause = "deadline" => spawned # None /\ now - spawned >= Limit

\* The inductive invariant.
SandboxInv == TypeOK /\ StagesInOrder /\ ProcessesInv /\ VerdictInv

\* A judgement ends, whatever compiler and program do: Pipeline relies on it.
JudgementEnds == <>(stage = "over")
==============================================================================
