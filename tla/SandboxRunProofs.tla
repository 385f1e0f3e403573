-------------------------- MODULE SandboxRunProofs ---------------------------
(***************************************************************************)
(* SandboxRun for every time limit, length of a second, burst, patience of *)
(* the guard and number of failing calls.                                  *)
(***************************************************************************)
EXTENDS SandboxRun, TLAPS

\* The variables of the control groups are looked at one by one.
USE DEF cgroups

(***************************************************************************)
(* Names and times                                                         *)
(***************************************************************************)
LEMMA Names ==
  /\ Processes = {"driver", "helper", "outer", "program"}
  /\ Members("compile") = {"driver", "helper"}
  /\ Members("run") = {"outer", "program"} /\ Members("over") = {"outer", "program"}
<1>1. /\ Members("compile") = {"driver", "helper"}
      /\ Members("run") = {"outer", "program"} /\ Members("over") = {"outer", "program"}
  BY DEF Members
<1>2. Processes = Members("compile") \union Members("run")
  BY DEF Processes, Stages
<1> QED BY <1>1, <1>2

LEMMA NoneIsNoCause == None # "deadline"
BY NoneAssumption DEF Causes

\* The whole seconds of a time.
LEMMA WholeSeconds ==
  ASSUME NEW t \in Nat
  PROVE  /\ (t \div Second) * Second \in Nat
         /\ (t \div Second) * Second + Second >= t
<1>1. (t \div Second) \in Nat
  BY TimeAssumption
<1>2. t < ((t \div Second) + 1) * Second
  BY TimeAssumption, SMTT(30)
<1>3. ((t \div Second) + 1) * Second = (t \div Second) * Second + Second
  BY <1>1, TimeAssumption, SMTT(30)
<1>4. (t \div Second) * Second \in Nat
  BY <1>1, TimeAssumption, SMTT(30)
<1> QED BY <1>2, <1>3, <1>4, TimeAssumption

\* The deadline and the hard limit of CPU time are not before the time limit.
LEMMA LimitsAreEnough ==
  ASSUME timelimit \in TimeLimits
  PROVE  /\ Limit \in Nat /\ CpuSoft \in Nat /\ CpuHard \in Nat
         /\ stage # "compile" => Limit >= timelimit
         /\ CpuHard >= Limit /\ CpuHard >= CpuSoft
<1>1. timelimit \in Nat
  BY TimeAssumption
<1>2. Limit \in Nat /\ (stage # "compile" => Limit >= timelimit)
  BY <1>1, TimeAssumption DEF Limit
<1>3. CpuSoft \in Nat /\ CpuSoft + Second >= Limit
  BY <1>2, WholeSeconds DEF CpuSoft
<1> QED BY <1>2, <1>3, TimeAssumption DEF CpuHard

(***************************************************************************)
(* Type correctness                                                        *)
(***************************************************************************)
\* What the return of a runner does to the variables that start anew.
LEMMA ReturnTypes ==
  ASSUME NEW how, TypeOK, Return(how)
  PROVE  /\ outcome' = how
         /\ stage' \in Stages \union {"over"} /\ pc' \in {"group", "end"}
         /\ now' \in Nat /\ spawned' \in Nat \union {None}
         /\ exit' \in {exit, None} /\ oom' \in BOOLEAN
<1>1. outcome' = how /\ stage' \in Stages \union {"over"} /\ pc' \in {"group", "end"}
  BY DEF Return, Stages
<1>2. now' \in Nat /\ spawned' \in Nat \union {None}
  BY DEF Return, TypeOK
<1>3. exit' \in {exit, None}
  BY DEF Return
<1>4. oom' \in BOOLEAN
  BY DEF Return, TypeOK
<1> QED BY <1>1, <1>2, <1>3, <1>4

\* After the set-up the engine knows what its groups are, and no call that failed
\* is forgotten.
LEMMA SetUpTypes ==
  ASSUME TypeOK, NEW n \in Nat,
         SetUp(Initialized, n) \/ SetUp(Delegated, n)
  PROVE  /\ setup' \in {"failed", "ok", "plain"}
         /\ faults' \in Nat /\ faults' >= faults + n
         /\ setup = "plain" => setup' = "plain"
         /\ setup = "ok" => setup' = "ok"
<1>1. \A d \in Initialized :
        /\ d[1] \in {"failed", "ok", "plain"} /\ d[2] \in Nat
        /\ setup \in {"ok", "plain"} => d[1] = setup
  BY DEF Initialized, TypeOK
<1>2. \A d \in Delegated :
        /\ d[1] \in {"failed", "ok", "plain"} /\ d[2] \in Nat
        /\ setup \in {"ok", "plain"} => d[1] = setup
  BY <1>1 DEF Delegated
<1>3. PICK d \in Initialized \union Delegated : setup' = d[1] /\ faults' = faults + d[2] + n
  BY DEF SetUp
<1> QED BY <1>1, <1>2, <1>3 DEF TypeOK

LEMMA TypeRunner == TypeOK /\ ProcessesInv /\ Runner => TypeOK'
<1> SUFFICES ASSUME TypeOK, ProcessesInv, Runner PROVE TypeOK'
  OBVIOUS
<1> USE Names, TimeAssumption DEF TypeOK, Stages, Causes, clock, kernel
<1>1. CASE MakeGroup
  <2>1. group' \in [Stages -> {"none", "there", "left", "gone"}]
    BY <1>1 DEF MakeGroup
  <2>2. setup' \in {"failed", "ok", "plain"} /\ faults' \in Nat
    BY <1>1, SetUpTypes DEF MakeGroup, Prepared
  <2> QED BY <1>1, <2>1, <2>2 DEF MakeGroup
<1>2. CASE MakeGroupFails
  <2>1. setup' \in {"failed", "ok", "plain"} /\ faults' \in Nat
    BY <1>2, SetUpTypes DEF MakeGroupFails, Prepared
  <2>2. PICK how \in {"err", "panic"} : Return(how)
    BY <1>2 DEF MakeGroupFails
  <2> QED BY <1>2, <2>1, <2>2, ReturnTypes DEF MakeGroupFails
<1>3. CASE Limits
  BY <1>3 DEF Limits, Leave, Fault
<1>4. CASE SpawnFails \/ WaitFails
  BY <1>4 DEF SpawnFails, WaitFails, Leave, Fault
<1>5. CASE Deadline
  BY <1>5 DEF Deadline
<1>6. CASE KillGroup
  BY <1>6 DEF KillGroup, Leave, Fault, Killed
<1>7. CASE SpawnCompiler \/ Move
  BY <1>7 DEF SpawnCompiler, Move
<1>8. CASE MoveFails \/ Compiled
  BY <1>8 DEF MoveFails, Compiled, Leave, Fault
<1>9. CASE SpawnProgram \/ CannotJoin
  BY <1>9 DEF SpawnProgram, CannotJoin, Spawned, Exits
<1>10. CASE SetUpFails
  BY <1>10 DEF SetUpFails, Spawned, Fault, Exits
<1>11. CASE ChildEnded
  BY <1>11 DEF ChildEnded
<1>12. CASE Reap
  BY <1>12 DEF Reap, Exits
<1>13. CASE GuardKills
  BY <1>13 DEF GuardKills, Fault, Killed
<1>14. CASE GuardPolls
  BY <1>14 DEF GuardPolls, Fault
<1>15. CASE GuardRemoves
  <2>1. group' \in [Stages -> {"none", "there", "left", "gone"}]
    BY <1>15 DEF GuardRemoves
  <2>2. Return(outcome) /\ UNCHANGED <<timelimit, setup, proc, cause, status, cpu, result, retries, faults>>
    BY <1>15 DEF GuardRemoves
  <2> QED BY <2>1, <2>2, ReturnTypes
<1>16. CASE Events
  <2>1. status \in Exits
    BY <1>16 DEF ProcessesInv, Events
  <2>2. (IF status.code = None THEN -1 ELSE status.code) \in Int
    BY <2>1 DEF Exits
  <2>3. status.signal \in Nat \union {None}
    BY <2>1 DEF Exits
  <2>4. result' \in SandboxResults
    BY <1>16, <2>2, <2>3 DEF Events, SandboxResults
  <2>5. faults' \in Nat
    BY <1>16 DEF Events, Fault
  <2> QED BY <1>16, <2>4, <2>5 DEF Events, Leave
<1> QED BY <1>1, <1>2, <1>3, <1>4, <1>5, <1>6, <1>7, <1>8, <1>9, <1>10, <1>11, <1>12,
           <1>13, <1>14, <1>15, <1>16 DEF Runner

LEMMA TypeKernel == TypeOK /\ VerdictInv /\ (Kernel \/ Tick) => TypeOK'
<1> SUFFICES ASSUME TypeOK, VerdictInv, Kernel \/ Tick PROVE TypeOK'
  OBVIOUS
<1> USE Names, TimeAssumption DEF TypeOK, Stages, Causes, clock, kernel
<1>1. CASE Tick
  BY <1>1 DEF Tick
<1>2. CASE Fork \/ CompilerExits
  BY <1>2 DEF Fork, CompilerExits, Exits
<1>3. CASE ProgramExits \/ CpuLimit
  BY <1>3 DEF ProgramExits, CpuLimit, Ends, Exits
<1>4. CASE OutOfMemoryKill
  BY <1>4 DEF OutOfMemoryKill, Ends, Exits
<1>5. CASE OuterExits
  <2>1. exit \in Exits
    BY <1>5 DEF OuterExits, VerdictInv
  <2>2. PassedOn(exit) \in Nat
    BY <2>1, NoneAssumption DEF PassedOn, Exits
  <2> QED BY <1>5, <2>2 DEF OuterExits, Exits
<1>6. ASSUME NEW p \in Processes, Dies(p) PROVE TypeOK'
  BY <1>6 DEF Dies
<1> QED BY <1>1, <1>2, <1>3, <1>4, <1>5, <1>6 DEF Kernel

(***************************************************************************)
(* The order of the stages                                                 *)
(***************************************************************************)
LEMMA OrderStep == TypeOK /\ StagesInOrder /\ ProcessesInv /\ (Runner \/ Kernel \/ Tick) => StagesInOrder'
<1> SUFFICES ASSUME TypeOK, StagesInOrder, ProcessesInv, Runner \/ Kernel \/ Tick PROVE StagesInOrder'
  OBVIOUS
<1> USE Names DEF StagesInOrder, Alive, Stages, clock, kernel
<1>1. CASE MakeGroup
  <2>1. setup' \in {"failed", "ok", "plain"} /\ (setup = "ok" => setup' = "ok")
    BY <1>1, SetUpTypes DEF MakeGroup, Prepared
  <2> QED BY <1>1, <2>1 DEF MakeGroup
<1>2. CASE MakeGroupFails
  <2>1. PICK how \in {"err", "panic"} : Return(how)
    BY <1>2 DEF MakeGroupFails
  <2>2. proc["program"] = "none"
    BY <1>2 DEF MakeGroupFails, TypeOK
  <2> QED BY <1>2, <2>1, <2>2 DEF MakeGroupFails, Return, TypeOK
<1>3. CASE Limits
  BY <1>3 DEF Limits, Leave, TypeOK
<1>4. CASE SpawnFails \/ WaitFails
  BY <1>4 DEF SpawnFails, WaitFails, Leave
<1>5. CASE Deadline
  BY <1>5 DEF Deadline
<1>6. CASE KillGroup
  BY <1>6 DEF KillGroup, Leave, Killed, TypeOK
<1>7. CASE SpawnCompiler \/ Move
  BY <1>7 DEF SpawnCompiler, Move, TypeOK
<1>8. CASE MoveFails \/ Compiled
  BY <1>8 DEF MoveFails, Compiled, Leave, TypeOK
<1>9. CASE SpawnProgram \/ CannotJoin
  BY <1>9 DEF SpawnProgram, CannotJoin, Spawned, Alive, TypeOK
<1>10. CASE SetUpFails
  BY <1>10 DEF SetUpFails, Spawned, Alive, TypeOK
<1>11. CASE ChildEnded
  BY <1>11 DEF ChildEnded
<1>12. CASE Reap
  BY <1>12 DEF Reap, TypeOK
<1>13. CASE Events
  BY <1>13 DEF Events, Leave
<1>14. CASE GuardKills
  BY <1>14 DEF GuardKills, Killed, TypeOK
<1>15. CASE GuardPolls
  BY <1>15 DEF GuardPolls
<1>16. CASE GuardRemoves
  <2>1. Return(outcome) /\ UNCHANGED <<setup, proc, cause, status, cpu, result>> /\ pc = "poll"
    BY <1>16 DEF GuardRemoves
  <2>2. CASE stage = "compile" /\ outcome = "ok"
    BY <2>1, <2>2 DEF Return
  <2>3. CASE ~(stage = "compile" /\ outcome = "ok")
    BY <2>1, <2>3 DEF Return
  <2> QED BY <2>2, <2>3
<1>17. CASE Tick
  BY <1>17 DEF Tick
<1>18. CASE Fork \/ CompilerExits
  BY <1>18 DEF Fork, CompilerExits, Alive, TypeOK
<1>19. CASE ProgramExits \/ CpuLimit \/ OutOfMemoryKill
  BY <1>19 DEF ProgramExits, CpuLimit, OutOfMemoryKill, Ends, TypeOK
<1>20. CASE OuterExits
  BY <1>20 DEF OuterExits, TypeOK
<1>21. ASSUME NEW p \in Processes, Dies(p) PROVE StagesInOrder'
  BY <1>21 DEF Dies, TypeOK
<1> QED BY <1>1, <1>2, <1>3, <1>4, <1>5, <1>6, <1>7, <1>8, <1>9, <1>10, <1>11, <1>12, <1>13,
           <1>14, <1>15, <1>16, <1>17, <1>18, <1>19, <1>20, <1>21 DEF Runner, Kernel

(***************************************************************************)
(* The processes                                                           *)
(***************************************************************************)
LEMMA ProcessesRunner == TypeOK /\ StagesInOrder /\ ProcessesInv /\ Runner => ProcessesInv'
<1> SUFFICES ASSUME TypeOK, StagesInOrder, ProcessesInv, Runner PROVE ProcessesInv'
  OBVIOUS
<1> USE Names DEF ProcessesInv, NoOrphan, Done, Alive, Stages, kernel, clock, TypeOK
<1>1. CASE MakeGroup
  <2>1. /\ setup = "plain" => setup' = "plain"
        /\ faults' \in Nat /\ faults' >= faults
    BY <1>1, SetUpTypes DEF MakeGroup, Prepared
  <2> QED BY <1>1, <2>1 DEF MakeGroup, StagesInOrder
<1>2. CASE MakeGroupFails
  <2>1. /\ setup = "plain" => setup' = "plain"
        /\ faults' \in Nat /\ faults' >= faults
    BY <1>2, SetUpTypes DEF MakeGroupFails, Prepared
  <2> QED BY <1>2, <2>1 DEF MakeGroupFails, Return, StagesInOrder
<1>3. CASE Limits
  BY <1>3 DEF Limits, Leave, StagesInOrder, Fault
<1>4. CASE SpawnFails \/ WaitFails
  BY <1>4 DEF SpawnFails, WaitFails, Leave, StagesInOrder, Fault
<1>5. CASE Deadline
  BY <1>5 DEF Deadline, StagesInOrder
<1>6. CASE KillGroup
  BY <1>6 DEF KillGroup, Leave, Killed, StagesInOrder, Fault
<1>7. CASE SpawnCompiler \/ Move
  BY <1>7 DEF SpawnCompiler, Move, StagesInOrder
<1>8. CASE MoveFails \/ Compiled
  BY <1>8 DEF MoveFails, Compiled, Leave, StagesInOrder, Fault
<1>9. CASE SpawnProgram
  BY <1>9 DEF SpawnProgram, Spawned, StagesInOrder
<1>17. CASE CannotJoin
  BY <1>17 DEF CannotJoin, Spawned, StagesInOrder
<1>10. CASE SetUpFails
  BY <1>10 DEF SetUpFails, Spawned, StagesInOrder, Fault
<1>11. CASE ChildEnded
  BY <1>11 DEF ChildEnded, StagesInOrder
<1>12. CASE Reap
  <2>1. status' # None
    BY <1>12, NoneAssumption DEF Reap, Exits
  <2> QED BY <1>12, <2>1 DEF Reap, StagesInOrder
<1>13. CASE Events
  BY <1>13 DEF Events, Leave, StagesInOrder, Fault
<1>14. CASE GuardKills
  BY <1>14 DEF GuardKills, Killed, StagesInOrder, Fault
<1>15. CASE GuardPolls
  BY <1>15 DEF GuardPolls, StagesInOrder, Fault
<1>16. CASE GuardRemoves
  <2>1. Return(outcome) /\ UNCHANGED <<setup, proc, cause, status, result, faults>> /\ pc = "poll"
    BY <1>16 DEF GuardRemoves
  <2>2. CASE stage = "compile" /\ outcome = "ok"
    BY <2>1, <2>2 DEF Return, StagesInOrder
  <2>3. CASE ~(stage = "compile" /\ outcome = "ok")
    BY <2>1, <2>3 DEF Return, StagesInOrder
  <2> QED BY <2>2, <2>3
<1> QED BY <1>1, <1>2, <1>3, <1>4, <1>5, <1>6, <1>7, <1>8, <1>9, <1>10, <1>11, <1>12, <1>13,
           <1>14, <1>15, <1>16, <1>17 DEF Runner

LEMMA ProcessesKernel == TypeOK /\ StagesInOrder /\ ProcessesInv /\ (Kernel \/ Tick) => ProcessesInv'
<1> SUFFICES ASSUME TypeOK, StagesInOrder, ProcessesInv, Kernel \/ Tick PROVE ProcessesInv'
  OBVIOUS
<1> USE Names DEF ProcessesInv, NoOrphan, Done, Alive, Stages, kernel, clock, TypeOK
<1>1. CASE Tick
  BY <1>1 DEF Tick
<1>2. CASE Fork
  BY <1>2 DEF Fork, StagesInOrder
<1>3. CASE CompilerExits
  BY <1>3 DEF CompilerExits
<1>4. CASE ProgramExits \/ CpuLimit
  BY <1>4 DEF ProgramExits, CpuLimit, Ends, StagesInOrder
<1>5. CASE OutOfMemoryKill
  BY <1>5 DEF OutOfMemoryKill, Ends, StagesInOrder
<1>6. CASE OuterExits
  BY <1>6 DEF OuterExits, StagesInOrder
<1>7. ASSUME NEW p \in Processes, Dies(p) PROVE ProcessesInv'
  BY <1>7 DEF Dies
<1> QED BY <1>1, <1>2, <1>3, <1>4, <1>5, <1>6, <1>7 DEF Kernel

(***************************************************************************)
(* The verdict                                                             *)
(***************************************************************************)
\* The limits change only between the compiler and the program.
LEMMA LimitsLast ==
  ASSUME timelimit' = timelimit, stage' = stage \/ (stage # "compile" /\ stage' # "compile")
  PROVE  Limit' = Limit /\ CpuSoft' = CpuSoft /\ CpuHard' = CpuHard
<1>1. Limit' = Limit
  BY DEF Limit
<1> QED BY <1>1 DEF CpuSoft, CpuHard

\* What a program ended with does not change, but for the deadline.
LEMMA ExitFitsLasts ==
  ASSUME TypeOK, ExitFits, exit' = exit, oom => oom', cpu' \in Nat, cpu' >= cpu,
         cause' = cause \/ cause' = "deadline",
         CpuSoft' = CpuSoft, CpuHard' = CpuHard
  PROVE  ExitFits'
<1>1. CpuSoft \in Nat /\ CpuHard \in Nat /\ cpu \in Nat
  BY LimitsAreEnough DEF TypeOK
<1> QED BY <1>1 DEF ExitFits

\* A step that leaves alone what the verdict depends on.
LEMMA VerdictLasts ==
  ASSUME TypeOK, VerdictInv, timelimit' = timelimit,
         UNCHANGED <<exit, cause, oom, cpu, spawned, now, result, status>>,
         stage' = stage \/ (stage = "run" /\ stage' = "over")
                        \/ (stage = "compile" /\ stage' = "over" /\ status = None /\ result = None
                            /\ proc'["program"] = "none"),
         pc' \in {"kill", "reap"} => cause = "deadline",
         pc \in {"kill", "reap"} =>
           pc' \in {"kill", "reap"} \/ (status = None /\ proc'["outer"] = "none"),
         pc' = "wait" => pc = "wait",
         proc'["outer"] = "inside" => proc["outer"] = "inside",
         proc'["program"] = "dead" /\ proc'["outer"] = "inside" => proc["program"] = "dead",
         proc'["program"] # "none" => proc["program"] # "none"
  PROVE  VerdictInv'
<1>1. CASE stage' = stage \/ (stage = "run" /\ stage' = "over")
  <2>1. Limit' = Limit /\ CpuSoft' = CpuSoft /\ CpuHard' = CpuHard
    BY <1>1, LimitsLast
  <2>2. /\ ExitFits' = ExitFits /\ StatusFits' = StatusFits /\ ResultFits' = ResultFits
    BY <2>1 DEF ExitFits, StatusFits, ResultFits, PassedOn
  <2> QED BY <1>1, <2>1, <2>2 DEF VerdictInv
<1>2. CASE stage = "compile" /\ stage' = "over" /\ status = None /\ result = None
            /\ proc'["program"] = "none"
  BY <1>2 DEF VerdictInv
<1> QED BY <1>1, <1>2

LEMMA VerdictRunner == TypeOK /\ StagesInOrder /\ ProcessesInv /\ VerdictInv /\ Runner => VerdictInv'
<1> SUFFICES ASSUME TypeOK, StagesInOrder, ProcessesInv, VerdictInv, Runner PROVE VerdictInv'
  OBVIOUS
<1> USE Names DEF kernel, clock
<1>1. CASE MakeGroup \/ Limits \/ SpawnFails \/ WaitFails \/ GuardPolls
  BY <1>1, VerdictLasts DEF MakeGroup, Limits, SpawnFails, WaitFails, GuardPolls, Leave
<1>2. CASE MakeGroupFails
  BY <1>2, VerdictLasts DEF MakeGroupFails, Return, StagesInOrder, TypeOK, Stages
<1>3. CASE KillGroup
  <2>1. /\ cause = "deadline" /\ pc = "kill" /\ stage' = stage /\ stage \in Stages /\ timelimit' = timelimit
        /\ UNCHANGED <<exit, cause, oom, cpu, spawned, now, result, status>>
    BY <1>3 DEF KillGroup, VerdictInv, StagesInOrder, TypeOK
  <2>2. /\ proc'["outer"] = "inside" => proc["outer"] = "inside"
        /\ proc'["program"] = "dead" => proc["program"] = "dead"
        /\ proc'["program"] # "none" => proc["program"] # "none"
        /\ proc["outer"] = "none" => proc'["outer"] = "none"
    BY <1>3 DEF KillGroup, Killed, TypeOK
  <2>3. CASE stage = "compile"
    BY <1>3, <2>1, <2>2, <2>3, VerdictLasts DEF KillGroup, Leave, StagesInOrder
  <2>4. CASE stage = "run"
    <3>1. pc' = "reap"
      BY <1>3, <2>4 DEF KillGroup
    <3> QED BY <2>1, <2>2, <3>1, VerdictLasts
  <2> QED BY <2>1, <2>3, <2>4 DEF Stages
<1>4. CASE GuardKills
  BY <1>4, VerdictLasts DEF GuardKills, Killed, TypeOK
<1>5. CASE SpawnCompiler \/ MoveFails \/ Compiled
  BY <1>5, VerdictLasts DEF SpawnCompiler, MoveFails, Compiled, Leave, TypeOK
<1>6. CASE ChildEnded
  BY <1>6, VerdictLasts DEF ChildEnded
<1>7. CASE GuardRemoves
  <2>1. /\ Return(outcome) /\ pc = "poll" /\ stage # "over"
        /\ UNCHANGED <<timelimit, proc, cause, status, cpu, result>>
    BY <1>7 DEF GuardRemoves, StagesInOrder
  <2>2. CASE stage = "compile" /\ outcome = "ok"
    <3>1. /\ pc' = "group" /\ stage' = "run" /\ spawned' = None /\ now' = 0 /\ cpu' = 0
          /\ status' = None /\ result' = None /\ proc'["program"] = "none" /\ proc'["outer"] = "none"
      BY <2>1, <2>2 DEF Return, StagesInOrder
    <3>2. cause' = None
      BY <2>1, <2>2 DEF StagesInOrder
    <3>3. cause' # "deadline"
      BY <3>2, NoneIsNoCause
    <3> QED BY <3>1, <3>3, TimeAssumption DEF VerdictInv
  <2>3. CASE ~(stage = "compile" /\ outcome = "ok")
    BY <2>1, <2>3, VerdictLasts DEF Return, StagesInOrder, TypeOK, Stages
  <2> QED BY <2>2, <2>3
<1>8. CASE Deadline
  <2>1. Limit' = Limit /\ Limit \in Nat
    BY <1>8, LimitsLast, LimitsAreEnough DEF Deadline, TypeOK
  <2>2. spawned \in Nat /\ now \in Nat /\ now - spawned >= Limit
    BY <1>8, <2>1, TimeAssumption DEF Deadline, Due, VerdictInv, TypeOK
  <2>3. result = None
    BY <1>8 DEF Deadline, StagesInOrder
  <2> QED BY <1>8, <2>1, <2>2, <2>3 DEF Deadline, VerdictInv, ExitFits
<1>9. CASE Move
  <2>1. /\ stage = "compile" /\ stage' = "compile" /\ pc' = "wait" /\ status' = None /\ result' = None
        /\ proc'["program"] = "none" /\ proc'["outer"] = "none" /\ cause' = cause /\ cause = None
        /\ cpu' = cpu /\ now' = now
    BY <1>9 DEF Move, StagesInOrder, TypeOK
  <2>2. spawned' # None
    BY <1>9, NoneAssumption DEF Move, TypeOK
  <2>3. cause' # "deadline"
    BY <2>1, NoneIsNoCause
  <2> QED BY <2>1, <2>2, <2>3 DEF VerdictInv
<1>10. CASE SpawnProgram
  BY <1>10, NoneAssumption DEF SpawnProgram, Spawned, VerdictInv, StagesInOrder, TypeOK
<1>11. CASE SetUpFails
  <2>1. exit' \in Exits /\ ExitFits'
    BY <1>11 DEF SetUpFails, Exits, ExitFits
  <2> QED BY <1>11, <2>1, NoneAssumption DEF SetUpFails, Spawned, VerdictInv, StagesInOrder, TypeOK
<1>14. CASE CannotJoin
  <2>1. /\ exit' = [code |-> 101, signal |-> None] /\ status' = exit'
        /\ cause' = "set_up" /\ proc'["outer"] = "dead"
    BY <1>14 DEF CannotJoin, TypeOK
  <2>2. PassedOn(exit') = 101
    BY <2>1, NoneAssumption DEF PassedOn
  <2>3. StatusFits'
    BY <2>1, <2>2 DEF StatusFits, ExitFits, PassedOn
  <2> QED BY <1>14, <2>1, <2>3, NoneAssumption DEF CannotJoin, Spawned, VerdictInv, StagesInOrder, TypeOK
<1>12. CASE Reap
  <2>1. Limit' = Limit
    BY <1>12, LimitsLast DEF Reap
  <2>2. cause = "deadline" /\ StatusFits'
    BY <1>12 DEF Reap, VerdictInv, StatusFits
  <2> QED BY <1>12, <2>1, <2>2 DEF Reap, VerdictInv, StagesInOrder, TypeOK
<1>13. CASE Events
  <2>1. /\ Limit' = Limit /\ CpuSoft' = CpuSoft /\ CpuHard' = CpuHard
        /\ Limit \in Nat /\ CpuHard \in Nat
    BY <1>13, LimitsLast, LimitsAreEnough DEF Events, TypeOK
  <2>2. /\ status # None /\ StatusFits /\ StatusFits' = StatusFits /\ ExitFits' = ExitFits
    BY <1>13, <2>1 DEF Events, VerdictInv, ProcessesInv, StatusFits, ExitFits, PassedOn
  <2>3. /\ result'.exit_code = (IF status.code = None THEN -1 ELSE status.code)
        /\ result'.signal = status.signal /\ (result'.oom => oom) /\ result'.wall = now
    BY <1>13 DEF Events
  <2>4. cause = "deadline" => spawned # None /\ now - spawned >= Limit /\ now >= Limit
    BY <1>13, <2>1 DEF Events, VerdictInv, StagesInOrder, TypeOK
  <2>5. cause = "cpu" /\ exit.signal = 9 => now + Burst >= CpuHard
    BY <1>13, <2>1, <2>2, TimeAssumption DEF StatusFits, ExitFits, VerdictInv, TypeOK
  <2>6. ResultFits'
    BY <1>13, <2>1, <2>3, <2>4, <2>5 DEF Events, ResultFits
  <2> QED BY <1>13, <2>1, <2>2, <2>4, <2>6 DEF Events, Leave, VerdictInv
<1> QED BY <1>1, <1>2, <1>3, <1>4, <1>5, <1>6, <1>7, <1>8, <1>9, <1>10, <1>11, <1>12, <1>13, <1>14 DEF Runner

LEMMA VerdictKernel == TypeOK /\ StagesInOrder /\ ProcessesInv /\ VerdictInv /\ (Kernel \/ Tick) => VerdictInv'
<1> SUFFICES ASSUME TypeOK, StagesInOrder, ProcessesInv, VerdictInv, Kernel \/ Tick PROVE VerdictInv'
  OBVIOUS
<1> USE Names DEF kernel, clock
<1>1. CASE Tick
  <2>1. /\ Limit' = Limit /\ CpuSoft' = CpuSoft /\ CpuHard' = CpuHard
        /\ Limit \in Nat /\ CpuSoft \in Nat /\ CpuHard \in Nat
    BY <1>1, LimitsLast, LimitsAreEnough DEF Tick, TypeOK
  <2>2. now' = now + 1 /\ cpu' \in Nat /\ cpu <= cpu' /\ cpu' <= now' + Burst
    <3>1. CASE proc["program"] = "inside"
      <4>1. spawned \in Nat /\ cpu' \in cpu..CpuHard /\ cpu' <= now' - spawned + Burst
        BY <1>1, <3>1 DEF Tick, VerdictInv, TypeOK
      <4> QED BY <1>1, <2>1, <4>1, TimeAssumption DEF Tick, TypeOK
    <3>2. CASE proc["program"] # "inside"
      BY <1>1, <3>2, TimeAssumption DEF Tick, VerdictInv, TypeOK
    <3> QED BY <3>1, <3>2
  <2>3. ExitFits => ExitFits'
    BY <1>1, <2>1, <2>2, ExitFitsLasts DEF Tick
  <2>4. StatusFits => StatusFits'
    BY <1>1, <2>3 DEF Tick, StatusFits, PassedOn
  <2>5. ResultFits => ResultFits'
    BY <1>1, <2>1 DEF Tick, ResultFits
  <2> QED BY <1>1, <2>1, <2>2, <2>3, <2>4, <2>5 DEF Tick, VerdictInv, TypeOK
<1>2. CASE Fork
  <2>1. proc'["outer"] = proc["outer"] /\ proc'["program"] = proc["program"]
    BY <1>2 DEF Fork, TypeOK
  <2>2. /\ UNCHANGED <<timelimit, stage, pc, exit, cause, oom, cpu, spawned, now, result, status>>
    BY <1>2 DEF Fork
  <2>3. pc \in {"kill", "reap"} => cause = "deadline"
    BY DEF VerdictInv
  <2> QED BY <2>1, <2>2, <2>3, VerdictLasts
<1>3. CASE CompilerExits
  <2>1. /\ proc'["outer"] = proc["outer"] /\ proc'["program"] = proc["program"]
        /\ UNCHANGED <<timelimit, stage, pc, cause, oom, cpu, spawned, now, result, status>>
    BY <1>3 DEF CompilerExits, TypeOK
  <2>2. proc["program"] = "none" /\ status = None
    BY <1>3 DEF CompilerExits, ProcessesInv
  <2>3. result = None
    BY <2>2 DEF VerdictInv
  <2>4. Limit' = Limit
    BY <2>1, LimitsLast
  <2> QED BY <2>1, <2>2, <2>3, <2>4 DEF VerdictInv
<1>4. ASSUME NEW how, NEW why, Ends(how, why), oom' \in {oom, TRUE},
             how \in Exits, why # "deadline",
             \/ why = "cpu" /\ cpu >= CpuSoft /\ how = [code |-> None, signal |-> 24]
             \/ why = "cpu" /\ cpu >= CpuHard /\ how = [code |-> None, signal |-> 9]
             \/ why = "oom" /\ oom' /\ how = [code |-> None, signal |-> 9]
             \/ why = "crash" /\ how = [code |-> None, signal |-> 11]
             \/ why = "exit" /\ how.code \in {0, 1, 137, 152}
      PROVE  VerdictInv'
  <2>1. /\ UNCHANGED <<timelimit, stage, pc, cpu, spawned, now, result, status>>
        /\ exit' = how /\ cause' = (IF cause = "deadline" THEN cause ELSE why)
        /\ proc'["outer"] = proc["outer"] /\ proc["program"] # "none"
    BY <1>4 DEF Ends, TypeOK
  <2>2. status = None
    BY <1>4 DEF Ends, ProcessesInv
  <2>3. result = None
    BY <2>2 DEF VerdictInv
  <2>4. Limit' = Limit /\ CpuSoft' = CpuSoft /\ CpuHard' = CpuHard
    BY <2>1, LimitsLast
  <2>5. ExitFits'
    BY <1>4, <2>1, <2>4 DEF ExitFits
  <2> QED BY <1>4, <2>1, <2>2, <2>3, <2>4, <2>5 DEF VerdictInv
<1>5. CASE ProgramExits
  <2>1. CASE Ends([code |-> None, signal |-> 11], "crash")
    BY <1>4, <1>5, <2>1 DEF ProgramExits, Exits
  <2>2. CASE \E code \in {0, 1, 137, 152} : Ends([code |-> code, signal |-> None], "exit")
    <3>1. PICK code \in {0, 1, 137, 152} : Ends([code |-> code, signal |-> None], "exit")
      BY <2>2
    <3>2. [code |-> code, signal |-> None] \in Exits
      BY DEF Exits
    <3> QED BY <1>4, <1>5, <3>1, <3>2 DEF ProgramExits
  <2> QED BY <1>5, <2>1, <2>2 DEF ProgramExits
<1>6. CASE CpuLimit
  <2>1. oom' = oom /\ [code |-> None, signal |-> 24] \in Exits /\ [code |-> None, signal |-> 9] \in Exits
    BY <1>6 DEF CpuLimit, Exits
  <2> QED BY <1>4, <1>6, <2>1 DEF CpuLimit
<1>7. CASE OutOfMemoryKill
  <2>1. proc["program"] = "inside" /\ oom' = TRUE /\ [code |-> None, signal |-> 9] \in Exits
    BY <1>7 DEF OutOfMemoryKill, Exits
  <2>2. status = None
    BY <2>1 DEF ProcessesInv
  <2>3. result = None
    BY <2>2 DEF VerdictInv
  <2>4. CASE Ends([code |-> None, signal |-> 9], "oom")
    BY <1>4, <2>1, <2>4
  <2>5. CASE UNCHANGED <<timelimit, stage, pc, outcome, cgroups, proc, exit, status, cause, clock, result, retries, faults>>
    <3>1. Limit' = Limit
      BY <2>5, LimitsLast
    <3> QED BY <2>1, <2>2, <2>3, <2>5, <3>1 DEF VerdictInv
  <2>6. CASE /\ proc["outer"] = "inside"
             /\ proc' = [proc EXCEPT !["outer"] = "dead", !["program"] = "killed"]
             /\ status' = [code |-> None, signal |-> 9]
             /\ cause' = IF cause = "deadline" THEN cause ELSE "oom"
             /\ UNCHANGED <<timelimit, stage, pc, outcome, cgroups, exit, clock, result, retries, faults>>
    <3>1. Limit' = Limit
      BY <2>6, LimitsLast
    <3>2. proc'["outer"] = "dead" /\ spawned # None
      BY <2>1, <2>6 DEF VerdictInv, TypeOK
    <3>3. StatusFits'
      BY <2>1, <2>6 DEF StatusFits
    <3> QED BY <2>3, <2>6, <3>1, <3>2, <3>3 DEF VerdictInv
  <2> QED BY <1>7, <2>4, <2>5, <2>6 DEF OutOfMemoryKill
<1>8. CASE OuterExits
  <2>1. /\ UNCHANGED <<timelimit, stage, pc, exit, cause, oom, cpu, spawned, now, result>>
        /\ status' = [code |-> PassedOn(exit), signal |-> None] /\ proc'["outer"] = "dead"
        /\ proc'["program"] = proc["program"]
    BY <1>8 DEF OuterExits, TypeOK
  <2>2. Limit' = Limit /\ CpuSoft' = CpuSoft /\ CpuHard' = CpuHard
    BY <2>1, LimitsLast
  <2>3. status = None
    BY <1>8 DEF OuterExits, ProcessesInv
  <2>4. result = None
    BY <2>3 DEF VerdictInv
  <2>5. ExitFits'
    BY <1>8, <2>1, <2>2 DEF OuterExits, VerdictInv, ExitFits
  <2>6. cause = "deadline" => pc \in {"kill", "reap"}
    BY <1>8 DEF OuterExits, VerdictInv
  <2>7. pc \notin {"kill", "reap"} => StatusFits'
    BY <2>1, <2>5, <2>6 DEF StatusFits, PassedOn
  <2> QED BY <2>1, <2>2, <2>4, <2>7 DEF VerdictInv
<1>9. ASSUME NEW p \in Processes, Dies(p) PROVE VerdictInv'
  <2>1. /\ proc'["outer"] = "inside" => proc["outer"] = "inside"
        /\ proc'["program"] = "dead" /\ proc'["outer"] = "inside" => proc["program"] = "dead"
        /\ proc'["program"] # "none" => proc["program"] # "none"
    BY <1>9 DEF Dies, TypeOK, ProcessesInv
  <2>2. /\ UNCHANGED <<timelimit, stage, pc, exit, cause, oom, cpu, spawned, now, result, status>>
    BY <1>9 DEF Dies
  <2>3. pc \in {"kill", "reap"} => cause = "deadline"
    BY DEF VerdictInv
  <2> QED BY <2>1, <2>2, <2>3, VerdictLasts
<1> QED BY <1>1, <1>2, <1>3, <1>5, <1>6, <1>7, <1>8, <1>9 DEF Kernel

(***************************************************************************)
(* The invariant                                                           *)
(***************************************************************************)
LEMMA InitInv == Init => SandboxInv
<1> SUFFICES ASSUME Init PROVE SandboxInv
  OBVIOUS
<1> USE Names, TimeAssumption DEF Init, Stages
<1>1. TypeOK
  BY DEF TypeOK
<1>2. StagesInOrder
  BY DEF StagesInOrder, Alive
<1>3. ProcessesInv
  BY DEF ProcessesInv, NoOrphan, Done, Alive
<1>4. VerdictInv
  BY NoneIsNoCause DEF VerdictInv
<1> QED BY <1>1, <1>2, <1>3, <1>4 DEF SandboxInv

LEMMA StutterInv == SandboxInv /\ UNCHANGED vars => SandboxInv'
<1> SUFFICES ASSUME SandboxInv, UNCHANGED vars PROVE SandboxInv'
  OBVIOUS
<1> USE DEF vars, kernel, clock
<1>1. TypeOK'
  BY DEF SandboxInv, TypeOK
<1>2. StagesInOrder'
  BY DEF SandboxInv, StagesInOrder, Alive
<1>3. ProcessesInv'
  BY DEF SandboxInv, ProcessesInv, NoOrphan, Done, Alive
<1>4. VerdictInv'
  <2>1. TypeOK /\ VerdictInv
    BY DEF SandboxInv
  <2> QED BY <2>1, VerdictLasts DEF VerdictInv
<1> QED BY <1>1, <1>2, <1>3, <1>4 DEF SandboxInv

LEMMA StepInv == SandboxInv /\ [Next]_vars => SandboxInv'
<1> SUFFICES ASSUME SandboxInv, [Next]_vars PROVE SandboxInv'
  OBVIOUS
<1>1. CASE Runner
  BY <1>1, TypeRunner, OrderStep, ProcessesRunner, VerdictRunner DEF SandboxInv
<1>2. CASE Kernel \/ Tick
  BY <1>2, TypeKernel, OrderStep, ProcessesKernel, VerdictKernel DEF SandboxInv
<1>3. CASE UNCHANGED vars
  BY <1>3, StutterInv
<1> QED BY <1>1, <1>2, <1>3 DEF Next, Over

\* Where the two runners, the processes and the kernel can be together.  It says
\* that a program runs only in a group with limits, a failed mount included.
THEOREM SandboxInvariance == Spec => []SandboxInv
<1> QED BY InitInv, StepInv, PTL DEF Spec

\* A runner that has returned leaves no process running, with one failing call
\* too, but the helper that escapes before its driver is moved, and a compiler
\* that was given up where cgroup2 could not be mounted.
THEOREM NothingRunsOn == Spec => []NoOrphan
<1>1. SandboxInv => NoOrphan
  BY DEF SandboxInv, ProcessesInv
<1> QED BY <1>1, SandboxInvariance, PTL

(***************************************************************************)
(* The verdict, by what ended the program                                  *)
(***************************************************************************)
LEMMA SignalsTell ==
  ASSUME SandboxInv, Judged
  PROVE  LET signal == EffectiveSignal(result)
         IN  /\ cause \in Causes
             /\ cause = "deadline" => signal = 9 /\ result.wall >= timelimit /\ now - spawned >= timelimit
             /\ cause = "oom" => signal = 9 /\ oom
             /\ cause = "cpu" => /\ cpu >= CpuSoft
                                 /\ \/ signal = 24
                                    \/ signal = 9 /\ exit.signal = 9 /\ result.wall + Burst >= CpuHard
             /\ cause = "crash" => signal = 11
             /\ cause = "exit" => /\ signal = 9 => exit.code = 137
                                  /\ signal = 24 => exit.code = 152
             /\ cause = "set_up" => signal # 9 /\ (signal = 24 => exit.code = 152)
<1> DEFINE signal == EffectiveSignal(result)
<1>1. /\ TypeOK /\ StatusFits /\ ResultFits /\ stage # "compile" /\ result \in SandboxResults
      /\ cause = "deadline" => now - spawned >= Limit /\ spawned # None
  BY DEF SandboxInv, TypeOK, StagesInOrder, VerdictInv, Judged
<1>2. /\ timelimit \in Nat /\ Limit \in Nat /\ CpuSoft \in Nat /\ CpuHard \in Nat /\ Limit >= timelimit
      /\ CpuHard >= Limit /\ CpuHard >= CpuSoft /\ result.wall \in Nat /\ cpu \in Nat /\ now \in Nat
      /\ spawned \in Nat \union {None}
  BY <1>1, LimitsAreEnough, TimeAssumption DEF TypeOK, SandboxResults
<1>3. status = [code |-> None, signal |-> 9] => signal = 9
  BY <1>1, NoneAssumption DEF ResultFits, EffectiveSignal
<1>4. ASSUME NEW n \in Nat, status = [code |-> n, signal |-> None]
      PROVE  signal = IF n > 128 THEN n - 128 ELSE None
  BY <1>1, <1>4, NoneAssumption DEF ResultFits, EffectiveSignal
<1>5. CASE cause = "deadline"
  BY <1>1, <1>2, <1>3, <1>5 DEF StatusFits, ResultFits, Causes
<1>6. CASE cause = "oom" /\ oom /\ status = [code |-> None, signal |-> 9]
  BY <1>3, <1>6 DEF Causes
<1>7. CASE cause # "deadline" /\ ExitFits /\ status = [code |-> PassedOn(exit), signal |-> None]
  <2>1. ASSUME exit.code = None, exit.signal \in Nat \ {0}
        PROVE  signal = exit.signal
    <3>1. PassedOn(exit) = 128 + exit.signal
      BY <2>1 DEF PassedOn
    <3>2. 128 + exit.signal \in Nat /\ status = [code |-> 128 + exit.signal, signal |-> None]
      BY <1>7, <2>1, <3>1
    <3>3. signal = IF 128 + exit.signal > 128 THEN (128 + exit.signal) - 128 ELSE None
      BY <1>4, <3>2
    <3> QED BY <2>1, <3>3
  <2>2. CASE cause = "cpu" /\ cpu >= CpuSoft /\ exit = [code |-> None, signal |-> 24]
    <3>1. signal = 24
      BY <2>1, <2>2
    <3> QED BY <2>2, <3>1 DEF Causes
  <2>3. CASE cause = "cpu" /\ cpu >= CpuHard /\ exit = [code |-> None, signal |-> 9]
    <3>1. signal = 9
      BY <2>1, <2>3
    <3>2. result.wall + Burst >= CpuHard
      BY <1>1, <2>3 DEF ResultFits
    <3> QED BY <1>2, <2>3, <3>1, <3>2 DEF Causes
  <2>4. CASE cause = "oom" /\ oom /\ exit = [code |-> None, signal |-> 9]
    <3>1. signal = 9
      BY <2>1, <2>4
    <3> QED BY <2>4, <3>1 DEF Causes
  <2>5. CASE cause = "crash" /\ exit = [code |-> None, signal |-> 11]
    <3>1. signal = 11
      BY <2>1, <2>5
    <3> QED BY <2>5, <3>1 DEF Causes
  <2>6. ASSUME exit.code \in {0, 1, 101, 130, 137, 152}
        PROVE  /\ signal = 9 => exit.code = 137
               /\ signal = 24 => exit.code = 152
    <3>1. PassedOn(exit) = exit.code /\ exit.code \in Nat
      BY <2>6, NoneAssumption DEF PassedOn
    <3>2. signal = IF exit.code > 128 THEN exit.code - 128 ELSE None
      BY <1>4, <1>7, <3>1
    <3> QED BY <2>6, <3>2, NoneAssumption
  <2>7. CASE cause = "exit" /\ exit.code \in {0, 1, 137, 152}
    BY <2>6, <2>7 DEF Causes
  <2>8. CASE cause = "set_up" /\ exit.code \in {101, 130, 152}
    BY <2>6, <2>8 DEF Causes
  <2> QED BY <1>7, <2>2, <2>3, <2>4, <2>5, <2>7, <2>8 DEF ExitFits
<1> QED BY <1>1, <1>5, <1>6, <1>7 DEF StatusFits

\* A program stopped for its time is told so: the compared times fit together
\* for every time limit and every length of a second, but where the burst lets
\* the hard limit of CPU time be reached before the time limit is over.
THEOREM TimeIsTold == Spec => []StoppedForTimeIsTold
<1>1. SandboxInv => StoppedForTimeIsTold
  <2> SUFFICES ASSUME SandboxInv, Judged, cause \in {"deadline", "cpu"}, ~Premature
               PROVE  Verdict = IF result.oom THEN "memory_limit_error" ELSE "time_limit_error"
    BY DEF StoppedForTimeIsTold
  <2>1. result \in SandboxResults /\ timelimit \in Nat
    BY TimeAssumption DEF SandboxInv, TypeOK, Judged
  <2>2. result.wall \in Nat /\ result.oom \in BOOLEAN
    BY <2>1 DEF SandboxResults
  <2>3. EffectiveSignal(result) = 24 \/ (EffectiveSignal(result) = 9 /\ result.wall >= timelimit)
    <3>1. CpuHard \in Nat /\ Burst \in Nat
      BY LimitsAreEnough, TimeAssumption DEF SandboxInv, TypeOK
    <3> QED BY <2>1, <2>2, <3>1, SignalsTell DEF Premature
  <2> QED BY <2>1, <2>2, <2>3 DEF Verdict, Message, OutOfMemory, OutOfTime
<1> QED BY <1>1, SandboxInvariance, PTL

\* Nothing but the memory, the exit code of SIGKILL, or a hard CPU limit that is
\* reached before the time limit makes a memory verdict.
THEOREM MemoryOnlyForMemory == Spec => []MemoryIsMemory
<1>1. SandboxInv => MemoryIsMemory
  <2> SUFFICES ASSUME SandboxInv, Judged, Verdict = "memory_limit_error"
               PROVE  \/ oom \/ (cause = "exit" /\ exit.code = 137)
                      \/ Premature /\ exit.signal = 9
    BY DEF MemoryIsMemory
  <2>1. result \in SandboxResults /\ timelimit \in Nat /\ (result.oom => oom)
    BY TimeAssumption DEF SandboxInv, TypeOK, Judged, VerdictInv, ResultFits
  <2>2. result.wall \in Nat
    BY <2>1 DEF SandboxResults
  <2>3. OutOfMemory(result, timelimit)
    BY DEF Verdict, Message
  <2>4. result.oom \/ (EffectiveSignal(result) = 9 /\ result.wall < timelimit)
    BY <2>3 DEF OutOfMemory
  <2>5. CASE EffectiveSignal(result) = 9 /\ result.wall < timelimit
    <3>1. CpuHard \in Nat /\ Burst \in Nat
      BY LimitsAreEnough, TimeAssumption DEF SandboxInv, TypeOK
    <3> QED BY <2>1, <2>2, <2>5, <3>1, SignalsTell DEF Causes, Premature
  <2> QED BY <2>1, <2>4, <2>5
<1> QED BY <1>1, SandboxInvariance, PTL

\* Who is told that the time is over has had it, or made it look so.
THEOREM TimeOnlyForTime == Spec => []LimitWasGranted
<1>1. SandboxInv => LimitWasGranted
  <2> SUFFICES ASSUME SandboxInv, Judged, Verdict = "time_limit_error"
               PROVE  \/ cause = "deadline" /\ now - spawned >= timelimit
                      \/ cause = "cpu" /\ cpu >= CpuSoft
                      \/ cause \in {"exit", "set_up"} /\ exit.code \in {137, 152}
                      \/ cause = "oom" /\ ~result.oom
    BY DEF LimitWasGranted
  <2>1. ~OutOfMemory(result, timelimit) /\ OutOfTime(result, timelimit)
    BY DEF Verdict, Message
  <2>2. ~result.oom /\ EffectiveSignal(result) \in {9, 24}
    BY <2>1 DEF OutOfMemory, OutOfTime
  <2> QED BY <2>2, SignalsTell DEF Causes
<1> QED BY <1>1, SandboxInvariance, PTL

\* What the program wrote is compared with what was expected only if it ended by
\* itself, with code 0, and no OOM kill was reported.
OutputDecides ==
  Judged => (Verdict = "none" <=> cause = "exit" /\ exit.code = 0 /\ ~result.oom)

\* The code 0 of the outer process is the code 0 of the program.
LEMMA ZeroIsZero ==
  ASSUME SandboxInv, Judged
  PROVE  EffectiveSignal(result) = None /\ result.exit_code = 0 <=> cause = "exit" /\ exit.code = 0
<1>1. StatusFits /\ ResultFits
  BY DEF SandboxInv, VerdictInv, Judged, StagesInOrder
<1>2. CASE status = [code |-> None, signal |-> 9]
  <2>1. EffectiveSignal(result) = 9 /\ None # 9
    BY <1>1, <1>2, NoneAssumption DEF ResultFits, EffectiveSignal
  <2>2. ~(cause = "exit" /\ exit.code = 0)
    <3>1. ASSUME cause = "exit", exit.code = 0 PROVE FALSE
      <4>1. status = [code |-> PassedOn(exit), signal |-> None]
        BY <1>1, <3>1 DEF StatusFits
      <4> QED BY <1>2, <2>1, <4>1
    <3> QED BY <3>1
  <2> QED BY <2>1, <2>2
<1>3. CASE cause # "deadline" /\ ExitFits /\ status = [code |-> PassedOn(exit), signal |-> None]
  <2>1. ASSUME NEW n \in Nat, PassedOn(exit) = n
        PROVE  EffectiveSignal(result) = None /\ result.exit_code = 0 <=> n = 0
    <3>1. status.code = n /\ status.signal = None /\ n # None
      BY <1>3, <2>1, NoneAssumption
    <3>2. result.exit_code = n /\ result.signal = None
      BY <1>1, <3>1 DEF ResultFits
    <3> QED BY <2>1, <3>2, NoneAssumption DEF EffectiveSignal
  <2>2. CASE exit.code = None /\ exit.signal \in {9, 11, 24}
    <3>1. PassedOn(exit) = 128 + exit.signal /\ 128 + exit.signal \in Nat \ {0}
      BY <2>2 DEF PassedOn
    <3>2. exit.code # 0
      BY <2>2, NoneAssumption
    <3> QED BY <2>1, <3>1, <3>2
  <2>3. CASE exit.code \in {0, 1, 101, 130, 137, 152}
    <3>1. PassedOn(exit) = exit.code /\ exit.code \in Nat
      BY <2>3, NoneAssumption DEF PassedOn
    <3>2. EffectiveSignal(result) = None /\ result.exit_code = 0 <=> exit.code = 0
      BY <2>1, <3>1
    <3>3. exit.code = 0 => cause = "exit"
      BY <1>3, NoneAssumption DEF ExitFits
    <3> QED BY <3>2, <3>3
  <2> QED BY <1>3, <2>2, <2>3 DEF ExitFits
<1> QED BY <1>1, <1>2, <1>3 DEF StatusFits

\* A program is judged by its output exactly if it ended well.
THEOREM OutputOfCleanExit == Spec => []OutputDecides
<1>1. SandboxInv => OutputDecides
  <2> SUFFICES ASSUME SandboxInv, Judged
               PROVE  Verdict = "none" <=> cause = "exit" /\ exit.code = 0 /\ ~result.oom
    BY DEF OutputDecides
  <2>1. result \in SandboxResults /\ timelimit \in Nat
    BY TimeAssumption DEF SandboxInv, TypeOK, Judged
  <2>2. result.wall \in Nat /\ None # 9 /\ None # 24
    BY <2>1, NoneAssumption DEF SandboxResults
  <2>3. Verdict = "none" <=>
          ~OutOfMemory(result, timelimit) /\ ~OutOfTime(result, timelimit) /\ ~Crashed(result)
    BY DEF Verdict, Message
  <2>4. Verdict = "none" <=>
          EffectiveSignal(result) = None /\ result.exit_code = 0 /\ ~result.oom
    BY <2>1, <2>2, <2>3 DEF OutOfMemory, OutOfTime, Crashed
  <2> QED BY <2>4, ZeroIsZero
<1> QED BY <1>1, SandboxInvariance, PTL

(***************************************************************************)
(* The control groups                                                      *)
(***************************************************************************)
\* The group of a runner that has not begun does not exist; the program's runner
\* begins only when the compiler's group is gone, because a compiler that has
\* succeeded leaves nothing in it that could still be dying, or when it is a
\* plain directory that stays.
GroupsInv ==
  /\ stage = "compile" => group["run"] = "none"
  /\ pc = "group" => group[stage] = "none"
  /\ stage = "run" => group["compile"] \in {"none", "gone"} \union (IF setup = "plain" THEN {"left"} ELSE {})
  /\ stage = "compile" /\ (pc \in {"group", "limits", "spawn", "move", "wait"} \/ outcome = "ok") =>
       proc["driver"] # "killed" /\ proc["helper"] # "killed"
  /\ stage = "over" => GroupIsRemoved

LEMMA GroupsReturn ==
  ASSUME SandboxInv, GroupsInv, pc = "poll",
         retries = 0 \/ (setup # "plain" /\ ~Populated(stage)),
         group' = [group EXCEPT ![stage] =
                     IF setup = "plain" \/ Populated(stage) THEN "left" ELSE "gone"],
         Return(outcome), UNCHANGED <<setup, proc, retries, faults>>
  PROVE  GroupsInv'
<1> USE Names DEF Stages
<1>1. group \in [Stages -> {"none", "there", "left", "gone"}] /\ stage \in Stages /\ retries \in Nat
  BY DEF SandboxInv, TypeOK, StagesInOrder
<1>2. CASE stage = "compile" /\ outcome = "ok"
  <2>1. ~Populated("compile")
    <3>1. proc["driver"] \notin {"inside", "killed"} /\ proc["helper"] \notin {"inside", "killed"}
      BY <1>2 DEF SandboxInv, ProcessesInv, GroupsInv, Alive
    <3> QED BY <3>1 DEF Populated
  <2>2. /\ group'["compile"] = (IF setup = "plain" THEN "left" ELSE "gone")
        /\ group'["run"] = "none"
    BY <1>1, <1>2, <2>1 DEF GroupsInv
  <2>3. stage' = "run" /\ pc' = "group"
    BY <1>2 DEF Return
  <2> QED BY <2>2, <2>3 DEF GroupsInv
<1>3. CASE ~(stage = "compile" /\ outcome = "ok")
  <2>1. stage' = "over" /\ pc' = "end"
    BY <1>3 DEF Return
  <2>2. \A s \in Stages : s # stage =>
          group'[s] # "there" /\ (group'[s] = "left" => setup' = "plain")
    BY <1>1 DEF GroupsInv
  <2>3. group'[stage] \in {"left", "gone"} /\ (group'[stage] = "left" => retries = 0)
    BY <1>1
  <2>4. GroupIsRemoved'
    BY <1>1, <2>2, <2>3 DEF GroupIsRemoved
  <2> QED BY <2>1, <2>4 DEF GroupsInv
<1> QED BY <1>2, <1>3

LEMMA GroupsRunner == SandboxInv /\ GroupsInv /\ Runner => GroupsInv'
<1> SUFFICES ASSUME SandboxInv, GroupsInv, Runner PROVE GroupsInv'
  OBVIOUS
<1>t. TypeOK /\ StagesInOrder /\ ProcessesInv
  BY DEF SandboxInv
<1> USE Names, <1>t DEF Stages, kernel, clock
<1>1. CASE MakeGroup
  <2>1. setup = "plain" => setup' = "plain"
    BY <1>1, SetUpTypes DEF MakeGroup, Prepared
  <2> QED BY <1>1, <2>1 DEF MakeGroup, GroupsInv, TypeOK, StagesInOrder
<1>2. CASE MakeGroupFails
  <2>1. PICK how \in {"err", "panic"} : Return(how)
    BY <1>2 DEF MakeGroupFails
  <2>2. group' = group /\ stage \in Stages /\ stage' = "over" /\ pc' = "end" /\ pc = "group"
    BY <1>2, <2>1 DEF MakeGroupFails, Return, TypeOK, StagesInOrder
  <2>3. setup = "plain" => setup' = "plain"
    BY <1>2, SetUpTypes DEF MakeGroupFails, Prepared
  <2>4. \A s \in Stages : group[s] # "there" /\ (group[s] = "left" => setup' = "plain")
    BY <2>2, <2>3 DEF GroupsInv
  <2> QED BY <2>2, <2>4 DEF GroupsInv, GroupIsRemoved
<1>3. CASE Limits \/ SpawnFails \/ WaitFails
  BY <1>3 DEF Limits, SpawnFails, WaitFails, Leave, GroupsInv, StagesInOrder
<1>4. CASE Deadline
  BY <1>4 DEF Deadline, GroupsInv, StagesInOrder
<1>5. CASE KillGroup
  BY <1>5 DEF KillGroup, Leave, GroupsInv, StagesInOrder
<1>6. CASE SpawnCompiler \/ Move
  BY <1>6 DEF SpawnCompiler, Move, GroupsInv, StagesInOrder, TypeOK
<1>7. CASE MoveFails \/ Compiled
  BY <1>7 DEF MoveFails, Compiled, Leave, GroupsInv, StagesInOrder, TypeOK
<1>8. CASE SpawnProgram \/ SetUpFails \/ CannotJoin
  BY <1>8 DEF SpawnProgram, SetUpFails, CannotJoin, Spawned, GroupsInv, StagesInOrder
<1>9. CASE ChildEnded \/ Reap \/ Events
  BY <1>9 DEF ChildEnded, Reap, Events, Leave, GroupsInv, StagesInOrder
<1>10. CASE GuardKills
  <2>1. outcome = "ok" /\ stage = "compile" =>
          proc'["driver"] = proc["driver"] /\ proc'["helper"] = proc["helper"]
    BY <1>10 DEF GuardKills, Killed, ProcessesInv, Alive, TypeOK
  <2> QED BY <1>10, <2>1 DEF GuardKills, GroupsInv, StagesInOrder
<1>11. CASE GuardPolls
  BY <1>11 DEF GuardPolls, GroupsInv, StagesInOrder
<1>12. CASE GuardRemoves
  BY <1>12, GroupsReturn DEF GuardRemoves
<1> QED BY <1>1, <1>2, <1>3, <1>4, <1>5, <1>6, <1>7, <1>8, <1>9, <1>10, <1>11, <1>12 DEF Runner

LEMMA GroupsKernel == SandboxInv /\ GroupsInv /\ (Kernel \/ Tick) => GroupsInv'
<1> SUFFICES ASSUME SandboxInv, GroupsInv, Kernel \/ Tick PROVE GroupsInv'
  OBVIOUS
<1>t. TypeOK
  BY DEF SandboxInv
<1>1. UNCHANGED <<stage, pc, outcome, cgroups, retries, faults>>
  BY DEF Kernel, Tick, Fork, CompilerExits, ProgramExits, CpuLimit, OutOfMemoryKill, Ends, OuterExits, Dies
<1>2. /\ proc["driver"] # "killed" => proc'["driver"] # "killed"
      /\ proc["driver"] # "killed" /\ proc["helper"] # "killed" => proc'["helper"] # "killed"
  <2> USE Names, <1>t DEF TypeOK, kernel
  <2>1. CASE Tick
    BY <2>1 DEF Tick
  <2>2. CASE Fork \/ CompilerExits
    BY <2>2 DEF Fork, CompilerExits, Alive
  <2>3. CASE ProgramExits \/ CpuLimit \/ OutOfMemoryKill
    BY <2>3 DEF ProgramExits, CpuLimit, OutOfMemoryKill, Ends
  <2>4. CASE OuterExits
    BY <2>4 DEF OuterExits
  <2>5. ASSUME NEW p \in Processes, Dies(p)
        PROVE  /\ proc["driver"] # "killed" => proc'["driver"] # "killed"
               /\ proc["helper"] # "killed" => proc'["helper"] # "killed"
    BY <2>5 DEF Dies
  <2> QED BY <2>1, <2>2, <2>3, <2>4, <2>5 DEF Kernel
<1> QED BY <1>1, <1>2 DEF GroupsInv, GroupIsRemoved, Done

LEMMA GroupsInit == Init => GroupsInv
BY Names, NoneIsNoCause DEF Init, GroupsInv, GroupIsRemoved, Done, Stages

LEMMA GroupsStep == SandboxInv /\ GroupsInv /\ [Next]_vars => GroupsInv'
<1> SUFFICES ASSUME SandboxInv, GroupsInv, [Next]_vars PROVE GroupsInv'
  OBVIOUS
<1>1. CASE UNCHANGED vars
  BY <1>1 DEF vars, kernel, GroupsInv, GroupIsRemoved, Done
<1> QED BY <1>1, GroupsRunner, GroupsKernel DEF Next, Over

\* A runner that has returned has removed its control group, or has tried as
\* long as its guard is patient.
THEOREM GroupsAreRemoved == Spec => []GroupIsRemoved
<1>1. SandboxInv /\ GroupsInv => GroupIsRemoved
  <2> SUFFICES ASSUME SandboxInv, GroupsInv PROVE GroupIsRemoved
    OBVIOUS
  <2>1. stage \in Stages \union {"over"}
    BY DEF SandboxInv, TypeOK
  <2> QED BY <2>1 DEF GroupsInv, GroupIsRemoved, Done, Stages
<1> QED BY <1>1, GroupsInit, GroupsStep, SandboxInvariance, PTL DEF Spec
==============================================================================
