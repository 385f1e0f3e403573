---------------------------- MODULE PipelineProofs ----------------------------
(***************************************************************************)
(* Theorems about Pipeline, for every set of submissions and engines, every *)
(* number of permits, every length of a batch and every number of faults.  *)
(***************************************************************************)
EXTENDS PipelineInvariant, FiniteSetTheorems, TLAPS

-----------------------------------------------------------------------------
(* Types.                                                                  *)

\* What Redis holds, for the calls that change nothing else.
RedisTypeOK ==
  /\ hash    \in [Submissions -> Statuses]
  /\ stream  \in SUBSET Submissions
  /\ eid     \in [Submissions -> Nat]
  /\ lastGen \in Nat
  /\ group   \in BOOLEAN
  /\ lastId  \in Nat
  /\ pel     \in [Submissions -> Engines \cup {NoEngine}]

\* Whatever command Redis executes for a submission (enqueue_task and the three
\* helpers of redis_lib), its data keeps its type.
LEMMA ExecuteType ==
  ASSUME TypeOK, NEW op, NEW s \in Submissions, Execute(op, s)
  PROVE  RedisTypeOK'
<1>1. CASE Enqueue(s)
  BY <1>1 DEF Enqueue, TypeOK, RedisTypeOK, Statuses
<1>2. CASE SetProcessing(s)
  BY <1>2 DEF SetProcessing, TypeOK, RedisTypeOK, Statuses
<1>3. CASE PushResult(s)
  <2>1. resp[s] \in Statuses
    BY DEF TypeOK, Statuses
  <2> QED BY <1>3, <2>1 DEF PushResult, TypeOK, RedisTypeOK
<1>4. CASE Acknowledge(s)
  BY <1>4 DEF Acknowledge, TypeOK, RedisTypeOK
<1> QED BY <1>1, <1>2, <1>3, <1>4 DEF Execute

\* A fault is counted by a natural number.
LEMMA FaultType ==
  ASSUME TypeOK, NEW k, Fault(k)
  PROVE  faults' \in [FaultKinds -> Nat]
<1>1. CASE k \in FaultKinds
  BY <1>1 DEF Fault, TypeOK
<1>2. CASE k \notin FaultKinds
  BY <1>2 DEF Fault, TypeOK
<1> QED BY <1>1, <1>2

\* A call to Redis, answered or not, keeps the types of all it may change.
LEMMA CallType ==
  ASSUME TypeOK, NEW op \in {"enqueue", "mark", "push", "ack"},
         NEW s \in Submissions, Call(op, s)
  PROVE  RedisTypeOK' /\ net' \in SUBSET Commands /\ faults' \in [FaultKinds -> Nat]
<1>1. CASE Answered(op, s)
  BY <1>1, ExecuteType DEF Answered, TypeOK
<1>2. CASE Unanswered(op, s)
  <2>1. faults' \in [FaultKinds -> Nat]
    BY <1>2, FaultType DEF Unanswered
  <2>2. RedisTypeOK'
    BY <1>2 DEF Unanswered, redis, TypeOK, RedisTypeOK
  <2>3. net' \in SUBSET Commands
    BY <1>2 DEF Unanswered, TypeOK, Commands
  <2> QED BY <2>1, <2>2, <2>3
<1> QED BY <1>1, <1>2 DEF Call

\* A read moves the group to the id of an entry it hands out.
LEMMA DeliverType ==
  ASSUME TypeOK, NEW e \in Engines, NEW B \in SUBSET Submissions, Deliver(e, B)
  PROVE  RedisTypeOK'
<1>1. lastId' \in Nat
  BY DEF Deliver, NextBatch, TypeOK
<1>2. pel' \in [Submissions -> Engines \cup {NoEngine}]
  BY DEF Deliver, TypeOK
<1> QED BY <1>1, <1>2 DEF Deliver, TypeOK, RedisTypeOK

\* The end of a task gives a permit back and types stay.
LEMMA EndTaskType ==
  ASSUME TypeOK, NEW s \in Submissions, NEW o \in {"done", "lost"}, EndTask(s, o)
  PROVE  /\ task' \in [Submissions -> {"none", "mark", "run", "push", "ack", "done", "lost"}]
         /\ on' \in [Submissions -> Engines \cup {NoEngine}]
         /\ permits' \in [Engines -> Nat]
<1>1. permits' \in [Engines -> Nat]
  <2>1. CASE on[s] \in Engines
    BY <2>1 DEF EndTask, TypeOK
  <2>2. CASE on[s] \notin Engines
    BY <2>2 DEF EndTask, TypeOK
  <2> QED BY <2>1, <2>2
<1> QED BY <1>1 DEF EndTask, TypeOK

\* The initial state is well typed.
LEMMA InitType == Init => TypeOK
<1> SUFFICES ASSUME Init PROVE TypeOK
  OBVIOUS
<1>1. hash \in [Submissions -> Statuses] /\ net \subseteq Commands
  BY DEF Init, Statuses
<1>2. resp \in [Submissions -> Responses \cup {"none"}]
  BY DEF Init
<1> QED BY <1>1, <1>2 DEF Init, TypeOK

\* Every step of the HTTP server, of Redis, of an engine or of a task leaves the
\* state well typed.
LEMMA NextType == TypeOK /\ [Next]_vars => TypeOK'
<1> SUFFICES ASSUME TypeOK, [Next]_vars PROVE TypeOK'
  OBVIOUS
<1>1. ASSUME NEW s \in Submissions, Submit(s) PROVE TypeOK'
  <2>1. Call("enqueue", s)
    BY <1>1 DEF Submit, Call
  <2>2. post' \in [Submissions -> {"idle", "ok", "failed"}]
    BY <1>1 DEF Submit, TypeOK
  <2> QED BY <1>1, <2>1, <2>2, CallType DEF Submit, engine, TypeOK, RedisTypeOK
<1>2. ASSUME NEW s \in Submissions, Expire(s) PROVE TypeOK'
  BY <1>2 DEF Expire, engine, TypeOK, Statuses
<1>3. ASSUME NEW s \in Submissions, Mark(s) PROVE TypeOK'
  BY <1>3, CallType DEF Mark, TypeOK, RedisTypeOK
<1>4. ASSUME NEW s \in Submissions, Judge(s) PROVE TypeOK'
  BY <1>4 DEF Judge, redis, TypeOK
<1>5. ASSUME NEW s \in Submissions, Push(s) PROVE TypeOK'
  BY <1>5, CallType DEF Push, TypeOK, RedisTypeOK
<1>6. ASSUME NEW s \in Submissions, Ack(s) PROVE TypeOK'
  BY <1>6, CallType, EndTaskType DEF Ack, EndTask, TypeOK, RedisTypeOK
<1>7. ASSUME NEW s \in Submissions, Panic(s) PROVE TypeOK'
  BY <1>7, FaultType, EndTaskType DEF Panic, EndTask, redis, TypeOK
<1>8. ASSUME NEW e \in Engines, Setup(e) \/ SetupLost(e) PROVE TypeOK'
  <2>1. lastId' \in Nat /\ group' \in BOOLEAN
    BY <1>8 DEF Setup, SetupLost, CreateGroup, TypeOK
  <2>2. CASE Setup(e)
    BY <2>1, <2>2, BoundsAssumption DEF Setup, CreateGroup, TypeOK
  <2>3. CASE SetupLost(e)
    BY <2>1, <2>3, FaultType DEF SetupLost, CreateGroup, engine, TypeOK
  <2> QED BY <1>8, <2>2, <2>3
<1>9. ASSUME NEW e \in Engines, Crash(e) PROVE TypeOK'
  BY <1>9, FaultType DEF Crash, redis, TypeOK
<1>10. ASSUME NEW e \in Engines, NEW B \in SUBSET Submissions, Read(e, B)
       PROVE  TypeOK'
  BY <1>10, DeliverType DEF Read, TypeOK, RedisTypeOK
<1>11. ASSUME NEW e \in Engines, NEW B \in SUBSET Submissions, ReadLost(e, B)
       PROVE  TypeOK'
  BY <1>11, DeliverType, FaultType DEF ReadLost, engine, TypeOK, RedisTypeOK
<1>12. ASSUME NEW e \in Engines, NEW s \in Submissions, Dispatch(e, s) PROVE TypeOK'
  <2>1. permits' \in [Engines -> Nat]
    BY <1>12 DEF Dispatch, Acquire, TypeOK
  <2> QED BY <1>12, <2>1 DEF Dispatch, redis, TypeOK
<1>13. ASSUME NEW c \in net, Late(c) \/ LateHalfAck(c) \/ Drop(c) PROVE TypeOK'
  <2>1. PICK s \in Submissions : c[2] = s
    BY DEF TypeOK, Commands
  <2>2. CASE Late(c)
    BY <2>1, <2>2, ExecuteType DEF Late, engine, TypeOK, RedisTypeOK
  <2>3. CASE LateHalfAck(c)
    BY <2>1, <2>3 DEF LateHalfAck, engine, TypeOK
  <2>4. CASE Drop(c)
    BY <2>4 DEF Drop, redis, engine, TypeOK
  <2> QED BY <1>13, <2>2, <2>3, <2>4
<1>14. CASE Flush
  BY <1>14, FaultType DEF Flush, engine, TypeOK, Statuses
<1>15. CASE UNCHANGED vars
  BY <1>15 DEF vars, redis, engine, TypeOK
<1> QED
  BY <1>1, <1>2, <1>3, <1>4, <1>5, <1>6, <1>7, <1>8, <1>9, <1>10, <1>11, <1>12,
     <1>13, <1>14, <1>15 DEF Next, TaskStep, ReadNothing

\* Type correctness of the pipeline.
THEOREM TypeCorrect == Spec => []TypeOK
BY InitType, NextType, PTL DEF Spec

\* A step is a fault of one kind or none.
LEMMA FaultStep ==
  ASSUME [Next]_vars
  PROVE  faults' = faults \/ \E k \in FaultKinds : Fault(k)
<1>1. ASSUME NEW s \in Submissions, Submit(s) \/ Expire(s) \/ TaskStep(s) \/ Panic(s)
      PROVE  faults' = faults \/ \E k \in FaultKinds : Fault(k)
  BY <1>1 DEF Submit, Expire, TaskStep, Mark, Judge, Push, Ack, Panic, Call, Answered, Unanswered,
     FaultKinds
<1>2. ASSUME NEW e \in Engines, Setup(e) \/ SetupLost(e) \/ Crash(e) \/ ReadNothing(e)
      PROVE  faults' = faults \/ \E k \in FaultKinds : Fault(k)
  BY <1>2 DEF Setup, SetupLost, Crash, ReadNothing, vars, FaultKinds
<1>3. ASSUME NEW e \in Engines, NEW B \in SUBSET Submissions, Read(e, B) \/ ReadLost(e, B)
      PROVE  faults' = faults \/ \E k \in FaultKinds : Fault(k)
  BY <1>3 DEF Read, ReadLost, FaultKinds
<1>4. ASSUME NEW e \in Engines, NEW s \in Submissions, Dispatch(e, s)
      PROVE  faults' = faults
  BY <1>4 DEF Dispatch
<1>5. ASSUME NEW c \in net, Late(c) \/ LateHalfAck(c) \/ Drop(c)
      PROVE  faults' = faults
  BY <1>5 DEF Late, LateHalfAck, Drop
<1>6. CASE Flush \/ UNCHANGED vars
  BY <1>6 DEF Flush, vars, FaultKinds
<1> QED BY <1>1, <1>2, <1>3, <1>4, <1>5, <1>6 DEF Next

-----------------------------------------------------------------------------
(* The inductive invariant.                                                *)

\* No response is taken for a status that is none.
LEMMA ResponsesApart == {"none", "pending", "processing"} \cap Responses = {}
BY VerdictsAssumption DEF Responses

\* A fault of any kind only adds to the writes that have failed.
LEMMA FaultCounted ==
  ASSUME TypeOK, NEW k \in FaultKinds, Fault(k)
  PROVE  /\ faults'["write"] = 0 => faults["write"] = 0
         /\ k = "write" => faults'["write"] # 0
BY DEF TypeOK, FaultKinds, Fault

\* A call leaves at most itself in flight, and then a write has failed.
LEMMA CallInFlight ==
  ASSUME TypeOK, WritesInFlight, NEW op, NEW s \in Submissions, Call(op, s)
  PROVE  /\ faults'["write"] = 0 => net' = {}
         /\ net' \subseteq net \cup {<<op, s>>}
<1>1. CASE Answered(op, s)
  BY <1>1 DEF Answered, WritesInFlight
<1>2. CASE Unanswered(op, s)
  BY <1>2, FaultCounted DEF Unanswered, FaultKinds
<1> QED BY <1>1, <1>2 DEF Call

\* The first XADD of a submission, on time or late, gives its entry an id that is
\* beyond the group's position and of no entry an engine has (enqueue_task).
LEMMA EnqueueKeeps ==
  ASSUME TypeOK, PipelineInv, NEW s \in Submissions, Enqueue(s),
         eid[s] = 0, post'[s] # "idle",
         \A t \in Submissions \ {s} : post'[t] = post[t],
         UNCHANGED <<loop, batch, on, task, resp, runs>>
  PROVE  /\ IdsInOrder' /\ EnqueuedOnce' /\ TakenIsPassed'
         /\ BatchesApart' /\ ResponseFirst'
<1> USE DEF TypeOK, PipelineInv, Enqueue
<1>1. IdsInOrder'
  BY DEF IdsInOrder
<1>2. EnqueuedOnce'
  BY DEF EnqueuedOnce
<1>3. TakenIsPassed'
  <2>1. runs[s] = 0 /\ \A e \in Engines : s \notin batch[e]
    BY DEF EnqueuedOnce, BatchesApart
  <2> QED BY <2>1 DEF TakenIsPassed
<1>4. BatchesApart'
  BY DEF BatchesApart
<1>5. ResponseFirst'
  BY ResponsesApart DEF ResponseFirst
<1> QED BY <1>1, <1>2, <1>3, <1>4, <1>5

\* In the initial state nothing is queued, taken or in flight.
LEMMA InitInv == Init => PipelineInv
<1> SUFFICES ASSUME Init PROVE PipelineInv
  OBVIOUS
<1>1. ResponseFirst
  BY ResponsesApart DEF Init, ResponseFirst
<1>2. AtMostOnce /\ IdsInOrder /\ EnqueuedOnce /\ TakenIsPassed
  BY DEF Init, AtMostOnce, IdsInOrder, EnqueuedOnce, TakenIsPassed
<1>3. BatchesApart /\ TasksPlaced /\ WritesInFlight
  BY DEF Init, BatchesApart, TasksPlaced, WritesInFlight
<1> QED BY <1>1, <1>2, <1>3 DEF PipelineInv

\* The HTTP server enqueues a submission: only its own entry changes.
LEMMA SubmitInv ==
  ASSUME TypeOK, PipelineInv, NEW s \in Submissions, Submit(s)
  PROVE  PipelineInv'
<1>1. eid[s] = 0 /\ <<"enqueue", s>> \notin net
  BY DEF Submit, PipelineInv, EnqueuedOnce, WritesInFlight
<1>2. post'[s] \in {"ok", "failed"} /\ \A t \in Submissions \ {s} : post'[t] = post[t]
  BY DEF Submit, TypeOK
<1>3. UNCHANGED engine /\ Call("enqueue", s)
  BY DEF Submit, Call
<1>4. AtMostOnce' /\ TasksPlaced'
  BY <1>3 DEF engine, PipelineInv, AtMostOnce, TasksPlaced
<1>5. IdsInOrder' /\ EnqueuedOnce' /\ TakenIsPassed' /\ BatchesApart' /\ ResponseFirst'
  <2>1. CASE Answered("enqueue", s)
    BY <1>1, <1>2, <1>3, <2>1, EnqueueKeeps DEF Answered, Execute, engine
  <2>2. CASE Unanswered("enqueue", s)
    BY <1>1, <1>2, <1>3, <2>2 DEF Unanswered, redis, engine, PipelineInv, IdsInOrder,
       EnqueuedOnce, TakenIsPassed, BatchesApart, ResponseFirst
  <2> QED BY <1>3, <2>1, <2>2 DEF Call
<1>6. WritesInFlight'
  <2>1. /\ faults'["write"] = 0 => net' = {}
        /\ net' \subseteq net \cup {<<"enqueue", s>>}
    BY <1>3, CallInFlight DEF PipelineInv
  <2>2. ASSUME NEW t \in Submissions, <<"enqueue", t>> \in net'
        PROVE  eid'[t] = 0 /\ post'[t] = "failed"
    <3>1. CASE Answered("enqueue", s)
      <4>1. <<"enqueue", t>> \in net /\ t # s
        BY <1>1, <2>2, <3>1 DEF Answered
      <4> QED
        BY <1>2, <3>1, <4>1 DEF Answered, Execute, Enqueue, TypeOK, PipelineInv, WritesInFlight
    <3>2. CASE Unanswered("enqueue", s)
      <4>1. post'[s] = "failed" /\ eid' = eid
        BY <3>2, <1>2 DEF Submit, Answered, Unanswered, Execute, Enqueue, redis, TypeOK
      <4>2. CASE t = s
        BY <1>1, <4>1, <4>2
      <4>3. CASE t # s
        BY <1>2, <2>1, <2>2, <4>1, <4>3 DEF PipelineInv, WritesInFlight
      <4> QED BY <4>2, <4>3
    <3> QED BY <1>3, <3>1, <3>2 DEF Call
  <2> QED BY <1>3, <2>1, <2>2 DEF engine, PipelineInv, WritesInFlight
<1> QED BY <1>4, <1>5, <1>6 DEF PipelineInv

\* A step of a task to Redis, answered or not: the command concerns a submission
\* that was started, and shows or acknowledges only what the task computed.
LEMMA TaskCallInv ==
  ASSUME TypeOK, PipelineInv, NEW s \in Submissions,
         Mark(s) \/ Push(s) \/ Ack(s)
  PROVE  PipelineInv'
<1>1. runs[s] > 0 /\ eid[s] # 0
  BY DEF Mark, Push, Ack, TypeOK, PipelineInv, TasksPlaced, EnqueuedOnce
<1>2. UNCHANGED <<eid, lastGen, lastId, group, post, batch, runs, resp, loop>>
  BY DEF Mark, Push, Ack, EndTask, Call, Answered, Unanswered, Execute, redis,
     SetProcessing, PushResult, Acknowledge
<1>3. stream' \subseteq stream
  BY DEF Mark, Push, Ack, Call, Answered, Unanswered, Execute, redis,
     SetProcessing, PushResult, Acknowledge
<1>4. AtMostOnce' /\ TakenIsPassed' /\ BatchesApart'
  BY <1>2 DEF PipelineInv, AtMostOnce, TakenIsPassed, BatchesApart
<1>5. IdsInOrder'
  BY <1>2, <1>3 DEF PipelineInv, IdsInOrder
<1>6. TasksPlaced'
  BY <1>1, <1>2, EnginesAssumption
     DEF Mark, Push, Ack, EndTask, TypeOK, PipelineInv, TasksPlaced
<1>7. \A t \in Submissions \ {s} : hash'[t] = hash[t] /\ task'[t] = task[t]
  BY DEF Mark, Push, Ack, EndTask, Call, Answered, Unanswered, Execute, redis,
     SetProcessing, PushResult, Acknowledge, TypeOK
<1>8. EnqueuedOnce'
  BY <1>1, <1>2, <1>7 DEF PipelineInv, EnqueuedOnce
<1>9. ResponseFirst'
  <2>1. hash'[s] \in {hash[s], "processing", resp[s]}
    BY DEF Mark, Push, Ack, Call, Answered, Unanswered, Execute, redis,
       SetProcessing, PushResult, Acknowledge, TypeOK
  <2>2. /\ task'[s] = "run"  => resp[s] = "none"
        /\ task'[s] # "run"  => resp[s] # "none" /\ task'[s] \in {"ack", "done"}
    BY DEF Mark, Push, Ack, EndTask, TypeOK, PipelineInv, ResponseFirst
  <2> QED BY <1>2, <1>7, <2>1, <2>2, ResponsesApart DEF PipelineInv, ResponseFirst
<1>10. WritesInFlight'
  <2>1. PICK op \in {"mark", "push", "ack"} :
          Call(op, s) /\ (op # "mark" => resp[s] # "none")
    BY DEF Mark, Push, Ack, PipelineInv, ResponseFirst
  <2>2. /\ faults'["write"] = 0 => net' = {}
        /\ net' \subseteq net \cup {<<op, s>>}
    BY <2>1, CallInFlight DEF PipelineInv
  <2>3. ASSUME NEW t \in Submissions
        PROVE  /\ <<"enqueue", t>> \in net' => eid'[t] = 0 /\ post'[t] = "failed"
               /\ <<"mark", t>> \in net' => runs'[t] > 0
               /\ <<"push", t>> \in net' \/ <<"ack", t>> \in net' => resp'[t] # "none"
    <3>1. <<"enqueue", t>> \in net' => <<"enqueue", t>> \in net
      BY <2>1, <2>2
    <3>2. <<"mark", t>> \in net' => <<"mark", t>> \in net \/ t = s
      BY <2>1, <2>2
    <3>3. <<"push", t>> \in net' \/ <<"ack", t>> \in net' =>
            <<"push", t>> \in net \/ <<"ack", t>> \in net \/ resp[t] # "none"
      BY <2>1, <2>2
    <3> QED BY <1>1, <1>2, <3>1, <3>2, <3>3 DEF PipelineInv, WritesInFlight
  <2> QED BY <2>2, <2>3 DEF WritesInFlight
<1> QED BY <1>4, <1>5, <1>6, <1>8, <1>9, <1>10 DEF PipelineInv

\* A write that comes late: the submission it concerns is as its caller left it.
LEMMA LateInv ==
  ASSUME TypeOK, PipelineInv, NEW c \in net, Late(c) \/ LateHalfAck(c) \/ Drop(c)
  PROVE  PipelineInv'
<1>1. PICK op \in {"enqueue", "mark", "push", "ack"}, s \in Submissions : c = <<op, s>>
  BY DEF TypeOK, Commands
<1>2. net' \subseteq net /\ UNCHANGED <<post, engine, faults>>
  BY DEF Late, LateHalfAck, Drop
<1>3. ASSUME Late(c), op = "enqueue" PROVE PipelineInv'
  <2>1. Enqueue(s) /\ c \notin net'
    BY <1>1, <1>3 DEF Late, Execute
  <2>2. eid[s] = 0 /\ post[s] = "failed"
    BY <1>1, <1>3 DEF PipelineInv, WritesInFlight
  <2>3. IdsInOrder' /\ EnqueuedOnce' /\ TakenIsPassed' /\ BatchesApart' /\ ResponseFirst'
    BY <1>2, <2>1, <2>2, EnqueueKeeps DEF engine
  <2>4. AtMostOnce' /\ TasksPlaced'
    BY <1>2 DEF engine, PipelineInv, AtMostOnce, TasksPlaced
  <2>5. WritesInFlight'
    <3>1. \A t \in Submissions : <<"enqueue", t>> \in net' => t # s
      BY <1>1, <1>3, <2>1
    <3>2. \A t \in Submissions \ {s} : eid'[t] = eid[t]
      BY <2>1 DEF Enqueue, TypeOK
    <3> QED BY <1>2, <3>1, <3>2 DEF engine, PipelineInv, WritesInFlight
  <2> QED BY <2>3, <2>4, <2>5 DEF PipelineInv
<1>4. ASSUME ~(Late(c) /\ op = "enqueue") PROVE PipelineInv'
  <2>1. UNCHANGED <<eid, lastGen, lastId, group>> /\ stream' \subseteq stream
    BY <1>1, <1>4 DEF Late, LateHalfAck, Drop, redis, Execute, SetProcessing,
       PushResult, Acknowledge
  <2>2. AtMostOnce' /\ TakenIsPassed' /\ BatchesApart' /\ TasksPlaced' /\ IdsInOrder'
    BY <1>2, <2>1 DEF engine, PipelineInv, AtMostOnce, TakenIsPassed, BatchesApart,
       TasksPlaced, IdsInOrder
  <2>3. WritesInFlight'
    BY <1>2, <2>1 DEF engine, PipelineInv, WritesInFlight
  <2>4. /\ hash'[s] \in {hash[s], "processing", resp[s]}
        /\ \A t \in Submissions \ {s} : hash'[t] = hash[t]
    BY <1>1, <1>4 DEF Late, LateHalfAck, Drop, redis, Execute, SetProcessing,
       PushResult, Acknowledge, TypeOK
  <2>5. hash'[s] = hash[s] \/ eid[s] # 0
    <3>1. CASE op = "mark"
      <4>1. runs[s] > 0
        BY <1>1, <3>1 DEF PipelineInv, WritesInFlight
      <4> QED BY <4>1 DEF TypeOK, PipelineInv, EnqueuedOnce
    <3>2. CASE op = "push"
      BY <1>1, <3>2 DEF TypeOK, PipelineInv, WritesInFlight, ResponseFirst, TasksPlaced,
         EnqueuedOnce
    <3>3. CASE op \in {"enqueue", "ack"}
      BY <1>1, <1>4, <3>3 DEF Late, LateHalfAck, Drop, redis, Execute, Acknowledge
    <3> QED BY <3>1, <3>2, <3>3
  <2>6. EnqueuedOnce'
    BY <1>2, <2>1, <2>4, <2>5 DEF engine, PipelineInv, EnqueuedOnce
  <2>7. ResponseFirst'
    BY <1>2, <2>4, ResponsesApart DEF engine, PipelineInv, ResponseFirst
  <2> QED BY <2>2, <2>3, <2>6, <2>7 DEF PipelineInv
<1> QED BY <1>3, <1>4

\* A read hands out entries beyond the group's position only, so none that an
\* engine has had before, and moves the group past them (XREADGROUP ">").
LEMMA ReadInv ==
  ASSUME TypeOK, PipelineInv, NEW e \in Engines, NEW B \in SUBSET Submissions,
         Read(e, B) \/ ReadLost(e, B)
  PROVE  PipelineInv'
<1>1. Deliver(e, B) /\ UNCHANGED <<net, post, on, task, resp, runs>>
  BY DEF Read, ReadLost, engine
<1>2. /\ B \subseteq stream /\ lastId < lastId' /\ lastId' <= lastGen
      /\ \A s \in B : lastId < eid[s] /\ eid[s] <= lastId'
      /\ lastId' \in Nat
  BY <1>1 DEF Deliver, NextBatch, Deliverable, TypeOK, PipelineInv, IdsInOrder
<1>3. \A s \in B : runs[s] = 0 /\ \A f \in Engines : s \notin batch[f]
  BY <1>1, <1>2 DEF Deliver, TypeOK, PipelineInv, TakenIsPassed
<1>4. UNCHANGED <<hash, stream, eid, lastGen, group>> /\ group
  BY <1>1 DEF Deliver
<1>5. /\ batch[e] = {}
      /\ batch'[e] \subseteq B
      /\ \A f \in Engines \ {e} : batch'[f] = batch[f] /\ loop'[f] = loop[f]
      /\ loop'[e] = "dispatch" \/ (loop'[e] = "read" /\ batch'[e] = {})
  BY DEF Read, ReadLost, Deliver, engine, TypeOK, PipelineInv, BatchesApart
<1>6. AtMostOnce' /\ EnqueuedOnce' /\ ResponseFirst'
  BY <1>1, <1>4 DEF PipelineInv, AtMostOnce, EnqueuedOnce, ResponseFirst
<1>7. IdsInOrder'
  BY <1>2, <1>4 DEF PipelineInv, IdsInOrder, TypeOK
<1>8. TakenIsPassed'
  <2>1. \A s \in Submissions : eid[s] <= lastId => eid'[s] <= lastId'
    BY <1>2, <1>4 DEF TypeOK, PipelineInv, IdsInOrder
  <2>2. \A f \in Engines : \A s \in batch'[f] : eid'[s] <= lastId'
    BY <1>2, <1>4, <1>5, <2>1 DEF TypeOK, PipelineInv, TakenIsPassed
  <2> QED BY <1>1, <1>4, <2>1, <2>2 DEF PipelineInv, TakenIsPassed
<1>9. BatchesApart'
  <2>1. \A f \in Engines : loop'[f] # "dispatch" => batch'[f] = {}
    BY <1>5 DEF PipelineInv, BatchesApart
  <2>2. \A f \in Engines : \A s \in batch'[f] : runs'[s] = 0 /\ eid'[s] > 0
    BY <1>1, <1>2, <1>3, <1>4, <1>5 DEF TypeOK, PipelineInv, BatchesApart
  <2>3. \A f, g \in Engines : \A s \in batch'[f] : s \in batch'[g] => f = g
    BY <1>3, <1>5 DEF PipelineInv, BatchesApart
  <2> QED BY <2>1, <2>2, <2>3 DEF BatchesApart
<1>10. TasksPlaced'
  <2>1. loop[e] = "read" /\ \A f \in Engines : loop[f] # "down" => loop'[f] # "down"
    BY <1>1, <1>5 DEF Deliver
  <2>2. \A s \in Submissions : on[s] # NoEngine => on[s] \in Engines
    BY DEF TypeOK
  <2> QED BY <1>1, <2>1, <2>2 DEF PipelineInv, TasksPlaced
<1>11. WritesInFlight'
  <2>1. faults'["write"] = 0 => faults["write"] = 0
    BY FaultCounted DEF Read, ReadLost, FaultKinds
  <2> QED BY <1>1, <1>4, <2>1 DEF PipelineInv, WritesInFlight
<1> QED BY <1>6, <1>7, <1>8, <1>9, <1>10, <1>11 DEF PipelineInv

\* A spawned task was never spawned before, and its entry leaves the batch.
LEMMA DispatchInv ==
  ASSUME TypeOK, PipelineInv, NEW e \in Engines, NEW s \in Submissions, Dispatch(e, s)
  PROVE  PipelineInv'
<1>1. /\ loop[e] = "dispatch" /\ s \in batch[e] /\ runs[s] = 0 /\ eid[s] > 0
      /\ \A f \in Engines \ {e} : s \notin batch[f]
  BY DEF Dispatch, Acquire, PipelineInv, BatchesApart
<1>2. UNCHANGED <<redis, net, post, resp, faults>>
  BY DEF Dispatch
<1>3. /\ runs' = [runs EXCEPT ![s] = 1] /\ on' = [on EXCEPT ![s] = e]
      /\ task' = [task EXCEPT ![s] = "mark"]
  BY <1>1 DEF Dispatch, TypeOK
<1>4. /\ batch'[e] = batch[e] \ {s}
      /\ loop'[e] = "dispatch" \/ (loop'[e] = "read" /\ batch'[e] = {})
      /\ \A f \in Engines \ {e} : batch'[f] = batch[f] /\ loop'[f] = loop[f]
  BY DEF Dispatch, TypeOK
<1>5. AtMostOnce'
  BY <1>3 DEF TypeOK, PipelineInv, AtMostOnce
<1>6. IdsInOrder'
  BY <1>2 DEF redis, PipelineInv, IdsInOrder
<1>7. EnqueuedOnce'
  BY <1>1, <1>2, <1>3 DEF redis, TypeOK, PipelineInv, EnqueuedOnce
<1>8. TakenIsPassed'
  BY <1>1, <1>2, <1>3, <1>4 DEF redis, TypeOK, PipelineInv, TakenIsPassed
<1>9. BatchesApart'
  BY <1>1, <1>2, <1>3, <1>4 DEF redis, TypeOK, PipelineInv, BatchesApart
<1>10. TasksPlaced'
  <2>1. \A f \in Engines : loop[f] # "down" => loop'[f] # "down"
    BY <1>4
  <2> QED
    BY <1>1, <1>3, <1>4, <2>1, EnginesAssumption DEF TypeOK, PipelineInv, TasksPlaced
<1>11. ResponseFirst'
  BY <1>1, <1>2, <1>3 DEF redis, TypeOK, PipelineInv, TasksPlaced, ResponseFirst
<1>12. WritesInFlight'
  <2>1. \A t \in Submissions : runs[t] > 0 => runs'[t] > 0
    BY <1>3 DEF TypeOK
  <2> QED BY <1>2, <2>1 DEF redis, PipelineInv, WritesInFlight
<1> QED
  BY <1>5, <1>6, <1>7, <1>8, <1>9, <1>10, <1>11, <1>12 DEF PipelineInv

\* Judgement gives a started submission its response; a panic ends its task.
LEMMA JudgeInv ==
  ASSUME TypeOK, PipelineInv, NEW s \in Submissions, Judge(s) \/ Panic(s)
  PROVE  PipelineInv'
<1>1. /\ task[s] = "run" /\ resp[s] = "none"
      /\ UNCHANGED <<redis, net, post, loop, batch, runs>>
  BY DEF Judge, Panic, EndTask, PipelineInv, ResponseFirst
<1>2. AtMostOnce' /\ IdsInOrder' /\ EnqueuedOnce' /\ TakenIsPassed' /\ BatchesApart'
  BY <1>1 DEF redis, PipelineInv, AtMostOnce, IdsInOrder, EnqueuedOnce, TakenIsPassed,
     BatchesApart
<1>3. TasksPlaced'
  BY <1>1, EnginesAssumption DEF Judge, Panic, EndTask, TypeOK, PipelineInv, TasksPlaced
<1>4. /\ \A t \in Submissions \ {s} : resp'[t] = resp[t] /\ task'[t] = task[t]
      /\ \/ task'[s] = "lost" /\ resp'[s] = "none"
         \/ task'[s] = "push" /\ resp'[s] \in Responses
  BY <1>1 DEF Judge, Panic, EndTask, TypeOK
<1>5. ResponseFirst'
  BY <1>1, <1>4, ResponsesApart DEF redis, PipelineInv, ResponseFirst
<1>6. WritesInFlight'
  <2>1. faults'["write"] = 0 => faults["write"] = 0
    BY FaultCounted DEF Judge, Panic, FaultKinds
  <2>2. \A t \in Submissions : resp[t] # "none" => resp'[t] # "none"
    BY <1>1, <1>4
  <2> QED BY <1>1, <2>1, <2>2 DEF redis, PipelineInv, WritesInFlight
<1> QED BY <1>2, <1>3, <1>5, <1>6 DEF PipelineInv

\* A new group starts past every entry there is; an engine that comes up has
\* neither batch nor tasks, and one that dies leaves none.
LEMMA EngineInv ==
  ASSUME TypeOK, PipelineInv, NEW e \in Engines,
         Setup(e) \/ SetupLost(e) \/ Crash(e)
  PROVE  PipelineInv'
<1>1. UNCHANGED <<hash, stream, eid, lastGen, pel, net, post, resp, runs>>
  BY DEF Setup, SetupLost, Crash, CreateGroup, redis, engine
<1>2. /\ \A f \in Engines : batch'[f] \subseteq batch[f]
      /\ \A f \in Engines : loop'[f] # "dispatch" => batch'[f] = {}
  BY DEF Setup, SetupLost, Crash, engine, TypeOK, PipelineInv, BatchesApart
<1>3. /\ lastId' = lastId \/ (~group /\ lastId' = lastGen)
      /\ lastId' = lastId => (group' => (group \/ lastId = lastGen))
  BY DEF Setup, SetupLost, Crash, CreateGroup, redis
<1>4. AtMostOnce' /\ EnqueuedOnce'
  BY <1>1 DEF PipelineInv, AtMostOnce, EnqueuedOnce
<1>5. IdsInOrder'
  BY <1>1, <1>3 DEF TypeOK, PipelineInv, IdsInOrder
<1>6. TakenIsPassed'
  BY <1>1, <1>2, <1>3 DEF TypeOK, PipelineInv, TakenIsPassed, IdsInOrder
<1>7. BatchesApart'
  BY <1>1, <1>2 DEF PipelineInv, BatchesApart
<1>8. /\ TasksPlaced'
      /\ \A s \in Submissions : task'[s] = task[s] \/ task'[s] = "lost"
  <2>1. CASE Setup(e) \/ SetupLost(e)
    BY <2>1, <1>1 DEF Setup, SetupLost, engine, TypeOK, PipelineInv, TasksPlaced
  <2>2. CASE Crash(e)
    BY <2>2, <1>1, EnginesAssumption DEF Crash, TypeOK, PipelineInv, TasksPlaced
  <2> QED BY <2>1, <2>2
<1>9. ResponseFirst'
  BY <1>1, <1>8 DEF PipelineInv, ResponseFirst
<1>10. WritesInFlight'
  <2>1. faults'["write"] = 0 => faults["write"] = 0
    BY FaultCounted DEF Setup, SetupLost, Crash, FaultKinds
  <2> QED BY <1>1, <2>1 DEF PipelineInv, WritesInFlight
<1> QED BY <1>4, <1>5, <1>6, <1>7, <1>8, <1>9, <1>10 DEF PipelineInv

\* What disappears from Redis, by itself or all at once, does no harm.
LEMMA ForgetInv ==
  ASSUME TypeOK, PipelineInv, Flush \/ \E s \in Submissions : Expire(s)
  PROVE  PipelineInv'
<1>1. /\ UNCHANGED <<eid, lastGen, net, post, engine>>
      /\ stream' \subseteq stream /\ lastId' \in {0, lastId}
      /\ group' => (group /\ lastId' = lastId)
      /\ \A s \in Submissions : hash'[s] \in {"none", hash[s]}
  BY DEF Flush, Expire, TypeOK
<1>2. AtMostOnce' /\ TakenIsPassed' /\ BatchesApart' /\ TasksPlaced'
  BY <1>1 DEF engine, PipelineInv, AtMostOnce, TakenIsPassed, BatchesApart, TasksPlaced
<1>3. IdsInOrder' /\ EnqueuedOnce'
  BY <1>1 DEF engine, TypeOK, PipelineInv, IdsInOrder, EnqueuedOnce
<1>4. ResponseFirst'
  BY <1>1, ResponsesApart DEF engine, PipelineInv, ResponseFirst
<1>5. WritesInFlight'
  <2>1. faults'["write"] = 0 => faults["write"] = 0
    BY FaultCounted DEF Flush, Expire, FaultKinds
  <2> QED BY <1>1, <2>1 DEF engine, PipelineInv, WritesInFlight
<1> QED BY <1>2, <1>3, <1>4, <1>5 DEF PipelineInv

\* PipelineInv is inductive.
LEMMA NextInv == TypeOK /\ PipelineInv /\ [Next]_vars => PipelineInv'
<1> SUFFICES ASSUME TypeOK, PipelineInv, [Next]_vars PROVE PipelineInv'
  OBVIOUS
<1>1. CASE UNCHANGED vars
  BY <1>1 DEF vars, redis, engine, PipelineInv, AtMostOnce, IdsInOrder, EnqueuedOnce,
     TakenIsPassed, BatchesApart, TasksPlaced, ResponseFirst, WritesInFlight
<1>2. CASE Next
  BY <1>1, <1>2, SubmitInv, TaskCallInv, LateInv, ReadInv, DispatchInv, JudgeInv,
     EngineInv, ForgetInv DEF Next, TaskStep, ReadNothing
<1> QED BY <1>1, <1>2

\* The invariant holds in every reachable state, whatever fails.
THEOREM PipelineInvariance == Spec => []PipelineInv
<1>1. Init => TypeOK /\ PipelineInv
  BY InitType, InitInv
<1>2. TypeOK /\ PipelineInv /\ [Next]_vars => (TypeOK /\ PipelineInv)'
  BY NextType, NextInv
<1> QED BY <1>1, <1>2, PTL DEF Spec

\* No submission is judged twice: not after a crash or a restart, not by another
\* engine of the group, not when Redis loses its data or executes a write late.
THEOREM JudgedAtMostOnce == Spec => []AtMostOnce
<1>1. PipelineInv => AtMostOnce
  BY DEF PipelineInv
<1> QED BY <1>1, PipelineInvariance, PTL

\* The result a client reads is the one response of its own judgement, which has
\* been made (push_result_to_redis).
THEOREM ResultOfOwnJudgement == Spec => []ResultIsOwn
<1>1. TypeOK /\ PipelineInv => ResultIsOwn
  BY ResponsesApart DEF TypeOK, PipelineInv, ResponseFirst, ResultIsOwn
<1> QED BY <1>1, TypeCorrect, PipelineInvariance, PTL
=============================================================================
