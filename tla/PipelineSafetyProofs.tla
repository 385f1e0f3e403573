------------------------- MODULE PipelineSafetyProofs -------------------------
(***************************************************************************)
(* What rests on PipelineInv: the semaphore, the order and the deletion of *)
(* entries, the pending lists, how much an engine holds and a fault costs, *)
(* and that Pipeline implements SubmissionService.                         *)
(***************************************************************************)
EXTENDS PipelineRefinement, PipelineProofs

-----------------------------------------------------------------------------
(* The steps, by what they change.                                         *)

Same(e) == loop'[e] = loop[e] /\ batch'[e] = batch[e] /\ permits'[e] = permits[e]

\* Five kinds of steps change what an engine holds.
LEMMA EngineSteps ==
  ASSUME TypeOK, [Next]_vars
  PROVE  \/ UNCHANGED <<loop, batch, permits, on>>
         \/ \E e \in Engines : Setup(e) \/ Crash(e)
         \/ \E e \in Engines, B \in SUBSET Submissions : Read(e, B)
         \/ \E e \in Engines, s \in Submissions : Dispatch(e, s)
         \/ \E s \in Submissions : Ack(s) \/ Panic(s)
<1>1. ASSUME NEW s \in Submissions, Submit(s) \/ Expire(s) \/ Mark(s) \/ Judge(s) \/ Push(s)
      PROVE  UNCHANGED <<loop, batch, permits, on>>
  BY <1>1 DEF Submit, Expire, Mark, Judge, Push, engine
<1>2. ASSUME NEW e \in Engines, SetupLost(e) \/ ReadNothing(e)
      PROVE  UNCHANGED <<loop, batch, permits, on>>
  BY <1>2 DEF SetupLost, ReadNothing, engine, vars
<1>3. ASSUME NEW e \in Engines, NEW B \in SUBSET Submissions, ReadLost(e, B)
      PROVE  UNCHANGED <<loop, batch, permits, on>>
  BY <1>3 DEF ReadLost, engine
<1>4. ASSUME NEW c \in net, Late(c) \/ LateHalfAck(c) \/ Drop(c)
      PROVE  UNCHANGED <<loop, batch, permits, on>>
  BY <1>4 DEF Late, LateHalfAck, Drop, engine
<1>5. CASE Flush \/ UNCHANGED vars
  BY <1>5 DEF Flush, vars, engine
<1> QED BY <1>1, <1>2, <1>3, <1>4, <1>5 DEF Next, TaskStep

\* An engine that a task ends on is the one it was spawned on, and is up.
LEMMA EndOfTask ==
  ASSUME TypeOK, PipelineInv, NEW s \in Submissions, Ack(s) \/ Panic(s)
  PROVE  /\ on[s] \in Engines /\ on' = [on EXCEPT ![s] = NoEngine]
         /\ permits' = [permits EXCEPT ![on[s]] = @ + 1]
         /\ UNCHANGED <<loop, batch>>
BY DEF Ack, Panic, EndTask, PipelineInv, TasksPlaced, TypeOK

\* Ids are given to submissions that had none, which no engine holds.
LEMMA NewIds ==
  ASSUME TypeOK, PipelineInv, [Next]_vars
  PROVE  \A s \in Submissions : eid[s] > 0 => eid'[s] = eid[s]
<1>1. ASSUME NEW s \in Submissions, Enqueue(s), eid[s] = 0
      PROVE  \A t \in Submissions : eid[t] > 0 => eid'[t] = eid[t]
  BY <1>1 DEF Enqueue, TypeOK
<1>2. ASSUME NEW s \in Submissions, Submit(s)
      PROVE  \A t \in Submissions : eid[t] > 0 => eid'[t] = eid[t]
  <2>1. eid[s] = 0
    BY <1>2 DEF Submit, PipelineInv, EnqueuedOnce
  <2> QED BY <1>1, <1>2, <2>1 DEF Submit, Answered, Unanswered, Execute, redis
<1>3. ASSUME NEW s \in Submissions, Expire(s) \/ TaskStep(s) \/ Panic(s)
      PROVE  UNCHANGED eid
  BY <1>3 DEF Expire, TaskStep, Mark, Judge, Push, Ack, Panic, Call, Answered, Unanswered,
     Execute, SetProcessing, PushResult, Acknowledge, redis
<1>4. ASSUME NEW e \in Engines, Setup(e) \/ SetupLost(e) \/ Crash(e) \/ ReadNothing(e)
      PROVE  UNCHANGED eid
  BY <1>4 DEF Setup, SetupLost, CreateGroup, Crash, ReadNothing, redis, vars
<1>5. ASSUME NEW e \in Engines, NEW B \in SUBSET Submissions, Read(e, B) \/ ReadLost(e, B)
      PROVE  UNCHANGED eid
  BY <1>5 DEF Read, ReadLost, Deliver
<1>6. ASSUME NEW e \in Engines, NEW s \in Submissions, Dispatch(e, s)
      PROVE  UNCHANGED eid
  BY <1>6 DEF Dispatch, redis
<1>7. ASSUME NEW c \in net, Late(c) \/ LateHalfAck(c) \/ Drop(c)
      PROVE  \A t \in Submissions : eid[t] > 0 => eid'[t] = eid[t]
  <2>1. PICK op \in {"enqueue", "mark", "push", "ack"}, s \in Submissions : c = <<op, s>>
    BY DEF TypeOK, Commands
  <2>2. CASE Late(c) /\ op = "enqueue"
    <3>1. Enqueue(s) /\ eid[s] = 0
      BY <2>1, <2>2 DEF Late, Execute, PipelineInv, WritesInFlight
    <3> QED BY <1>1, <3>1
  <2>3. CASE ~(Late(c) /\ op = "enqueue")
    BY <1>7, <2>1, <2>3 DEF Late, LateHalfAck, Drop, Execute, SetProcessing, PushResult,
       Acknowledge, redis
  <2> QED BY <2>2, <2>3
<1>8. CASE Flush \/ UNCHANGED vars
  BY <1>8 DEF Flush, vars, redis
<1> QED BY <1>2, <1>3, <1>4, <1>5, <1>6, <1>7, <1>8 DEF Next

\* Faults are only added.
LEMMA FaultsCounted ==
  ASSUME TypeOK, [Next]_vars
  PROVE  \A k \in FaultKinds : faults[k] <= faults'[k]
BY FaultStep DEF Fault, TypeOK

-----------------------------------------------------------------------------
(* The semaphore.                                                          *)

LEMMA TasksFinite == \A e : IsFiniteSet(TasksOf(e)) /\ Cardinality(TasksOf(e)) \in Nat
<1> SUFFICES ASSUME NEW e PROVE IsFiniteSet(TasksOf(e)) /\ Cardinality(TasksOf(e)) \in Nat
  OBVIOUS
<1>1. IsFiniteSet(TasksOf(e))
  BY SubmissionsAssumption, FS_Subset DEF TasksOf
<1> QED BY <1>1, FS_CardinalityType

\* An engine that is down has no tasks.
LEMMA NoTasksDown ==
  ASSUME TypeOK, PipelineInv, NEW e \in Engines, loop[e] = "down"
  PROVE  TasksOf(e) = {} /\ batch[e] = {}
BY EnginesAssumption DEF TasksOf, PipelineInv, TasksPlaced, BatchesApart

LEMMA PermitsStep ==
  ASSUME TypeOK, PipelineInv, PermitsBalance, [Next]_vars
  PROVE  PermitsBalance'
<1> SUFFICES ASSUME NEW e \in Engines, loop'[e] # "down"
             PROVE  permits'[e] + Cardinality(TasksOf(e)') = Permits
  BY DEF PermitsBalance
<1>1. ASSUME Same(e), TasksOf(e)' = TasksOf(e)
      PROVE  permits'[e] + Cardinality(TasksOf(e)') = Permits
  BY <1>1 DEF Same, PermitsBalance
<1>2. CASE UNCHANGED <<loop, batch, permits, on>>
  BY <1>1, <1>2 DEF Same, TasksOf
<1>3. ASSUME NEW f \in Engines, Setup(f)
      PROVE  permits'[e] + Cardinality(TasksOf(e)') = Permits
  <2>1. TasksOf(e)' = TasksOf(e)
    BY <1>3 DEF Setup, TasksOf
  <2>2. CASE e = f
    <3>1. permits'[e] = Permits /\ TasksOf(e)' = {}
      BY <1>3, <2>1, <2>2, NoTasksDown DEF Setup, TypeOK
    <3> QED BY <3>1, FS_EmptySet, BoundsAssumption
  <2>3. CASE e # f
    BY <1>1, <1>3, <2>1, <2>3 DEF Setup, Same, TypeOK
  <2> QED BY <2>2, <2>3
<1>4. ASSUME NEW f \in Engines, Crash(f)
      PROVE  permits'[e] + Cardinality(TasksOf(e)') = Permits
  <2>1. e # f
    BY <1>4 DEF Crash, TypeOK
  <2>2. TasksOf(e)' = TasksOf(e)
    BY <1>4, <2>1, EnginesAssumption DEF Crash, TasksOf, TypeOK
  <2> QED BY <1>1, <1>4, <2>1, <2>2 DEF Crash, Same, TypeOK
<1>5. ASSUME NEW f \in Engines, NEW B \in SUBSET Submissions, Read(f, B)
      PROVE  permits'[e] + Cardinality(TasksOf(e)') = Permits
  <2>1. TasksOf(e)' = TasksOf(e) /\ permits' = permits /\ loop[e] # "down"
    BY <1>5 DEF Read, Deliver, TasksOf, TypeOK
  <2> QED BY <2>1 DEF PermitsBalance
<1>6. ASSUME NEW f \in Engines, NEW s \in Submissions, Dispatch(f, s)
      PROVE  permits'[e] + Cardinality(TasksOf(e)') = Permits
  <2>1. on[s] = NoEngine /\ on' = [on EXCEPT ![s] = f] /\ loop[f] = "dispatch"
    BY <1>6 DEF Dispatch, Acquire, PipelineInv, BatchesApart, TasksPlaced
  <2>2. CASE e = f
    <3>1. permits'[e] = permits[e] - 1 /\ permits[e] \in Nat
      BY <1>6, <2>2 DEF Dispatch, TypeOK
    <3>2. TasksOf(e)' = TasksOf(e) \union {s} /\ s \notin TasksOf(e)
      BY <2>1, <2>2, EnginesAssumption DEF TasksOf, TypeOK
    <3>3. Cardinality(TasksOf(e)') = Cardinality(TasksOf(e)) + 1
      BY <3>2, TasksFinite, FS_AddElement
    <3> QED BY <2>1, <2>2, <3>1, <3>3, TasksFinite DEF PermitsBalance
  <2>3. CASE e # f
    <3>1. TasksOf(e)' = TasksOf(e)
      BY <2>1, <2>3, EnginesAssumption DEF TasksOf, TypeOK
    <3> QED BY <1>1, <1>6, <2>3, <3>1 DEF Dispatch, Same, TypeOK
  <2> QED BY <2>2, <2>3
<1>7. ASSUME NEW s \in Submissions, Ack(s) \/ Panic(s)
      PROVE  permits'[e] + Cardinality(TasksOf(e)') = Permits
  <2>1. /\ on[s] \in Engines /\ on' = [on EXCEPT ![s] = NoEngine]
        /\ permits' = [permits EXCEPT ![on[s]] = @ + 1] /\ loop' = loop /\ batch' = batch
    BY <1>7, EndOfTask
  <2>2. CASE e = on[s]
    <3>1. permits'[e] = permits[e] + 1 /\ permits[e] \in Nat
      BY <2>1, <2>2 DEF TypeOK
    <3>2. TasksOf(e)' = TasksOf(e) \ {s} /\ s \in TasksOf(e)
      BY <2>1, <2>2, EnginesAssumption DEF TasksOf, TypeOK
    <3>3. Cardinality(TasksOf(e)') = Cardinality(TasksOf(e)) - 1
      BY <3>2, TasksFinite, FS_RemoveElement
    <3> QED BY <2>1, <3>1, <3>3, TasksFinite DEF PermitsBalance
  <2>3. CASE e # on[s]
    <3>1. TasksOf(e)' = TasksOf(e)
      BY <2>1, <2>3, EnginesAssumption DEF TasksOf, TypeOK
    <3> QED BY <1>1, <2>1, <2>3, <3>1 DEF Same, TypeOK
  <2> QED BY <2>2, <2>3
<1> QED BY <1>2, <1>3, <1>4, <1>5, <1>6, <1>7, EngineSteps

\* No permit of a running engine is lost or made up, whatever ends a task
\* (execute_submissions_detached).
THEOREM PermitsAreBalanced == Spec => []PermitsBalance
<1>1. Init => PermitsBalance
  BY DEF Init, PermitsBalance
<1>2. TypeOK /\ PipelineInv /\ PermitsBalance /\ [Next]_vars => PermitsBalance'
  BY PermitsStep
<1> QED BY <1>1, <1>2, TypeCorrect, PipelineInvariance, PTL DEF Spec
-----------------------------------------------------------------------------
(* The order of the entries.                                               *)

LEMMA OrderStep ==
  ASSUME TypeOK, PipelineInv, StreamOrder, [Next]_vars
  PROVE  StreamOrder'
<1> SUFFICES ASSUME NEW e \in Engines, NEW s \in batch'[e], NEW t \in Submissions, on'[t] = e
             PROVE  eid'[t] < eid'[s]
  BY DEF StreamOrder, TasksOf
<1>1. ASSUME s \in batch[e], on[t] = e PROVE eid'[t] < eid'[s]
  <2>1. eid[t] < eid[s] /\ eid[s] > 0
    BY <1>1 DEF StreamOrder, TasksOf, PipelineInv, BatchesApart
  <2>2. eid[t] > 0
    BY <1>1, EnginesAssumption DEF TypeOK, PipelineInv, TasksPlaced, EnqueuedOnce
  <2> QED BY <1>1, <2>1, <2>2, NewIds DEF TypeOK
<1>2. CASE UNCHANGED <<loop, batch, permits, on>>
  BY <1>1, <1>2
<1>3. ASSUME NEW f \in Engines, Setup(f) \/ Crash(f) PROVE eid'[t] < eid'[s]
  BY <1>1, <1>3, EnginesAssumption DEF Setup, Crash, TypeOK
<1>4. ASSUME NEW f \in Engines, NEW B \in SUBSET Submissions, Read(f, B)
      PROVE  eid'[t] < eid'[s]
  <2>1. on[t] = e /\ eid' = eid
    BY <1>4 DEF Read, Deliver
  <2>2. CASE e # f
    BY <1>1, <1>4, <2>1, <2>2 DEF Read, TypeOK
  <2>3. CASE e = f
    <3>1. s \in B /\ eid[s] > lastId /\ group
      BY <1>4, <2>3 DEF Read, Deliver, NextBatch, Deliverable, TypeOK
    <3>2. eid[t] <= lastId
      BY <2>1, <3>1, EnginesAssumption DEF TypeOK, PipelineInv, TasksPlaced, TakenIsPassed
    <3> QED BY <2>1, <3>1, <3>2 DEF TypeOK
  <2> QED BY <2>2, <2>3
<1>5. ASSUME NEW f \in Engines, NEW u \in Submissions, Dispatch(f, u)
      PROVE  eid'[t] < eid'[s]
  <2>1. /\ eid' = eid /\ on' = [on EXCEPT ![u] = f] /\ s \in batch[e]
        /\ e = f => s # u
    BY <1>5 DEF Dispatch, redis, TypeOK
  <2>2. CASE t # u
    BY <1>1, <2>1, <2>2 DEF TypeOK
  <2>3. CASE t = u
    <3>1. e = f /\ s # u
      BY <2>1, <2>3 DEF TypeOK
    <3>2. eid[u] <= eid[s] /\ eid[s] > 0
      BY <1>5, <2>1, <3>1 DEF Dispatch, Acquire, PipelineInv, BatchesApart
    <3>3. s \in Submissions
      BY <2>1 DEF TypeOK
    <3>4. eid[u] # eid[s]
      BY <3>1, <3>2, <3>3 DEF PipelineInv, IdsInOrder
    <3> QED BY <2>1, <2>3, <3>2, <3>3, <3>4 DEF TypeOK
  <2> QED BY <2>2, <2>3
<1>6. ASSUME NEW u \in Submissions, Ack(u) \/ Panic(u) PROVE eid'[t] < eid'[s]
  <2>1. on' = [on EXCEPT ![u] = NoEngine] /\ batch' = batch
    BY <1>6, EndOfTask
  <2> QED BY <1>1, <2>1, EnginesAssumption DEF TypeOK
<1> QED BY <1>2, <1>3, <1>4, <1>5, <1>6, EngineSteps

\* What an engine judges is older than all it still has in its batch, across
\* reads, panics and restarts (main loop, execute_submissions_detached).
THEOREM StartedInOrder == Spec => []StreamOrder
<1>1. Init => StreamOrder
  BY DEF Init, StreamOrder
<1>2. TypeOK /\ PipelineInv /\ StreamOrder /\ [Next]_vars => StreamOrder'
  BY OrderStep
<1> QED BY <1>1, <1>2, TypeCorrect, PipelineInvariance, PTL DEF Spec

-----------------------------------------------------------------------------
(* The deletion of entries and the status.                                 *)

\* Who deletes an entry has its response.
LEMMA AcknowledgedIsJudged ==
  ASSUME TypeOK, PipelineInv, NEW s \in Submissions,
         \/ Ack(s)
         \/ \E c \in net : c = <<"ack", s>>
  PROVE  resp[s] # "none"
BY DEF Ack, PipelineInv, ResponseFirst, WritesInFlight

\* Apart from Flush, a step takes at most one entry off the stream, and then
\* the response to it is known.
LEMMA StreamStep ==
  ASSUME TypeOK, PipelineInv, [Next]_vars, ~Flush
  PROVE  \A s \in Submissions :
           \/ s \in stream => s \in stream'
           \/ resp[s] # "none"
<1> SUFFICES ASSUME NEW s \in Submissions, s \in stream, s \notin stream'
             PROVE  resp[s] # "none"
  OBVIOUS
<1>1. ASSUME NEW t \in Submissions, Submit(t) \/ Expire(t) \/ Mark(t) \/ Judge(t) \/ Push(t) \/ Panic(t)
      PROVE  FALSE
  BY <1>1 DEF Submit, Expire, Mark, Judge, Push, Panic, Call, Answered, Unanswered, Execute,
     Enqueue, SetProcessing, PushResult, redis
<1>2. ASSUME NEW t \in Submissions, Ack(t)
      PROVE  resp[s] # "none"
  <2>1. t = s
    BY <1>2 DEF Ack, Call, Answered, Unanswered, Execute, Acknowledge, redis
  <2> QED BY <1>2, <2>1, AcknowledgedIsJudged
<1>3. ASSUME NEW e \in Engines, Setup(e) \/ SetupLost(e) \/ Crash(e) \/ ReadNothing(e)
      PROVE  FALSE
  BY <1>3 DEF Setup, SetupLost, CreateGroup, Crash, ReadNothing, redis, vars
<1>4. ASSUME NEW e \in Engines, NEW B \in SUBSET Submissions, Read(e, B) \/ ReadLost(e, B)
      PROVE  FALSE
  BY <1>4 DEF Read, ReadLost, Deliver
<1>5. ASSUME NEW e \in Engines, NEW t \in Submissions, Dispatch(e, t)
      PROVE  FALSE
  BY <1>5 DEF Dispatch, redis
<1>6. ASSUME NEW c \in net, Late(c) \/ LateHalfAck(c) \/ Drop(c)
      PROVE  resp[s] # "none"
  <2>1. PICK op \in {"enqueue", "mark", "push", "ack"}, t \in Submissions : c = <<op, t>>
    BY DEF TypeOK, Commands
  <2>2. op = "ack" /\ t = s
    BY <1>6, <2>1 DEF Late, LateHalfAck, Drop, Execute, Enqueue, SetProcessing, PushResult,
       Acknowledge, redis
  <2> QED BY <2>1, <2>2, AcknowledgedIsJudged
<1>7. CASE UNCHANGED vars
  BY <1>7 DEF vars, redis
<1> QED BY <1>1, <1>2, <1>3, <1>4, <1>5, <1>6, <1>7 DEF Next, TaskStep

\* A response, once there, stays.
LEMMA ResponseStays ==
  ASSUME TypeOK, PipelineInv, [Next]_vars
  PROVE  \A s \in Submissions : resp[s] # "none" => resp'[s] = resp[s]
<1>1. ASSUME NEW s \in Submissions, Judge(s)
      PROVE  \A t \in Submissions : resp[t] # "none" => resp'[t] = resp[t]
  BY <1>1 DEF Judge, PipelineInv, ResponseFirst, TypeOK
<1>2. CASE UNCHANGED resp
  BY <1>2
<1>3. ASSUME NEW s \in Submissions, Submit(s) \/ Expire(s) \/ Mark(s) \/ Push(s) \/ Ack(s) \/ Panic(s)
      PROVE  UNCHANGED resp
  BY <1>3 DEF Submit, Expire, Mark, Push, Ack, Panic, EndTask, engine
<1>4. ASSUME NEW e \in Engines, Setup(e) \/ SetupLost(e) \/ Crash(e) \/ ReadNothing(e)
      PROVE  UNCHANGED resp
  BY <1>4 DEF Setup, SetupLost, Crash, ReadNothing, engine, vars
<1>5. ASSUME NEW e \in Engines, NEW B \in SUBSET Submissions, Read(e, B) \/ ReadLost(e, B)
      PROVE  UNCHANGED resp
  BY <1>5 DEF Read, ReadLost, engine
<1>6. ASSUME NEW e \in Engines, NEW s \in Submissions, Dispatch(e, s)
      PROVE  UNCHANGED resp
  BY <1>6 DEF Dispatch
<1>7. ASSUME NEW c \in net, Late(c) \/ LateHalfAck(c) \/ Drop(c)
      PROVE  UNCHANGED resp
  BY <1>7 DEF Late, LateHalfAck, Drop, engine
<1>8. CASE Flush \/ UNCHANGED vars
  BY <1>8 DEF Flush, vars, engine
<1> QED BY <1>1, <1>2, <1>3, <1>4, <1>5, <1>6, <1>7, <1>8 DEF Next, TaskStep

\* An id is given with the entry.
LEMMA NewIdIsInStream ==
  ASSUME TypeOK, [Next]_vars
  PROVE  \A s \in Submissions : eid[s] = 0 /\ eid'[s] > 0 => s \in stream'
<1>1. ASSUME NEW s \in Submissions, Submit(s) \/ Expire(s) \/ TaskStep(s) \/ Panic(s)
      PROVE  \A t \in Submissions : eid[t] = 0 /\ eid'[t] > 0 => t \in stream'
  BY <1>1 DEF Submit, Expire, TaskStep, Mark, Judge, Push, Ack, Panic, Call, Answered, Unanswered,
     Execute, Enqueue, SetProcessing, PushResult, Acknowledge, redis, TypeOK
<1>2. ASSUME NEW e \in Engines, Setup(e) \/ SetupLost(e) \/ Crash(e) \/ ReadNothing(e)
      PROVE  UNCHANGED eid
  BY <1>2 DEF Setup, SetupLost, CreateGroup, Crash, ReadNothing, redis, vars
<1>3. ASSUME NEW e \in Engines, NEW B \in SUBSET Submissions, Read(e, B) \/ ReadLost(e, B)
      PROVE  UNCHANGED eid
  BY <1>3 DEF Read, ReadLost, Deliver
<1>4. ASSUME NEW e \in Engines, NEW s \in Submissions, Dispatch(e, s)
      PROVE  UNCHANGED eid
  BY <1>4 DEF Dispatch, redis
<1>5. ASSUME NEW c \in net, Late(c) \/ LateHalfAck(c) \/ Drop(c)
      PROVE  \A t \in Submissions : eid[t] = 0 /\ eid'[t] > 0 => t \in stream'
  BY <1>5 DEF Late, LateHalfAck, Drop, Execute, Enqueue, SetProcessing, PushResult,
     Acknowledge, redis, TypeOK, Commands
<1>6. CASE Flush \/ UNCHANGED vars
  BY <1>6 DEF Flush, vars, redis
<1> QED BY <1>1, <1>2, <1>3, <1>4, <1>5, <1>6 DEF Next

\* Whatever fails but Redis itself, an entry is deleted only when its response
\* has been computed (acknowledge_stream_message).
THEOREM NothingUnjudgedDeleted == Spec => []NoUnjudgedDeletion
<1>1. Init => NoUnjudgedDeletion
  BY DEF Init, NoUnjudgedDeletion
<1>2. ASSUME TypeOK, PipelineInv, NoUnjudgedDeletion, [Next]_vars
      PROVE  NoUnjudgedDeletion'
  <2> SUFFICES ASSUME faults'["flush"] = 0, NEW s \in Submissions, eid'[s] > 0, s \notin stream'
               PROVE  resp'[s] # "none"
    BY DEF NoUnjudgedDeletion
  <2>1. ~Flush
    BY <1>2 DEF Flush, Fault, TypeOK, FaultKinds
  <2>2. faults["flush"] = 0
    BY <1>2, FaultsCounted DEF FaultKinds, TypeOK
  <2>3. eid[s] > 0
    BY <1>2, NewIdIsInStream DEF TypeOK
  <2>4. resp[s] # "none"
    BY <1>2, <2>1, <2>2, <2>3, StreamStep DEF NoUnjudgedDeletion
  <2> QED BY <1>2, <2>4, ResponseStays
<1> QED BY <1>1, <1>2, TypeCorrect, PipelineInvariance, PTL DEF Spec
-----------------------------------------------------------------------------
(* The status.                                                             *)

\* Whatever Redis executes for a submission says where the submission is.
LEMMA StatusWritten ==
  ASSUME TypeOK, PipelineInv, NEW op, NEW t \in Submissions, Execute(op, t),
         op = "enqueue" => eid[t] = 0,
         op = "mark" => resp[t] = "none" \/ <<"mark", t>> \in net \ net',
         op = "push" => resp[t] # "none",
         NEW s \in Submissions
  PROVE  \/ hash'[s] = hash[s]
         \/ hash'[s] = "pending" /\ eid[s] = 0
         \/ hash'[s] = "processing" /\ (resp[s] = "none" \/ <<"mark", s>> \in net \ net')
         \/ hash'[s] = resp[s] /\ resp[s] # "none"
BY DEF Execute, Enqueue, SetProcessing, PushResult, Acknowledge, TypeOK

\* A status changes to nothing, or as the submission is: not enqueued before,
\* not judged unless the mark was late, or judged.
LEMMA StatusStep ==
  ASSUME TypeOK, PipelineInv, [Next]_vars, NEW s \in Submissions
  PROVE  \/ hash'[s] \in {hash[s], "none"}
         \/ hash'[s] = "pending" /\ eid[s] = 0
         \/ hash'[s] = "processing" /\ (resp[s] = "none" \/ <<"mark", s>> \in net \ net')
         \/ hash'[s] = resp[s] /\ resp[s] # "none"
<1> DEFINE Written ==
      \/ hash'[s] \in {hash[s], "none"}
      \/ hash'[s] = "pending" /\ eid[s] = 0
      \/ hash'[s] = "processing" /\ (resp[s] = "none" \/ <<"mark", s>> \in net \ net')
      \/ hash'[s] = resp[s] /\ resp[s] # "none"
<1>1. ASSUME NEW op \in {"enqueue", "mark", "push", "ack"}, NEW t \in Submissions, Call(op, t),
             op = "enqueue" => eid[t] = 0,
             op = "mark" => resp[t] = "none",
             op = "push" => resp[t] # "none"
      PROVE  Written
  <2>1. CASE Answered(op, t)
    BY <1>1, <2>1, StatusWritten DEF Answered
  <2>2. CASE Unanswered(op, t)
    BY <2>2 DEF Unanswered, redis
  <2> QED BY <1>1, <2>1, <2>2 DEF Call
<1>2. ASSUME NEW t \in Submissions, Submit(t)
      PROVE  Written
  <2>1. Call("enqueue", t) /\ eid[t] = 0
    BY <1>2 DEF Submit, Call, PipelineInv, EnqueuedOnce
  <2> QED BY <1>1, <2>1
<1>3. ASSUME NEW t \in Submissions, Mark(t) \/ Push(t) \/ Ack(t)
      PROVE  Written
  <2>1. PICK op \in {"mark", "push", "ack"} :
          /\ Call(op, t)
          /\ op = "mark" => resp[t] = "none"
          /\ op = "push" => resp[t] # "none"
    BY <1>3 DEF Mark, Push, Ack, PipelineInv, ResponseFirst
  <2> QED BY <1>1, <2>1
<1>4. ASSUME NEW t \in Submissions, Expire(t) \/ Judge(t) \/ Panic(t)
      PROVE  Written
  BY <1>4 DEF Expire, Judge, Panic, redis, TypeOK
<1>5. ASSUME NEW e \in Engines, Setup(e) \/ SetupLost(e) \/ Crash(e) \/ ReadNothing(e)
      PROVE  Written
  BY <1>5 DEF Setup, SetupLost, CreateGroup, Crash, ReadNothing, redis, vars
<1>6. ASSUME NEW e \in Engines, NEW B \in SUBSET Submissions, Read(e, B) \/ ReadLost(e, B)
      PROVE  Written
  BY <1>6 DEF Read, ReadLost, Deliver
<1>7. ASSUME NEW e \in Engines, NEW t \in Submissions, Dispatch(e, t)
      PROVE  Written
  BY <1>7 DEF Dispatch, redis
<1>8. ASSUME NEW c \in net, Late(c) \/ LateHalfAck(c) \/ Drop(c)
      PROVE  Written
  <2>1. PICK op \in {"enqueue", "mark", "push", "ack"}, t \in Submissions : c = <<op, t>>
    BY DEF TypeOK, Commands
  <2>2. CASE Late(c)
    <3>1. /\ Execute(op, t) /\ <<op, t>> \in net \ net'
          /\ op = "enqueue" => eid[t] = 0
          /\ op = "push" => resp[t] # "none"
      BY <2>1, <2>2 DEF Late, PipelineInv, WritesInFlight
    <3> QED BY <3>1, StatusWritten
  <2>3. CASE LateHalfAck(c) \/ Drop(c)
    BY <2>3 DEF LateHalfAck, Drop, redis
  <2> QED BY <1>8, <2>2, <2>3
<1>9. CASE Flush \/ UNCHANGED vars
  BY <1>9 DEF Flush, vars, redis
<1> QED BY <1>2, <1>3, <1>4, <1>5, <1>6, <1>7, <1>8, <1>9 DEF Next, TaskStep

\* While every write is answered the status a client polls never goes back,
\* through crashes, panics and a Redis that loses its data.
THEOREM StatusGoesForward == Spec => ForwardStatus
<1>1. ASSUME TypeOK, PipelineInv, [Next]_vars, faults["write"] = 0, NEW s \in Submissions
      PROVE  hash'[s] = "none" \/ Rank(hash[s]) <= Rank(hash'[s])
  <2>1. net = {}
    BY <1>1 DEF PipelineInv, WritesInFlight
  <2>2. hash[s] \in {"none", "pending", "processing"} \union Responses
    BY <1>1 DEF TypeOK, Statuses
  <2>3. \A r \in Responses : Rank(r) = 3
    BY ResponsesApart DEF Rank
  <2>4. Rank("none") = 0 /\ Rank("pending") = 1 /\ Rank("processing") = 2
    BY DEF Rank
  <2>5. hash[s] \in Responses => resp[s] # "none"
    BY <1>1, ResponsesApart DEF PipelineInv, ResponseFirst
  <2>6. eid[s] = 0 => hash[s] = "none"
    BY <1>1 DEF PipelineInv, EnqueuedOnce
  <2>7. resp[s] # "none" => resp[s] \in Responses
    BY <1>1 DEF TypeOK
  <2>8. Rank(hash[s]) \in 0..3
    BY <2>2, <2>3, <2>4
  <2>9. \/ hash'[s] \in {hash[s], "none"}
        \/ hash'[s] = "pending" /\ eid[s] = 0
        \/ hash'[s] = "processing" /\ resp[s] = "none"
        \/ hash'[s] = resp[s] /\ resp[s] # "none"
    BY <1>1, <2>1, StatusStep
  <2>10. hash'[s] = "processing" /\ resp[s] = "none" => Rank(hash[s]) <= 2
    BY <2>2, <2>4, <2>5
  <2> QED BY <2>3, <2>4, <2>6, <2>7, <2>8, <2>9, <2>10
<1>2. TypeOK /\ PipelineInv /\ [Next]_vars =>
        [faults["write"] = 0 =>
           \A s \in Submissions : hash'[s] = "none" \/ Rank(hash[s]) <= Rank(hash'[s])]_hash
  BY <1>1
<1> QED BY <1>2, TypeCorrect, PipelineInvariance, PTL DEF Spec, ForwardStatus

\* A stored result is replaced by no other result and by no "pending", however
\* late Redis executes what was sent to it (push_result_to_redis, enqueue_task),
\* and by "processing" only when a mark is executed late.
THEOREM ResultIsStable == Spec => ResultStable
<1>1. ASSUME TypeOK, PipelineInv, [Next]_vars, NEW s \in Submissions, hash[s] \in Responses
      PROVE  \/ hash'[s] \in {hash[s], "none"}
             \/ hash'[s] = "processing" /\ <<"mark", s>> \in net \ net'
  <2>1. hash[s] = resp[s] /\ resp[s] # "none" /\ eid[s] # 0
    BY <1>1, ResponsesApart DEF PipelineInv, ResponseFirst, EnqueuedOnce
  <2> QED BY <1>1, <2>1, StatusStep
<1>2. TypeOK /\ PipelineInv /\ [Next]_vars =>
        [\A s \in Submissions : hash[s] \in Responses =>
           \/ hash'[s] \in {hash[s], "none"}
           \/ hash'[s] = "processing" /\ <<"mark", s>> \in net \ net']_hash
  BY <1>1
<1> QED BY <1>2, TypeCorrect, PipelineInvariance, PTL DEF Spec, ResultStable
-----------------------------------------------------------------------------
(* How much an engine holds.                                               *)

\* The batch of a read is no longer than its COUNT.
BatchFits == BatchLen > 0 => \A e \in Engines : Cardinality(batch[e]) <= BatchLen

\* A part of a finite set of submissions.
LEMMA PartOf ==
  ASSUME NEW S \in SUBSET Submissions, NEW T \in SUBSET S
  PROVE  /\ IsFiniteSet(S) /\ IsFiniteSet(T)
         /\ Cardinality(S) \in Nat /\ Cardinality(T) \in Nat
         /\ Cardinality(T) <= Cardinality(S)
<1>1. IsFiniteSet(S) /\ IsFiniteSet(T)
  BY SubmissionsAssumption, FS_Subset
<1> QED BY <1>1, FS_CardinalityType, FS_Subset

LEMMA BatchStep ==
  ASSUME TypeOK, PipelineInv, BatchFits, [Next]_vars
  PROVE  BatchFits'
<1> SUFFICES ASSUME BatchLen > 0, NEW e \in Engines PROVE Cardinality(batch'[e]) <= BatchLen
  BY DEF BatchFits
<1>1. batch[e] \in SUBSET Submissions /\ Cardinality(batch[e]) <= BatchLen /\ BatchLen \in Nat
  BY BoundsAssumption DEF BatchFits, TypeOK
<1>2. ASSUME batch'[e] \subseteq batch[e] PROVE Cardinality(batch'[e]) <= BatchLen
  BY <1>1, <1>2, PartOf
<1>3. ASSUME NEW f \in Engines, NEW B \in SUBSET Submissions, Read(f, B)
      PROVE  Cardinality(batch'[e]) <= BatchLen
  <2>1. CASE e = f
    <3>1. batch'[e] \subseteq B /\ Cardinality(B) <= BatchLen
      BY <1>1, <1>3, <2>1 DEF Read, Deliver, NextBatch, TypeOK
    <3> QED BY <1>1, <3>1, PartOf
  <2>2. CASE e # f
    BY <1>2, <1>3, <2>2 DEF Read, TypeOK
  <2> QED BY <2>1, <2>2
<1>4. ASSUME NEW f \in Engines, NEW s \in Submissions, Dispatch(f, s)
      PROVE  batch'[e] \subseteq batch[e]
  BY <1>4 DEF Dispatch, TypeOK
<1>5. ASSUME NEW f \in Engines, Setup(f) \/ Crash(f)
      PROVE  batch'[e] \subseteq batch[e]
  BY <1>5 DEF Setup, Crash, TypeOK
<1>6. ASSUME NEW s \in Submissions, Ack(s) \/ Panic(s)
      PROVE  batch' = batch
  BY <1>6, EndOfTask
<1> QED BY <1>2, <1>3, <1>4, <1>5, <1>6, EngineSteps

LEMMA HeldAtMost ==
  ASSUME TypeOK, PipelineInv, PermitsBalance, BatchFits, BatchLen > 0, NEW e \in Engines
  PROVE  Cardinality(batch[e]) + Cardinality(TasksOf(e)) <= BatchLen + Permits
<1>1. Cardinality(batch[e]) <= BatchLen /\ Cardinality(batch[e]) \in Nat
  BY PartOf DEF BatchFits, TypeOK
<1>2. Cardinality(TasksOf(e)) \in Nat /\ BatchLen \in Nat /\ Permits \in Nat
  BY TasksFinite, BoundsAssumption
<1>3. CASE loop[e] = "down"
  <2>1. TasksOf(e) = {}
    BY <1>3, NoTasksDown
  <2> QED BY <1>1, <1>2, <2>1, FS_EmptySet
<1>4. CASE loop[e] # "down"
  <2>1. permits[e] + Cardinality(TasksOf(e)) = Permits /\ permits[e] \in Nat
    BY <1>4 DEF PermitsBalance, TypeOK
  <2> QED BY <1>1, <1>2, <2>1
<1> QED BY <1>3, <1>4

LEMMA InitBalance == Init => PermitsBalance /\ BatchFits
<1> SUFFICES ASSUME Init PROVE PermitsBalance /\ BatchFits
  OBVIOUS
<1>1. PermitsBalance
  BY DEF Init, PermitsBalance
<1>2. Cardinality({}) = 0
  BY FS_EmptySet
<1>3. BatchFits
  BY <1>2, BoundsAssumption DEF Init, BatchFits
<1> QED BY <1>1, <1>3

\* An engine never holds more than a batch and a full semaphore of entries, so
\* what it has not read waits in Redis (main loop, execute_submissions_detached).
THEOREM EngineIsBounded == Spec => []Backpressure
<1>1. TypeOK /\ PipelineInv /\ PermitsBalance /\ BatchFits => Backpressure
  BY HeldAtMost DEF Backpressure
<1>2. TypeOK /\ PipelineInv /\ PermitsBalance /\ BatchFits /\ [Next]_vars =>
        PermitsBalance' /\ BatchFits'
  BY PermitsStep, BatchStep
<1> QED BY <1>1, <1>2, InitBalance, TypeCorrect, PipelineInvariance, PTL DEF Spec

-----------------------------------------------------------------------------
(* What a fault costs.                                                     *)

\* The entries each kind of step may leave pending with nobody to serve them.
LEMMA StrandedStep ==
  ASSUME TypeOK, PipelineInv, [Next]_vars
  PROVE  \/ Stranded' \subseteq Stranded
         \/ \E e \in Engines : /\ Crash(e)
                               /\ Stranded' \subseteq Stranded \union (batch[e] \union TasksOf(e))
         \/ \E e \in Engines, B \in SUBSET Submissions :
              ReadLost(e, B) /\ Stranded' \subseteq Stranded \union B
         \/ \E s \in Submissions : /\ Panic(s) \/ (Ack(s) /\ Unanswered("ack", s))
                                   /\ Stranded' \subseteq Stranded \union {s}
<1> USE DEF Stranded, TypeOK
<1>1. ASSUME UNCHANGED <<batch, on>>, \A s \in Submissions : pel'[s] \in {pel[s], NoEngine}
      PROVE  Stranded' \subseteq Stranded
  BY <1>1
<1>2. ASSUME NEW s \in Submissions, Submit(s) \/ Expire(s) \/ Mark(s) \/ Judge(s) \/ Push(s)
      PROVE  UNCHANGED <<batch, on, pel>>
  BY <1>2 DEF Submit, Expire, Mark, Judge, Push, Call, Answered, Unanswered, Execute, Enqueue,
     SetProcessing, PushResult, Acknowledge, redis, engine
<1>3. ASSUME NEW c \in net, Late(c) \/ LateHalfAck(c) \/ Drop(c)
      PROVE  UNCHANGED <<batch, on>> /\ \A s \in Submissions : pel'[s] \in {pel[s], NoEngine}
  BY <1>3 DEF Late, LateHalfAck, Drop, Execute, Enqueue, SetProcessing, PushResult,
     Acknowledge, redis, engine, Commands
<1>4. ASSUME NEW e \in Engines, Setup(e) \/ SetupLost(e) \/ ReadNothing(e)
      PROVE  UNCHANGED <<batch, on, pel>>
  BY <1>4 DEF Setup, SetupLost, ReadNothing, CreateGroup, engine, redis, vars
<1>5. CASE Flush \/ UNCHANGED vars
  BY <1>5 DEF Flush, engine, vars, redis
<1>6. ASSUME NEW e \in Engines, Crash(e)
      PROVE  Stranded' \subseteq Stranded \union (batch[e] \union TasksOf(e))
  BY <1>6 DEF Crash, TasksOf, redis
<1>7. ASSUME NEW e \in Engines, NEW B \in SUBSET Submissions, ReadLost(e, B)
      PROVE  Stranded' \subseteq Stranded \union B
  BY <1>7 DEF ReadLost, Deliver, engine
<1>8. ASSUME NEW e \in Engines, NEW B \in SUBSET Submissions, Read(e, B)
      PROVE  Stranded' \subseteq Stranded
  <2>1. /\ pel' = [s \in Submissions |-> IF s \in B THEN e ELSE pel[s]]
        /\ batch' = [batch EXCEPT ![e] = B \ Malformed] /\ on' = on /\ loop[e] = "read"
    BY <1>8 DEF Read, Deliver
  <2>2. batch[e] = {}
    BY <2>1 DEF PipelineInv, BatchesApart
  <2> SUFFICES ASSUME NEW s \in Stranded' PROVE s \in Stranded
    OBVIOUS
  <2>3. s \notin B
    BY <2>1
  <2> QED BY <2>1, <2>2, <2>3
<1>9. ASSUME NEW e \in Engines, NEW s \in Submissions, Dispatch(e, s)
      PROVE  Stranded' \subseteq Stranded
  BY <1>9, EnginesAssumption DEF Dispatch, redis
<1>10. ASSUME NEW s \in Submissions, Panic(s)
       PROVE  Stranded' \subseteq Stranded \union {s}
  BY <1>10 DEF Panic, EndTask, redis
<1>11. ASSUME NEW s \in Submissions, Ack(s)
       PROVE  \/ Stranded' \subseteq Stranded
              \/ Unanswered("ack", s) /\ Stranded' \subseteq Stranded \union {s}
  <2>1. CASE Answered("ack", s)
    BY <1>11, <2>1 DEF Ack, EndTask, Answered, Execute, Acknowledge
  <2>2. CASE Unanswered("ack", s)
    BY <1>11, <2>2 DEF Ack, EndTask, Unanswered, redis
  <2> QED BY <1>11, <2>1, <2>2 DEF Ack, Call
<1> QED BY <1>1, <1>2, <1>3, <1>4, <1>5, <1>6, <1>7, <1>8, <1>9, <1>10, <1>11 DEF Next, TaskStep

\* The entries that the faults so far may have cost.
Cost(f) == f["panic"] + f["write"] + BatchLen * f["read"] + (BatchLen + Permits) * f["crash"]

LEMMA Product == \A a, b \in Nat : a * (b + 1) = a * b + a /\ a * b \in Nat
OBVIOUS

\* What one more fault costs.
LEMMA CostOfFault ==
  ASSUME TypeOK
  PROVE  /\ Cost(faults) \in Nat
         /\ Fault("panic") => Cost(faults') = Cost(faults) + 1
         /\ Fault("write") => Cost(faults') = Cost(faults) + 1
         /\ Fault("read")  => Cost(faults') = Cost(faults) + BatchLen
         /\ Fault("crash") => Cost(faults') = Cost(faults) + (BatchLen + Permits)
<1>1. /\ faults["panic"] \in Nat /\ faults["write"] \in Nat
      /\ faults["read"] \in Nat /\ faults["crash"] \in Nat
      /\ BatchLen \in Nat /\ BatchLen + Permits \in Nat
  BY BoundsAssumption DEF TypeOK, FaultKinds
<1>2. BatchLen * faults["read"] \in Nat /\ (BatchLen + Permits) * faults["crash"] \in Nat
  BY <1>1, Product
<1>3. Cost(faults) \in Nat
  BY <1>1, <1>2 DEF Cost
<1>4. ASSUME NEW k \in FaultKinds, Fault(k)
      PROVE  /\ faults'[k] = faults[k] + 1
             /\ \A j \in FaultKinds \ {k} : faults'[j] = faults[j]
  BY <1>4 DEF Fault, TypeOK
<1>5. ASSUME NEW k \in {"panic", "write"}, Fault(k)
      PROVE  Cost(faults') = Cost(faults) + 1
  <2>1. faults'["read"] = faults["read"] /\ faults'["crash"] = faults["crash"]
    BY <1>4, <1>5 DEF FaultKinds
  <2>2. faults'["panic"] + faults'["write"] = faults["panic"] + faults["write"] + 1
    BY <1>1, <1>4, <1>5 DEF FaultKinds
  <2>3. Cost(faults') = faults'["panic"] + faults'["write"]
                          + BatchLen * faults["read"] + (BatchLen + Permits) * faults["crash"]
    BY <2>1 DEF Cost
  <2> QED BY <1>1, <1>2, <2>2, <2>3 DEF Cost
<1>6. Fault("read") => Cost(faults') = Cost(faults) + BatchLen
  <2> SUFFICES ASSUME Fault("read") PROVE Cost(faults') = Cost(faults) + BatchLen
    OBVIOUS
  <2>1. BatchLen * faults'["read"] = BatchLen * faults["read"] + BatchLen
    BY <1>1, <1>4, Product DEF FaultKinds
  <2> QED BY <1>1, <1>2, <1>4, <2>1 DEF Cost, FaultKinds
<1>7. Fault("crash") => Cost(faults') = Cost(faults) + (BatchLen + Permits)
  <2> SUFFICES ASSUME Fault("crash") PROVE Cost(faults') = Cost(faults) + (BatchLen + Permits)
    OBVIOUS
  <2>1. (BatchLen + Permits) * faults'["crash"] = (BatchLen + Permits) * faults["crash"] + (BatchLen + Permits)
    BY <1>1, <1>4, Product DEF FaultKinds
  <2> QED BY <1>1, <1>2, <1>4, <2>1 DEF Cost, FaultKinds
<1> QED BY <1>3, <1>5, <1>6, <1>7

\* Faults make the cost no smaller.
LEMMA CostGrows ==
  ASSUME TypeOK, [Next]_vars
  PROVE  Cost(faults) <= Cost(faults')
<1>1. TypeOK'
  BY NextType
<1>2. \A k \in FaultKinds : faults[k] \in Nat /\ faults'[k] \in Nat /\ faults[k] <= faults'[k]
  BY <1>1, FaultsCounted DEF TypeOK
<1>3. ASSUME NEW a \in Nat, NEW b \in Nat, NEW c \in Nat, b <= c
      PROVE  a * b <= a * c /\ a * b \in Nat /\ a * c \in Nat
  <2>1. PICK d \in Nat : c = b + d
    <3>1. c - b \in Nat /\ c = b + (c - b)
      BY <1>3
    <3> QED BY <3>1
  <2>2. a * c = a * b + a * d
    BY <2>1
  <2>3. a * d \in Nat /\ a * b \in Nat
    OBVIOUS
  <2> QED BY <2>2, <2>3
<1>4. BatchLen \in Nat /\ BatchLen + Permits \in Nat
  BY BoundsAssumption
<1>5. /\ BatchLen * faults["read"] <= BatchLen * faults'["read"]
      /\ BatchLen * faults["read"] \in Nat /\ BatchLen * faults'["read"] \in Nat
  BY <1>2, <1>3, <1>4 DEF FaultKinds
<1>6. /\ (BatchLen + Permits) * faults["crash"] <= (BatchLen + Permits) * faults'["crash"]
      /\ (BatchLen + Permits) * faults["crash"] \in Nat
      /\ (BatchLen + Permits) * faults'["crash"] \in Nat
  BY <1>2, <1>3, <1>4 DEF FaultKinds
<1> QED BY <1>2, <1>5, <1>6 DEF Cost, FaultKinds

\* A set that gains no more than another has.
LEMMA Gains ==
  ASSUME NEW S \in SUBSET Submissions, NEW T \in SUBSET Submissions,
         NEW U \in SUBSET Submissions, U \subseteq S \union T
  PROVE  /\ Cardinality(U) <= Cardinality(S) + Cardinality(T)
         /\ Cardinality(U) \in Nat /\ Cardinality(S) \in Nat /\ Cardinality(T) \in Nat
<1>1. IsFiniteSet(S) /\ IsFiniteSet(T) /\ IsFiniteSet(U) /\ IsFiniteSet(S \union T)
  BY SubmissionsAssumption, FS_Subset, FS_Union
<1>2. /\ Cardinality(S \union T) = Cardinality(S) + Cardinality(T) - Cardinality(S \cap T)
      /\ Cardinality(S \cap T) \in Nat
      /\ Cardinality(U) <= Cardinality(S \union T)
  BY <1>1, FS_Union, FS_Subset, FS_CardinalityType, FS_Intersection
<1>3. Cardinality(U) \in Nat /\ Cardinality(S) \in Nat /\ Cardinality(T) \in Nat /\ Cardinality(S \union T) \in Nat
  BY <1>1, FS_CardinalityType
<1> QED BY <1>2, <1>3

LEMMA BlastStep ==
  ASSUME TypeOK, PipelineInv, PermitsBalance, BatchFits, BlastRadius, [Next]_vars
  PROVE  BlastRadius'
<1> SUFFICES ASSUME BatchLen > 0 PROVE Cardinality(Stranded') <= Cost(faults')
  BY DEF BlastRadius, Cost
<1>1. /\ Cardinality(Stranded) <= Cost(faults) /\ Cost(faults) \in Nat /\ Cost(faults') \in Nat
      /\ Stranded \in SUBSET Submissions /\ Stranded' \in SUBSET Submissions
      /\ BatchLen \in Nat /\ Permits \in Nat
  <2>1. TypeOK'
    BY NextType
  <2>2. Cost(faults) \in Nat /\ Cost(faults') \in Nat
    <3>1. /\ faults'["panic"] \in Nat /\ faults'["write"] \in Nat
          /\ faults'["read"] \in Nat /\ faults'["crash"] \in Nat
          /\ BatchLen \in Nat /\ BatchLen + Permits \in Nat
      BY <2>1, BoundsAssumption DEF TypeOK, FaultKinds
    <3>2. BatchLen * faults'["read"] \in Nat /\ (BatchLen + Permits) * faults'["crash"] \in Nat
      BY <3>1, Product
    <3>3. Cost(faults') \in Nat
      BY <3>1, <3>2 DEF Cost
    <3> QED BY <3>3, CostOfFault
  <2> QED BY <2>2, BoundsAssumption DEF BlastRadius, Cost, Stranded
<1>2. CASE Stranded' \subseteq Stranded
  BY <1>1, <1>2, PartOf, CostGrows
<1>3. ASSUME NEW T \in SUBSET Submissions, Stranded' \subseteq Stranded \union T,
             Cost(faults') >= Cost(faults) + Cardinality(T)
      PROVE  Cardinality(Stranded') <= Cost(faults')
  <2>1. /\ Cardinality(Stranded') <= Cardinality(Stranded) + Cardinality(T)
        /\ Cardinality(Stranded') \in Nat /\ Cardinality(Stranded) \in Nat /\ Cardinality(T) \in Nat
    BY <1>1, <1>3, Gains
  <2> QED BY <1>1, <1>3, <2>1
<1>4. ASSUME NEW e \in Engines, Crash(e),
             Stranded' \subseteq Stranded \union (batch[e] \union TasksOf(e))
      PROVE  Cardinality(Stranded') <= Cost(faults')
  <2>1. batch[e] \in SUBSET Submissions /\ TasksOf(e) \in SUBSET Submissions
    BY DEF TypeOK, TasksOf
  <2>2. Cardinality(batch[e] \union TasksOf(e)) <= BatchLen + Permits
    <3>1. Cardinality(batch[e]) + Cardinality(TasksOf(e)) <= BatchLen + Permits
      BY HeldAtMost
    <3>2. /\ Cardinality(batch[e] \union TasksOf(e)) <= Cardinality(batch[e]) + Cardinality(TasksOf(e))
          /\ Cardinality(batch[e] \union TasksOf(e)) \in Nat
          /\ Cardinality(batch[e]) \in Nat /\ Cardinality(TasksOf(e)) \in Nat
      BY <2>1, Gains
    <3> QED BY <1>1, <3>1, <3>2
  <2>3. Cost(faults') = Cost(faults) + (BatchLen + Permits)
    BY <1>4, CostOfFault DEF Crash
  <2>4. Cardinality(batch[e] \union TasksOf(e)) \in Nat
    BY <2>1, PartOf
  <2> QED BY <1>1, <1>3, <1>4, <2>1, <2>2, <2>3, <2>4
<1>5. ASSUME NEW e \in Engines, NEW B \in SUBSET Submissions, ReadLost(e, B),
             Stranded' \subseteq Stranded \union B
      PROVE  Cardinality(Stranded') <= Cost(faults')
  <2>1. Cardinality(B) <= BatchLen /\ Cardinality(B) \in Nat
    BY <1>1, <1>5, PartOf DEF ReadLost, Deliver, NextBatch
  <2>2. Cost(faults') = Cost(faults) + BatchLen
    BY <1>5, CostOfFault DEF ReadLost
  <2> QED BY <1>1, <1>3, <1>5, <2>1, <2>2
<1>6. ASSUME NEW s \in Submissions, Panic(s) \/ (Ack(s) /\ Unanswered("ack", s)),
             Stranded' \subseteq Stranded \union {s}
      PROVE  Cardinality(Stranded') <= Cost(faults')
  <2>1. Cardinality({s}) = 1
    BY FS_Singleton
  <2>2. Cost(faults') = Cost(faults) + 1
    BY <1>6, CostOfFault DEF Panic, Unanswered
  <2> QED BY <1>1, <1>3, <1>6, <2>1, <2>2
<1> QED BY <1>2, <1>4, <1>5, <1>6, StrandedStep

\* A fault costs a bounded number of entries for good: a panic or a lost
\* acknowledgement one, a lost read a batch, a crash a batch and a full
\* semaphore, for every number of engines and faults.
THEOREM DamageIsBounded == Spec => []BlastRadius
<1>1. Init => BlastRadius
  <2> SUFFICES ASSUME Init, BatchLen > 0 PROVE Cardinality(Stranded) <= Cost(faults)
    BY DEF BlastRadius, Cost
  <2>1. Stranded = {}
    BY DEF Init, Stranded
  <2>2. Cost(faults) \in Nat
    BY InitType, CostOfFault
  <2> QED BY <2>1, <2>2, FS_EmptySet
<1>2. TypeOK /\ PipelineInv /\ PermitsBalance /\ BatchFits /\ BlastRadius /\ [Next]_vars =>
        PermitsBalance' /\ BatchFits' /\ BlastRadius'
  BY PermitsStep, BatchStep, BlastStep
<1> QED BY <1>1, <1>2, InitBalance, TypeCorrect, PipelineInvariance, PTL DEF Spec
-----------------------------------------------------------------------------
(* The pending lists.                                                      *)

\* What is pending was delivered by the group there is, and an entry in a batch
\* is pending with the engine that has the batch, or no more.
PendingInv ==
  /\ \A s \in Submissions : pel[s] # NoEngine => group /\ 0 < eid[s] /\ eid[s] <= lastId
  /\ \A e \in Engines : \A s \in batch[e] : pel[s] \in {e, NoEngine}

\* The steps, by what they do to the pending lists.
LEMMA PendingSteps ==
  ASSUME TypeOK, PipelineInv, [Next]_vars
  PROVE  \/ /\ group' = group /\ lastId' = lastId
            /\ \A s \in Submissions :
                 pel'[s] = pel[s] \/ (pel'[s] = NoEngine /\ resp[s] # "none")
         \/ /\ pel' = pel /\ group' /\ lastId' = (IF group THEN lastId ELSE lastGen)
            /\ UNCHANGED <<batch, on>>
         \/ Flush
         \/ \E e \in Engines, B \in SUBSET Submissions : Read(e, B) \/ ReadLost(e, B)
<1> DEFINE Kept == /\ group' = group /\ lastId' = lastId
                   /\ \A s \in Submissions :
                        pel'[s] = pel[s] \/ (pel'[s] = NoEngine /\ resp[s] # "none")
<1>1. ASSUME NEW s \in Submissions, Submit(s) \/ Expire(s) \/ Mark(s) \/ Judge(s) \/ Push(s) \/ Panic(s)
      PROVE  Kept
  BY <1>1 DEF Submit, Expire, Mark, Judge, Push, Panic, Call, Answered, Unanswered, Execute, Enqueue,
     SetProcessing, PushResult, redis
<1>2. ASSUME NEW s \in Submissions, Ack(s)
      PROVE  Kept
  <2>1. resp[s] # "none"
    BY <1>2, AcknowledgedIsJudged
  <2> QED BY <1>2, <2>1 DEF Ack, Call, Answered, Unanswered, Execute, Acknowledge, redis, TypeOK
<1>3. ASSUME NEW c \in net, Late(c) \/ LateHalfAck(c) \/ Drop(c)
      PROVE  Kept
  <2>1. PICK op \in {"enqueue", "mark", "push", "ack"}, s \in Submissions : c = <<op, s>>
    BY DEF TypeOK, Commands
  <2>2. op = "ack" => resp[s] # "none"
    BY <2>1, AcknowledgedIsJudged
  <2> QED BY <1>3, <2>1, <2>2 DEF Late, LateHalfAck, Drop, Execute, Enqueue, SetProcessing,
        PushResult, Acknowledge, redis, TypeOK
<1>4. ASSUME NEW e \in Engines, Crash(e) \/ ReadNothing(e)
      PROVE  Kept
  BY <1>4 DEF Crash, ReadNothing, redis, vars
<1>5. ASSUME NEW e \in Engines, Setup(e) \/ SetupLost(e)
      PROVE  /\ pel' = pel /\ group' /\ lastId' = (IF group THEN lastId ELSE lastGen)
             /\ UNCHANGED <<batch, on>>
  BY <1>5 DEF Setup, SetupLost, CreateGroup, engine
<1>6. ASSUME NEW e \in Engines, NEW s \in Submissions, Dispatch(e, s)
      PROVE  Kept
  BY <1>6 DEF Dispatch, redis
<1>7. CASE UNCHANGED vars
  BY <1>7 DEF vars, redis
<1> QED BY <1>1, <1>2, <1>3, <1>4, <1>5, <1>6, <1>7 DEF Next, TaskStep

\* Batches grow by what is read only.
LEMMA BatchesShrink ==
  ASSUME TypeOK, PipelineInv, [Next]_vars,
         ~ \E e \in Engines, B \in SUBSET Submissions : Read(e, B)
  PROVE  \A e \in Engines : batch'[e] \subseteq batch[e]
<1>1. ASSUME NEW s \in Submissions, Ack(s) \/ Panic(s) PROVE batch' = batch
  BY <1>1, EndOfTask
<1> QED BY <1>1, EngineSteps DEF Setup, Crash, Dispatch, TypeOK

LEMMA PendingStep ==
  ASSUME TypeOK, PipelineInv, PendingInv, [Next]_vars
  PROVE  PendingInv'
<1> USE DEF PendingInv
<1>1. \A s \in Submissions : eid[s] > 0 => eid'[s] = eid[s]
  BY NewIds
<1>2. ASSUME NEW e \in Engines, NEW B \in SUBSET Submissions, Read(e, B) \/ ReadLost(e, B)
      PROVE  PendingInv'
  <2>1. Deliver(e, B) /\ eid' = eid /\ group /\ group' = group
    BY <1>2 DEF Read, ReadLost, Deliver
  <2>2. pel' = [s \in Submissions |-> IF s \in B THEN e ELSE pel[s]]
    BY <2>1 DEF Deliver
  <2>3. /\ \A s \in B : eid[s] > lastId /\ eid[s] <= lastId'
        /\ lastId' \in Nat /\ lastId < lastId'
    BY <2>1 DEF Deliver, NextBatch, Deliverable, TypeOK
  <2>4. \A s \in Submissions : pel'[s] # NoEngine => group' /\ 0 < eid'[s] /\ eid'[s] <= lastId'
    BY <2>1, <2>2, <2>3 DEF TypeOK
  <2>5. ASSUME NEW f \in Engines, NEW s \in batch'[f] PROVE pel'[s] \in {f, NoEngine}
    <3>1. s \in batch[f] \/ (f = e /\ s \in B)
      BY <1>2, <2>5 DEF Read, ReadLost, engine, TypeOK
    <3>2. CASE s \in batch[f]
      <4>1. eid[s] <= lastId /\ s \in Submissions
        BY <2>1, <3>2 DEF PipelineInv, TakenIsPassed, TypeOK
      <4>2. s \notin B
        BY <2>3, <4>1 DEF TypeOK
      <4> QED BY <2>2, <3>2, <4>1, <4>2
    <3> QED BY <2>2, <3>1, <3>2
  <2> QED BY <2>4, <2>5
<1>3. CASE ~ \E e \in Engines, B \in SUBSET Submissions : Read(e, B) \/ ReadLost(e, B)
  <2>1. \A e \in Engines : batch'[e] \subseteq batch[e] /\ batch[e] \subseteq Submissions
    BY <1>3, BatchesShrink DEF TypeOK
  <2>2. CASE /\ group' = group /\ lastId' = lastId
             /\ \A s \in Submissions :
                  pel'[s] = pel[s] \/ (pel'[s] = NoEngine /\ resp[s] # "none")
    BY <1>1, <2>1, <2>2
  <2>3. CASE pel' = pel /\ group' /\ lastId' = (IF group THEN lastId ELSE lastGen)
    BY <1>1, <2>1, <2>3
  <2>4. CASE Flush
    BY <2>1, <2>4 DEF Flush
  <2> QED BY <1>3, <2>2, <2>3, <2>4, PendingSteps
<1> QED BY <1>2, <1>3

\* Nothing but a late acknowledgement of judged work, or the loss of Redis, ever
\* takes a stranded entry out of the pending list: no restart, no read and no
\* other engine serves it (XREADGROUP ">" in the main loop, no XAUTOCLAIM).
THEOREM StrandedStays == Spec => StrandedForGood
<1>1. Init => PendingInv
  BY DEF Init, PendingInv
<1>2. ASSUME TypeOK, PipelineInv, PendingInv, [Next]_vars, NEW s \in Stranded
      PROVE  s \in Stranded' \/ (pel'[s] = NoEngine /\ (resp[s] # "none" \/ ~group'))
  <2>1. /\ s \in Submissions \ Malformed /\ pel[s] \in Engines /\ on[s] = NoEngine
        /\ \A e \in Engines : s \notin batch[e]
        /\ group /\ 0 < eid[s] /\ eid[s] <= lastId
    BY <1>2 DEF Stranded, PendingInv, TypeOK
  <2>2. ASSUME NEW e \in Engines, NEW B \in SUBSET Submissions, Read(e, B) \/ ReadLost(e, B)
        PROVE  s \in Stranded'
    <3>1. s \notin B
      <4>1. \A t \in B : eid[t] > lastId
        BY <2>2 DEF Read, ReadLost, Deliver, NextBatch, Deliverable
      <4>2. eid[s] \in Nat /\ lastId \in Nat
        BY <1>2, <2>1 DEF TypeOK
      <4> QED BY <2>1, <4>1, <4>2
    <3>2. pel'[s] = pel[s] /\ on' = on /\ \A f \in Engines : s \notin batch'[f]
      <4>1. pel' = [t \in Submissions |-> IF t \in B THEN e ELSE pel[t]] /\ on' = on
        BY <2>2 DEF Read, ReadLost, Deliver, engine
      <4>2. batch' = batch \/ batch' = [batch EXCEPT ![e] = B \ Malformed]
        BY <2>2 DEF Read, ReadLost, engine
      <4>3. \A f \in Engines : s \notin batch'[f]
        BY <1>2, <2>1, <3>1, <4>2 DEF TypeOK
      <4> QED BY <2>1, <3>1, <4>1, <4>3
    <3> QED BY <2>1, <3>2, EnginesAssumption DEF Stranded
  <2>3. CASE ~ \E e \in Engines, B \in SUBSET Submissions : Read(e, B) \/ ReadLost(e, B)
    <3>1. \A e \in Engines : s \notin batch'[e]
      BY <1>2, <2>1, <2>3, BatchesShrink
    <3>2. on'[s] = NoEngine
      <4>1. ASSUME NEW e \in Engines, NEW t \in Submissions, Dispatch(e, t) PROVE on'[s] = on[s]
        <5>1. t # s
          BY <2>1, <4>1 DEF Dispatch, Acquire
        <5> QED BY <1>2, <4>1, <5>1 DEF Dispatch, TypeOK
      <4>2. ASSUME NEW e \in Engines, Setup(e) \/ Crash(e) PROVE on'[s] = NoEngine
        BY <1>2, <2>1, <4>2 DEF Setup, Crash
      <4>3. ASSUME NEW t \in Submissions, Ack(t) \/ Panic(t) PROVE on'[s] = NoEngine
        BY <1>2, <2>1, <4>3, EndOfTask DEF TypeOK
      <4> QED BY <1>2, <2>1, <2>3, <4>1, <4>2, <4>3, EngineSteps
    <3>3. pel'[s] = pel[s] \/ (pel'[s] = NoEngine /\ (resp[s] # "none" \/ ~group'))
      BY <1>2, <2>1, <2>3, PendingSteps DEF Flush
    <3> QED BY <2>1, <3>1, <3>2, <3>3, EnginesAssumption DEF Stranded
  <2> QED BY <2>2, <2>3
<1>3. TypeOK /\ PipelineInv /\ PendingInv /\ [Next]_vars =>
        [\A s \in Stranded :
           s \in Stranded' \/ (pel'[s] = NoEngine /\ (resp[s] # "none" \/ ~group'))]_vars
  BY <1>2
<1>4. TypeOK /\ PipelineInv /\ PendingInv /\ [Next]_vars => PendingInv'
  BY PendingStep
<1> QED BY <1>1, <1>3, <1>4, TypeCorrect, PipelineInvariance, PTL DEF Spec, StrandedForGood

-----------------------------------------------------------------------------
(* Pipeline implements SubmissionService when no write to Redis goes       *)
(* unanswered, whatever else fails and how often.                          *)

NoLostWrites == MaxFaults["write"] = 0

\* How far a submission has come depends on its own entry, task and response.
LEMMA PhaseStays ==
  ASSUME NEW s, eid'[s] = eid[s], runs'[s] = runs[s], resp'[s] = resp[s]
  PROVE  PhaseOf(s)' = PhaseOf(s)
BY DEF PhaseOf

\* The phases of a submission, by its place in the pipeline.
LEMMA Phases ==
  ASSUME TypeOK, PipelineInv, NEW s \in Submissions
  PROVE  /\ eid[s] = 0 => PhaseOf(s) = "new"
         /\ eid[s] > 0 /\ runs[s] = 0 => PhaseOf(s) = "queued" /\ resp[s] = "none"
         /\ runs[s] > 0 => eid[s] > 0
         /\ runs[s] > 0 /\ resp[s] = "none" => PhaseOf(s) = "started"
         /\ runs[s] > 0 /\ resp[s] # "none" => PhaseOf(s) = "judged"
<1>1. runs[s] > 0 => eid[s] > 0
  BY DEF TypeOK, PipelineInv, EnqueuedOnce
<1>2. runs[s] = 0 => resp[s] = "none"
  BY DEF PipelineInv, TasksPlaced, ResponseFirst
<1> QED BY <1>1, <1>2 DEF PhaseOf, TypeOK

\* A step that leaves entries, starts and responses alone, and writes at most
\* the one status.
LEMMA PhasesStay ==
  ASSUME UNCHANGED <<eid, runs, resp>>
  PROVE  [s \in Submissions |-> PhaseOf(s)]' = [s \in Submissions |-> PhaseOf(s)]
BY PhaseStays

LEMMA Stutter ==
  ASSUME UNCHANGED <<eid, runs, resp, hash>>
  PROVE  UNCHANGED Service!vars
BY PhasesStay DEF Service!vars

\* Every write is answered.
LEMMA NothingInFlight ==
  ASSUME NoLostWrites, TypeOK, PipelineInv, faults["write"] = 0
  PROVE  net = {} /\ ~Fault("write")
BY DEF NoLostWrites, PipelineInv, WritesInFlight, Fault

LEMMA StepImplements ==
  ASSUME NoLostWrites, TypeOK, PipelineInv, faults["write"] = 0, [Next]_vars
  PROVE  [Service!Next]_Service!vars
<1>1. TypeOK'
  BY NextType
<1>2. PipelineInv'
  BY NextInv
<1>n. net = {} /\ ~Fault("write")
  BY NothingInFlight
<1>3. ASSUME NEW s \in Submissions, Submit(s) PROVE Service!Next
  <2>1. Enqueue(s) /\ UNCHANGED engine
    BY <1>3, <1>n DEF Submit, Answered, Unanswered, Execute
  <2>2. eid[s] = 0 /\ runs[s] = 0
    BY <1>3 DEF Submit, PipelineInv, EnqueuedOnce
  <2>3. PhaseOf(s) = "new" /\ PhaseOf(s)' = "queued"
    <3>1. eid'[s] > 0 /\ runs'[s] = 0
      BY <2>1, <2>2 DEF Enqueue, engine, TypeOK
    <3> QED BY <2>2, <3>1, <1>1, <1>2, Phases DEF PhaseOf
  <2>4. \A t \in Submissions \ {s} : PhaseOf(t)' = PhaseOf(t)
    BY <2>1, PhaseStays DEF Enqueue, engine, TypeOK
  <2>5. Service!Accept(s)
    BY <2>1, <2>3, <2>4 DEF Service!Accept, Enqueue, engine
  <2> QED BY <2>5 DEF Service!Next
<1>4. ASSUME NEW s \in Submissions, Expire(s) PROVE Service!Next
  <2>1. /\ UNCHANGED <<eid, runs, resp>>
        /\ hash' = [t \in Submissions |-> IF t \in {s} THEN "none" ELSE hash[t]]
    BY <1>4 DEF Expire, engine, TypeOK
  <2>2. Service!Forget({s})
    BY <2>1, PhasesStay DEF Service!Forget
  <2> QED BY <2>2 DEF Service!Next
<1>5. ASSUME NEW s \in Submissions, Mark(s) PROVE Service!Next
  <2>1. hash' = [hash EXCEPT ![s] = "processing"] /\ UNCHANGED <<eid, runs, resp>>
    BY <1>5, <1>n DEF Mark, Call, Answered, Unanswered, Execute, SetProcessing
  <2>2. PhaseOf(s) = "started"
    <3>1. runs[s] > 0 /\ resp[s] = "none"
      BY <1>5 DEF Mark, TypeOK, PipelineInv, TasksPlaced, ResponseFirst
    <3> QED BY <3>1, Phases
  <2>3. Service!ShowProgress(s)
    BY <2>1, <2>2, PhasesStay DEF Service!ShowProgress
  <2> QED BY <2>3 DEF Service!Next
<1>6. ASSUME NEW s \in Submissions, Judge(s) PROVE Service!Next
  <2>1. PICK r \in Responses : resp' = [resp EXCEPT ![s] = r]
    BY <1>6 DEF Judge
  <2>2. UNCHANGED <<eid, runs, hash>>
    BY <1>6 DEF Judge, redis
  <2>3. runs[s] > 0 /\ resp[s] = "none"
    BY <1>6 DEF Judge, TypeOK, PipelineInv, TasksPlaced, ResponseFirst
  <2>4. PhaseOf(s) = "started" /\ PhaseOf(s)' = "judged"
    <3>1. runs'[s] > 0 /\ resp'[s] # "none" /\ runs'[s] \in Nat
      BY <2>1, <2>2, <2>3, ResponsesApart DEF TypeOK
    <3>2. eid'[s] > 0 /\ eid'[s] \in Nat
      BY <2>2, <2>3, Phases DEF TypeOK
    <3>3. PhaseOf(s)' = "judged"
      BY <3>1, <3>2 DEF PhaseOf
    <3> QED BY <2>3, <3>3, Phases
  <2>5. \A t \in Submissions \ {s} : PhaseOf(t)' = PhaseOf(t)
    BY <2>1, <2>2, PhaseStays DEF TypeOK
  <2>6. Service!Judge(s, r)
    BY <2>1, <2>2, <2>4, <2>5 DEF Service!Judge
  <2> QED BY <2>6 DEF Service!Next
<1>7. ASSUME NEW s \in Submissions, Push(s) PROVE Service!Next
  <2>1. hash' = [hash EXCEPT ![s] = resp[s]] /\ UNCHANGED <<eid, runs, resp>>
    BY <1>7, <1>n DEF Push, Call, Answered, Unanswered, Execute, PushResult
  <2>2. PhaseOf(s) = "judged"
    <3>1. runs[s] > 0 /\ resp[s] # "none"
      BY <1>7 DEF Push, TypeOK, PipelineInv, TasksPlaced, ResponseFirst
    <3> QED BY <3>1, Phases
  <2>3. Service!ShowAnswer(s)
    BY <2>1, <2>2, PhasesStay DEF Service!ShowAnswer
  <2> QED BY <2>3 DEF Service!Next
<1>8. ASSUME NEW s \in Submissions, Ack(s) \/ Panic(s) PROVE UNCHANGED <<eid, runs, resp, hash>>
  BY <1>8, <1>n DEF Ack, Panic, EndTask, Call, Answered, Unanswered, Execute, Acknowledge, redis
<1>9. ASSUME NEW e \in Engines, Setup(e) \/ SetupLost(e) \/ Crash(e) \/ ReadNothing(e)
      PROVE  UNCHANGED <<eid, runs, resp, hash>>
  BY <1>9 DEF Setup, SetupLost, CreateGroup, Crash, ReadNothing, redis, engine, vars
<1>10. ASSUME NEW e \in Engines, NEW B \in SUBSET Submissions, Read(e, B) \/ ReadLost(e, B)
       PROVE  UNCHANGED <<eid, runs, resp, hash>>
  BY <1>10 DEF Read, ReadLost, Deliver, engine
<1>11. ASSUME NEW e \in Engines, NEW s \in Submissions, Dispatch(e, s) PROVE Service!Next
  <2>1. runs[s] = 0 /\ eid[s] > 0
    BY <1>11 DEF Dispatch, Acquire, PipelineInv, BatchesApart
  <2>2. runs' = [runs EXCEPT ![s] = 1] /\ UNCHANGED <<eid, resp, hash>>
    BY <1>11, <2>1 DEF Dispatch, redis, TypeOK
  <2>3. PhaseOf(s) = "queued" /\ PhaseOf(s)' = "started"
    <3>1. PhaseOf(s) = "queued" /\ resp[s] = "none"
      BY <2>1, Phases
    <3>2. runs'[s] = 1 /\ resp'[s] = "none" /\ eid'[s] = eid[s]
      BY <2>2, <3>1 DEF TypeOK
    <3> QED BY <2>1, <3>1, <3>2 DEF PhaseOf, TypeOK
  <2>4. \A t \in Submissions \ {s} : PhaseOf(t)' = PhaseOf(t)
    BY <2>2, PhaseStays DEF TypeOK
  <2>5. Service!Start(s)
    BY <2>2, <2>3, <2>4 DEF Service!Start
  <2> QED BY <2>5 DEF Service!Next
<1>12. CASE Flush
  <2>1. hash' = [t \in Submissions |-> IF t \in Submissions THEN "none" ELSE hash[t]]
    BY <1>12 DEF Flush
  <2>2. Service!Forget(Submissions)
    BY <1>12, <2>1, PhasesStay DEF Flush, engine, Service!Forget
  <2> QED BY <2>2 DEF Service!Next
<1>13. CASE UNCHANGED vars
  BY <1>13, Stutter DEF vars, redis, engine
<1> QED BY <1>n, <1>3, <1>4, <1>5, <1>6, <1>7, <1>8, <1>9, <1>10, <1>11, <1>12, <1>13, Stutter
        DEF Next, TaskStep

LEMMA InitImplements == Init => Service!Init
BY DEF Init, Service!Init, PhaseOf

\* No more writes fail than may.
LEMMA NoWriteFails ==
  ASSUME NoLostWrites, TypeOK, faults["write"] = 0, [Next]_vars
  PROVE  faults'["write"] = 0
<1>1. faults' = faults \/ \E k \in FaultKinds : Fault(k)
  BY FaultStep
<1>2. ASSUME NEW k \in FaultKinds, Fault(k) PROVE faults'["write"] = 0
  BY <1>2 DEF Fault, TypeOK, NoLostWrites, FaultKinds
<1> QED BY <1>1, <1>2

\* A client sees each submission accepted, started, judged and answered in that
\* order and once, through every crash, panic, lost read and loss of Redis, for
\* any number of engines; only a write that fails can spoil it.
THEOREM PipelineImplementsService == NoLostWrites /\ Spec => ImplementsService
<1> SUFFICES ASSUME NoLostWrites PROVE Spec => ImplementsService
  OBVIOUS
<1>1. Init => faults["write"] = 0
  BY DEF Init, FaultKinds
<1>2. TypeOK /\ faults["write"] = 0 /\ [Next]_vars => (faults["write"] = 0)'
  BY NoWriteFails
<1>3. TypeOK /\ PipelineInv /\ faults["write"] = 0 /\ [Next]_vars => [Service!Next]_Service!vars
  BY StepImplements
<1> QED BY <1>1, <1>2, <1>3, InitImplements, TypeCorrect, PipelineInvariance, PTL
        DEF Spec, ImplementsService, Service!Spec
=============================================================================
