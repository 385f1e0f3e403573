-------------------------- MODULE PipelineInvariant --------------------------
(***************************************************************************)
(* The inductive invariant behind the safety of Pipeline: what the stream  *)
(* ids, the group's position, the batches, the tasks and the writes in     *)
(* flight say about each other in every reachable state.                   *)
(***************************************************************************)
EXTENDS Pipeline

\* Redis numbers the entries in the order of their XADDs.
IdsInOrder ==
  /\ lastId <= lastGen
  /\ \A s \in Submissions : eid[s] <= lastGen
  /\ \A s, t \in Submissions : eid[s] > 0 /\ eid[s] = eid[t] => s = t
  /\ \A s \in stream : eid[s] > 0

\* A submission is enqueued at most once, and nothing knows it before.
EnqueuedOnce ==
  \A s \in Submissions :
    /\ post[s] = "idle" => eid[s] = 0
    /\ eid[s] = 0 => hash[s] = "none" /\ runs[s] = 0

\* The group has moved past all that waits in a batch or was started.
TakenIsPassed ==
  group =>
    /\ \A e \in Engines : \A s \in batch[e] : eid[s] <= lastId
    /\ \A s \in Submissions : runs[s] > 0 => eid[s] <= lastId

\* Entries that wait in a batch wait in one, and have not been started.
BatchesApart ==
  /\ \A e \in Engines : loop[e] # "dispatch" => batch[e] = {}
  /\ \A e \in Engines : \A s \in batch[e] : runs[s] = 0 /\ eid[s] > 0
  /\ \A e, f \in Engines : \A s \in batch[e] : s \in batch[f] => e = f

\* A task lives on an engine that is up; one not spawned is none.
TasksPlaced ==
  /\ \A s \in Submissions :
       on[s] # NoEngine <=> task[s] \in {"mark", "run", "push", "ack"}
  /\ \A s \in Submissions : on[s] # NoEngine => loop[on[s]] # "down"
  /\ \A s \in Submissions : runs[s] = 0 <=> task[s] = "none"

\* A response is there from the judgement on, and only it is shown.
ResponseFirst ==
  \A s \in Submissions :
    /\ task[s] \in {"none", "mark", "run"} => resp[s] = "none"
    /\ task[s] \in {"push", "ack", "done"} => resp[s] # "none"
    /\ hash[s] \in Responses => hash[s] = resp[s]

\* A write is only in flight when its caller has come to it, and failed.
WritesInFlight ==
  /\ faults["write"] = 0 => net = {}
  /\ \A s \in Submissions :
       /\ <<"enqueue", s>> \in net => eid[s] = 0 /\ post[s] = "failed"
       /\ <<"mark", s>> \in net => runs[s] > 0
       /\ <<"push", s>> \in net \/ <<"ack", s>> \in net => resp[s] # "none"

\* The inductive invariant of Pipeline. With TypeOK it implies AtMostOnce, and
\* PermitsBalance, StreamOrder, ResultIsOwn and NoUnjudgedDeletion rest on it
\* (main.rs of x_ironjudge, execute_submissions_detached, redis_lib).
PipelineInv ==
  /\ AtMostOnce
  /\ IdsInOrder
  /\ EnqueuedOnce
  /\ TakenIsPassed
  /\ BatchesApart
  /\ TasksPlaced
  /\ ResponseFirst
  /\ WritesInFlight
=============================================================================
