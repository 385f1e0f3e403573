------------------------------ MODULE Pipeline ------------------------------
(***************************************************************************)
(* The submission pipeline of IronJudge: the HTTP server enqueues a        *)
(* submission in Redis, the engines of one consumer group read it from the *)
(* stream, judge it on a bounded number of tasks, write the result back    *)
(* and acknowledge the stream entry.                                       *)
(*                                                                         *)
(* One submission has at most one stream entry (its id is a fresh UUID),   *)
(* so the submission itself names the entry; eid is the id Redis gave it.  *)
(* A write whose reply does not arrive is kept in net: Redis may execute   *)
(* it at any later time, or never.                                         *)
(***************************************************************************)
EXTENDS Naturals, FiniteSets

CONSTANTS
  Submissions,  \* the submissions clients may post, each with its UUID
  Malformed,    \* those whose entry process_redis_stream cannot parse
  Engines,      \* x_ironjudge processes, one consumer each
  NoEngine,     \* the absence of an engine
  Verdicts,     \* the messages of a completed judgement
  Permits,      \* get_heavy_tasks_threads(), the size of the semaphore
  BatchLen,     \* REDISPAYLOADLEN, the COUNT of a stream read; 0 is no limit
  MaxFaults     \* how often each kind of fault may strike

FaultKinds == {"crash", "panic", "read", "write", "flush"}

ASSUME SubmissionsAssumption ==
  IsFiniteSet(Submissions) /\ Malformed \subseteq Submissions
ASSUME EnginesAssumption == NoEngine \notin Engines
ASSUME VerdictsAssumption ==
  Verdicts \cap {"none", "pending", "processing", "error"} = {}
ASSUME BoundsAssumption ==
  Permits \in Nat \ {0} /\ BatchLen \in Nat /\ MaxFaults \in [FaultKinds -> Nat]

Responses == Verdicts \cup {"error"}
Statuses  == Responses \cup {"none", "pending", "processing"}
Commands  == {"enqueue", "mark", "push", "ack"} \X Submissions

VARIABLES
  hash,     \* the status:{id} hash of each submission, "none" when absent
  stream,   \* the submissions whose entry is in the stream
  eid,      \* the id of the entry of a submission, 0 before XADD
  lastGen,  \* the last entry id Redis generated
  group,    \* whether the consumer group exists
  lastId,   \* the group's last-delivered id
  pel,      \* the consumer whose pending list holds the entry
  net,      \* writes whose reply was lost and that Redis may still execute
  post,     \* what the HTTP server answered the POST
  loop,     \* where the main loop of each engine is
  batch,    \* the entries a read returned that have no task yet
  permits,  \* the permits left in the semaphore of each engine
  on,       \* the engine that runs the task of a submission
  task,     \* the await the task is at
  resp,     \* the response the task computed, "none" before
  runs,     \* history: how many tasks were spawned for a submission
  faults    \* history: how many faults of each kind struck

redis   == <<hash, stream, eid, lastGen, group, lastId, pel>>
engine  == <<loop, batch, permits, on, task, resp, runs>>
vars    == <<redis, net, post, engine, faults>>

TypeOK ==
  /\ hash    \in [Submissions -> Statuses]
  /\ stream  \in SUBSET Submissions
  /\ eid     \in [Submissions -> Nat]
  /\ lastGen \in Nat
  /\ group   \in BOOLEAN
  /\ lastId  \in Nat
  /\ pel     \in [Submissions -> Engines \cup {NoEngine}]
  /\ net     \in SUBSET Commands
  /\ post    \in [Submissions -> {"idle", "ok", "failed"}]
  /\ loop    \in [Engines -> {"down", "read", "dispatch"}]
  /\ batch   \in [Engines -> SUBSET Submissions]
  /\ permits \in [Engines -> Nat]
  /\ on      \in [Submissions -> Engines \cup {NoEngine}]
  /\ task    \in [Submissions -> {"none", "mark", "run", "push", "ack", "done", "lost"}]
  /\ resp    \in [Submissions -> Responses \cup {"none"}]
  /\ runs    \in [Submissions -> Nat]
  /\ faults  \in [FaultKinds -> Nat]

Init ==
  /\ hash    = [s \in Submissions |-> "none"]
  /\ stream  = {}
  /\ eid     = [s \in Submissions |-> 0]
  /\ lastGen = 0
  /\ group   = FALSE
  /\ lastId  = 0
  /\ pel     = [s \in Submissions |-> NoEngine]
  /\ net     = {}
  /\ post    = [s \in Submissions |-> "idle"]
  /\ loop    = [e \in Engines |-> "down"]
  /\ batch   = [e \in Engines |-> {}]
  /\ permits = [e \in Engines |-> 0]
  /\ on      = [s \in Submissions |-> NoEngine]
  /\ task    = [s \in Submissions |-> "none"]
  /\ resp    = [s \in Submissions |-> "none"]
  /\ runs    = [s \in Submissions |-> 0]
  /\ faults  = [k \in FaultKinds |-> 0]

-----------------------------------------------------------------------------
(* What the Redis transactions of the two programs do.                     *)

Fault(k) == faults[k] < MaxFaults[k] /\ faults' = [faults EXCEPT ![k] = @ + 1]

\* MULTI: HSET status pending, EXPIRE, XADD with the next id.
Enqueue(s) ==
  /\ hash'    = [hash EXCEPT ![s] = "pending"]
  /\ stream'  = stream \cup {s}
  /\ lastGen' = lastGen + 1
  /\ eid'     = [eid EXCEPT ![s] = lastGen + 1]
  /\ UNCHANGED <<group, lastId, pel>>

\* MULTI: HSET status processing, EXPIRE; it creates an expired hash again.
SetProcessing(s) ==
  /\ hash' = [hash EXCEPT ![s] = "processing"]
  /\ UNCHANGED <<stream, eid, lastGen, group, lastId, pel>>

\* MULTI: HSET of the response, EXPIRE.
PushResult(s) ==
  /\ hash' = [hash EXCEPT ![s] = resp[s]]
  /\ UNCHANGED <<stream, eid, lastGen, group, lastId, pel>>

\* Mutant of Acknowledge: the entry is deleted but stays pending.
DeleteOnly(s) ==
  /\ stream' = stream \ {s}
  /\ UNCHANGED <<hash, eid, lastGen, group, lastId, pel>>

\* XACK, then XDEL.
Acknowledge(s) ==
  /\ pel'    = [pel EXCEPT ![s] = NoEngine]
  /\ stream' = stream \ {s}
  /\ UNCHANGED <<hash, eid, lastGen, group, lastId>>

Execute(op, s) ==
  \/ op = "enqueue" /\ Enqueue(s)
  \/ op = "mark"    /\ SetProcessing(s)
  \/ op = "push"    /\ PushResult(s)
  \/ op = "ack"     /\ Acknowledge(s)

\* A call that Redis executes and answers.
Answered(op, s) == Execute(op, s) /\ UNCHANGED <<net, faults>>

\* A call that returns an error; Redis may still execute it.
Unanswered(op, s) ==
  Fault("write") /\ net' = net \cup {<<op, s>>} /\ UNCHANGED redis

Call(op, s) == Answered(op, s) \/ Unanswered(op, s)

\* Redis executes a write whose caller has given up on it.
Late(c) ==
  /\ c \in net
  /\ net' = net \ {c}
  /\ Execute(c[1], c[2])
  /\ UNCHANGED <<post, engine, faults>>

\* XACK and XDEL are no transaction: the connection may break between them.
LateHalfAck(c) ==
  /\ c \in net /\ c[1] = "ack"
  /\ net' = net \ {c}
  /\ pel' = [pel EXCEPT ![c[2]] = NoEngine]
  /\ UNCHANGED <<hash, stream, eid, lastGen, group, lastId, post, engine, faults>>

\* The write never reaches Redis.
Drop(c) ==
  /\ c \in net
  /\ net' = net \ {c}
  /\ UNCHANGED <<redis, post, engine, faults>>

\* STATUS_TTL_SECS after its last write the hash is gone; time is abstract.
Expire(s) ==
  /\ hash[s] # "none"
  /\ hash' = [hash EXCEPT ![s] = "none"]
  /\ UNCHANGED <<stream, eid, lastGen, group, lastId, pel, net, post, engine, faults>>

\* Redis comes back without its data.
Flush ==
  /\ Fault("flush")
  /\ hash'   = [s \in Submissions |-> "none"]
  /\ stream' = {}
  /\ group'  = FALSE
  /\ lastId' = 0
  /\ pel'    = [s \in Submissions |-> NoEngine]
  /\ UNCHANGED <<eid, lastGen, net, post, engine>>

-----------------------------------------------------------------------------
(* The HTTP server.                                                        *)

\* Mutant of Submit: a client that got an error posts again under the same id.
SubmitAgain(s) ==
  /\ post[s] # "ok"
  /\ \/ Answered("enqueue", s)   /\ post' = [post EXCEPT ![s] = "ok"]
     \/ Unanswered("enqueue", s) /\ post' = [post EXCEPT ![s] = "failed"]
  /\ UNCHANGED engine

\* POST /run and POST /test: enqueue_task under a fresh UUID, then the answer.
Submit(s) ==
  /\ post[s] = "idle"
  /\ \/ Answered("enqueue", s)   /\ post' = [post EXCEPT ![s] = "ok"]
     \/ Unanswered("enqueue", s) /\ post' = [post EXCEPT ![s] = "failed"]
  /\ UNCHANGED engine

-----------------------------------------------------------------------------
(* The main loop of an engine.                                             *)

\* XGROUP CREATE at "$", which leaves an existing group alone (BUSYGROUP).
CreateGroup ==
  /\ group'  = TRUE
  /\ lastId' = IF group THEN lastId ELSE lastGen
  /\ UNCHANGED <<hash, stream, eid, lastGen, pel>>

\* Start or restart, with a new semaphore.
Setup(e) ==
  /\ loop[e] = "down"
  /\ CreateGroup
  /\ loop'    = [loop EXCEPT ![e] = "read"]
  /\ permits' = [permits EXCEPT ![e] = Permits]
  /\ UNCHANGED <<net, post, batch, on, task, resp, runs, faults>>

\* The reply of XGROUP CREATE is lost: main returns the error.
SetupLost(e) ==
  /\ loop[e] = "down"
  /\ CreateGroup
  /\ Fault("read")
  /\ UNCHANGED <<net, post, engine>>

\* Mutant of Deliverable: every entry that is left is read again.
Undeleted == stream

\* The entries XREADGROUP ">" may return: those after the last-delivered id.
Deliverable == {s \in stream : eid[s] > lastId}

\* The first COUNT of them, in the order of their ids.
NextBatch(B) ==
  /\ B \subseteq Deliverable /\ B # {}
  /\ \A s \in B, t \in Deliverable \ B : eid[s] < eid[t]
  /\ IF BatchLen = 0 THEN B = Deliverable
     ELSE /\ Cardinality(B) <= BatchLen
          /\ Cardinality(B) < BatchLen => B = Deliverable

\* XREADGROUP moves the group past B and puts B in the pending list of e.
Deliver(e, B) ==
  /\ loop[e] = "read" /\ group
  /\ NextBatch(B)
  /\ \E s \in B : lastId' = eid[s] /\ \A t \in B : eid[t] <= eid[s]
  /\ pel' = [s \in Submissions |-> IF s \in B THEN e ELSE pel[s]]
  /\ UNCHANGED <<hash, stream, eid, lastGen, group>>

\* Mutant of Read: the loop reads on while the batch waits for permits.
ReadOn(e, B) ==
  /\ Deliver(e, B)
  /\ batch' = [batch EXCEPT ![e] = @ \cup (B \ Malformed)]
  /\ UNCHANGED <<net, post, loop, permits, on, task, resp, runs, faults>>

\* A read that returns: entries that do not parse are skipped, unacknowledged.
Read(e, B) ==
  /\ Deliver(e, B)
  /\ batch' = [batch EXCEPT ![e] = B \ Malformed]
  /\ loop'  = [loop EXCEPT ![e] = IF B \subseteq Malformed THEN "read" ELSE "dispatch"]
  /\ UNCHANGED <<net, post, permits, on, task, resp, runs, faults>>

\* A read whose reply is lost: the engine warns, sleeps and reads again.
ReadLost(e, B) ==
  /\ Deliver(e, B)
  /\ Fault("read")
  /\ UNCHANGED <<net, post, engine>>

\* A read that finds nothing, or fails because the group is gone.
ReadNothing(e) ==
  /\ loop[e] = "read"
  /\ ~group \/ Deliverable = {}
  /\ UNCHANGED vars

\* Mutants of Acquire: no permit is waited for; the entry is any of the batch.
AcquireNone(e, s) == s \in batch[e] /\ \A t \in batch[e] : eid[s] <= eid[t]
AcquireAny(e, s)  == permits[e] > 0 /\ s \in batch[e]

\* acquire_owned returns to the loop, at the next entry of the batch.
Acquire(e, s) ==
  permits[e] > 0 /\ s \in batch[e] /\ \A t \in batch[e] : eid[s] <= eid[t]

\* With its permit the task of the entry is spawned.
Dispatch(e, s) ==
  /\ loop[e] = "dispatch" /\ Acquire(e, s)
  /\ permits' = [permits EXCEPT ![e] = @ - 1]
  /\ batch'   = [batch EXCEPT ![e] = @ \ {s}]
  /\ loop'    = [loop EXCEPT ![e] = IF batch[e] = {s} THEN "read" ELSE "dispatch"]
  /\ on'      = [on EXCEPT ![s] = e]
  /\ task'    = [task EXCEPT ![s] = "mark"]
  /\ runs'    = [runs EXCEPT ![s] = @ + 1]
  /\ UNCHANGED <<redis, net, post, resp, faults>>

TasksOf(e) == {s \in Submissions : on[s] = e}

\* The process dies: nothing on the engine survives, Redis keeps everything.
Crash(e) ==
  /\ loop[e] # "down"
  /\ Fault("crash")
  /\ loop'    = [loop EXCEPT ![e] = "down"]
  /\ batch'   = [batch EXCEPT ![e] = {}]
  /\ permits' = [permits EXCEPT ![e] = 0]
  /\ task'    = [s \in Submissions |-> IF on[s] = e THEN "lost" ELSE task[s]]
  /\ on'      = [s \in Submissions |-> IF on[s] = e THEN NoEngine ELSE on[s]]
  /\ UNCHANGED <<redis, net, post, resp, runs>>

-----------------------------------------------------------------------------
(* The task of a submission. A failing call to Redis is only logged.       *)

\* Mutant of Mark: the task does not wait for the status to be written.
MarkDetached(s) ==
  /\ task[s] = "mark"
  /\ net' = net \cup {<<"mark", s>>}
  /\ task' = [task EXCEPT ![s] = "run"]
  /\ UNCHANGED <<redis, post, loop, batch, permits, on, resp, runs, faults>>

Mark(s) ==
  /\ task[s] = "mark"
  /\ Call("mark", s)
  /\ task' = [task EXCEPT ![s] = "run"]
  /\ UNCHANGED <<post, loop, batch, permits, on, resp, runs>>

\* process_single_submission returns a response or, on Err, the error one.
Judge(s) ==
  /\ task[s] = "run"
  /\ \E r \in Responses : resp' = [resp EXCEPT ![s] = r]
  /\ task' = [task EXCEPT ![s] = "push"]
  /\ UNCHANGED <<redis, net, post, loop, batch, permits, on, runs, faults>>

Push(s) ==
  /\ task[s] = "push"
  /\ Call("push", s)
  /\ task' = [task EXCEPT ![s] = "ack"]
  /\ UNCHANGED <<post, loop, batch, permits, on, resp, runs>>

\* Mutant of EndTask: the permit is forgotten.
EndTaskLeaking(s, outcome) ==
  /\ task' = [task EXCEPT ![s] = outcome]
  /\ on'   = [on EXCEPT ![s] = NoEngine]
  /\ UNCHANGED <<post, loop, batch, permits, resp, runs>>

\* The task ends and its permit goes back to the semaphore.
EndTask(s, outcome) ==
  /\ task'    = [task EXCEPT ![s] = outcome]
  /\ on'      = [on EXCEPT ![s] = NoEngine]
  /\ permits' = [permits EXCEPT ![on[s]] = @ + 1]
  /\ UNCHANGED <<post, loop, batch, resp, runs>>

Ack(s) ==
  /\ task[s] = "ack"
  /\ Call("ack", s)
  /\ EndTask(s, "done")

\* Mutant of Panic: whatever ends the task, its entry is acknowledged.
PanicAcked(s) ==
  /\ task[s] = "run"
  /\ Fault("panic")
  /\ EndTask(s, "lost")
  /\ Acknowledge(s) /\ UNCHANGED net

\* An unwrap or expect fails in the sandbox: unwinding drops the permit only.
Panic(s) ==
  /\ task[s] = "run"
  /\ Fault("panic")
  /\ EndTask(s, "lost")
  /\ UNCHANGED <<redis, net>>

-----------------------------------------------------------------------------

TaskStep(s) == Mark(s) \/ Judge(s) \/ Push(s) \/ Ack(s)

Next ==
  \/ \E s \in Submissions : Submit(s) \/ Expire(s) \/ TaskStep(s) \/ Panic(s)
  \/ \E e \in Engines : Setup(e) \/ SetupLost(e) \/ Crash(e) \/ ReadNothing(e)
  \/ \E e \in Engines, B \in SUBSET Submissions : Read(e, B) \/ ReadLost(e, B)
  \/ \E e \in Engines, s \in Submissions : Dispatch(e, s)
  \/ \E c \in net : Late(c) \/ LateHalfAck(c) \/ Drop(c)
  \/ Flush

Spec == Init /\ [][Next]_vars

\* tokio keeps polling the main loop and every spawned task; nothing obliges
\* clients to post, faults to strike or a stopped engine to be started.
Fairness ==
  /\ \A e \in Engines : WF_vars(\E B \in SUBSET Submissions : Read(e, B))
  /\ \A e \in Engines : WF_vars(\E s \in Submissions : Dispatch(e, s))
  /\ \A s \in Submissions : WF_vars(TaskStep(s))

FairSpec == Spec /\ Fairness

\* An operator who starts every engine that is down.
OperatedSpec == FairSpec /\ \A e \in Engines : WF_vars(Setup(e))

-----------------------------------------------------------------------------
(* Safety.                                                                 *)

\* A submission is judged at most once, whatever fails: an entry is handed to
\* one engine once, and no engine reads its pending list again
\* (XREADGROUP ">" in the main loop of x_ironjudge).
AtMostOnce == \A s \in Submissions : runs[s] <= 1

\* The permits of a running engine and its live tasks add up to the size of
\* the semaphore, also after panics and restarts (execute_submissions_detached).
PermitsBalance ==
  \A e \in Engines : loop[e] # "down" =>
    permits[e] + Cardinality(TasksOf(e)) = Permits

\* Back-pressure: the main loop waits for permits before it reads again, so an
\* engine never holds more than one batch and a full semaphore of entries.
Backpressure ==
  BatchLen > 0 => \A e \in Engines :
    Cardinality(batch[e]) + Cardinality(TasksOf(e)) <= BatchLen + Permits

\* An engine starts submissions in the order of their stream entries.
StreamOrder ==
  \A e \in Engines : \A s \in batch[e], t \in TasksOf(e) : eid[t] < eid[s]

\* A stored result is the one response its task computed, and the task has come
\* to the push, even when the write was late (push_result_to_redis).
ResultIsOwn ==
  \A s \in Submissions : hash[s] \in Responses =>
    hash[s] = resp[s] /\ (task[s] \in {"push", "ack", "done", "lost"})

\* Entries leave the stream only when their response has been computed, or with
\* all of Redis: a crash, a panic or a lost reply never deletes unjudged work.
NoUnjudgedDeletion ==
  faults["flush"] = 0 =>
    \A s \in Submissions : eid[s] > 0 /\ s \notin stream => resp[s] # "none"

\* Delivered, unacknowledged, parsable, and in the hands of no engine: as no
\* engine ever claims such an entry, it stays in the pending list for good.
Stranded ==
  {s \in Submissions \ Malformed :
     /\ pel[s] # NoEngine
     /\ s \notin batch[pel[s]] /\ on[s] = NoEngine}

\* The damage of a fault is bounded: a panic or a lost acknowledgement strands
\* one entry, a lost read one batch, a crash one batch and a full semaphore.
BlastRadius ==
  BatchLen > 0 =>
    Cardinality(Stranded) <=
      faults["panic"] + faults["write"] + BatchLen * faults["read"]
        + (BatchLen + Permits) * faults["crash"]

\* How far the status a client polls has come.
Rank(h) == CASE h = "none"       -> 0
             [] h = "pending"    -> 1
             [] h = "processing" -> 2
             [] OTHER            -> 3

\* While no write to Redis has failed, the status of a submission only moves
\* pending, processing, result, or disappears; it never goes back.
ForwardStatus ==
  [][faults["write"] = 0 =>
       \A s \in Submissions : hash'[s] = "none" \/ Rank(hash[s]) <= Rank(hash'[s])]_hash

\* A result is overwritten by no other result and by no "pending", even when
\* writes are executed late.  It may expire, and it falls back to "processing"
\* only by a mark that has failed for its caller, and once for each such mark.
ResultStable ==
  [][\A s \in Submissions : hash[s] \in Responses =>
       \/ hash'[s] \in {hash[s], "none"}
       \/ hash'[s] = "processing" /\ <<"mark", s>> \in net \ net']_hash

\* What is stranded stays so: no restart and no other engine picks it up.  Only
\* a late acknowledgement of judged work, or the loss of all of Redis, takes it
\* out of the pending list.
StrandedForGood ==
  [][\A s \in Stranded :
       s \in Stranded' \/ (pel'[s] = NoEngine /\ (resp[s] # "none" \/ ~group'))]_vars

-----------------------------------------------------------------------------
(* Liveness.                                                               *)

\* An entry the group can still deliver ends judged and acknowledged, or is
\* stranded by one of the faults: panics and failing writes leak no permit
\* and never stop the loop.
DeliverableServed ==
  \A s \in Submissions \ Malformed :
    (group /\ s \in Deliverable) ~> (task[s] = "done" \/ s \in Stranded)

-----------------------------------------------------------------------------
(* What the documents say, contradicted by the code.                       *)

\* "Acknowledge a stream message via XACK so the consumer group knows this task
\* has been fully processed": acknowledged work should have an answer.
AcknowledgedIsAnswered ==
  \A s \in Submissions : task[s] = "done" /\ s \notin stream =>
    hash[s] \notin {"pending", "processing"}

\* "x_ironjudge consumes tasks from the stream via a consumer group, spawns an
\* isolated sandbox for each submission, and writes results back": an accepted
\* submission should be judged in the end.
AcceptedIsJudged ==
  \A s \in Submissions : post[s] = "ok" ~> resp[s] # "none"

\* The same, of submissions a running group has taken from the stream.
TakenIsJudged ==
  \A s \in Submissions : pel[s] # NoEngine ~> resp[s] # "none"
=============================================================================
