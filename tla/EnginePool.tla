------------------------------ MODULE EnginePool ------------------------------
(***************************************************************************)
(* The two resources an engine waits for: the connections of its deadpool  *)
(* pool, handed out in the order of the requests and waited for without a  *)
(* timeout, and the permits of its semaphore.  The main loop waits for     *)
(* permits with a connection in hand; every task waits for connections     *)
(* with a permit in hand.  Main is the main loop, the others are the       *)
(* permits, each with the task that has it.                                *)
(***************************************************************************)
EXTENDS Naturals, FiniteSets, Sequences

CONSTANTS
  Permits,   \* the size of the semaphore
  PoolSize,  \* the size of the pool
  BatchLen   \* the longest batch a read returns

\* What an engine has on a machine: get_heavy_tasks_threads permits, and the
\* default pool of deadpool, two connections per core.
HeavyTasksThreads(cores) ==
  CASE cores <= 2 -> 1
    [] cores \in {3, 4} -> cores - 1
    [] cores > 4 -> cores - 2
DefaultPoolSize(cores) == 2 * cores

ASSUME SizesAssumption ==
  Permits \in Nat \ {0} /\ PoolSize \in Nat \ {0} /\ BatchLen \in Nat \ {0}

Slots  == 1..Permits
Main   == 0
Actors == Slots \cup {Main}

VARIABLES
  at,     \* the await each actor is at; a slot without a task is idle
  conn,   \* whether the actor has, or has asked for, a connection
  queue,  \* the actors that wait for a connection, first come first served
  left    \* entries of the batch that have no task yet

vars == <<at, conn, queue, left>>

TypeOK ==
  /\ at \in [Actors -> {"read", "dispatch", "idle", "mark", "run", "push", "ack"}]
  /\ at[Main] \in {"read", "dispatch"}
  /\ \A s \in Slots : at[s] \notin {"read", "dispatch"}
  /\ conn \in [Actors -> {"none", "queued", "held"}]
  /\ queue \in Seq(Actors)
  /\ left \in 0..BatchLen

\* XGROUP CREATE has been answered; setup_conn is in hand.
Init ==
  /\ at    = [a \in Actors |-> IF a = Main THEN "read" ELSE "idle"]
  /\ conn  = [a \in Actors |-> "none"]
  /\ queue = <<>>
  /\ left  = 0

Holders == {a \in Actors : conn[a] = "held"}

\* Mutant of Spare: one more connection is kept, say for a health check.
SpareOfTwo == PoolSize > Cardinality(Holders) + 2

\* setup_conn lives as long as main, so one connection is never given back.
Spare == PoolSize > Cardinality(Holders) + 1

\* Mutant of Ask: the last to come is served first.
AskInFront(a) ==
  /\ at[a] \in {"read", "mark", "push", "ack"} /\ conn[a] = "none"
  /\ conn'  = [conn EXCEPT ![a] = "queued"]
  /\ queue' = <<a>> \o queue
  /\ UNCHANGED <<at, left>>

\* pool.get() is called.
Ask(a) ==
  /\ at[a] \in {"read", "mark", "push", "ack"} /\ conn[a] = "none"
  /\ conn'  = [conn EXCEPT ![a] = "queued"]
  /\ queue' = Append(queue, a)
  /\ UNCHANGED <<at, left>>

\* It returns a connection to the first in the queue.
Grant ==
  /\ queue # <<>> /\ Spare
  /\ conn'  = [conn EXCEPT ![Head(queue)] = "held"]
  /\ queue' = Tail(queue)
  /\ UNCHANGED <<at, left>>

\* Where a task goes from a call to Redis that has returned.
After == [mark |-> "run", push |-> "ack", ack |-> "idle"]

\* It returns an error instead: a task goes on, the main loop sleeps and retries.
Refuse ==
  /\ queue # <<>> /\ Spare
  /\ conn'  = [conn EXCEPT ![Head(queue)] = "none"]
  /\ queue' = Tail(queue)
  /\ at'    = [at EXCEPT ![Head(queue)] = IF @ = "read" THEN @ ELSE After[@]]
  /\ UNCHANGED left

\* The stream read returns n entries; after an empty one the connection is
\* dropped at the end of the iteration, otherwise it is kept for the dispatch.
Read(n) ==
  /\ at[Main] = "read" /\ conn[Main] = "held"
  /\ left' = n
  /\ IF n = 0 THEN at' = at /\ conn' = [conn EXCEPT ![Main] = "none"]
     ELSE at' = [at EXCEPT ![Main] = "dispatch"] /\ conn' = conn
  /\ UNCHANGED queue

\* Mutant of Dispatch: the end of the batch is not noticed.
DispatchPast(s) ==
  /\ at[Main] = "dispatch" /\ at[s] = "idle"
  /\ left' = left - 1
  /\ at'   = [at EXCEPT ![s] = "mark"]
  /\ UNCHANGED <<conn, queue>>

\* acquire_owned returns and a task is spawned; after the last entry the
\* iteration ends and drops the connection.
Dispatch(s) ==
  /\ at[Main] = "dispatch" /\ at[s] = "idle"
  /\ left' = left - 1
  /\ at'   = [at EXCEPT ![s] = "mark", ![Main] = IF left = 1 THEN "read" ELSE @]
  /\ conn' = [conn EXCEPT ![Main] = IF left = 1 THEN "none" ELSE @]
  /\ UNCHANGED queue

\* A task's call to Redis returns and the connection goes back; after the last
\* one, so does the permit.
Return(s) ==
  /\ conn[s] = "held"
  /\ conn' = [conn EXCEPT ![s] = "none"]
  /\ at'   = [at EXCEPT ![s] = After[@]]
  /\ UNCHANGED <<queue, left>>

\* The sandbox comes to an end, or panics and the permit is dropped.
Judge(s) ==
  /\ at[s] = "run"
  /\ \E next \in {"push", "idle"} : at' = [at EXCEPT ![s] = next]
  /\ UNCHANGED <<conn, queue, left>>

Next ==
  \/ \E a \in Actors : Ask(a)
  \/ Grant \/ Refuse
  \/ \E n \in 0..BatchLen : Read(n)
  \/ \E s \in Slots : Dispatch(s) \/ Return(s) \/ Judge(s)

\* tokio polls every ready future, the pool serves its queue, and the sandbox
\* has a deadline of its own.
Fairness ==
  /\ \A a \in Actors : WF_vars(Ask(a))
  /\ WF_vars(Grant)
  /\ WF_vars(\E n \in 0..BatchLen : Read(n))
  /\ WF_vars(\E s \in Slots : Dispatch(s))
  /\ \A s \in Slots : WF_vars(Return(s)) /\ WF_vars(Judge(s))

Spec == Init /\ [][Next]_vars /\ Fairness

-----------------------------------------------------------------------------

\* While the main loop waits for a permit, some task does not wait for the main
\* loop: it judges, has its connection, or finds one to spare
\* (execute_submissions_detached, called with redis_conn in scope).
NoCircularWait ==
  at[Main] = "dispatch" =>
    \E s \in Slots : at[s] \in {"idle", "run"} \/ conn[s] = "held" \/ Spare

\* The main loop comes back to its next read, however slow the tasks are and
\* however many connections fail.
BatchDrains == at[Main] = "dispatch" ~> at[Main] = "read"

\* "x_ironjudge consumes tasks from the stream [...] and writes results back to
\* Redis": every spawned task comes to its end and gives its permit back.
EveryTaskEnds == \A s \in Slots : at[s] = "mark" ~> at[s] = "idle"
=============================================================================
