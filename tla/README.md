# A TLA+ model of IronJudge

IronJudge takes source code over HTTP, queues it in a Redis stream, judges it in
a sandbox and answers polls with the result. This directory holds TLA+ modules
that model the system, TLC configurations that check them on small instances, and
proofs that TLAPS checks for every instance. Paths below are relative to the
repository.

## The system

| Part | State | Operations | Source |
| --- | --- | --- | --- |
| HTTP server | requests in flight, connections in use of two Redis pools, starting, serving or stopping | start with two pings, limit, enqueue or look up, time out, shut down gracefully | `apps/http_ironjudge/src/main.rs`, `libs/http_lib` |
| Rate limiter | a counter per client, method and bucket, in Redis | sliding window of two buckets, in Lua | `http_lib/src/middleware.rs`, `redis_lib/src/ratelimiter.rs`, `sliding_window.lua` |
| Redis | stream, consumer group with its last id and pending lists, one status hash per submission | `MULTI` of status and `XADD`; `XREADGROUP >`; `HSET`; `XACK`, `XDEL` | `libs/redis_lib/src/lib.rs` |
| Engine loop | a batch, two connections | create the group, read, dispatch | `apps/x_ironjudge/src/main.rs` |
| Detached execution | a semaphore, one task per permit | mark, judge, push, acknowledge | `libs/sandbox_lib/src/lib.rs` |
| Engine's connection pool | connections in use, queue of waiters | `Pool::get`, drop | `redis_connection_pooler` |
| Processor | a temporary directory | compile, run, classify, validate | `libs/sandbox_lib/src/processor.rs`, `action.rs` |
| Sandbox, compile sandbox, cgroup guard | a child, a cgroup, a deadline; per engine, what it has made of `/sys/fs/cgroup` | mount, delegate, spawn, wait, kill, remove | `sandbox.rs`, `compilesandbox.rs`, `cgroups.rs` |

The parts never call each other across processes: the server and the engines meet
in Redis only. The server writes the status `pending` and the stream entry in one
transaction. An engine moves the group's position when it reads, its tasks write
`processing` and then the result into the status hash, and acknowledge and delete
the entry last. A client sees the status hash and nothing else.

What makes this hard is failure between the steps. A reply may be lost after Redis
has executed the call, or Redis may execute it after the caller has gone on; an
engine may die with entries it has read; a sandbox may panic; Redis may come back
empty; a status may expire at any time; several engines share one group; and the server
drops a request at its deadline with a script or a write on its way. Each
part has a few lines that decide what survives, and hardly any of the cases can be
forced in a test.

## What should be true

* Queue and engines: no submission is judged twice; entries are started in their
  order; a submission is deleted only when it has been judged; permits are neither
  lost nor made up; an engine reads no more than it can hold; every fault costs a
  bounded number of entries; what can be delivered is served.
* Status: it never falls back, it is the result of the submission's own judgement,
  and a result is replaced by no other.
* Engine's pool: the main loop and its tasks never wait for each other in a circle.
* Server: no request waits for another with a connection in hand; nothing reaches the
  stream that the limiter has not counted; an answer says whether the submission is
  queued, or may be sent again; a graceful shutdown ends.
* Validation: the verdict is what a direct comparison of the outputs gives, and the
  console is shown whole, or marked as cut, or not at all.
* Sandbox: the child and its cgroup are gone when the verdict is given, and the
  verdict fits how the child ended.
* Rate limiter: no window of the configured length lets through more than its
  two-bucket estimate allows.

## Modules

| Module | What it is |
| --- | --- |
| `Pipeline` | The core: server, stream, group, engines, tasks, and the faults between them |
| `PipelineInvariant` | The inductive invariant of `Pipeline` |
| `SubmissionService` | What the service promises about a submission, without queue or engines |
| `PipelineRefinement` | The mapping by which `Pipeline` implements `SubmissionService` |
| `PipelineProofs` | Theorems about `Pipeline`: types, invariant, at most once |
| `PipelineSafetyProofs` | Theorems about `Pipeline`: permits, order, deletion, status, bounds, damage; and that it implements `SubmissionService` when no write fails |
| `EnginePool`, `EnginePoolProofs` | Permits and connections of one engine, and theorems about them |
| `Judgement` | One submission from its acceptance to the reply a client is shown |
| `StatusRecord`, `Verdict`, `TestValidation` | What `Judgement` computes with: the response on its way through the hash, the classification of the program's end, the comparison of the outputs |
| `TestValidationProofs` | What the loops of `TestValidation` compute, for outputs of any length |
| `JudgementProofs` | Theorems about `Judgement` |
| `SandboxRun`, `SandboxRunProofs` | Compiler, program, control groups, deadlines and guard of one submission, and theorems about it |
| `RateLimiter`, `RateLimiterProofs` | The sliding window of one client and method, and theorems about it |
| `HttpServer`, `HttpServerProofs` | The server around the limiter: middleware, handlers, two pools, deadline, life of the process; and theorems about it |
| `MCPipeline`, `MCEnginePool`, `MCJudgement`, `MCSandboxRun`, `MCHttpServer` | Instances for TLC |

The modules meet at named places. `Judge` of `Pipeline` is one step with any response:
`Judgement` says which, and `SandboxRun` that the step comes to an end
(`JudgementEnds`). `Judgement` takes any `SandboxResult`: `SandboxRun` says which there
are, and uses the same `Verdict`. The write of a response and the poll are one step in
`Pipeline`; `StatusRecord` says what they do to its fields. `HttpServer` extends
`RateLimiter`, whose requests are its POSTs; the write that it calls `entry` is the
`Submit` of `Pipeline`, late and lost ones included.

### Pipeline

`hash`, `stream`, `eid`, `lastGen`, `group`, `lastId` and `pel` are what Redis
holds: the status hashes, the entries, their ids, the last id given, the group, its
last-delivered id and its pending lists. A submission has at most one entry, as its
id is a fresh UUID, so the submission names the entry. `loop`, `batch` and `permits`
are the main loop, the vector it dispatches and the semaphore of each engine; `on`,
`task` and `resp` are the spawned task of a submission, the await it is at, and the
response it has computed. `net` holds the writes that returned an error and that
Redis may still execute. `runs` and `faults` are history variables for the
properties.

Every call to Redis is one action with two outcomes: it is executed and answered
(`Answered`), or it returns an error (`Unanswered`) and goes to `net`, from where it
is executed later (`Late`), executed in half (`LateHalfAck`: `XACK` and `XDEL` are a
pipeline, not a transaction) or dropped (`Drop`). As a dropped or late write may be
executed at once, this covers calls that failed before, during and after execution.
`Submit` is `enqueue_task`, `Setup` the part of `main` before its loop, `Read`,
`ReadLost` and `ReadNothing` the outcomes of a read, `Dispatch` the body of
`execute_submissions_detached` up to the spawn, and `Mark`, `Judge`, `Push`, `Ack`
the four awaits of the spawned task. `Panic` is an `unwrap` or `expect` in the
sandbox: unwinding drops the permit and nothing else. `Crash` ends an engine;
`Setup` starts it again. `Flush` is a Redis that restarts without its data.

Time is abstract: a status may expire whenever it exists. Responses are a few
verdicts and the error; how a verdict comes about is not this module's matter.

### EnginePool

`Main` and the permits are actors; `at` is the await of each, `conn` whether it has
or waits for a connection, `queue` the pool's first-come-first-served queue, `left`
what the dispatch still has to spawn. `setup_conn` is alive as long as `main`, so one
connection never comes back (`Spare`). `redis_conn` is in scope while
`execute_submissions_detached` waits for permits, so `Main` gives its connection back
only when the batch is dispatched. `pool.get()` may fail (`Refuse`): a task logs and
goes on, the main loop sleeps and retries.

### Judgement, Verdict, TestValidation, StatusRecord

`job` is the execution: the payload and all that compiler, sandbox, file system and
output files will say. `Init` takes any of them, so one run looks at all. `phase` is
the await of the spawned task, `response` what `process_single_submission` returned,
`hash` the status hash as a function on its field names, `shown` the last reply of
`status_get`. There is one action for each way to a response: `NoSource`, `InvalidId`,
`CompileFails`, `SandboxFails`, `ProgramFails`, `ValidateRun`, `ValidateTest`. `Mark`
and `Push` may fail, the hash may expire, and `Poll` may happen at any time. Failures
with late execution are `Pipeline`'s.

`Verdict` is the `if` over OOM flag, effective signal, wall time and exit code.
`TestValidation` takes a line for a token; its operators are the loops of
`validate_test_cases`, as recursive functions where they accumulate, and `VerdictIsComparison`, `ScoreIsPrefix` and `BlamesFirst`
compare their results with a definition that has neither loop nor cursor. What the
program writes to its console is a sequence of characters of one byte or two, or of bytes
that are no UTF-8, and `ReadBounded` reads `OutputLimit` bytes of it, whatever they end
within; `ConsoleShown` says what a client may make of what it is shown. A line on
descriptor 3 that is no UTF-8 makes all lines unreadable (`Fd3Lines`). `HasCompiler` is the
part of the language table that decides what is done. `StatusRecord`
has the constructors of `ResponsePayload`, the fields `push_result_to_redis` writes with
`HSET`, and the constructor call `status_get` makes of them. Strings of the code that
have spaces in them stand as tokens (`end_of_output`), and error texts are tokens.

### SandboxRun

`stage` is the runner at work, `pc` where it is. `proc` says of each process whether it
is outside its group, inside, killed (the signal is pending) or dead; `group` is the
control group of each runner. `exit` is how the program ended, `status` what the runner
is told, `cause` a history of what ended the program. The kernel acts by itself: it
counts CPU time, kills when memory or CPU time is used up, and lets a killed process die
when it will. `Leave` is every `?`, `return` and `unwrap` after the guard has been made:
the guard is dropped on all of them. `faults` counts failing kernel calls.

`setup` belongs to the engine and not to the submission. `initialize_global_cgroups_once`
(`Initialized`) mounts cgroup2, moves the engine into a group of its own and turns the
controllers on, once per engine whether or not that works; `sandbox_runner` turns them on
again (`Delegated`). `Init` takes an engine with any past. There are three results:

* `"ok"`: groups have limits.
* `"failed"`: cgroup2 is mounted, the controllers are not delegated. A group has no file to
  write a limit to, `Limits` panics, and nothing is started.
* `"plain"`: the mount failed, which is only logged, on the tmpfs that `README.md:148` puts
  there. Groups are directories then and every write makes a file: limits that do not limit,
  a `cgroup.procs` that moves nobody (`Move`), a `cgroup.kill` that kills nobody
  (`KillGroup`, `GuardKills`), no `cgroup.events`, so that the guard looks as often as it may
  (`GuardPolls`), and a directory that is not empty (`GuardRemoves`). The compiler runs all
  the same. The program does not: `write_sys` opens its `cgroup.procs`, which nobody has
  written, without `O_CREAT`, so the outer process exits with 101 before it forks
  (`CannotJoin`).

`cpu` may run ahead of the clock by `Burst`: `cpu.max` grants 100 ms in every 100 ms, and a
program on several CPUs may spend them at the beginning of a period.

The code behind `SpawnProgram` and `SetUpFails` is the `pre_exec` closure: the outer
process joins the group first, so that the program is inside from its fork on; each of
its `_exit` codes is an end of the set-up (three stand for the ranges below 128, read as
a signal, and read as `SIGXCPU`). `SpawnCompiler` and `Move` are two steps, because
`compile_sandbox_runner` moves the compiler after it has started it.

### RateLimiter

`stamp` is the time each call in flight has read; `count` and `expires` are the bucket
keys in Redis; `passed` and `late` are history. `Admit` is the Lua script as Redis runs
it, at once, with arguments from an earlier clock. `Weighted` is `math.ceil` of a
product in floating point: where the exact product is an integer the result may be one
more. `Tick` advances the clock and drops expired keys. TLC runs it as part of `HttpServer`.

### HttpServer

`at` is the await of each request, `reply` the status code it has been answered with,
`mode` the life of the process. `Requests` are POSTs of one client, `Polls` are GETs:
their limiter key is another one, so that of them only the use of the pools matters.
`granted` and `entry` are histories in Redis: the script let the POST through, and its
`MULTI` is on its way or executed.

`Slot`, `SendScript`, `ScriptAnswers` are `rate_limit_middleware`, `Body`, `Slot2`, `Send`,
`CallReturns` the handlers; each has an action beside it for what may fail there, with the
status code of that error path. A request holds its connection of the limiter's pool until
the handler has returned, since `redis_connection` lives across `next.run(request)`
(`Holding`). Redis acts by itself: `ScriptAdmits`, `ScriptRefuses` and `Executed` happen
also when the request was dropped by `TimeOut`, `HangUp` or `Kill` meanwhile. `TimeOut` is
the `TimeoutLayer`, which is around everything but the reading of the head and the writing
of the answer. `Start` needs both pings; `Shutdown` and `Stop` are
`with_graceful_shutdown`; after `Kill` or a failed start the container is restarted.

Time-outs are abstract, they may strike whenever a request waits. Free slots are given in
any order. A name is used for a new request only when nothing of the last one is on its
way to Redis: more requests would have more names.

## Runs

| Run | Question | Instance |
| --- | --- | --- |
| `pipeline_faults` | Do stream, engine and status agree through all faults? | 3 submissions, 1 engine, 1 permit, batches of 2, each fault once |
| `pipeline_two_engines` | Does sharing a group keep work apart and bounded, is only lost what the fault costs, and does it implement `SubmissionService`? | 3 submissions, 2 engines, 1 permit, batches of 1; crash, panic, lost read, flush once |
| `pipeline_liveness` | Is what can be delivered served? | 3 submissions, one of them malformed, no limit on a read; crash, panic, failing write once |
| `pool_contended` | Can main loop and tasks wait in a circle? | 3 connections, 3 permits, batches of 2 |
| `judgement` | Does the verdict say how the outputs compare, and does a client read it and the console unchanged? | test cases and outputs of up to 3 lines over 2 tokens and the blank line, 20 ends of a program by exit code, consoles of up to 4 characters around a limit of 3 bytes, 6 languages, all failures |
| `sandbox_runners` | Does the verdict fit the end of the program, and is nothing left behind? | both runners, an engine with any past, a failed mount included, limits of 0.5 and 1.5 s in half seconds, a burst of one tick, 2 failing calls, 2 retries |
| `http_server` | Does the limit hold through late scripts and restarts, does any request wait for another, and what does an answer tell? | 2 POSTs of one client and a GET, pools of 2, limit 1, window of 2 ticks, calls up to a window long, horizon of 5 ticks |
| `run_marks` | Does run mode mark what matches? No | as `judgement` |
| `accepted_before_group` | Is an accepted submission judged? No | 1 submission, no fault |
| `taken_before_crash` | Is a submission that was read judged? No | 1 submission, 1 crash |
| `acknowledged_unanswered` | Has acknowledged work an answer? No | 1 submission, 1 failing write |
| `pool_one_core` | Does the engine work on one core? No | 2 connections, 1 permit |

The last five are disagreements between code and documentation, or bugs; see
`findings` in `PROJECT.json`.

Bounds. Three submissions are the least number that lets a batch of two wait while a
third entry is in the stream, and with batches of one they exceed what an engine may
hold by one, so `Backpressure` and `BlastRadius` can fail. One fault of each kind is
enough for every pair of a fault and an operation to meet in either order; the bound
is `MaxFaults`. Permits and batch length are chosen unequal in either direction over
the runs. Entry ids and history counters are bounded by the number of submissions.
Submissions are interchangeable and so are engines, hence the symmetry, which is not
used for liveness.

Test cases: two of up to two lines and three of one line have every position of a first
difference, in the first, a middle and the last test case, with blank lines and empty
outputs between, and outputs that are shorter and longer. `SandboxRun`: set-up may take
longer than the second of grace, so that a deadline counted from the wrong moment shows;
two failing calls are one more than the code survives, and `NoOrphan` says so in its
premise. A burst of one tick, half a second, is more than the 100 ms of a period; with a
limit of 1.5 s and a hard CPU limit of 2 s it is the largest that `Premature` does not
except, so that the comparison is checked at its edge. Consoles of four characters end before, at and after a limit of three bytes, with
the limit between characters and within one. `HttpServer`: three requests are one more than
a pool of two has slots, so that the first pool is exhausted while the second is asked; two
POSTs against a limit of one race for it; five ticks let a bucket be current and previous,
and calls reach Redis on either side of its end. No key expires within them, but by the
mutant of `Lifetime`; that a key is gone, and that a bucket is neither current nor previous
any more, is covered by the theorems, which hold for every horizon and the other sizes.

`NoUnjudgedDeletion`, `BlastRadius` and `ForwardStatus` have a fault count in their
premise; each is what remains true under the faults it does not exclude.

Fairness. `FairSpec` asks that a main loop which can read reads, that one which can
dispatch dispatches, and that a task which can step steps: tokio polls every ready
future, and the sandbox has a deadline. Nothing obliges clients to post, faults to
strike or statuses to expire. `OperatedSpec` adds that someone restarts an engine that
is down; the README's `docker run` line gives the engine no restart policy, so this is
an assumption about the operator. The two temporal violations are found under it, that
is, even with such an operator. In `EnginePool` the pool serves its queue in order,
as tokio's semaphore does, so weak fairness of its actions suffices. In `SandboxRun`
the runner, the clock and the death of killed processes are fair; compiler and program
are not, they may sleep for ever. In `HttpServer` the deadline of a request strikes
(tokio's timer), a shutdown with no request left ends, and a client that stays connected
sends its head and takes its answer; the last two are assumptions about the client, as
neither has a deadline in the code. Redis, the bodies and the restarts are not fair:
`ShutdownEnds` holds whatever they do.

`RateLimiter` assumes that a call reaches Redis at most a window after it has read the
clock (`DelayAssumption`). The request timeout of 10 s comes near to it for GET, with its
window of 10 s, but does not recall a script that is on its way; for POST, with a window of
5 s, it is an assumption about the latency of
Redis. Without it a call could bring back the key of a bucket long gone, and that bucket
would let more than the limit through. `PairBound` has a premise of that kind: a call that
is let through after its bucket was over may come after calls of the next bucket that
were weighed without it.

## Proofs

### Pipeline

`PipelineProofs` holds for every finite set of submissions, every set of engines,
every number of permits, batch length and number of faults; the assumptions are those
named in `Pipeline`.

* `TypeCorrect`: `Spec => []TypeOK`.
* `PipelineInvariance`: `Spec => []PipelineInv`.
* `JudgedAtMostOnce`: no submission is judged twice.
* `ResultOfOwnJudgement`: a stored result is the response of its own judgement.

`AtMostOnce` is not inductive: a state in which an entry that is being judged lies
beyond the group's position satisfies it, and the next read breaks it. `PipelineInv`
adds what rules that out: ids grow with the enqueueing (`IdsInOrder`), a submission is
enqueued once, even when the first attempt is executed late (`EnqueuedOnce`,
`WritesInFlight`), the group is past whatever waits in a batch or was started
(`TakenIsPassed`), a waiting entry waits in one batch and was not started
(`BatchesApart`), tasks live on engines that are up (`TasksPlaced`), and responses come
before they are shown (`ResponseFirst`). A lost Redis keeps `TakenIsPassed`, because
the group is gone with it and the next one starts at the end of the stream. The proof
has one lemma per group of actions, and in each one step per conjunct.

`PipelineSafetyProofs` rests on it, and on lemmas that say once what kinds of steps there
are for one part of the state: for an engine (`EngineSteps`), a status (`StatusStep`), the
pending lists (`PendingSteps`), the stranded entries (`StrandedStep`).

* `PermitsAreBalanced`: permits are neither lost nor made up.
* `StartedInOrder`: an engine starts entries in their order.
* `EngineIsBounded`: an engine holds at most a batch and a full semaphore; needs that
  a batch is never longer than `COUNT` (`BatchFits`).
* `NothingUnjudgedDeleted`: unless Redis loses its data, only judged entries are deleted.
* `DamageIsBounded`: the entries that are stranded are at most what the faults so far cost
  (`Cost`), and each fault costs at most what its engine held.
* `StrandedStays`: a stranded entry is served by nobody, ever; needs that a pending
  entry is one the group has passed, and that what waits in a batch is pending with the
  engine that has the batch (`PendingInv`).
* `StatusGoesForward`, `ResultIsStable`: action properties of the status, from the writes
  in flight (`WritesInFlight`) and the place of the task. The first holds while no write
  fails. The second holds under failing writes too: a result falls back to `processing` by a
  mark that is executed late and by nothing else, and as that step takes the mark out of
  `net`, once for each.

Its last part shows `PipelineImplementsService`: with no failing write
(`NoLostWrites`) the initial states of `Pipeline` are initial states of
`SubmissionService`, and each step a step of it or a stutter. The mapping takes the phase
of a submission from its entry, its task and its response (`PhaseOf`). Without the premise
it is false: a late `processing` may overwrite the result.

### EnginePool

`EnginePoolProofs` holds for every number of permits and connections and every batch
length, and `NoCircleOnTwoCores` for the default sizes on every machine of two cores or more.

* `PoolInvariance`: `Spec => []PoolInv`. Who waits for a connection is in the queue, once
  (`QueueInv`); connections are asked for at the calls to Redis only (`PlacesInv`); the pool
  is not overbooked, with `setup_conn` kept (`NotOverbooked`).
* `PoolTypes`: `Spec => []TypeOK`.
* `NoCircleOnTwoCores`: main loop and tasks never all wait. The pool then has at least
  three connections: one is `setup_conn`, one the main loop's, and the third belongs to a
  task that can go on, or is free. With two it fails (`pool_one_core`).

### Judgement

`JudgementProofs` holds for every set of executions, that is, for every output, payload
and end of a program.

* `HashOfOneWriter`: the hash never mixes two writes.
* `PolledResponse`: a completed status is the response the engine computed.
* `VerdictIsFinal`: a verdict that was shown is replaced by no other.

`HSET` leaves the fields it does not write. What makes it safe here is that every write
covers the fields of the ones before it (`Covers`), so the hash is one of four values
(`OneWriter`), and that each constructor can be undone from the fields it wrote
(`RoundTrip`): the proof goes through the seven constructors. `JudgementInv` adds that
the response was built by one of them and what was shown.

The other theorems say that what was computed is right.

* `JobInvariance`: `Spec => []JobInv`, the response is the one the code computes from what
  compiler, sandbox, files and program did.
* `SuccessIsEquality`: a test is passed exactly if the lines written are the lines expected
  (`VerdictIsComparison`).
* `ScoreIsCommonLength`: `ttpassed` is the length of their longest common prefix
  (`ScoreIsPrefix`).
* `BlameIsFirst`: the test case blamed is the one whose line differs first (`BlamesFirst`).
* `ConsoleIsShown`: the console is shown whole, or as far as the limit goes with a marker,
  or not at all (`ConsoleShown`).
* `MarksOfSingleLines`: if each test case expects one line, run mode marks exactly the test
  cases whose line was written. This is where the promise that `run_marks` refutes is kept.

They assume that the executions are typed (`ExecutionsAssumption`), and that the marker is
no character and `None` no text (`TokensAssumption`), which is what model values are for TLC.
`validate_test_cases` ends in one of three ways (`WaysToEnd`): a line differs, the expected
lines run out first, or nothing is left. For each, `FirstDifference` and `CommonLength` give
the length of the common prefix, and `BlamedCase` with `OwnersOfLines` the owner of the line:
the case the cursor has reached is the one that the flattened labels name. For the console,
`BytesGrow` says that a longer prefix has more bytes, and `WhatIsRead` which prefix a limit
leaves.

`TestValidationProofs` has the loops, for every input. They are recursive functions, and
what they compute needs an induction; the library's induction theorems have an operator for
a parameter, so `Induction` is stated for a set, and follows from the least element that a
well-founded relation has in what is left out (`Smallest`). `Recursion` says that a function
with given steps exists, `NonblankRuns` and `FlattenRuns` unfold the loop over the lines and
the `flat_map`. `FlattenedAt` finds each expected line in the case that `Cursor` names, and
`ExpectedLines` and `LabelledLines` say so of the two sequences that the properties compare.

### RateLimiter

`RateLimiterProofs` holds for every limit, window, horizon and set of calls.

* `LimiterInvariance`: `Spec => []LimiterInv`.
* `NoBucketOverLimit`: no bucket lets more than the limit through.
* `NoPairOverLimit`: two buckets in a row let through less than twice the limit, unless
  a call was late.

`BucketBound` needs `CountersAgree`, the key of a bucket counts all that was let through
in it, and that needs the bound on the expiry: a key made late in or after its bucket
lives until the bucket is no longer the previous one. `PairBound` needs the rounding up:
at the last moment of a bucket the previous one still weighs at least one.

### HttpServer

`HttpServerProofs` holds for every finite set of requests and every size of the pools, on
top of the assumptions of `RateLimiter`.

* `ServerLimits`: `ServerSpec => Spec`. Whatever becomes of the requests and of the process,
  the limiter takes only steps of `RateLimiter`, so that its theorems hold for the server:
  `ServerBucketBound` is one of them.
* `ServerInvariance`: `ServerSpec => []ServerInv`.
* `StreamBehindLimiter`: what is on the stream has been counted (`NothingUncounted`).
* `AnswersAreSafe`: 200 means queued, 400, 429 and 503 mean that it never will be
  (`RetryIsSafe`).
* `NobodyWaitsTwice`: whoever waits for the second pool finds a slot (`SecondPoolFree`).

`ServerInv` says for each place what a POST has behind it (`Progress`): past the limiter
only when its script has run, nothing sent before the second connection. `RetryIsSafe` is
kept together with it (`Kept`), as it looks at what happens in Redis after the answer. The
actions move one request, so the proof has a lemma for each way to move (`Going`,
`Answering`, `Leaving`, from `Moving`), and each action cites one. `SecondPoolFree` counts:
the holders of the second pool and the one that waits for it all hold a connection of the
first, which is of the same size.

### SandboxRun

`SandboxRunProofs` holds for every length of a second, set of time limits, time of
set-up, burst, patience of the guard and number of failing calls. That `None` is no number, no
end and no cause (`NoneAssumption`) is what a model value is for TLC.

* `SandboxInvariance`: `Spec => []SandboxInv`. A program runs only in a group with limits,
  whatever became of mount and delegation; for a compiler this is false (`StagesInOrder`).
* `NothingRunsOn`: with at most one failing call no process outlives its runner, but a
  helper that was forked before its compiler was moved, and, where cgroup2 could not be
  mounted, a compiler that was given up at its deadline or by an error (`NoOrphan`).
* `GroupsAreRemoved`: a runner that has returned has removed its group, or has tried to until
  its patience was used up, or leaves a plain directory (`GroupIsRemoved`).
* `TimeIsTold`: who is stopped for the time is told so (`StoppedForTimeIsTold`), but for the
  limits that `Premature` names.
* `MemoryOnlyForMemory`, `TimeOnlyForTime`: and who is told so had it coming
  (`MemoryIsMemory`, `LimitWasGranted`).
* `OutputOfCleanExit`: outputs are compared exactly if the program ended by itself with 0 and
  no OOM kill was reported (`OutputDecides`). It says of which programs `VerdictIsComparison`
  speaks, whose premise is that there is no other verdict.

None of them is inductive. `NoOrphan` speaks of runners that have returned, so the
invariant says where the processes are before: inside their group, killed before the
guard polls, and the outer process dead once there is a status (`ProcessesInv`). `GroupsInv` does the same
for the groups: which are there at which point of which runner. The
verdicts need the chain from what ended the program to the exit of the program
(`ExitFits`), from there to what the outer process passes on (`StatusFits`), and to the
result with its wall time (`ResultFits`); `SignalsTell` follows the chain back for each
cause. `LimitsAreEnough` is the arithmetic: the hard CPU limit, in whole seconds, is not
below the wall time limit, which is not below the limit of the payload. A program reaches
it at most a burst before the clock does, so a SIGKILL for CPU time is taken for a lack of
memory only if the hard limit is less than a burst above the limit of the payload
(`Premature`).

### Only model-checked

Liveness is out of the prover's reach: `DeliverableServed`, `BatchDrains`, `EveryTaskEnds`,
`JudgementEnds` and `ShutdownEnds` are checked on the instances above. The five violations
are counterexamples, and need no proof. Every other property of the runs is proved.

## What the models showed besides

These are no findings with a run of their own, but a reader of the code will want to
know them.

* The text of a response with status `error` is stored and never shown: `status_get`
  answers every such hash with "Invalid status" (`StatusOf`, last case).
* `ttpassed` is the number of matching lines, not of test cases (`ScoreIsPrefix`).
* An exit code above 128 is read as a signal, the set-up's own codes included: a
  `gid_map` that cannot be written is told as a time limit exceeded, and a program that
  exits with 137 as out of memory (`LimitWasGranted`, `MemoryIsMemory`).
* The soft CPU limit is cut to whole seconds: a limit of 1999 ms is one of 1 s of CPU.
* A helper that the compiler forks before it is moved stays outside the control group,
  its limits and its kill (`NoOrphan`).
* A console output cut within a character is dropped as a whole, without a marker
  (`ReadBounded`), and one byte on descriptor 3 that is no UTF-8 makes all lines unreadable
  (`Fd3Lines`). The marker says `Exceeded 1MB limit`, the limit is 512 KB
  (`processor.rs:91`).
* When the one delegation of the controllers fails, which is only logged, every compiled
  submission panics at the limits of its group, until an interpreted one delegates again
  (`Initialized`, `Delegated`, `Limits`).
* When the mount of cgroup2 fails on the tmpfs of `README.md:148`, which is only logged as
  "normal in docker", compilers run without limits; one that is given up at its deadline
  is not killed and runs on, since its handle is dropped without `kill_on_drop`
  (`KillGroup`, `NoOrphan`). Every program ends in its set-up with 101, which is told as a
  runtime error (`CannotJoin`). Every guard blocks a thread of the runtime for its 4 s and
  leaves its directory behind (`GuardPolls`, `GuardRemoves`).
* A program that ignores `SIGXCPU`, runs on several CPUs and has a limit just below a whole
  second, 1990 ms say, may reach the hard CPU limit before the wall time reaches the limit,
  and is then told that it was out of memory (`Premature`).
* A POST with a malformed body uses up the allowance: the limiter counts before the body
  is read (`Body`). And 429 may also mean that the script could not be run (`ScriptFails`).
* `API_CONTRACT.md:276` lists 503 as "Redis pool exhausted". The second pool is never
  exhausted (`SecondPoolFree`); when the limiter's is, the answer is 500 (`PoolFails`). 503
  is left for a connection that cannot be opened or checked in time.
* `README.md:212` and `API_CONTRACT.md:358` give a request timeout of 5 s, the code has
  10 s.

## Plan

Done, in this order: `Pipeline` with its refinement, `EnginePool`, `Judgement` with its
three helpers, `RateLimiter`, `SandboxRun`, `HttpServer`, and proofs of every safety
property that the runs check. Next:

1. `Judgement` and `SandboxRun` composed: the results of `SandboxRun` are the ones
   `Judgement` is given.
2. `HttpServer` and `Pipeline` composed: the retries of a client as submissions of their
   own, and how many a limit lets onto the stream.
3. A deadline for the head and the answer of a request, should the server get one.

## Not modelled

* The seccomp profile and the commands of the language table: constant data.
* `/health`, CORS and logging: no state. The payload's defaults are attributes for serde.
* A client that sends half a head or does not take its answer: the code has no deadline for
  it, so `ShutdownEnds` assumes that it does neither.
* The duration of `spawn` (`sandbox.rs:438`), which waits for the child to execute the
  program without a deadline: `SandboxRun` takes the set-up as one step that ends.
* Docker and CI files.
* A read without `COUNT` limit is in `Pipeline` (`BatchLen = 0`) but not in `EnginePool`,
  where the length of a batch does not matter.
