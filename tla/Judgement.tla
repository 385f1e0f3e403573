----------------------------- MODULE Judgement -------------------------------
(***************************************************************************)
(* One submission from its acceptance to the answer a client is shown:     *)
(* the spawned task marks the status hash, process_single_submission turns *)
(* what compiler, sandbox and output files say into a response, the task   *)
(* pushes it, and clients poll status_get all the time.                    *)
(*                                                                         *)
(* Compiler and sandbox are external here: an execution is a record of the *)
(* payload and of all that they will report.  SandboxRun models how a      *)
(* sandbox result comes about, Pipeline how writes fail and are late.      *)
(***************************************************************************)
EXTENDS Verdict, TestValidation

CONSTANTS
  Executions,   \* the executions to be judged
  OutputLimit   \* output_limit, in bytes

\* What a file holds, character by character: of one byte or of two, white
\* space, or a byte that is no UTF-8.
Characters == {"x", "wide", Blank, "bad"}
Bytes(text) == Len(text) + Cardinality({i \in DOMAIN text : text[i] = "wide"})

\* A line of the other file, on descriptor 3, that is no UTF-8.
Garbled == "garbled"

\* LanguageConfig::get: what is compiled before it is run.
Languages == {"cpp", "rust", "java", "py", "js", "ts"}
HasCompiler(language) == language \in {"cpp", "rust", "java"}

ASSUME OutputLimitAssumption == OutputLimit \in Nat \ {0}
ASSUME ExecutionsAssumption ==
  \A x \in Executions :
    /\ x.tasktype \in {"run", "test"}
    /\ x.language \in Languages
    /\ x.compile \in {"ok", "rejected", "broken"}  \* broken: an Err of its sandbox
    /\ x.sandbox \in SandboxResults \union {None}  \* None: an Err of the sandbox
    /\ x.uuid7 \in BOOLEAN
    /\ x.io \in {"ok", "source", "input"}         \* the file that cannot be written
    /\ x.timelimit \in Nat
    /\ x.console \in Seq(Characters) /\ x.lines \in Seq(Lines \union {Garbled})
    /\ x.cases \in Seq([id : Nat, output : Seq(Lines)])

VARIABLES
  job,         \* the execution
  phase,     \* the await the task is at
  response,  \* the response of the judgement, None before
  hash,      \* the status hash
  shown      \* the last reply to a poll, None before the first

vars == <<job, phase, response, hash, shown>>

Init ==
  /\ job \in Executions
  /\ phase = "mark"
  /\ response = None
  /\ hash = HSet(NoHash, PendingFields)
  /\ shown = None

\* Plausible bug: set_processing_status is spawned and not awaited.
MarkDetached ==
  /\ phase' = IF phase = "mark" THEN "judge" ELSE phase
  /\ hash' \in {hash, HSet(hash, ProcessingFields)}
  /\ UNCHANGED <<job, response, shown>>

Mark ==
  /\ phase = "mark"
  /\ phase' = "judge"
  /\ hash' \in {hash, HSet(hash, ProcessingFields)}
  /\ UNCHANGED <<job, response, shown>>

(***************************************************************************)
(* process_single_submission                                               *)
(***************************************************************************)
Marker == "truncated"
ASSUME TokensAssumption == Blank # Marker /\ None \notin Seq(Characters \union {Marker})

Readable(text) == "bad" \notin Range(text)

\* take(max_bytes) reads the first bytes, whatever characters they end within,
\* and read_to_string wants them to be UTF-8: the text they are, if they are one.
Decoded(file) ==
  {p \in Prefixes(file) : Bytes(p) = Min({OutputLimit, Bytes(file)}) /\ Readable(p)}

\* Plausible bug: the limit is compared with what has been read.
ReadBoundedUnmarked(file) ==
  IF Decoded(file) = {} THEN <<>> ELSE CHOOSE p \in Decoded(file) : TRUE

\* read_bounded_string; an error is as good as no output.
ReadBounded(file) ==
  IF Decoded(file) = {} THEN <<>>
  ELSE (CHOOSE p \in Decoded(file) : TRUE)
         \o (IF Bytes(file) > OutputLimit THEN <<Marker>> ELSE <<>>)

\* Blank output is none.
Stdout ==
  LET raw == ReadBounded(job.console)
  IN  IF Range(raw) \subseteq {Blank} THEN None ELSE raw

\* read_to_string reads all lines or, if one is no UTF-8, none.
Fd3Lines == IF Garbled \in Range(job.lines) THEN <<>> ELSE Nonblank(job.lines)

Respond(r) ==
  /\ phase = "judge"
  /\ phase' = "push"
  /\ response' = r
  /\ UNCHANGED <<job, hash, shown>>

\* The temporary directory or the source file cannot be written.
NoSource == job.io = "source" /\ Respond(Error(None))

InvalidId ==
  /\ job.io # "source" /\ ~job.uuid7
  /\ Respond(Error("invalid_id"))

Accepted == job.io # "source" /\ job.uuid7
Compiled == HasCompiler(job.language) => job.compile = "ok"

CompileFails ==
  /\ Accepted /\ ~Compiled
  /\ Respond(CompilerError(job.compile))

\* The input cannot be written, or the sandbox returns an Err.
SandboxFails ==
  /\ Accepted /\ Compiled
  /\ job.io = "input" \/ job.sandbox = None
  /\ Respond(Error(None))

Ran == Accepted /\ Compiled /\ job.io = "ok" /\ job.sandbox # None
Verdict == Message(job.sandbox, job.timelimit)

ProgramFails ==
  /\ Ran
  /\ \/ Verdict = "memory_limit_error" /\ Respond(MemoryError(0, Stdout))
     \/ Verdict = "time_limit_error" /\ Respond(TimeError(0, Stdout))
     \/ Verdict = "run_time_error" /\ Respond(RuntimeError("crashed", 0, Stdout, None))

ValidateRun ==
  /\ Ran /\ Verdict = "none" /\ job.tasktype = "run"
  /\ Respond(Success(Stdout, RunResults(Fd3Lines, job.cases), Len(job.cases)))

\* Plausible bugs: output after the last expected line is not looked at, and
\* the wrong line is counted as passed.
ValidatedPrefix ==
  LET wrong == FirstWrong(Fd3Lines, Expected(job.cases))
  IN  IF job.cases = <<>> \/ wrong = 0 THEN Success(Stdout, None, Len(Expected(job.cases)))
      ELSE TestFailed(wrong - 1,
             Detail(FailedCase(job.cases, wrong), Expected(job.cases)[wrong],
                    LineAt(Fd3Lines, wrong)), Stdout)

ValidatedByOne ==
  LET wrong == FirstWrong(Fd3Lines, Expected(job.cases))
  IN  IF wrong = 0 THEN Success(Stdout, None, Len(Expected(job.cases)))
      ELSE TestFailed(wrong, None, Stdout)

\* The response to a test whose program ended well.
Validated ==
  LET expected == Expected(job.cases)
      wrong    == FirstWrong(Fd3Lines, expected)
      total    == Len(expected)
  IN  IF job.cases = <<>> THEN Success(Stdout, None, 0)
      ELSE IF wrong # 0
      THEN TestFailed(wrong - 1,
             Detail(FailedCase(job.cases, wrong), expected[wrong], LineAt(Fd3Lines, wrong)),
             Stdout)
      ELSE IF Len(Fd3Lines) > total
      THEN TestFailed(total, Detail(Last(job.cases), EndOfOutput, Fd3Lines[total + 1]), Stdout)
      ELSE Success(Stdout, None, total)

ValidateTest ==
  /\ Ran /\ Verdict = "none" /\ job.tasktype = "test"
  /\ Respond(Validated)

(***************************************************************************)
(* The answer                                                              *)
(***************************************************************************)
\* A push that fails is only logged.
Push ==
  /\ phase = "push"
  /\ phase' = "done"
  /\ hash' \in {hash, HSet(hash, ResultFields(response))}
  /\ UNCHANGED <<job, response, shown>>

\* Redis removes the hash when its time to live is over.
Expire ==
  /\ hash # NoHash
  /\ hash' = NoHash
  /\ UNCHANGED <<job, phase, response, shown>>

\* A poll may find no connection or Redis may not answer.
Poll ==
  /\ shown' \in {StatusOf(hash), Reply(500, Error("internal"))}
  /\ UNCHANGED <<job, phase, response, hash>>

Next ==
  \/ Mark \/ NoSource \/ InvalidId \/ CompileFails \/ SandboxFails
  \/ ProgramFails \/ ValidateRun \/ ValidateTest \/ Push \/ Expire \/ Poll

Spec == Init /\ [][Next]_vars

(***************************************************************************)
(* Properties                                                              *)
(***************************************************************************)
\* HSET merges, but the hash never mixes two writes: what a client reads was
\* written by one call of enqueue_task, set_processing_status or
\* push_result_to_redis.
OneWriter ==
  hash \in {NoHash, PendingFields, ProcessingFields} \union
           (IF phase = "done" THEN {ResultFields(response)} ELSE {})

\* A completed status is shown only after the push, and status_get shows the
\* response the engine computed, field by field, although it is taken apart
\* into strings and put together by another constructor call.
PolledIsJudged ==
  Field(hash, "status", "missing") = "completed" =>
    /\ phase = "done"
    /\ StatusOf(hash) = Reply(200, response)

Settled(reply) == reply # None /\ reply.code = 200 /\ reply.body.status = "completed"

\* A client that was told a verdict is never told another one, nor that the
\* submission is being processed: it may only be told that it has expired.
FinalAnswer ==
  [][Settled(shown) /\ shown'.code = 200 => shown' = shown]_shown

Tested ==
  /\ phase \in {"push", "done"}
  /\ Ran /\ Verdict = "none" /\ job.tasktype = "test" /\ job.cases # <<>>

\* validate_test_cases finds a test passed exactly if the lines written to
\* descriptor 3 are the expected lines, no more, no fewer, blank ones apart; a
\* line that cannot be read is as good as no line at all.
VerdictIsComparison ==
  Tested =>
    (response.message = "success" <=>
       IF Garbled \in Range(job.lines) THEN Expected(job.cases) = <<>>
       ELSE Nonblank(job.lines) = Expected(job.cases))

\* What is shown of the console is never less than it seems: without the marker
\* it is all that the program wrote, with it a true beginning of it that fills
\* the limit.  What fits is shown, unless it is blank or no UTF-8; what does not
\* fit is shown unless its beginning is no UTF-8, a character may be cut in two.
ConsoleShown ==
  phase \in {"push", "done"} /\ Ran =>
    LET shownText == IF response.stdout = None THEN <<>> ELSE response.stdout
        written   == job.console
    IN  \/ /\ shownText = written /\ Bytes(written) <= OutputLimit
        \/ /\ Bytes(written) > OutputLimit
           /\ \E p \in Prefixes(written) :
                Bytes(p) = OutputLimit /\ shownText = Append(p, Marker)
        \/ /\ shownText = <<>>
           /\ \/ Range(written) \subseteq {Blank}
              \/ \E p \in Prefixes(written) : Bytes(p) <= OutputLimit /\ ~Readable(p)
              \/ \A p \in Prefixes(written) : Bytes(p) # OutputLimit

\* ttpassed is the number of lines up to the first difference.
ScoreIsPrefix ==
  Tested =>
    response.ttpassed = Len(LongestCommonPrefix({Fd3Lines, Expected(job.cases)}))

\* To which test case each expected line belongs.
Owners ==
  FlattenSeq([k \in DOMAIN job.cases |->
    [j \in DOMAIN Nonblank(job.cases[k].output) |-> job.cases[k].id]])

\* failedcase is the test case in whose expected lines the output first
\* differs, with the two lines that differ, and the last one if the output
\* goes on after the last expected line.
BlamesFirst ==
  Tested /\ response.message = "testcasefailed" =>
    LET i == response.ttpassed + 1
        c == response.failedcase
    IN  IF i <= Len(Owners)
        THEN /\ c.id = Owners[i]
             /\ c.expected = Expected(job.cases)[i]
             /\ c.actual = LineAt(Fd3Lines, i) /\ c.actual # c.expected
        ELSE c.id = job.cases[Len(job.cases)].id /\ c.actual = Fd3Lines[i]

\* API_CONTRACT.md: "success" tells whether the test case matches the actual
\* output.  A program that writes what all test cases expect passes them all.
RunMarksAgree ==
  /\ phase \in {"push", "done"} /\ Ran /\ Verdict = "none" /\ job.tasktype = "run"
  /\ Fd3Lines = Expected(job.cases)
  => \A k \in DOMAIN job.cases : response.results[k].success

==============================================================================
