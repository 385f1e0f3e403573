--------------------------- MODULE JudgementProofs ---------------------------
(***************************************************************************)
(* For every set of executions: the way of a response from the engine to   *)
(* the client, and what the response says of the program that was run.     *)
(***************************************************************************)
EXTENDS Judgement, TestValidationProofs

(***************************************************************************)
(* Responses                                                               *)
(***************************************************************************)
\* What the constructors of a completed ResponsePayload can build.
Verdicts(r) ==
  \/ \E s, p, n : r = Success(s, p, n)
  \/ \E n, c, s : r = TestFailed(n, c, s)
  \/ \E e : r = CompilerError(e)
  \/ \E e, n, s, c : r = RuntimeError(e, n, s, c)
  \/ \E n, s : r = TimeError(n, s)
  \/ \E n, s : r = MemoryError(n, s)

Constructed(r) == Verdicts(r) \/ \E e : r = Error(e)

\* An option is read back as it was: not there when it was None.
LEMMA FieldsReadBack ==
  ASSUME NEW r
  PROVE  LET h == ResultFields(r)
         IN  /\ Field(h, "status", "missing") = r.status
             /\ Field(h, "message", "error") = r.message
             /\ Field(h, "ttpassed", 0) = r.ttpassed
             /\ Field(h, "error", None) = r.error
             /\ Field(h, "stdout", None) = r.stdout
             /\ Field(h, "failedcase", None) = r.failedcase
             /\ Field(h, "results", None) = r.results
BY DEF ResultFields, Field

\* status_get undoes push_result_to_redis: each constructor takes all that it
\* had been given when the engine called it.
LEMMA RoundTrip ==
  ASSUME NEW r, Verdicts(r)
  PROVE  StatusOf(ResultFields(r)) = Reply(200, r)
<1> DEFINE h == ResultFields(r)
<1>1. StatusOf(h) = Reply(200, Completed(h))
  <2>1. r.status = "completed"
    BY DEF Verdicts, Success, TestFailed, CompilerError, RuntimeError, TimeError,
           MemoryError, Plain
  <2> QED BY <2>1, FieldsReadBack DEF StatusOf
<1>2. Completed(h) = r
  <2>1. CASE \E s, p, n : r = Success(s, p, n)
    <3>1. PICK s, p, n : r = Success(s, p, n)
      BY <2>1
    <3>2. r.message = "success" /\ r.stdout = s /\ r.results = p /\ r.ttpassed = n
      BY <3>1 DEF Success, Plain
    <3>3. Completed(h) = Success(r.stdout, r.results, r.ttpassed)
      BY <3>2, FieldsReadBack DEF Completed
    <3> QED BY <3>1, <3>2, <3>3
  <2>2. CASE \E n, c, s : r = TestFailed(n, c, s)
    <3>1. PICK n, c, s : r = TestFailed(n, c, s)
      BY <2>2
    <3>2. r.message = "testcasefailed" /\ r.ttpassed = n /\ r.failedcase = c /\ r.stdout = s
      BY <3>1 DEF TestFailed, Plain
    <3>3. Completed(h) = TestFailed(r.ttpassed, r.failedcase, r.stdout)
      BY <3>2, FieldsReadBack DEF Completed
    <3> QED BY <3>1, <3>2, <3>3
  <2>3. CASE \E e : r = CompilerError(e)
    <3>1. PICK e : r = CompilerError(e)
      BY <2>3
    <3>2. r.message = "compile_time_error" /\ r.error = e
      BY <3>1 DEF CompilerError, Plain
    <3>3. Completed(h) = CompilerError(r.error)
      BY <3>2, FieldsReadBack DEF Completed
    <3> QED BY <3>1, <3>2, <3>3
  <2>4. CASE \E e, n, s, c : r = RuntimeError(e, n, s, c)
    <3>1. PICK e, n, s, c : r = RuntimeError(e, n, s, c)
      BY <2>4
    <3>2. r.message = "run_time_error" /\ r.error = e /\ r.ttpassed = n /\ r.stdout = s /\ r.failedcase = c
      BY <3>1 DEF RuntimeError, Plain
    <3>3. Completed(h) = RuntimeError(r.error, r.ttpassed, r.stdout, r.failedcase)
      BY <3>2, FieldsReadBack DEF Completed
    <3> QED BY <3>1, <3>2, <3>3
  <2>5. CASE \E n, s : r = TimeError(n, s)
    <3>1. PICK n, s : r = TimeError(n, s)
      BY <2>5
    <3>2. r.message = "time_limit_error" /\ r.ttpassed = n /\ r.stdout = s
      BY <3>1 DEF TimeError, Plain
    <3>3. Completed(h) = TimeError(r.ttpassed, r.stdout)
      BY <3>2, FieldsReadBack DEF Completed
    <3> QED BY <3>1, <3>2, <3>3
  <2>6. CASE \E n, s : r = MemoryError(n, s)
    <3>1. PICK n, s : r = MemoryError(n, s)
      BY <2>6
    <3>2. r.message = "memory_limit_error" /\ r.ttpassed = n /\ r.stdout = s
      BY <3>1 DEF MemoryError, Plain
    <3>3. Completed(h) = MemoryError(r.ttpassed, r.stdout)
      BY <3>2, FieldsReadBack DEF Completed
    <3> QED BY <3>1, <3>2, <3>3
  <2> QED BY <2>1, <2>2, <2>3, <2>4, <2>5, <2>6 DEF Verdicts
<1> QED BY <1>1, <1>2

LEMMA StatusOfResult ==
  ASSUME NEW r, Constructed(r)
  PROVE  /\ ResultFields(r).status = r.status /\ "status" \in DOMAIN ResultFields(r)
         /\ r.status = "completed" => Verdicts(r)
         /\ r.status \in {"completed", "error"}
<1>1. Verdicts(r) => r.status = "completed"
  BY DEF Verdicts, Success, TestFailed, CompilerError, RuntimeError, TimeError,
         MemoryError, Plain
<1>2. (\E e : r = Error(e)) => r.status = "error"
  BY DEF Error, Plain
<1> QED BY <1>1, <1>2 DEF Constructed, ResultFields

(***************************************************************************)
(* The invariant                                                           *)
(***************************************************************************)
\* There is a response once the judgement is over, and who was shown a verdict
\* was shown it after the push.
JudgementInv ==
  /\ phase \in {"push", "done"} => Constructed(response)
  /\ OneWriter
  /\ Settled(shown) => /\ phase = "done" /\ shown = Reply(200, response)
                       /\ hash \in {NoHash, ResultFields(response)}

\* A hash that says completed is the one that was pushed.
LEMMA CompletedIsPushed ==
  ASSUME JudgementInv, Field(hash, "status", "missing") = "completed"
  PROVE  /\ phase = "done" /\ hash = ResultFields(response)
         /\ StatusOf(hash) = Reply(200, response)
<1>1. hash \notin {NoHash, PendingFields, ProcessingFields}
  BY DEF Field, NoHash, PendingFields, ProcessingFields
<1>2. phase = "done" /\ hash = ResultFields(response)
  BY <1>1 DEF JudgementInv, OneWriter
<1>3. Constructed(response) /\ response.status = "completed"
  BY <1>2, FieldsReadBack DEF JudgementInv
<1> QED BY <1>2, <1>3, StatusOfResult, RoundTrip

\* Whoever is told a verdict has read a completed hash.
LEMMA VerdictFromHash ==
  ASSUME Settled(StatusOf(hash))
  PROVE  Field(hash, "status", "missing") = "completed"
BY DEF Settled, StatusOf, Reply, Error, Processing, Plain

\* No hash, no status.
LEMMA ExpiredIsNoAnswer == StatusOf(NoHash) = Reply(404, Error("session_expired"))
BY DEF StatusOf, Field, NoHash

LEMMA InitInv == Init => JudgementInv
<1> SUFFICES ASSUME Init PROVE JudgementInv
  OBVIOUS
<1>1. hash = PendingFields
  <2>1. DOMAIN NoHash = {} /\ PendingFields = [f \in DOMAIN PendingFields |-> PendingFields[f]]
    BY DEF NoHash, PendingFields
  <2> QED BY <2>1 DEF Init, HSet
<1> QED BY <1>1 DEF Init, JudgementInv, OneWriter, Settled

\* A later write covers all fields of an earlier one.
LEMMA Covers ==
  ASSUME NEW h \in {NoHash, PendingFields, ProcessingFields}
  PROVE  /\ HSet(h, ProcessingFields) = ProcessingFields
         /\ \A r : HSet(h, ResultFields(r)) = ResultFields(r)
<1>1. DOMAIN h \subseteq {"status", "message"}
  BY DEF NoHash, PendingFields, ProcessingFields
<1>2. DOMAIN ProcessingFields = {"status", "message"}
      /\ ProcessingFields = [f \in DOMAIN ProcessingFields |-> ProcessingFields[f]]
  BY DEF ProcessingFields
<1>3. HSet(h, ProcessingFields) = ProcessingFields
  BY <1>1, <1>2 DEF HSet
<1>4. ASSUME NEW r PROVE HSet(h, ResultFields(r)) = ResultFields(r)
  <2>1. /\ {"status", "message"} \subseteq DOMAIN ResultFields(r)
        /\ ResultFields(r) = [f \in DOMAIN ResultFields(r) |-> ResultFields(r)[f]]
    BY DEF ResultFields
  <2>2. DOMAIN h \union DOMAIN ResultFields(r) = DOMAIN ResultFields(r)
    BY <1>1, <2>1
  <2> QED BY <2>1, <2>2 DEF HSet
<1> QED BY <1>3, <1>4

LEMMA MarkInv == JudgementInv /\ Mark => JudgementInv'
<1> SUFFICES ASSUME JudgementInv, Mark PROVE JudgementInv'
  OBVIOUS
<1>1. /\ phase = "mark" /\ phase' = "judge" /\ response' = response /\ shown' = shown
      /\ hash' = hash \/ hash' = HSet(hash, ProcessingFields)
  BY DEF Mark
<1>2. hash \in {NoHash, PendingFields, ProcessingFields} /\ ~Settled(shown)
  BY <1>1 DEF JudgementInv, OneWriter
<1>3. hash' \in {NoHash, PendingFields, ProcessingFields}
  BY <1>1, <1>2, Covers
<1> QED BY <1>1, <1>2, <1>3 DEF JudgementInv, OneWriter

\* Every way to judge responds, and only constructors make responses.
LEMMA RespondInv == ASSUME NEW r, Constructed(r), JudgementInv, Respond(r)
                    PROVE  JudgementInv'
<1>1. /\ phase = "judge" /\ phase' = "push" /\ response' = r
      /\ shown' = shown /\ hash' = hash
  BY DEF Respond
<1> QED BY <1>1 DEF JudgementInv, OneWriter

\* All responses of validate_test_cases pass the console on.
LEMMA ValidatedShows ==
  \/ \E p, n : Validated = Success(Stdout, p, n)
  \/ \E n, c : Validated = TestFailed(n, c, Stdout)
<1> DEFINE wrong == FirstWrong(Fd3Lines, Expected(job.cases))
<1>1. CASE job.cases = <<>>
  BY <1>1 DEF Validated
<1>2. CASE job.cases # <<>> /\ wrong # 0
  BY <1>2 DEF Validated
<1>3. CASE job.cases # <<>> /\ wrong = 0 /\ Len(Fd3Lines) > Len(Expected(job.cases))
  BY <1>3 DEF Validated
<1>4. CASE job.cases # <<>> /\ wrong = 0 /\ ~(Len(Fd3Lines) > Len(Expected(job.cases)))
  BY <1>4 DEF Validated
<1> QED BY <1>1, <1>2, <1>3, <1>4

LEMMA JudgeInv ==
  ASSUME JudgementInv,
         NoSource \/ InvalidId \/ CompileFails \/ SandboxFails \/ ProgramFails
           \/ ValidateRun \/ ValidateTest
  PROVE  JudgementInv'
<1>1. ASSUME NoSource \/ InvalidId \/ SandboxFails PROVE \E r : Constructed(r) /\ Respond(r)
  BY <1>1 DEF NoSource, InvalidId, SandboxFails, Constructed
<1>2. ASSUME CompileFails \/ ValidateRun PROVE \E r : Constructed(r) /\ Respond(r)
  BY <1>2 DEF CompileFails, ValidateRun, Constructed, Verdicts
<1>3. ASSUME ProgramFails PROVE \E r : Constructed(r) /\ Respond(r)
  BY <1>3 DEF ProgramFails, Constructed, Verdicts
<1>4. ASSUME ValidateTest PROVE \E r : Constructed(r) /\ Respond(r)
  BY <1>4, ValidatedShows DEF ValidateTest, Constructed, Verdicts
<1> QED BY <1>1, <1>2, <1>3, <1>4, RespondInv

LEMMA PushInv == JudgementInv /\ Push => JudgementInv'
<1> SUFFICES ASSUME JudgementInv, Push PROVE JudgementInv'
  OBVIOUS
<1>1. /\ phase = "push" /\ phase' = "done" /\ response' = response /\ shown' = shown
      /\ hash' = hash \/ hash' = HSet(hash, ResultFields(response))
  BY DEF Push
<1>2. hash \in {NoHash, PendingFields, ProcessingFields} /\ ~Settled(shown)
  BY <1>1 DEF JudgementInv, OneWriter
<1>3. hash' \in {NoHash, PendingFields, ProcessingFields, ResultFields(response)}
  BY <1>1, <1>2, Covers
<1> QED BY <1>1, <1>2, <1>3 DEF JudgementInv, OneWriter

LEMMA ExpireInv == JudgementInv /\ Expire => JudgementInv'
<1> SUFFICES ASSUME JudgementInv, Expire PROVE JudgementInv'
  OBVIOUS
<1> QED BY DEF JudgementInv, OneWriter, Expire

LEMMA PollInv == JudgementInv /\ Poll => JudgementInv'
<1> SUFFICES ASSUME JudgementInv, Poll PROVE JudgementInv'
  OBVIOUS
<1>1. /\ phase' = phase /\ response' = response /\ hash' = hash
      /\ shown' \in {StatusOf(hash), Reply(500, Error("internal"))}
  BY DEF Poll
<1>2. ASSUME Settled(shown') PROVE shown' = StatusOf(hash)
  <2>1. shown'.code = 200
    BY <1>2 DEF Settled
  <2>2. shown' # Reply(500, Error("internal"))
    BY <2>1 DEF Reply
  <2> QED BY <1>1, <2>2
<1>3. ASSUME Settled(shown')
      PROVE  phase = "done" /\ hash = ResultFields(response) /\ shown' = Reply(200, response)
  BY <1>2, <1>3, VerdictFromHash, CompletedIsPushed
<1> QED BY <1>1, <1>3 DEF JudgementInv, OneWriter

THEOREM JudgementInvariance == Spec => []JudgementInv
<1>1. JudgementInv /\ [Next]_vars => JudgementInv'
  <2> SUFFICES ASSUME JudgementInv, [Next]_vars PROVE JudgementInv'
    OBVIOUS
  <2>1. CASE UNCHANGED vars
    BY <2>1 DEF JudgementInv, OneWriter, vars
  <2> QED BY <2>1, MarkInv, JudgeInv, PushInv, ExpireInv, PollInv DEF Next
<1> QED BY <1>1, InitInv, PTL DEF Spec

(***************************************************************************)
(* What a client is told                                                   *)
(***************************************************************************)
\* The hash never mixes the fields of two writes.
THEOREM HashOfOneWriter == Spec => []OneWriter
BY JudgementInvariance, PTL DEF JudgementInv

\* A client that reads a completed status reads the response the engine
\* computed, for every response a constructor can build.
THEOREM PolledResponse == Spec => []PolledIsJudged
<1>1. JudgementInv => PolledIsJudged
  BY CompletedIsPushed DEF PolledIsJudged
<1> QED BY <1>1, JudgementInvariance, PTL

\* A verdict that was shown is not replaced by another answer of status 200.
THEOREM VerdictIsFinal == Spec => FinalAnswer
<1>1. JudgementInv /\ [Next]_vars =>
        [Settled(shown) /\ shown'.code = 200 => shown' = shown]_shown
  <2> SUFFICES ASSUME JudgementInv, Next, Settled(shown), shown'.code = 200, shown' # shown
               PROVE  FALSE
    BY DEF vars
  <2>1. Poll
    BY DEF Next, Mark, NoSource, InvalidId, CompileFails, SandboxFails, ProgramFails,
           ValidateRun, ValidateTest, Respond, Push, Expire
  <2>2. /\ shown' # Reply(500, Error("internal"))
        /\ shown' # Reply(404, Error("session_expired"))
    BY DEF Reply
  <2>3. shown' = StatusOf(hash)
    BY <2>1, <2>2 DEF Poll
  <2>4. hash # NoHash
    BY <2>2, <2>3, ExpiredIsNoAnswer
  <2>5. phase = "done" /\ shown = Reply(200, response) /\ hash = ResultFields(response)
    BY <2>4 DEF JudgementInv
  <2>6. response.status = "completed" /\ Constructed(response)
    BY <2>5 DEF JudgementInv, Settled, Reply
  <2> QED BY <2>3, <2>5, <2>6, StatusOfResult, RoundTrip
<1> QED BY <1>1, JudgementInvariance, PTL DEF Spec, FinalAnswer

(***************************************************************************)
(* The bytes of a file                                                     *)
(***************************************************************************)
\* Every character has a byte or two: a longer beginning has more bytes.
LEMMA BytesGrow ==
  ASSUME NEW T, NEW file \in Seq(T), NEW l \in 0..Len(file)
  PROVE  /\ Bytes(SubSeq(file, 1, l)) \in Nat
         /\ \A k \in 0..Len(file) : k < l => Bytes(SubSeq(file, 1, k)) < Bytes(SubSeq(file, 1, l))
<1> DEFINE Wide(text) == {i \in DOMAIN text : text[i] = "wide"}
<1>1. Len(file) \in Nat
  BY LenProperties
<1>2. ASSUME NEW k \in 0..Len(file)
      PROVE  /\ DOMAIN SubSeq(file, 1, k) = 1..k /\ Len(SubSeq(file, 1, k)) = k
             /\ Wide(SubSeq(file, 1, k)) = {i \in 1..k : file[i] = "wide"}
             /\ IsFiniteSet(Wide(SubSeq(file, 1, k)))
             /\ Cardinality(Wide(SubSeq(file, 1, k))) \in Nat
  <2> DEFINE p == SubSeq(file, 1, k)
  <2>1. p \in Seq(T) /\ Len(p) = k /\ \A i \in 1..k : p[i] = file[i]
    BY Beginning
  <2>2. DOMAIN p = 1..k
    BY <2>1, LenProperties
  <2> HIDE DEF p
  <2>3. Wide(p) = {i \in 1..k : file[i] = "wide"} /\ Wide(p) \in SUBSET (1..k)
    BY <2>1, <2>2
  <2>4. IsFiniteSet(1..k)
    BY <1>1, FS_Interval
  <2> HIDE DEF Wide
  <2>5. IsFiniteSet(Wide(p))
    BY <2>3, <2>4, FS_Subset
  <2>6. Cardinality(Wide(p)) \in Nat
    BY <2>5, FS_CardinalityType
  <2> QED BY <2>1, <2>2, <2>3, <2>5, <2>6 DEF p
<1>3. \A k \in 0..Len(file) : Bytes(SubSeq(file, 1, k)) = k + Cardinality(Wide(SubSeq(file, 1, k)))
  BY <1>2 DEF Bytes
<1>4. ASSUME NEW k \in 0..Len(file), k < l
      PROVE  Cardinality(Wide(SubSeq(file, 1, k))) <= Cardinality(Wide(SubSeq(file, 1, l)))
  <2>1. {i \in 1..k : file[i] = "wide"} \subseteq {i \in 1..l : file[i] = "wide"}
    BY <1>1, <1>4
  <2>2. Wide(SubSeq(file, 1, k)) \in SUBSET Wide(SubSeq(file, 1, l))
    BY <1>2, <2>1
  <2> HIDE DEF Wide
  <2> QED BY <1>2, <2>2, FS_Subset
<1> HIDE DEF Wide
<1> QED BY <1>1, <1>2, <1>3, <1>4

(***************************************************************************)
(* The response of a program that was run                                  *)
(***************************************************************************)
\* What becomes of it, by the verdict on its end and the kind of task.
Judged(r) ==
  \/ Verdict = "memory_limit_error" /\ r = MemoryError(0, Stdout)
  \/ Verdict = "time_limit_error" /\ r = TimeError(0, Stdout)
  \/ Verdict = "run_time_error" /\ r = RuntimeError("crashed", 0, Stdout, None)
  \/ /\ Verdict = "none" /\ job.tasktype = "run"
     /\ r = Success(Stdout, RunResults(Fd3Lines, job.cases), Len(job.cases))
  \/ /\ Verdict = "none" /\ job.tasktype = "test"
     /\ r = Validated

Responded == phase \in {"push", "done"} /\ Ran => Judged(response)

JobInv == job \in Executions /\ Responded

LEMMA JobStays ==
  ASSUME job' = job
  PROVE  /\ Ran' = Ran /\ Verdict' = Verdict /\ Stdout' = Stdout /\ Fd3Lines' = Fd3Lines
         /\ Validated' = Validated
<1>1. Ran' = Ran
  BY DEF Ran, Accepted, Compiled
<1>2. Verdict' = Verdict
  BY DEF Verdict
<1>3. Stdout' = Stdout
  BY DEF Stdout
<1>4. Fd3Lines' = Fd3Lines
  BY DEF Fd3Lines
<1>5. Validated' = Validated
  BY <1>3, <1>4 DEF Validated
<1> QED BY <1>1, <1>2, <1>3, <1>4, <1>5

LEMMA JobInvStep == JobInv /\ [Next]_vars => JobInv'
<1> SUFFICES ASSUME JobInv, [Next]_vars PROVE JobInv'
  OBVIOUS
<1>1. job' = job
  BY DEF Next, Mark, NoSource, InvalidId, CompileFails, SandboxFails, ProgramFails,
         ValidateRun, ValidateTest, Respond, Push, Expire, Poll, vars
<1>2. ASSUME phase \in {"push", "done"}, phase' \in {"push", "done"}, response' = response
      PROVE  Responded'
  <2>1. Judged(response)' = Judged(response)
    BY <1>1, <1>2, JobStays DEF Judged
  <2> QED BY <1>1, <1>2, <2>1, JobStays DEF JobInv, Responded
<1>3. CASE UNCHANGED vars \/ Expire \/ Poll \/ Mark \/ Push
  <2>1. \/ phase' \notin {"push", "done"}
        \/ phase \in {"push", "done"} /\ phase' \in {"push", "done"} /\ response' = response
    BY <1>3 DEF vars, Expire, Poll, Mark, Push
  <2>2. Responded'
    BY <1>2, <2>1 DEF Responded
  <2> QED BY <1>1, <2>2 DEF JobInv
<1>4. CASE NoSource \/ InvalidId \/ CompileFails \/ SandboxFails
  <2>1. ~Ran
    BY <1>4 DEF NoSource, InvalidId, CompileFails, SandboxFails, Ran, Accepted
  <2> QED BY <1>1, <2>1, JobStays DEF JobInv, Responded
<1>5. CASE ProgramFails \/ ValidateRun \/ ValidateTest
  <2>1. Judged(response')
    BY <1>5 DEF ProgramFails, ValidateRun, ValidateTest, Respond, Judged
  <2>2. Judged(response)'
    BY <1>1, <2>1, JobStays DEF Judged
  <2> QED BY <1>1, <2>2 DEF JobInv, Responded
<1> QED BY <1>3, <1>4, <1>5 DEF Next

\* The response is the one that the code computes from the execution.
THEOREM JobInvariance == Spec => []JobInv
<1>1. Init => JobInv
  BY DEF Init, JobInv, Responded
<1> QED BY <1>1, JobInvStep, PTL DEF Spec

(***************************************************************************)
(* What the comparison finds                                               *)
(***************************************************************************)
LEMMA JobTypes ==
  ASSUME job \in Executions
  PROVE  /\ job.cases \in Cases
         /\ job.console \in Seq(Characters)
         /\ job.lines \in Seq(Lines \union {Garbled})
         /\ Expected(job.cases) \in Seq(Lines \ {Blank})
         /\ Fd3Lines \in Seq((Lines \union {Garbled}) \ {Blank})
<1>1. /\ job.cases \in Cases /\ job.console \in Seq(Characters)
      /\ job.lines \in Seq(Lines \union {Garbled})
  BY ExecutionsAssumption DEF Cases
<1>2. Expected(job.cases) \in Seq(Lines \ {Blank})
  BY <1>1, ExpectedLines
<1>3. Nonblank(job.lines) \in Seq((Lines \union {Garbled}) \ {Blank})
  BY <1>1, NonblankLines
<1> QED BY <1>1, <1>2, <1>3 DEF Fd3Lines

\* The three ways in which validate_test_cases ends.
LEMMA WaysToEnd ==
  ASSUME job \in Executions, job.cases # <<>>
  PROVE  LET expected == Expected(job.cases)
             wrong    == FirstWrong(Fd3Lines, expected)
             passed   == Validated.ttpassed
         IN  /\ passed \in Nat /\ passed <= Len(expected) /\ passed <= Len(Fd3Lines)
             /\ \A i \in 1..passed : Fd3Lines[i] = expected[i]
             /\ \/ /\ Validated.message = "success"
                   /\ passed = Len(expected) /\ passed = Len(Fd3Lines)
                \/ /\ Validated.message = "testcasefailed"
                   /\ passed < Len(expected)
                   /\ LineAt(Fd3Lines, passed + 1) # expected[passed + 1]
                   /\ Validated.failedcase =
                        Detail(FailedCase(job.cases, passed + 1), expected[passed + 1],
                               LineAt(Fd3Lines, passed + 1))
                \/ /\ Validated.message = "testcasefailed"
                   /\ passed = Len(expected) /\ passed < Len(Fd3Lines)
                   /\ Validated.failedcase =
                        Detail(Last(job.cases), EndOfOutput, Fd3Lines[passed + 1])
<1> DEFINE E == Expected(job.cases)
           F == Fd3Lines
           w == FirstWrong(F, E)
<1>1. \/ /\ w = 0 /\ Len(E) <= Len(F) /\ \A i \in 1..Len(E) : F[i] = E[i]
      \/ /\ w \in 1..Len(E) /\ LineAt(F, w) # E[w] /\ w - 1 <= Len(F)
         /\ \A i \in 1..(w - 1) : F[i] = E[i]
  <2>1. Blank \notin Lines \ {Blank}
    OBVIOUS
  <2> QED BY <2>1, JobTypes, FirstDifference
<1>2. Len(E) \in Nat /\ Len(F) \in Nat
  BY JobTypes, LenProperties
<1> DEFINE ThisCase == FailedCase(job.cases, w)
<1>3. Validated = IF w # 0 THEN TestFailed(w - 1, Detail(ThisCase, E[w], LineAt(F, w)), Stdout)
                  ELSE IF Len(F) > Len(E)
                  THEN TestFailed(Len(E), Detail(Last(job.cases), EndOfOutput, F[Len(E) + 1]), Stdout)
                  ELSE Success(Stdout, None, Len(E))
  BY DEF Validated
<1>4. /\ \A n, c, s : /\ TestFailed(n, c, s).message = "testcasefailed"
                      /\ TestFailed(n, c, s).ttpassed = n /\ TestFailed(n, c, s).failedcase = c
      /\ \A s, r, n : Success(s, r, n).message = "success" /\ Success(s, r, n).ttpassed = n
  BY DEF TestFailed, Success, Plain
<1> HIDE DEF E, F, w
<1>5. CASE w # 0
  <2>1. w \in 1..Len(E) /\ (w - 1) + 1 = w /\ w - 1 \in Nat /\ w - 1 < Len(E)
    BY <1>1, <1>2, <1>5
  <2>2. /\ Validated.message = "testcasefailed" /\ Validated.ttpassed = w - 1
        /\ Validated.failedcase = Detail(ThisCase, E[w], LineAt(F, w))
    BY <1>3, <1>4, <1>5
  <2> QED BY <1>1, <1>2, <1>5, <2>1, <2>2 DEF E, F
<1>6. CASE w = 0 /\ Len(F) > Len(E)
  <2>1. /\ Validated.message = "testcasefailed" /\ Validated.ttpassed = Len(E)
        /\ Validated.failedcase = Detail(Last(job.cases), EndOfOutput, F[Len(E) + 1])
    BY <1>3, <1>4, <1>6
  <2> QED BY <1>1, <1>2, <1>6, <2>1 DEF E, F
<1>7. CASE w = 0 /\ ~(Len(F) > Len(E))
  <2>1. Validated.message = "success" /\ Validated.ttpassed = Len(E)
    BY <1>3, <1>4, <1>7
  <2>2. Len(F) = Len(E)
    BY <1>1, <1>2, <1>7
  <2> QED BY <1>1, <1>2, <1>7, <2>1, <2>2 DEF E, F
<1> QED BY <1>5, <1>6, <1>7

LEMMA LinesTyped ==
  ASSUME job \in Executions
  PROVE  /\ Fd3Lines \in Seq(Lines \union {Garbled})
         /\ Expected(job.cases) \in Seq(Lines \union {Garbled})
<1> DEFINE U == Lines \union {Garbled}
<1>1. Lines \ {Blank} \subseteq U /\ U \ {Blank} \subseteq U
  OBVIOUS
<1>2. Expected(job.cases) \in Seq(Lines \ {Blank}) /\ Fd3Lines \in Seq(U \ {Blank})
  BY JobTypes
<1> HIDE DEF U
<1>3. Expected(job.cases) \in Seq(U)
  BY <1>1, <1>2, SeqMonotonic
<1>4. Fd3Lines \in Seq(U)
  BY <1>1, <1>2, SeqMonotonic
<1> QED BY <1>3, <1>4 DEF U

\* The lines written are the lines expected if they are as many and none differs.
LEMMA SameLines ==
  ASSUME job \in Executions, Len(Fd3Lines) = Len(Expected(job.cases)),
         \A i \in 1..Len(Fd3Lines) : Fd3Lines[i] = Expected(job.cases)[i]
  PROVE  Fd3Lines = Expected(job.cases)
BY LinesTyped, SeqEqual

LEMMA TestedResponse ==
  ASSUME JobInv, Tested
  PROVE  job \in Executions /\ job.cases # <<>> /\ response = Validated
BY DEF JobInv, Responded, Tested, Judged

\* A test is passed exactly if the lines written are the lines expected.
THEOREM SuccessIsEquality == Spec => []VerdictIsComparison
<1>1. ASSUME JobInv, Tested
      PROVE  response.message = "success" <=> Fd3Lines = Expected(job.cases)
  <2>1. job \in Executions /\ job.cases # <<>> /\ response = Validated
    BY <1>1, TestedResponse
  <2> DEFINE E == Expected(job.cases)
             F == Fd3Lines
             n == Validated.ttpassed
  <2>2. /\ n \in Nat /\ \A i \in 1..n : F[i] = E[i]
        /\ \/ Validated.message = "success" /\ n = Len(E) /\ n = Len(F)
           \/ /\ Validated.message = "testcasefailed" /\ n < Len(E)
              /\ LineAt(F, n + 1) # E[n + 1]
           \/ Validated.message = "testcasefailed" /\ n = Len(E) /\ n < Len(F)
    BY <2>1, WaysToEnd
  <2>3. Len(E) \in Nat /\ DOMAIN E = 1..Len(E)
    BY <2>1, JobTypes, LenProperties
  <2>4. ASSUME Validated.message = "success" PROVE F = E
    <3>1. n = Len(E) /\ n = Len(F)
      BY <2>2, <2>4
    <3>2. Len(F) = Len(E) /\ \A i \in 1..Len(F) : F[i] = E[i]
      BY <2>2, <3>1
    <3> QED BY <2>1, <3>2, SameLines
  <2>5. ASSUME F = E PROVE Validated.message = "success"
    <3>1. LineAt(F, n + 1) = E[n + 1] \/ ~(n < Len(E))
      BY <2>2, <2>3, <2>5 DEF LineAt
    <3>2. Len(F) = Len(E) /\ LineAt(F, n + 1) = LineAt(E, n + 1)
      BY <2>5
    <3> HIDE DEF E, F, n
    <3>3. ~(n = Len(E) /\ n < Len(F))
      BY <2>3, <3>2
    <3> QED BY <2>2, <3>1, <3>3
  <2> QED BY <2>1, <2>4, <2>5
<1>2. JobInv => VerdictIsComparison
  <2>1. Fd3Lines = IF Garbled \in Range(job.lines) THEN <<>> ELSE Nonblank(job.lines)
    BY DEF Fd3Lines
  <2> QED BY <1>1, <2>1 DEF VerdictIsComparison
<1> QED BY <1>2, JobInvariance, PTL

\* ttpassed is the length of what the two sequences of lines have in common.
THEOREM ScoreIsCommonLength == Spec => []ScoreIsPrefix
<1>1. ASSUME JobInv, Tested
      PROVE  response.ttpassed = Len(LongestCommonPrefix({Fd3Lines, Expected(job.cases)}))
  <2>1. job \in Executions /\ job.cases # <<>> /\ response = Validated
    BY <1>1, TestedResponse
  <2> DEFINE E == Expected(job.cases)
             F == Fd3Lines
             n == Validated.ttpassed
             T == Lines \union {Garbled}
  <2>2. F \in Seq(T) /\ E \in Seq(T)
    BY <2>1, LinesTyped
  <2>3. /\ n \in Nat /\ n <= Len(F) /\ n <= Len(E) /\ \A i \in 1..n : F[i] = E[i]
        /\ n = Len(E) \/ (n < Len(E) /\ LineAt(F, n + 1) # E[n + 1])
    BY <2>1, WaysToEnd
  <2>4. Len(E) \in Nat /\ Len(F) \in Nat /\ DOMAIN F = 1..Len(F)
    BY <2>2, LenProperties
  <2>5. n = Len(F) \/ n = Len(E) \/ F[n + 1] # E[n + 1]
    BY <2>3, <2>4 DEF LineAt
  <2> HIDE DEF E, F, n, T
  <2>6. Len(LongestCommonPrefix({F, E})) = n
    BY <2>2, <2>3, <2>5, CommonLength
  <2> QED BY <2>1, <2>6 DEF E, F, n
<1>2. JobInv => ScoreIsPrefix
  BY <1>1 DEF ScoreIsPrefix
<1> QED BY <1>2, JobInvariance, PTL

LEMMA OwnersOfLines ==
  ASSUME job \in Executions
  PROVE  /\ Len(Owners) = Len(Expected(job.cases))
         /\ \A i \in 1..Len(Owners) : FailedCase(job.cases, i).id = Owners[i]
<1> DEFINE N == Len(job.cases)
           label == [k \in 1..N |-> job.cases[k].id]
           labels == Labels(job.cases, label)
<1>1. job.cases \in Cases /\ N \in Nat /\ DOMAIN job.cases = 1..N
  BY JobTypes, LenProperties DEF Cases
<1>2. \A k \in 1..N : label[k] = job.cases[k].id /\ label[k] \in Nat
  <2>1. \A k \in 1..N : job.cases[k] \in [id : Nat, output : Seq(Lines)]
    BY <1>1, ElementOfSeq DEF Cases
  <2> QED BY <2>1
<1>3. Owners = labels
  BY <1>1, <1>2 DEF Owners, Labels
<1> HIDE DEF label
<1>4. /\ Len(labels) = Len(Expected(job.cases))
      /\ \A k \in 1..N : \A i \in 1..Cursor(job.cases, k) :
           i > Cursor(job.cases, k - 1) => labels[i] = label[k]
  BY <1>1, <1>2, LabelledLines
<1>5. ASSUME NEW i \in 1..Len(Expected(job.cases)) PROVE FailedCase(job.cases, i).id = Owners[i]
  <2>1. PICK k \in 1..N : /\ FailedCase(job.cases, i) = job.cases[k]
                          /\ i \in 1..Cursor(job.cases, k) /\ i > Cursor(job.cases, k - 1)
    BY <1>1, BlamedCase
  <2>2. labels[i] = label[k]
    BY <1>4, <2>1
  <2> QED BY <1>2, <1>3, <2>1, <2>2
<1> QED BY <1>3, <1>4, <1>5

\* The test case that is blamed is the one whose line differs first, or the last
\* one if there are lines that no test case expects.
THEOREM BlameIsFirst == Spec => []BlamesFirst
<1>1. ASSUME JobInv, Tested, response.message = "testcasefailed"
      PROVE  LET i == response.ttpassed + 1
                 c == response.failedcase
             IN  IF i <= Len(Owners)
                 THEN /\ c.id = Owners[i]
                      /\ c.expected = Expected(job.cases)[i]
                      /\ c.actual = LineAt(Fd3Lines, i) /\ c.actual # c.expected
                 ELSE c.id = job.cases[Len(job.cases)].id /\ c.actual = Fd3Lines[i]
  <2>1. job \in Executions /\ job.cases # <<>> /\ response = Validated
    BY <1>1, TestedResponse
  <2> DEFINE E == Expected(job.cases)
             F == Fd3Lines
             n == Validated.ttpassed
             i == n + 1
             c == Validated.failedcase
  <2>2. /\ n \in Nat
        /\ \/ /\ n < Len(E) /\ LineAt(F, i) # E[i]
              /\ c = Detail(FailedCase(job.cases, i), E[i], LineAt(F, i))
           \/ n = Len(E) /\ c = Detail(Last(job.cases), EndOfOutput, F[i])
    BY <1>1, <2>1, WaysToEnd
  <2>3. Len(E) \in Nat /\ Len(Owners) = Len(E)
    BY <2>1, JobTypes, LenProperties, OwnersOfLines
  <2>4. \A case, e, a : /\ Detail(case, e, a).id = case.id /\ Detail(case, e, a).expected = e
                        /\ Detail(case, e, a).actual = a
    BY DEF Detail
  <2>5. CASE i <= Len(Owners)
    <3>1. i \in 1..Len(Owners) /\ n # Len(E)
      BY <2>2, <2>3, <2>5
    <3>2. FailedCase(job.cases, i).id = Owners[i]
      BY <2>1, <3>1, OwnersOfLines
    <3> QED BY <2>1, <2>2, <2>4, <2>5, <3>1, <3>2
  <2>6. CASE ~(i <= Len(Owners))
    <3>1. n = Len(E)
      BY <2>2, <2>3, <2>6
    <3> QED BY <2>1, <2>2, <2>4, <2>6, <3>1 DEF Last
  <2> QED BY <2>5, <2>6
<1>2. JobInv => BlamesFirst
  BY <1>1 DEF BlamesFirst
<1> QED BY <1>2, JobInvariance, PTL

(***************************************************************************)
(* What is shown of the console                                            *)
(***************************************************************************)
\* No beginning of a file has more bytes than the file, and only the whole file
\* has them all.
LEMMA BytesOfPrefixes ==
  ASSUME NEW file \in Seq(Characters)
  PROVE  /\ file \in Prefixes(file) /\ Bytes(file) \in Nat
         /\ \A p \in Prefixes(file) :
              /\ p \in Seq(Characters) /\ Bytes(p) \in Nat /\ Bytes(p) <= Bytes(file)
              /\ Bytes(p) = Bytes(file) => p = file
<1> DEFINE N == Len(file)
           p(l) == SubSeq(file, 1, l)
<1>1. N \in Nat /\ p(N) = file
  BY LenProperties, SubSeqFull
<1>2. \A l \in 0..N : p(l) \in Seq(Characters) /\ Bytes(p(l)) \in Nat
  BY Beginning, BytesGrow
<1>3. \A l \in 0..N : l < N => Bytes(p(l)) < Bytes(p(N))
  BY <1>1, BytesGrow
<1>4. \A q : q \in Prefixes(file) <=> \E l \in 0..N : q = p(l)
  BY DEF Prefixes
<1> HIDE DEF N, p
<1>5. N \in 0..N
  BY <1>1
<1>6. ASSUME NEW q \in Prefixes(file)
      PROVE  /\ q \in Seq(Characters) /\ Bytes(q) \in Nat /\ Bytes(q) <= Bytes(file)
             /\ Bytes(q) = Bytes(file) => q = file
  <2>1. PICK l \in 0..N : q = p(l)
    BY <1>4
  <2>2. CASE l = N
    BY <1>1, <1>2, <1>5, <2>1, <2>2
  <2>3. CASE l # N
    BY <1>1, <1>2, <1>3, <1>5, <2>1, <2>3
  <2> QED BY <2>2, <2>3
<1> QED BY <1>1, <1>2, <1>4, <1>5, <1>6

\* What read_bounded_string returns: nothing if what it has read is no UTF-8,
\* the file if it fits, or else a beginning that fills the limit, marked.
LEMMA WhatIsRead ==
  ASSUME NEW file \in Seq(Characters)
  PROVE  LET raw == ReadBounded(file)
         IN  \/ raw = file /\ Bytes(file) <= OutputLimit
             \/ /\ Bytes(file) > OutputLimit
                /\ \E p \in Prefixes(file) : Bytes(p) = OutputLimit /\ raw = Append(p, Marker)
                /\ Marker \in Range(raw)
             \/ /\ raw = <<>>
                /\ \/ \E p \in Prefixes(file) : Bytes(p) <= OutputLimit /\ ~Readable(p)
                   \/ \A p \in Prefixes(file) : Bytes(p) # OutputLimit
<1> DEFINE B == Bytes(file)
           limit == Min({OutputLimit, B})
           raw == ReadBounded(file)
           Shown == CHOOSE p \in Decoded(file) : TRUE
<1>1. OutputLimit \in Nat /\ B \in Nat
  BY OutputLimitAssumption, BytesOfPrefixes
<1>2. limit = IF B <= OutputLimit THEN B ELSE OutputLimit
  <2>1. \E x \in {OutputLimit, B} : \A y \in {OutputLimit, B} : x <= y
    BY <1>1
  <2>2. limit \in {OutputLimit, B} /\ \A y \in {OutputLimit, B} : limit <= y
    BY <2>1 DEF Min
  <2> HIDE DEF B, limit
  <2> QED BY <1>1, <2>2
<1>3. \A p : p \in Decoded(file) <=> p \in Prefixes(file) /\ Bytes(p) = limit /\ Readable(p)
  BY DEF Decoded
<1>4. Decoded(file) = {} => raw = <<>>
  BY DEF ReadBounded
<1>5. Decoded(file) # {} =>
        /\ Shown \in Decoded(file)
        /\ raw = Shown \o (IF B > OutputLimit THEN <<Marker>> ELSE <<>>)
  BY DEF ReadBounded
<1> HIDE DEF B, limit, raw, Shown
<1>6. CASE Decoded(file) = {} /\ B <= OutputLimit
  <2>1. file \in Prefixes(file) /\ Bytes(file) = limit
    BY <1>2, <1>6, BytesOfPrefixes DEF B
  <2>2. ~Readable(file)
    BY <1>3, <1>6, <2>1
  <2> QED BY <1>4, <1>6, <2>1, <2>2 DEF raw, B
<1>7. CASE Decoded(file) = {} /\ ~(B <= OutputLimit)
  <2>1. \A p \in Prefixes(file) : Bytes(p) = OutputLimit => ~Readable(p)
    BY <1>2, <1>3, <1>7
  <2>2. \A p \in Prefixes(file) : Bytes(p) = OutputLimit => Bytes(p) <= OutputLimit
    BY <1>1
  <2> QED BY <1>4, <1>7, <2>1, <2>2 DEF raw
<1>8. CASE Decoded(file) # {} /\ B <= OutputLimit
  <2>1. Shown = file
    BY <1>2, <1>3, <1>5, <1>8, BytesOfPrefixes DEF B
  <2>2. raw = file \o <<>>
    BY <1>1, <1>5, <1>8, <2>1
  <2>3. raw = file
    BY <2>2, ConcatEmptySeq
  <2> QED BY <1>8, <2>3 DEF raw, B
<1>9. CASE Decoded(file) # {} /\ ~(B <= OutputLimit)
  <2>1. /\ Shown \in Prefixes(file) /\ Bytes(Shown) = OutputLimit
        /\ Shown \in Seq(Characters)
    BY <1>2, <1>3, <1>5, <1>9, BytesOfPrefixes
  <2>2. B > OutputLimit /\ raw = Shown \o <<Marker>>
    BY <1>1, <1>5, <1>9
  <2>3. raw = Append(Shown, Marker) /\ Marker \in Range(raw)
    <3> DEFINE T == Characters \union {Marker}
    <3>1. Characters \subseteq T /\ Marker \in T
      OBVIOUS
    <3> HIDE DEF T
    <3>2. Shown \in Seq(T)
      BY <2>1, <3>1, SeqMonotonic
    <3>3. raw = Append(Shown, Marker)
      BY <2>2, <3>1, <3>2, AppendIsConcat
    <3>4. /\ Append(Shown, Marker) \in Seq(T)
          /\ Len(Append(Shown, Marker)) = Len(Shown) + 1
          /\ Append(Shown, Marker)[Len(Shown) + 1] = Marker
      BY <3>1, <3>2, AppendProperties
    <3>5. Len(Shown) \in Nat /\ DOMAIN raw = 1..(Len(Shown) + 1) /\ raw[Len(Shown) + 1] = Marker
      BY <3>2, <3>3, <3>4, LenProperties
    <3>6. Len(Shown) + 1 \in DOMAIN raw
      BY <3>5
    <3> QED BY <3>3, <3>5, <3>6 DEF Range
  <2> QED BY <2>1, <2>2, <2>3 DEF raw, B
<1> QED BY <1>6, <1>7, <1>8, <1>9

\* A text is no None.
LEMMA ReadIsText ==
  ASSUME NEW file \in Seq(Characters)
  PROVE  ReadBounded(file) # None
<1> DEFINE T == Characters \union {Marker}
<1>1. None \notin Seq(T)
  BY TokensAssumption
<1>2. Characters \subseteq T /\ Marker \in T
  OBVIOUS
<1> HIDE DEF T
<1>3. \A p \in Seq(Characters) : p \in Seq(T) /\ Append(p, Marker) \in Seq(T)
  BY <1>2, SeqMonotonic, AppendProperties
<1>4. <<>> \in Seq(T)
  BY EmptySeq
<1>5. ReadBounded(file) \in Seq(T)
  <2>1. \/ ReadBounded(file) = file \/ ReadBounded(file) = <<>>
        \/ \E p \in Prefixes(file) : ReadBounded(file) = Append(p, Marker)
    BY WhatIsRead
  <2>2. \A p \in Prefixes(file) : p \in Seq(Characters)
    BY BytesOfPrefixes
  <2> QED BY <1>3, <1>4, <2>1, <2>2
<1> QED BY <1>1, <1>5

\* What a client sees of the console is never less than it seems.
THEOREM ConsoleIsShown == Spec => []ConsoleShown
<1>1. ASSUME JobInv, phase \in {"push", "done"}, Ran
      PROVE  job.console \in Seq(Characters) /\ response.stdout = Stdout
  <2>1. Judged(response)
    BY <1>1 DEF JobInv, Responded
  <2>2. \/ \E n : response = MemoryError(n, Stdout) \/ response = TimeError(n, Stdout)
        \/ \E e, n, c : response = RuntimeError(e, n, Stdout, c)
        \/ \E p, n : response = Success(Stdout, p, n)
        \/ \E n, c : response = TestFailed(n, c, Stdout)
    BY <2>1, ValidatedShows DEF Judged
  <2>3. response.stdout = Stdout
    BY <2>2 DEF MemoryError, TimeError, RuntimeError, Success, TestFailed, Plain
  <2> QED BY <1>1, <2>3, JobTypes DEF JobInv
<1>2. ASSUME JobInv, phase \in {"push", "done"}, Ran
      PROVE  LET shownText == IF response.stdout = None THEN <<>> ELSE response.stdout
                 written   == job.console
             IN  \/ /\ shownText = written /\ Bytes(written) <= OutputLimit
                 \/ /\ Bytes(written) > OutputLimit
                    /\ \E p \in Prefixes(written) :
                         Bytes(p) = OutputLimit /\ shownText = Append(p, Marker)
                 \/ /\ shownText = <<>>
                    /\ \/ Range(written) \subseteq {Blank}
                       \/ \E p \in Prefixes(written) : Bytes(p) <= OutputLimit /\ ~Readable(p)
                       \/ \A p \in Prefixes(written) : Bytes(p) # OutputLimit
  <2> DEFINE file == job.console
             raw == ReadBounded(file)
             text == IF Stdout = None THEN <<>> ELSE Stdout
  <2>1. file \in Seq(Characters) /\ response.stdout = Stdout
    BY <1>1, <1>2
  <2>2. text = IF Range(raw) \subseteq {Blank} THEN <<>> ELSE raw
    BY <2>1, ReadIsText DEF Stdout
  <2>3. Marker \in Range(raw) => text = raw
    BY <2>2, TokensAssumption
  <2>4. raw = <<>> => text = <<>>
    BY <2>2
  <2>5. raw = file => text = file \/ (text = <<>> /\ Range(file) \subseteq {Blank})
    BY <2>2
  <2> HIDE DEF raw, file, text
  <2>6. \/ raw = file /\ Bytes(file) <= OutputLimit
        \/ /\ Bytes(file) > OutputLimit
           /\ \E p \in Prefixes(file) : Bytes(p) = OutputLimit /\ raw = Append(p, Marker)
           /\ Marker \in Range(raw)
        \/ /\ raw = <<>>
           /\ \/ \E p \in Prefixes(file) : Bytes(p) <= OutputLimit /\ ~Readable(p)
              \/ \A p \in Prefixes(file) : Bytes(p) # OutputLimit
    BY <2>1, WhatIsRead DEF raw
  <2>7. \/ /\ text = file /\ Bytes(file) <= OutputLimit
        \/ /\ Bytes(file) > OutputLimit
           /\ \E p \in Prefixes(file) : Bytes(p) = OutputLimit /\ text = Append(p, Marker)
        \/ /\ text = <<>>
           /\ \/ Range(file) \subseteq {Blank}
              \/ \E p \in Prefixes(file) : Bytes(p) <= OutputLimit /\ ~Readable(p)
              \/ \A p \in Prefixes(file) : Bytes(p) # OutputLimit
    BY <2>3, <2>4, <2>5, <2>6
  <2> QED BY <2>1, <2>7 DEF file, text
<1>3. JobInv => ConsoleShown
  BY <1>2 DEF ConsoleShown
<1> QED BY <1>3, JobInvariance, PTL

(***************************************************************************)
(* The marks of run mode                                                   *)
(***************************************************************************)
\* Every test case expects one line, blank ones apart.
OneLineEach == \A k \in DOMAIN job.cases : LineCount(job.cases[k]) = 1

MarksAreComparison ==
  /\ phase \in {"push", "done"} /\ Ran /\ Verdict = "none" /\ job.tasktype = "run"
  => \A k \in DOMAIN job.cases :
       response.results[k].success <=> LineAt(Fd3Lines, k) = Expected(job.cases)[k]

\* Run mode compares the k-th test case with the k-th line.  If each test case
\* expects one line, that is its line: a test case is marked as passed exactly if
\* the line it expects was written, and the promise of API_CONTRACT.md is kept,
\* which it is not for all test cases.
THEOREM MarksOfSingleLines ==
  Spec => [](OneLineEach => MarksAreComparison /\ RunMarksAgree)
<1>1. ASSUME JobInv, phase \in {"push", "done"}, Ran, Verdict = "none", job.tasktype = "run",
             OneLineEach, NEW k \in DOMAIN job.cases
      PROVE  /\ k \in DOMAIN Expected(job.cases)
             /\ response.results[k].success <=> LineAt(Fd3Lines, k) = Expected(job.cases)[k]
  <2> DEFINE x == Expected(job.cases)[k]
             y == LineAt(Fd3Lines, k)
  <2>1. job.cases \in Cases /\ DOMAIN job.cases = 1..Len(job.cases)
    BY <1>1, JobTypes, LenProperties DEF JobInv, Cases
  <2>2. k \in 1..Len(Expected(job.cases)) /\ x # Blank /\ Trim(job.cases[k].output) = <<x>>
    BY <1>1, <2>1, SingleLineCases DEF OneLineEach
  <2>3. response.results = RunResults(Fd3Lines, job.cases)
    <3>1. response = Success(Stdout, RunResults(Fd3Lines, job.cases), Len(job.cases))
      BY <1>1 DEF JobInv, Responded, Judged
    <3> QED BY <3>1 DEF Success, Plain
  <2>4. response.results[k].success = (Trim(job.cases[k].output) = Nonblank(<<y>>))
    BY <1>1, <2>3 DEF RunResults
  <2>5. Nonblank(<<y>>) = IF y = Blank THEN <<>> ELSE <<y>>
    BY NonblankOfOne
  <2>6. DOMAIN Expected(job.cases) = 1..Len(Expected(job.cases))
    BY <1>1, JobTypes, LenProperties DEF JobInv
  <2> HIDE DEF x, y
  <2>7. (<<x>> = IF y = Blank THEN <<>> ELSE <<y>>) <=> y = x
    BY <2>2
  <2> QED BY <2>2, <2>4, <2>5, <2>6, <2>7 DEF x, y
<1>2. JobInv => (OneLineEach => MarksAreComparison /\ RunMarksAgree)
  <2>1. \A lines, k : k \in DOMAIN lines => LineAt(lines, k) = lines[k]
    BY DEF LineAt
  <2> QED BY <1>1, <2>1 DEF MarksAreComparison, RunMarksAgree
<1> QED BY <1>2, JobInvariance, PTL
==============================================================================
