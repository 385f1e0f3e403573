---------------------------- MODULE StatusRecord -----------------------------
(***************************************************************************)
(* The response of a judgement on its way to the client: how               *)
(* push_result_to_redis writes it into the status hash and what status_get *)
(* makes of the hash.  A hash is a function on the names of its fields.    *)
(***************************************************************************)
EXTENDS Naturals

CONSTANT None  \* an Option that is None

(***************************************************************************)
(* ResponsePayload and its constructors                                    *)
(***************************************************************************)
Plain(status, message) ==
  [status |-> status, message |-> message, error |-> None, ttpassed |-> 0,
   stdout |-> None, results |-> None, failedcase |-> None]

Processing == Plain("processing", "processing")

Error(err) == [Plain("error", "error") EXCEPT !.error = err]

Success(stdout, results, tests) ==
  [Plain("completed", "success") EXCEPT
     !.stdout = stdout, !.results = results, !.ttpassed = tests]

TestFailed(ttpassed, failedcase, stdout) ==
  [Plain("completed", "testcasefailed") EXCEPT
     !.ttpassed = ttpassed, !.failedcase = failedcase, !.stdout = stdout]

CompilerError(err) ==
  [Plain("completed", "compile_time_error") EXCEPT !.error = err]

RuntimeError(err, testpassed, stdout, failedcase) ==
  [Plain("completed", "run_time_error") EXCEPT
     !.error = err, !.ttpassed = testpassed, !.stdout = stdout,
     !.failedcase = failedcase]

TimeError(tests, stdout) ==
  [Plain("completed", "time_limit_error") EXCEPT
     !.error = "time_limit_exceeded", !.ttpassed = tests, !.stdout = stdout]

MemoryError(tests, stdout) ==
  [Plain("completed", "memory_limit_error") EXCEPT
     !.error = "memory_limit_exceeded", !.ttpassed = tests, !.stdout = stdout]

(***************************************************************************)
(* Writing                                                                 *)
(***************************************************************************)
\* HSET of several fields: the others stay.
HSet(hash, fields) ==
  [f \in DOMAIN hash \union DOMAIN fields |->
     IF f \in DOMAIN fields THEN fields[f] ELSE hash[f]]

NoHash == [f \in {} |-> None]

PendingFields == [status |-> "pending"]
ProcessingFields == [status |-> "processing", message |-> "processing"]

\* Plausible bug: one option is forgotten.
ResultFieldsShort(r) ==
  [f \in {"status", "message", "ttpassed"} \union
         {o \in {"error", "stdout", "results"} : r[o] # None} |-> r[f]]

\* Plausible bug: the message is left as it is.
ResultFieldsQuiet(r) ==
  [f \in {"status", "ttpassed"} \union
         {o \in {"error", "stdout", "failedcase", "results"} : r[o] # None} |-> r[f]]

\* What push_result_to_redis writes: the options only when they are there.
ResultFields(r) ==
  [f \in {"status", "message", "ttpassed"} \union
         {o \in {"error", "stdout", "failedcase", "results"} : r[o] # None} |->
     r[f]]

(***************************************************************************)
(* Reading                                                                 *)
(***************************************************************************)
Field(hash, f, default) == IF f \in DOMAIN hash THEN hash[f] ELSE default

\* A completed hash is turned into a response by the constructor of its
\* message; what the constructor does not take is dropped.
Completed(hash) ==
  LET error   == Field(hash, "error", None)
      stdout  == Field(hash, "stdout", None)
      failed  == Field(hash, "failedcase", None)
      results == Field(hash, "results", None)
      passed  == Field(hash, "ttpassed", 0)
      message == Field(hash, "message", "error")
  IN  CASE message = "success"            -> Success(stdout, results, passed)
        [] message = "testcasefailed"     -> TestFailed(passed, failed, stdout)
        [] message = "compile_time_error" -> CompilerError(error)
        [] message = "run_time_error"     -> RuntimeError(error, passed, stdout, failed)
        [] message = "time_limit_error"   -> TimeError(passed, stdout)
        [] message = "memory_limit_error" -> MemoryError(passed, stdout)
        [] OTHER                          -> Error("invalid_status")

Reply(code, body) == [code |-> code, body |-> body]

\* The end of status_get, once Redis has answered.
StatusOf(hash) ==
  LET status == Field(hash, "status", "missing")
  IN  CASE status = "missing"                   -> Reply(404, Error("session_expired"))
        [] status = "completed"                 -> Reply(200, Completed(hash))
        [] status \in {"pending", "processing"} -> Reply(200, Processing)
        [] OTHER                                -> Reply(200, Error("invalid_status"))
==============================================================================
