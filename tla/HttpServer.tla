------------------------------ MODULE HttpServer ------------------------------
(***************************************************************************)
(* The HTTP server around its rate limiter: how a request passes through   *)
(* the middleware and its handler, the two Redis pools it holds a          *)
(* connection of, the deadline around all of it, and the start, the        *)
(* graceful shutdown and the crash of the process.                         *)
(*                                                                         *)
(* RateLimiter's requests are the POSTs of one client; its counters are in *)
(* Redis and survive the server.  A command sent to Redis is executed or   *)
(* lost on its own, whether or not anybody waits for it any more.          *)
(***************************************************************************)
EXTENDS RateLimiter, FiniteSets

CONSTANTS
  Polls,     \* the GETs in flight: their limiter key is another one
  PoolSize   \* pool_size, the same for both pools

ASSUME PoolAssumption == PoolSize \in Nat \ {0}
ASSUME CallsAssumption ==
  IsFiniteSet(Requests) /\ IsFiniteSet(Polls) /\ Requests \intersect Polls = {}

VARIABLES
  mode,     \* of the process
  at,       \* how far each request is
  reply,    \* the status code of an answered request
  granted,  \* history: the script let this POST through
  entry     \* the MULTI that puts this POST on the stream

requestVars == <<at, reply>>
postVars    == <<granted, entry>>
serverVars  == <<vars, mode, at, reply, granted, entry>>

Calls == Requests \union Polls

Places == {"away", "head", "ask", "open", "script", "allowed", "refused", "body",
           "ask2", "open2", "call", "answered"}
Codes == {200, 400, 404, 408, 429, 500, 503}

\* What TimeoutLayer is around: neither the reading of the head nor the
\* writing of the answer.
InFlight == Places \ {"away", "head", "answered"}

\* Plausible change: the limiter's connection is given back before the handler.
HoldingScriptOnly == {"open", "script", "allowed", "refused"}

\* redis_connection lives until next.run(request) has returned.
Holding == {"open", "script", "allowed", "refused", "body", "ask2", "open2", "call"}

Holders  == {r \in Calls : at[r] \in Holding}
Holders2 == {r \in Calls : at[r] \in {"open2", "call"}}

ServerInit ==
  /\ Init
  /\ mode = "starting"
  /\ at = [r \in Calls |-> "away"]
  /\ reply = [r \in Calls |-> None]
  /\ granted = [r \in Requests |-> FALSE]
  /\ entry = [r \in Requests |-> "none"]

Go(r, place) == at' = [at EXCEPT ![r] = place] /\ UNCHANGED reply

Answer(r, code) ==
  /\ at'    = [at EXCEPT ![r] = "answered"]
  /\ reply' = [reply EXCEPT ![r] = code]

Leave(r) ==
  /\ at'    = [at EXCEPT ![r] = "away"]
  /\ reply' = [reply EXCEPT ![r] = None]

(***************************************************************************)
(* The process                                                             *)
(***************************************************************************)
\* Both pools have answered a ping, or one has not and main returns.
Start ==
  /\ mode = "starting"
  /\ mode' \in {"serving", "stopped"}
  /\ UNCHANGED <<vars, requestVars, postVars>>

\* shutdown_signal: no connection is accepted any more.
Shutdown ==
  /\ mode = "serving"
  /\ mode' = "stopping"
  /\ UNCHANGED <<vars, requestVars, postVars>>

\* serve returns when every connection is done.
Stop ==
  /\ mode = "stopping"
  /\ \A r \in Calls : at[r] = "away"
  /\ mode' = "stopped"
  /\ UNCHANGED <<vars, requestVars, postVars>>

\* The process is lost, and its connections; what it sent to Redis is not.
Kill ==
  /\ mode # "stopped"
  /\ mode' = "stopped"
  /\ at' = [r \in Calls |-> "away"]
  /\ reply' = [r \in Calls |-> None]
  /\ UNCHANGED <<vars, postVars>>

\* docker run --restart always
Restart ==
  /\ mode = "stopped"
  /\ mode' = "starting"
  /\ UNCHANGED <<vars, requestVars, postVars>>

(***************************************************************************)
(* A connection and its client                                             *)
(***************************************************************************)
\* A client connects.  Nothing of the request that had this name before is
\* on its way to Redis.
Connect(r) ==
  /\ mode = "serving" /\ at[r] = "away"
  /\ r \in Requests => stamp[r] = None /\ entry[r] # "sent"
  /\ Go(r, "head")
  /\ granted' = [q \in Requests |-> q # r /\ granted[q]]
  /\ entry'   = [q \in Requests |-> IF q = r THEN "none" ELSE entry[q]]
  /\ UNCHANGED <<vars, mode>>

\* The head of the request is complete; x-user-id may be missing.
Head(r) ==
  /\ at[r] = "head"
  /\ Go(r, "ask") \/ Answer(r, 400)
  /\ UNCHANGED <<vars, mode, postVars>>

\* The client has its answer.
Take(r) ==
  /\ at[r] = "answered"
  /\ Leave(r)
  /\ UNCHANGED <<vars, mode, postVars>>

\* The client goes: the future of the request is dropped where it waits.
HangUp(r) ==
  /\ at[r] # "away"
  /\ Leave(r)
  /\ UNCHANGED <<vars, mode, postVars>>

\* Plausible change: the deadline is put around the handlers' use of Redis
\* and no longer around the reading of the body.
TimeOutButBody(r) ==
  /\ at[r] \in InFlight \ {"body"}
  /\ Answer(r, 408)
  /\ UNCHANGED <<vars, mode, postVars>>

\* REQUEST_TIMEOUT: the future of the request is dropped where it waits.
TimeOut(r) ==
  /\ at[r] \in InFlight
  /\ Answer(r, 408)
  /\ UNCHANGED <<vars, mode, postVars>>

(***************************************************************************)
(* rate_limit_middleware                                                   *)
(***************************************************************************)
\* The pool has a slot, and opens or checks a connection.
Slot(r) ==
  /\ at[r] = "ask" /\ Cardinality(Holders) < PoolSize
  /\ Go(r, "open")
  /\ UNCHANGED <<vars, mode, postVars>>

\* POOL_TIMEOUT, or no connection.
PoolFails(r) ==
  /\ at[r] \in {"ask", "open"}
  /\ Answer(r, 500)
  /\ UNCHANGED <<vars, mode, postVars>>

\* The clock is read and the script sent.
SendScript(r) ==
  /\ at[r] = "open"
  /\ IF r \in Requests THEN Arrive(r) ELSE UNCHANGED vars
  /\ Go(r, "script")
  /\ UNCHANGED <<mode, postVars>>

\* Redis runs the script of a POST, also when nobody waits for it any more.
ScriptAdmits(r) ==
  /\ Admit(r)
  /\ granted' = [granted EXCEPT ![r] = TRUE]
  /\ IF at[r] = "script" THEN Go(r, "allowed") ELSE UNCHANGED requestVars
  /\ UNCHANGED <<mode, entry>>

\* It turns the POST away, or the command never reaches it.
ScriptRefuses(r) ==
  /\ Refuse(r)
  /\ IF at[r] = "script" THEN Go(r, "refused") ELSE UNCHANGED requestVars
  /\ UNCHANGED <<mode, postVars>>

\* Plausible bug: the answer of the script is not looked at.
ScriptAnswersAny(r) ==
  /\ at[r] \in {"allowed", "refused"}
  /\ Go(r, "body")
  /\ UNCHANGED <<vars, mode, postVars>>

\* The answer of the script arrives.
ScriptAnswers(r) ==
  /\ \/ at[r] = "allowed" /\ Go(r, "body")
     \/ at[r] = "refused" /\ Answer(r, 429)
  /\ UNCHANGED <<vars, mode, postVars>>

\* Plausible bug: unwrap_or(true), the limiter fails open.
ScriptFailsOpen(r) ==
  /\ at[r] \in {"script", "allowed", "refused"}
  /\ Go(r, "body")
  /\ UNCHANGED <<vars, mode, postVars>>

\* unwrap_or(false): the script may have run, or may run yet.
ScriptFails(r) ==
  /\ at[r] \in {"script", "allowed", "refused"}
  /\ Answer(r, 429)
  /\ UNCHANGED <<vars, mode, postVars>>

\* The limiter of a GET, which has a key of its own, decides either way; an id
\* that is no UUID is refused before Redis is asked.
PollIsLimited(r) ==
  /\ r \in Polls /\ at[r] = "script"
  /\ Go(r, "ask2") \/ \E code \in {400, 429} : Answer(r, code)
  /\ UNCHANGED <<vars, mode, postVars>>

(***************************************************************************)
(* The handlers                                                            *)
(***************************************************************************)
\* The body has arrived and is JSON, or is not.
Body(r) ==
  /\ at[r] = "body"
  /\ Go(r, "ask2") \/ Answer(r, 400)
  /\ UNCHANGED <<vars, mode, postVars>>

Slot2(r) ==
  /\ at[r] = "ask2" /\ Cardinality(Holders2) < PoolSize
  /\ Go(r, "open2")
  /\ UNCHANGED <<vars, mode, postVars>>

\* Plausible bug: POOL_TIMEOUT is put around the whole of enqueue_task.
Pool2FailsLate(r) ==
  /\ at[r] \in {"ask2", "open2", "call"}
  /\ Answer(r, 500) \/ (r \in Requests /\ Answer(r, 503))
  /\ UNCHANGED <<vars, mode, postVars>>

\* get_conn_with_timeout: status_get answers both of its errors with 500.
Pool2Fails(r) ==
  /\ at[r] \in {"ask2", "open2"}
  /\ Answer(r, 500) \/ (r \in Requests /\ Answer(r, 503))
  /\ UNCHANGED <<vars, mode, postVars>>

\* The MULTI of enqueue_task, or the HGETALL of status_get.
Send(r) ==
  /\ at[r] = "open2"
  /\ Go(r, "call")
  /\ entry' = [q \in Requests |-> IF q = r THEN "sent" ELSE entry[q]]
  /\ UNCHANGED <<vars, mode, granted>>

\* Redis executes the MULTI, or never gets it.
Executed(r) ==
  /\ entry[r] = "sent"
  /\ \E e \in {"queued", "none"} : entry' = [entry EXCEPT ![r] = e]
  /\ UNCHANGED <<vars, mode, requestVars, granted>>

\* The answer of Redis arrives.
CallReturns(r) ==
  /\ at[r] = "call"
  /\ \/ r \in Requests /\ entry[r] = "queued" /\ Answer(r, 200)
     \/ r \in Polls /\ \E code \in {200, 404} : Answer(r, code)
  /\ UNCHANGED <<vars, mode, postVars>>

\* The connection fails: the MULTI may have been executed, or may be yet.
CallFails(r) ==
  /\ at[r] = "call"
  /\ Answer(r, 500)
  /\ UNCHANGED <<vars, mode, postVars>>

TimePasses == Tick /\ UNCHANGED <<mode, requestVars, postVars>>

Lifecycle == Start \/ Shutdown \/ Stop \/ Kill \/ Restart

Client(r) == Connect(r) \/ Head(r) \/ Take(r) \/ HangUp(r)

Middleware(r) ==
  Slot(r) \/ PoolFails(r) \/ SendScript(r) \/ ScriptAnswers(r) \/ ScriptFails(r) \/ PollIsLimited(r)

Handler(r) ==
  Body(r) \/ Slot2(r) \/ Pool2Fails(r) \/ Send(r) \/ CallReturns(r) \/ CallFails(r)

Redis(r) == ScriptAdmits(r) \/ ScriptRefuses(r) \/ Executed(r)

ServerNext ==
  \/ TimePasses \/ Lifecycle
  \/ \E r \in Calls : Client(r) \/ TimeOut(r) \/ Middleware(r) \/ Handler(r)
  \/ \E r \in Requests : Redis(r)

\* Only the server's timer and its shutdown are sure to make progress, and a
\* client that is connected: its head arrives, and it takes its answer.
Fairness ==
  /\ WF_serverVars(Stop)
  /\ \A r \in Calls :
       WF_serverVars(TimeOut(r)) /\ WF_serverVars(Head(r)) /\ WF_serverVars(Take(r))

ServerSpec == ServerInit /\ [][ServerNext]_serverVars

FairServerSpec == ServerSpec /\ Fairness

(***************************************************************************)
(* Properties                                                              *)
(***************************************************************************)
\* A request that waits for the second pool while it holds a connection of the
\* first never waits for another request: there is a free slot.  Both pools
\* have the same size, and the first admits no more requests to the second than
\* it has slots, so 503 never means that the pool is exhausted.
SecondPoolFree ==
  (\E r \in Calls : at[r] = "ask2") => Cardinality(Holders2) < PoolSize

\* Every POST that is put on the stream, at whatever time and whoever still
\* waits for it, is one that the limiter has counted and let through.
NothingUncounted == \A r \in Requests : entry[r] # "none" => granted[r]

\* What an answer tells a client that may repeat its POST: after 200 the task
\* is queued, and after 400, 429 and 503 it is not and never will be.  Only
\* 408 and 500 leave it open.
RetryIsSafe ==
  \A r \in Requests :
    /\ reply[r] = 200 => entry[r] = "queued"
    /\ reply[r] \in {400, 429, 503} => entry[r] = "none"

\* After SIGTERM the server comes to its end, whatever Redis does and however
\* slowly a body arrives.
ShutdownEnds == mode = "stopping" ~> mode = "stopped"

ServerTypeOK ==
  /\ mode \in {"starting", "serving", "stopping", "stopped"}
  /\ at \in [Calls -> Places]
  /\ reply \in [Calls -> Codes \union {None}]
  /\ granted \in [Requests -> BOOLEAN]
  /\ entry \in [Requests -> {"none", "sent", "queued"}]

\* What a POST has behind it at each place.
Progress(r) ==
  /\ at[r] \in {"allowed", "body", "ask2", "open2", "call"} => granted[r]
  /\ at[r] \in InFlight \ {"call"} => entry[r] = "none"
  /\ at[r] \in {"head", "ask", "open"} => stamp[r] = None /\ ~granted[r] /\ entry[r] = "none"
  /\ at[r] = "script" => stamp[r] # None
  /\ at[r] \in Holding \ {"open", "script"} => stamp[r] = None
  /\ stamp[r] # None => ~granted[r]
  /\ entry[r] # "none" => granted[r]

\* The types, and what the others rest on: the first pool is not overbooked, a
\* POST is past the limiter only if its script has run and let it through,
\* nothing of it is sent before the second pool has given it a connection, and a
\* process that is not up holds nothing.
ServerInv ==
  /\ ServerTypeOK
  /\ Cardinality(Holders) <= PoolSize
  /\ mode \in {"starting", "stopped"} => \A r \in Calls : at[r] = "away"
  /\ \A r \in Calls : (at[r] = "answered") <=> (reply[r] # None)
  /\ \A r \in Requests : Progress(r)
==============================================================================
