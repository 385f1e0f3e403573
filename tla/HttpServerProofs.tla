--------------------------- MODULE HttpServerProofs ---------------------------
(***************************************************************************)
(* What holds of the HTTP server for any number of requests, any size of   *)
(* the pools and any limit and window.                                     *)
(***************************************************************************)
EXTENDS HttpServer, RateLimiterProofs, FiniteSetTheorems

(***************************************************************************)
(* The server drives the limiter as the limiter's own specification says   *)
(***************************************************************************)
LEMMA ServerStep == [ServerNext]_serverVars => [Next]_vars
<1> SUFFICES ASSUME [ServerNext]_serverVars PROVE [Next]_vars
  OBVIOUS
<1>1. CASE UNCHANGED serverVars
  BY <1>1 DEF serverVars
<1>2. CASE TimePasses
  BY <1>2 DEF TimePasses, Next
<1>3. CASE Lifecycle
  BY <1>3 DEF Lifecycle, Start, Shutdown, Stop, Kill, Restart
<1>4. ASSUME NEW r \in Calls, Client(r) \/ TimeOut(r) PROVE [Next]_vars
  BY <1>4 DEF Client, Connect, Head, Take, HangUp, TimeOut
<1>5. ASSUME NEW r \in Calls, Middleware(r) PROVE [Next]_vars
  <2>1. CASE SendScript(r)
    BY <2>1 DEF SendScript, Next
  <2>2. QED
    BY <1>5, <2>1 DEF Middleware, Slot, PoolFails, ScriptAnswers, ScriptFails, PollIsLimited
<1>6. ASSUME NEW r \in Calls, Handler(r) PROVE [Next]_vars
  BY <1>6 DEF Handler, Body, Slot2, Pool2Fails, Send, CallReturns, CallFails
<1>7. ASSUME NEW r \in Requests, Redis(r) PROVE [Next]_vars
  BY <1>7 DEF Redis, ScriptAdmits, ScriptRefuses, Executed, Next
<1>8. QED
  BY <1>1, <1>2, <1>3, <1>4, <1>5, <1>6, <1>7 DEF ServerNext

\* Whatever becomes of the requests and of the process, the limiter behaves as
\* RateLimiter says: late scripts, restarts and retries are among its steps.
THEOREM ServerLimits == ServerSpec => Spec
<1>1. ServerInit => Init
  BY DEF ServerInit
<1>2. QED
  BY <1>1, ServerStep, PTL DEF ServerSpec, Spec

(***************************************************************************)
(* Counting holders                                                        *)
(***************************************************************************)
LEMMA HoldersFinite ==
  /\ IsFiniteSet(Holders) /\ Cardinality(Holders) \in Nat
  /\ IsFiniteSet(Holders2) /\ Cardinality(Holders2) \in Nat
  /\ IsFiniteSet(Holders')
<1>1. IsFiniteSet(Calls)
  BY CallsAssumption, FS_Union DEF Calls
<1>2. Holders \in SUBSET Calls /\ Holders2 \in SUBSET Calls /\ Holders' \in SUBSET Calls
  BY DEF Holders, Holders2
<1>3. QED
  BY <1>1, <1>2, FS_Subset, FS_CardinalityType

\* Who goes somewhere else gives back what it held, or holds what it did.
LEMMA NoNewHolder ==
  ASSUME Cardinality(Holders) <= PoolSize, Holders' \subseteq Holders
  PROVE  Cardinality(Holders') <= PoolSize
<1>1. Cardinality(Holders') <= Cardinality(Holders) /\ Cardinality(Holders') \in Nat
  BY HoldersFinite, FS_Subset, FS_CardinalityType
<1>2. QED
  BY <1>1, HoldersFinite, PoolAssumption

\* One more than fewer than the slots is not too many.
LEMMA OneMoreHolder ==
  ASSUME NEW r, Cardinality(Holders) < PoolSize, Holders' \subseteq Holders \union {r}
  PROVE  Cardinality(Holders') <= PoolSize
<1>1. /\ IsFiniteSet(Holders \union {r})
      /\ Cardinality(Holders \union {r}) <= Cardinality(Holders) + 1
      /\ Cardinality(Holders \union {r}) \in Nat
  <2>1. /\ IsFiniteSet(Holders \union {r})
        /\ Cardinality(Holders \union {r}) =
             IF r \in Holders THEN Cardinality(Holders) ELSE Cardinality(Holders) + 1
    BY HoldersFinite, FS_AddElement
  <2>2. QED
    BY <2>1, HoldersFinite
<1>2. Cardinality(Holders') <= Cardinality(Holders \union {r}) /\ Cardinality(Holders') \in Nat
  BY <1>1, HoldersFinite, FS_Subset, FS_CardinalityType
<1>3. QED
  BY <1>1, <1>2, HoldersFinite, PoolAssumption

(***************************************************************************)
(* The invariant                                                           *)
(***************************************************************************)
\* What every step keeps, and what it may rely on.
Kept == ServerInv /\ RetryIsSafe

LEMMA ServerInitInv == ServerInit => Kept
<1> SUFFICES ASSUME ServerInit PROVE Kept
  OBVIOUS
<1>1. ServerTypeOK
  BY DEF ServerInit, ServerTypeOK, Places
<1>2. Holders = {}
  BY DEF ServerInit, Holders, Holding
<1>3. Cardinality(Holders) <= PoolSize
  BY <1>2, FS_EmptySet, PoolAssumption
<1>4. \A r \in Requests : Progress(r)
  BY DEF ServerInit, Init, Progress, Calls, InFlight, Holding
<1>5. QED
  BY <1>1, <1>3, <1>4, NoneAssumption DEF ServerInit, Kept, ServerInv, RetryIsSafe, Calls

\* What a request is told, for one request.
Told(r) ==
  /\ reply[r] = 200 => entry[r] = "queued"
  /\ reply[r] \in {400, 429, 503} => entry[r] = "none"

\* A request that goes from one place to another touches nothing of the others,
\* so it is enough to look at this one.
LEMMA Moving ==
  ASSUME Kept, NEW r \in Calls, NEW place \in Places, NEW code \in Codes \union {None},
         place = "answered" <=> code # None,
         at' = [at EXCEPT ![r] = place], reply' = [reply EXCEPT ![r] = code],
         mode' = mode, mode \in {"serving", "stopping"},
         place \in Holding => at[r] \in Holding \/ Cardinality(Holders) < PoolSize,
         granted' \in [Requests -> BOOLEAN], entry' \in [Requests -> {"none", "sent", "queued"}],
         \A q \in Requests \ {r} :
           granted'[q] = granted[q] /\ entry'[q] = entry[q] /\ stamp'[q] = stamp[q],
         r \in Requests => Progress(r)' /\ Told(r)'
  PROVE  Kept'
<1> USE DEF Kept, ServerInv
<1>1. /\ at \in [Calls -> Places] /\ reply \in [Calls -> Codes \union {None}]
      /\ at'[r] = place /\ reply'[r] = code
      /\ \A q \in Calls \ {r} : at'[q] = at[q] /\ reply'[q] = reply[q]
  BY DEF ServerTypeOK
<1>2. ServerTypeOK'
  BY <1>1 DEF ServerTypeOK
<1>3. Cardinality(Holders') <= PoolSize
  <2>1. CASE place \in Holding => at[r] \in Holding
    <3>1. Holders' \subseteq Holders
      BY <1>1, <2>1 DEF Holders
    <3>2. QED
      BY <3>1, NoNewHolder
  <2>2. CASE Cardinality(Holders) < PoolSize
    <3>1. Holders' \subseteq Holders \union {r}
      BY <1>1 DEF Holders
    <3>2. QED
      BY <2>2, <3>1, OneMoreHolder
  <2>3. QED
    BY <2>1, <2>2
<1>4. (mode \in {"starting", "stopped"} => \A q \in Calls : at[q] = "away")'
  OBVIOUS
<1>5. (\A q \in Calls : (at[q] = "answered") <=> (reply[q] # None))'
  BY <1>1
<1>6. ASSUME NEW q \in Requests PROVE Progress(q)' /\ Told(q)'
  <2>1. CASE q = r
    BY <2>1
  <2>2. CASE q # r
    <3>1. /\ at'[q] = at[q] /\ reply'[q] = reply[q]
          /\ granted'[q] = granted[q] /\ entry'[q] = entry[q] /\ stamp'[q] = stamp[q]
      BY <1>1, <2>2 DEF Calls
    <3>2. QED
      BY <3>1 DEF Progress, RetryIsSafe, Told
  <2>3. QED
    BY <2>1, <2>2
<1>7. QED
  BY <1>2, <1>3, <1>4, <1>5, <1>6 DEF RetryIsSafe, Told

\* A request that has a place has a process, and a status code once it is answered.
LEMMA Standing ==
  ASSUME Kept, NEW r \in Calls, at[r] # "away"
  PROVE  /\ mode \in {"serving", "stopping"}
         /\ at[r] \in Places
         /\ at[r] # "answered" => reply[r] = None
         /\ r \in Requests => Progress(r) /\ Told(r)
BY DEF Kept, ServerInv, ServerTypeOK, RetryIsSafe, Told

\* An answer is right if the MULTI of the request has not been sent, unless the
\* code says otherwise.
LEMMA Answering ==
  ASSUME Kept, NEW r \in Calls, at[r] \in InFlight \union {"head"}, NEW code \in Codes, Answer(r, code),
         code \in {400, 429, 503} => at[r] # "call",
         code = 200 /\ r \in Requests => entry[r] = "queued",
         UNCHANGED <<vars, mode, postVars>>
  PROVE  Kept'
<1>1. /\ code # None /\ mode \in {"serving", "stopping"} /\ reply[r] = None
      /\ r \in Requests => Progress(r)
  BY Standing, NoneAssumption DEF Codes, InFlight
<1>2. at \in [Calls -> Places] /\ reply \in [Calls -> Codes \union {None}]
  BY DEF Kept, ServerInv, ServerTypeOK
<1>3. at'[r] = "answered" /\ reply'[r] = code
  BY <1>2 DEF Answer
<1>4. ASSUME r \in Requests PROVE Progress(r)' /\ Told(r)'
  <2>1. entry'[r] = entry[r] /\ granted'[r] = granted[r] /\ stamp'[r] = stamp[r]
    BY DEF vars, postVars
  <2>2. Progress(r)'
    BY <1>1, <1>3, <1>4, <2>1 DEF Progress, InFlight, Holding
  <2>3. Told(r)'
    BY <1>1, <1>3, <1>4, <2>1 DEF Progress, Told, InFlight, Places
  <2>4. QED
    BY <2>2, <2>3
<1>5. /\ granted' \in [Requests -> BOOLEAN] /\ entry' \in [Requests -> {"none", "sent", "queued"}]
      /\ \A q \in Requests \ {r} :
           granted'[q] = granted[q] /\ entry'[q] = entry[q] /\ stamp'[q] = stamp[q]
  BY DEF vars, postVars, Kept, ServerInv, ServerTypeOK
<1>6. QED
  BY <1>1, <1>4, <1>5, Moving DEF Answer, Places, Holding

\* A step to a place without an answer, for a request that has none.
LEMMA Going ==
  ASSUME Kept, NEW r \in Calls, NEW place \in Places \ {"answered"}, at[r] # "answered", Go(r, place),
         mode' = mode, mode \in {"serving", "stopping"},
         place \in Holding => at[r] \in Holding \/ Cardinality(Holders) < PoolSize,
         granted' \in [Requests -> BOOLEAN], entry' \in [Requests -> {"none", "sent", "queued"}],
         \A q \in Requests \ {r} :
           granted'[q] = granted[q] /\ entry'[q] = entry[q] /\ stamp'[q] = stamp[q],
         r \in Requests => Progress(r)'
  PROVE  Kept'
<1>1. reply \in [Calls -> Codes \union {None}] /\ reply[r] = None
  BY DEF Kept, ServerInv, ServerTypeOK
<1>2. reply' = [reply EXCEPT ![r] = None] /\ reply'[r] = None
  BY <1>1 DEF Go
<1>3. Told(r)'
  BY <1>2, NoneAssumption DEF Told
<1>4. QED
  BY <1>2, <1>3, Moving DEF Go

LEMMA Leaving ==
  ASSUME Kept, NEW r \in Calls, at[r] # "away", Leave(r), UNCHANGED <<vars, mode, postVars>>
  PROVE  Kept'
<1>1. mode \in {"serving", "stopping"} /\ (r \in Requests => Progress(r))
  BY Standing
<1>2. at \in [Calls -> Places] /\ reply \in [Calls -> Codes \union {None}]
  BY DEF Kept, ServerInv, ServerTypeOK
<1>3. at'[r] = "away" /\ reply'[r] = None
  BY <1>2 DEF Leave
<1>4. r \in Requests => Progress(r)' /\ Told(r)'
  BY <1>1, <1>3, NoneAssumption DEF Progress, Told, InFlight, Holding, vars, postVars
<1>5. /\ granted' \in [Requests -> BOOLEAN] /\ entry' \in [Requests -> {"none", "sent", "queued"}]
      /\ \A q \in Requests \ {r} :
           granted'[q] = granted[q] /\ entry'[q] = entry[q] /\ stamp'[q] = stamp[q]
  BY DEF vars, postVars, Kept, ServerInv, ServerTypeOK
<1>6. QED
  BY <1>1, <1>4, <1>5, Moving DEF Leave, Places, Holding

(***************************************************************************)
(* The actions                                                             *)
(***************************************************************************)
\* A step of the server on a request that has neither sent nor received
\* anything of its POST: only its place counts.
LEMMA Walking ==
  ASSUME Kept, NEW r \in Calls, NEW place \in InFlight, at[r] \in (InFlight \ {"call"}) \union {"head"},
         Go(r, place), UNCHANGED <<vars, mode, postVars>>,
         place \in Holding => at[r] \in Holding \/ Cardinality(Holders) < PoolSize,
         r \in Requests =>
           \/ at[r] = "head" /\ place = "ask"
           \/ at[r] = "ask" /\ place = "open"
           \/ {at[r], place} \subseteq {"allowed", "body", "ask2", "open2"}
  PROVE  Kept'
<1>1. /\ mode \in {"serving", "stopping"} /\ at[r] # "answered"
      /\ r \in Requests => Progress(r)
  BY Standing DEF InFlight
<1>2. at \in [Calls -> Places] /\ at'[r] = place
  BY DEF Kept, ServerInv, ServerTypeOK, Go
<1>3. r \in Requests => Progress(r)'
  BY <1>1, <1>2 DEF Progress, InFlight, Holding, vars, postVars
<1>4. /\ granted' \in [Requests -> BOOLEAN] /\ entry' \in [Requests -> {"none", "sent", "queued"}]
      /\ \A q \in Requests \ {r} :
           granted'[q] = granted[q] /\ entry'[q] = entry[q] /\ stamp'[q] = stamp[q]
  BY DEF vars, postVars, Kept, ServerInv, ServerTypeOK
<1>5. QED
  BY <1>1, <1>3, <1>4, Going DEF InFlight

LEMMA ClientKept == ASSUME Kept, NEW r \in Calls, Client(r) \/ TimeOut(r) PROVE Kept'
<1>1. CASE Connect(r)
  <2>1. /\ mode = "serving" /\ mode' = mode /\ at[r] = "away" /\ Go(r, "head") /\ UNCHANGED vars
        /\ r \in Requests => stamp[r] = None
    BY <1>1 DEF Connect
  <2>2. at \in [Calls -> Places] /\ at'[r] = "head" /\ UNCHANGED stamp
    BY <2>1 DEF Kept, ServerInv, ServerTypeOK, Go, vars
  <2>3. granted \in [Requests -> BOOLEAN] /\ entry \in [Requests -> {"none", "sent", "queued"}]
    BY DEF Kept, ServerInv, ServerTypeOK
  <2>4. /\ granted' \in [Requests -> BOOLEAN] /\ entry' \in [Requests -> {"none", "sent", "queued"}]
        /\ \A q \in Requests \ {r} : granted'[q] = granted[q] /\ entry'[q] = entry[q]
        /\ r \in Requests => granted'[r] = FALSE /\ entry'[r] = "none"
    BY <1>1, <2>3 DEF Connect
  <2>5. r \in Requests => Progress(r)'
    BY <2>1, <2>2, <2>4 DEF Progress, InFlight, Holding
  <2>6. QED
    BY <2>1, <2>2, <2>4, <2>5, Going DEF Places, Holding
<1>2. CASE Head(r)
  <2>1. CASE Go(r, "ask")
    <3>1. /\ at[r] = "head" /\ UNCHANGED <<vars, mode, postVars>>
          /\ "ask" \in InFlight /\ "ask" \notin Holding
      BY <1>2 DEF Head, InFlight, Places, Holding
    <3>2. QED
      BY <2>1, <3>1, Walking
  <2>2. CASE Answer(r, 400)
    BY <1>2, <2>2, Answering DEF Head, Codes
  <2>3. QED
    BY <1>2, <2>1, <2>2 DEF Head
<1>3. CASE Take(r) \/ HangUp(r)
  BY <1>3, Leaving DEF Take, HangUp
<1>4. CASE TimeOut(r)
  BY <1>4, Answering DEF TimeOut, Codes
<1>5. QED
  BY <1>1, <1>2, <1>3, <1>4 DEF Client

LEMMA MiddlewareKept == ASSUME Kept, TypeOK, NEW r \in Calls, Middleware(r) PROVE Kept'
<1>1. CASE Slot(r)
  BY <1>1, Walking DEF Slot, InFlight, Places, Holding
<1>2. CASE PoolFails(r)
  BY <1>2, Answering DEF PoolFails, Codes, InFlight, Places
<1>3. CASE SendScript(r)
  <2>1. /\ mode \in {"serving", "stopping"} /\ mode' = mode /\ UNCHANGED postVars
        /\ r \in Requests => Progress(r)
        /\ at[r] = "open" /\ Go(r, "script")
    BY <1>3, Standing DEF SendScript
  <2>2. at \in [Calls -> Places] /\ at'[r] = "script"
    BY <2>1 DEF Kept, ServerInv, ServerTypeOK, Go
  <2>3. /\ \A q \in Requests \ {r} : stamp'[q] = stamp[q]
        /\ r \in Requests => stamp'[r] = now
    BY <1>3 DEF SendScript, Arrive, TypeOK, vars
  <2>4. r \in Requests => Progress(r)'
    BY <2>1, <2>2, <2>3, NoneAssumption, WindowAssumption, HorizonAssumption
    DEF TypeOK, Progress, InFlight, Holding, postVars
  <2>5. /\ granted' \in [Requests -> BOOLEAN] /\ entry' \in [Requests -> {"none", "sent", "queued"}]
        /\ \A q \in Requests \ {r} : granted'[q] = granted[q] /\ entry'[q] = entry[q]
    BY <2>1 DEF postVars, Kept, ServerInv, ServerTypeOK
  <2>6. QED
    BY <2>1, <2>3, <2>4, <2>5, Going DEF Places, Holding
<1>4. CASE ScriptAnswers(r)
  <2>1. CASE at[r] = "allowed" /\ Go(r, "body")
    BY <1>4, <2>1, Walking DEF ScriptAnswers, InFlight, Places, Holding
  <2>2. CASE at[r] = "refused" /\ Answer(r, 429)
    BY <1>4, <2>2, Answering DEF ScriptAnswers, InFlight, Places, Codes
  <2>3. QED
    BY <1>4, <2>1, <2>2 DEF ScriptAnswers
<1>5. CASE ScriptFails(r)
  BY <1>5, Answering DEF ScriptFails, InFlight, Places, Codes
<1>6. CASE PollIsLimited(r)
  <2>1. CASE Go(r, "ask2")
    BY <1>6, <2>1, Walking, CallsAssumption DEF PollIsLimited, InFlight, Places, Holding
  <2>2. ASSUME NEW code \in {400, 429}, Answer(r, code) PROVE Kept'
    BY <1>6, <2>2, Answering DEF PollIsLimited, InFlight, Places, Codes
  <2>3. QED
    BY <1>6, <2>1, <2>2 DEF PollIsLimited
<1>7. QED
  BY <1>1, <1>2, <1>3, <1>4, <1>5, <1>6 DEF Middleware

LEMMA HandlerKept == ASSUME Kept, NEW r \in Calls, Handler(r) PROVE Kept'
<1>1. CASE Body(r)
  <2>1. CASE Go(r, "ask2")
    BY <1>1, <2>1, Walking DEF Body, InFlight, Places, Holding
  <2>2. CASE Answer(r, 400)
    BY <1>1, <2>2, Answering DEF Body, InFlight, Places, Codes
  <2>3. QED
    BY <1>1, <2>1, <2>2 DEF Body
<1>2. CASE Slot2(r)
  BY <1>2, Walking DEF Slot2, InFlight, Places, Holding
<1>3. CASE Pool2Fails(r)
  <2>1. CASE Answer(r, 500)
    BY <1>3, <2>1, Answering DEF Pool2Fails, InFlight, Places, Codes
  <2>2. CASE Answer(r, 503)
    BY <1>3, <2>2, Answering DEF Pool2Fails, InFlight, Places, Codes
  <2>3. QED
    BY <1>3, <2>1, <2>2 DEF Pool2Fails
<1>4. CASE Send(r)
  <2>1. /\ mode \in {"serving", "stopping"} /\ mode' = mode /\ UNCHANGED vars
        /\ r \in Requests => Progress(r)
        /\ at[r] = "open2" /\ Go(r, "call") /\ UNCHANGED granted
    BY <1>4, Standing DEF Send
  <2>2. at \in [Calls -> Places] /\ at'[r] = "call" /\ UNCHANGED stamp
    BY <2>1 DEF Kept, ServerInv, ServerTypeOK, Go, vars
  <2>3. granted \in [Requests -> BOOLEAN] /\ entry \in [Requests -> {"none", "sent", "queued"}]
    BY DEF Kept, ServerInv, ServerTypeOK
  <2>4. /\ entry' \in [Requests -> {"none", "sent", "queued"}]
        /\ \A q \in Requests \ {r} : entry'[q] = entry[q]
        /\ r \in Requests => entry'[r] = "sent"
    BY <1>4, <2>3 DEF Send
  <2>5. r \in Requests => Progress(r)'
    BY <2>1, <2>2, <2>4 DEF Progress, InFlight, Holding
  <2>6. QED
    BY <2>1, <2>2, <2>3, <2>4, <2>5, Going DEF Places, Holding
<1>5. CASE CallReturns(r)
  <2>1. CASE r \in Requests /\ entry[r] = "queued" /\ Answer(r, 200)
    BY <1>5, <2>1, Answering DEF CallReturns, InFlight, Places, Codes
  <2>2. ASSUME NEW code \in {200, 404}, r \in Polls, Answer(r, code) PROVE Kept'
    BY <1>5, <2>2, Answering, CallsAssumption DEF CallReturns, InFlight, Places, Codes
  <2>3. QED
    BY <1>5, <2>1, <2>2 DEF CallReturns
<1>6. CASE CallFails(r)
  BY <1>6, Answering DEF CallFails, InFlight, Places, Codes
<1>7. QED
  BY <1>1, <1>2, <1>3, <1>4, <1>5, <1>6 DEF Handler
\* What Redis does on its own, and the limiter's clock, leave places and
\* answers alone or bring a request on by one place.
LEMMA RedisKept == ASSUME Kept, TypeOK, NEW r \in Requests, Redis(r) PROVE Kept'
<1>1. /\ at \in [Calls -> Places] /\ r \in Calls
      /\ granted \in [Requests -> BOOLEAN] /\ entry \in [Requests -> {"none", "sent", "queued"}]
      /\ stamp \in [Requests -> Nat \union {None}]
      /\ Progress(r) /\ Told(r)
  BY DEF Kept, ServerInv, ServerTypeOK, TypeOK, Calls, RetryIsSafe, Told
<1>2. CASE at[r] = "script" /\ (ScriptAdmits(r) \/ ScriptRefuses(r))
  <2>1. PICK place \in {"allowed", "refused"} :
          /\ Go(r, place) /\ mode' = mode /\ entry' = entry
          /\ granted' = IF place = "allowed" THEN [granted EXCEPT ![r] = TRUE] ELSE granted
          /\ stamp' = [stamp EXCEPT ![r] = None]
    BY <1>2 DEF ScriptAdmits, ScriptRefuses, Admit, Refuse, postVars
  <2>2. at'[r] = place /\ stamp'[r] = None /\ entry'[r] = "none"
    BY <1>1, <1>2, <2>1 DEF Go, Progress, InFlight, Places
  <2>3. /\ granted' \in [Requests -> BOOLEAN] /\ granted'[r] = (place = "allowed" \/ granted[r])
        /\ \A q \in Requests \ {r} : granted'[q] = granted[q]
    BY <1>1, <2>1
  <2>4. Progress(r)'
    BY <1>1, <1>2, <2>2, <2>3 DEF Progress, InFlight, Holding
  <2>5. mode \in {"serving", "stopping"}
    BY <1>1, <1>2, Standing
  <2>6. /\ entry' \in [Requests -> {"none", "sent", "queued"}]
        /\ \A q \in Requests \ {r} : entry'[q] = entry[q] /\ stamp'[q] = stamp[q]
    BY <1>1, <2>1
  <2>7. QED
    BY <1>1, <1>2, <2>1, <2>3, <2>4, <2>5, <2>6, Going DEF Places, Holding
<1>3. CASE Executed(r) \/ (at[r] # "script" /\ (ScriptAdmits(r) \/ ScriptRefuses(r)))
  <2>1. UNCHANGED <<mode, at, reply>>
    BY <1>2, <1>3 DEF ScriptAdmits, ScriptRefuses, Executed, requestVars
  <2>2. /\ granted' \in [Requests -> BOOLEAN] /\ entry' \in [Requests -> {"none", "sent", "queued"}]
        /\ \A q \in Requests \ {r} :
             granted'[q] = granted[q] /\ entry'[q] = entry[q] /\ stamp'[q] = stamp[q]
    BY <1>1, <1>3 DEF ScriptAdmits, ScriptRefuses, Executed, Admit, Refuse, vars, postVars
  <2>3. Progress(r)' /\ Told(r)'
    <3>1. CASE Executed(r)
      BY <1>1, <2>1, <3>1 DEF Executed, Progress, Told, vars, InFlight, Places
    <3>2. CASE at[r] # "script" /\ (ScriptAdmits(r) \/ ScriptRefuses(r))
      <4>1. stamp[r] # None /\ stamp'[r] = None /\ entry' = entry
        BY <1>1, <3>2 DEF ScriptAdmits, ScriptRefuses, Admit, Refuse, postVars
      <4>2. at[r] \in {"away", "answered"}
        BY <1>1, <3>2, <4>1 DEF Progress, Holding, Places
      <4>3. granted[r] => granted'[r]
        BY <1>1, <3>2 DEF ScriptAdmits, ScriptRefuses, postVars
      <4>4. QED
        BY <1>1, <2>1, <4>1, <4>2, <4>3 DEF Progress, Told, InFlight, Holding
    <3>3. QED
      BY <1>3, <3>1, <3>2
  <2>4. ServerTypeOK' /\ Holders' = Holders
    BY <2>1, <2>2 DEF Kept, ServerInv, ServerTypeOK, Holders
  <2>5. ASSUME NEW q \in Requests \ {r} PROVE Progress(q)' /\ Told(q)'
    BY <2>1, <2>2 DEF Kept, ServerInv, RetryIsSafe, Progress, Told
  <2>6. QED
    BY <2>1, <2>3, <2>4, <2>5 DEF Kept, ServerInv, RetryIsSafe, Told
<1>4. QED
  BY <1>2, <1>3 DEF Redis

LEMMA ProcessKept == ASSUME Kept, Lifecycle \/ TimePasses PROVE Kept'
<1>1. CASE Kill
  <2>1. UNCHANGED <<stamp, granted, entry>> /\ mode' = "stopped"
    BY <1>1 DEF Kill, vars, postVars
  <2>2. \A r \in Calls : at'[r] = "away" /\ reply'[r] = None
    BY <1>1 DEF Kill
  <2>3. ServerTypeOK'
    BY <1>1, <2>1 DEF Kept, ServerInv, ServerTypeOK, Kill, Places
  <2>4. Holders' \subseteq Holders
    BY <2>2 DEF Holders, Holding
  <2>5. Cardinality(Holders') <= PoolSize
    BY <2>4, NoNewHolder DEF Kept, ServerInv
  <2>6. ASSUME NEW r \in Requests PROVE Progress(r)' /\ Told(r)'
    BY <2>1, <2>2, NoneAssumption DEF Kept, ServerInv, Progress, Told, InFlight, Holding, Calls
  <2>7. QED
    BY <2>1, <2>2, <2>3, <2>5, <2>6 DEF Kept, ServerInv, RetryIsSafe, Told
<1>2. CASE TimePasses \/ Start \/ Shutdown \/ Stop \/ Restart
  <2>1. UNCHANGED <<at, reply, stamp, granted, entry>>
    BY <1>2 DEF TimePasses, Tick, Start, Shutdown, Stop, Restart, vars, requestVars, postVars
  <2>2. /\ mode' \in {"starting", "serving", "stopping", "stopped"}
        /\ mode' \in {"starting", "stopped"} => \A r \in Calls : at[r] = "away"
    BY <1>2 DEF Kept, ServerInv, ServerTypeOK, TimePasses, Start, Shutdown, Stop, Restart
  <2>3. ServerTypeOK' /\ Holders' = Holders
    BY <2>1, <2>2 DEF Kept, ServerInv, ServerTypeOK, Holders
  <2>4. ASSUME NEW r \in Requests PROVE Progress(r)' /\ Told(r)'
    BY <2>1 DEF Kept, ServerInv, RetryIsSafe, Progress, Told
  <2>5. QED
    BY <2>1, <2>2, <2>3, <2>4 DEF Kept, ServerInv, RetryIsSafe, Told
<1>3. QED
  BY <1>1, <1>2 DEF Lifecycle

LEMMA StutterKept == Kept /\ UNCHANGED serverVars => Kept'
<1> SUFFICES ASSUME Kept, UNCHANGED serverVars PROVE Kept'
  OBVIOUS
<1>1. UNCHANGED <<mode, at, reply, stamp, granted, entry>>
  BY DEF serverVars, vars
<1>2. ServerTypeOK' /\ Holders' = Holders
  BY <1>1 DEF Kept, ServerInv, ServerTypeOK, Holders
<1>3. ASSUME NEW r \in Requests PROVE Progress(r)' /\ Told(r)'
  BY <1>1 DEF Kept, ServerInv, RetryIsSafe, Progress, Told
<1>4. QED
  BY <1>1, <1>2, <1>3 DEF Kept, ServerInv, RetryIsSafe, Told

LEMMA KeptAlways == ServerSpec => []Kept
<1>1. Kept /\ TypeOK /\ [ServerNext]_serverVars => Kept'
  BY ClientKept, MiddlewareKept, HandlerKept, RedisKept, ProcessKept, StutterKept DEF ServerNext
<1>2. ServerSpec => []TypeOK
  BY ServerLimits, LimiterInvariance, PTL DEF LimiterInv
<1>3. QED
  BY ServerInitInv, <1>1, <1>2, PTL DEF ServerSpec

(***************************************************************************)
(* The theorems                                                            *)
(***************************************************************************)
\* The types, the slots of the first pool, and what a POST has behind it at each
\* place of the middleware and of its handler, in every reachable state.
THEOREM ServerInvariance == ServerSpec => []ServerInv
BY KeptAlways, PTL DEF Kept

\* A POST reaches the stream only through the limiter, also when its caller has
\* been told something else meanwhile, or the server has been restarted.
THEOREM StreamBehindLimiter == ServerSpec => []NothingUncounted
<1>1. ServerInv => NothingUncounted
  BY DEF ServerInv, NothingUncounted, Progress
<1>2. QED
  BY <1>1, ServerInvariance, PTL

\* 200 means queued; 400, 429 and 503 mean that the POST may be sent again.
THEOREM AnswersAreSafe == ServerSpec => []RetryIsSafe
BY KeptAlways, PTL DEF Kept

\* For all sizes of the two pools: whoever waits for the second finds a slot.
THEOREM NobodyWaitsTwice == ServerSpec => []SecondPoolFree
<1>1. ServerInv => SecondPoolFree
  <2> SUFFICES ASSUME ServerInv, NEW r \in Calls, at[r] = "ask2"
               PROVE  Cardinality(Holders2) < PoolSize
    BY DEF SecondPoolFree
  <2>1. Holders2 \union {r} \in SUBSET Holders /\ r \notin Holders2
    BY DEF Holders, Holders2, Holding
  <2>2. Cardinality(Holders2 \union {r}) = Cardinality(Holders2) + 1
    BY <2>1, HoldersFinite, FS_AddElement
  <2>3. Cardinality(Holders2 \union {r}) <= Cardinality(Holders)
    BY <2>1, HoldersFinite, FS_Subset
  <2>4. QED
    BY <2>2, <2>3, HoldersFinite, PoolAssumption DEF ServerInv
<1>2. QED
  BY <1>1, ServerInvariance, PTL

\* The limit per bucket holds for the server as a whole.
THEOREM ServerBucketBound == ServerSpec => []BucketBound
BY ServerLimits, NoBucketOverLimit, PTL
==============================================================================
