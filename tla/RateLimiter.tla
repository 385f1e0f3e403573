----------------------------- MODULE RateLimiter -----------------------------
(***************************************************************************)
(* The sliding window of two buckets that limits the requests of one       *)
(* client and method: rate_limit_middleware reads the clock in             *)
(* check_sliding_window_rate_limit and then has Redis run                  *)
(* sliding_window.lua, which compares, counts and sets the expiry of a     *)
(* bucket at once.  Other clients and methods have other keys.             *)
(***************************************************************************)
EXTENDS Integers

CONSTANTS
  Requests,  \* the requests that may be in flight at once
  Limit,     \* limit
  Window,    \* window_size_ms, in ticks
  MaxDelay,  \* the longest time from reading the clock to running the script
  Horizon,   \* the last tick that is looked at
  None       \* no request in flight

ASSUME LimitAssumption == Limit \in Nat \ {0}
ASSUME WindowAssumption == Window \in Nat \ {0}
ASSUME DelayAssumption == MaxDelay \in 0..Window
ASSUME HorizonAssumption == Horizon \in Nat /\ Horizon >= Window
ASSUME NoneAssumption == None \notin Nat

VARIABLES
  now,      \* the clock of server and Redis
  stamp,    \* the time each request in flight has read
  count,    \* the bucket keys, 0 when there is none
  expires,  \* when a bucket key expires
  passed,   \* history: the calls let through per bucket
  late      \* history: a call was let through after its bucket was over

vars == <<now, stamp, count, expires, passed, late>>

Bucket(t) == t \div Window
Buckets == 0..Bucket(Horizon)

TypeOK ==
  /\ now \in Window..Horizon
  /\ stamp \in [Requests -> Nat \union {None}]
  /\ count \in [Buckets -> Nat]
  /\ expires \in [Buckets -> Nat]
  /\ passed \in [Buckets -> Nat]
  /\ late \in BOOLEAN

\* The epoch is long ago: there is a previous bucket.
Init ==
  /\ now = Window
  /\ stamp = [r \in Requests |-> None]
  /\ count = [b \in Buckets |-> 0]
  /\ expires = [b \in Buckets |-> 0]
  /\ passed = [b \in Buckets |-> 0]
  /\ late = FALSE

\* Time goes by, and Redis drops the keys that expire.
Tick ==
  /\ now < Horizon
  /\ \A r \in Requests : stamp[r] # None => now - stamp[r] < MaxDelay
  /\ now' = now + 1
  /\ count' = [b \in Buckets |-> IF expires[b] <= now + 1 THEN 0 ELSE count[b]]
  /\ UNCHANGED <<stamp, expires, passed, late>>

\* A request has its header and its connection and reads the clock.
Arrive(r) ==
  /\ stamp[r] = None
  /\ stamp' = [stamp EXCEPT ![r] = now]
  /\ UNCHANGED <<now, count, expires, passed, late>>

\* Plausible bug: math.floor instead of math.ceil.
WeightedDown(previous, t) == {(previous * (Window - t)) \div Window}

\* math.ceil(previous_count * previous_weight).  In floating point a product
\* that should be an integer may be a little more, as 10 * (1.0 - 0.7) is, and
\* is then rounded up to the next one.
Weighted(previous, t) ==
  LET exact == previous * (Window - t)
  IN  {n \in 0..(previous + 1) :
         /\ exact <= n * Window /\ n * Window <= exact + Window
         /\ t = 0 \/ previous = 0 => n = previous}

\* Plausible bug: a request may reach the limit and one more.
BelowOrAt(n) == n <= Limit

Below(n) == n < Limit

\* Plausible bug: a bucket is kept for one window only.
LifetimeShort == Window

Lifetime == 2 * Window

\* The script, let through.
Admit(r) ==
  LET b == Bucket(stamp[r])
  IN  /\ stamp[r] # None
      /\ \E w \in Weighted(count[b - 1], stamp[r] % Window) : Below(w + count[b])
      /\ count'   = [count EXCEPT ![b] = @ + 1]
      /\ expires' = IF count[b] = 0 THEN [expires EXCEPT ![b] = now + Lifetime] ELSE expires
      /\ passed'  = [passed EXCEPT ![b] = @ + 1]
      /\ late'    = (late \/ Bucket(now) # b)
      /\ stamp'   = [stamp EXCEPT ![r] = None]
      /\ UNCHANGED now

\* The script, turned away; or no script at all, as an error counts as
\* turned away.  An error after the script has run is an Admit.
Refuse(r) ==
  /\ stamp[r] # None
  /\ stamp' = [stamp EXCEPT ![r] = None]
  /\ UNCHANGED <<now, count, expires, passed, late>>

Next == Tick \/ \E r \in Requests : Arrive(r) \/ Admit(r) \/ Refuse(r)

Spec == Init /\ [][Next]_vars

(***************************************************************************)
(* Properties                                                              *)
(***************************************************************************)
\* As long as a bucket is the current or the previous one, its key counts the
\* calls let through in it: none is forgotten by an early expiry, however late
\* the first call of the bucket reached Redis.
CountersAgree ==
  \A b \in Buckets : Bucket(now) <= b + 1 => count[b] = passed[b]

\* No bucket lets more than the limit through, also when calls of one client
\* read the clock in one order and reach Redis in another.
BucketBound == \A b \in Buckets : passed[b] <= Limit

\* Two buckets in a row, and so every interval as long as a window, let through
\* less than twice the limit, unless a call was let through after its bucket
\* was over.  With the limit of one that POST has, it is one call.
PairBound ==
  ~late => \A b \in Buckets : b + 1 \in Buckets => passed[b] + passed[b + 1] < 2 * Limit

\* What the three rest on: a call in flight has read the clock at most a window
\* ago, a key lives until its bucket is no longer the previous one, and nothing
\* is let through ahead of time.
LimiterInv ==
  /\ TypeOK
  /\ \A r \in Requests : stamp[r] # None => stamp[r] \in Window..now /\ now - stamp[r] <= MaxDelay
  /\ \A b \in Buckets : count[b] > 0 => (b + 2) * Window <= expires[b]
  /\ \A b \in Buckets : Bucket(now) < b => passed[b] = 0
  /\ CountersAgree /\ BucketBound /\ PairBound
==============================================================================
