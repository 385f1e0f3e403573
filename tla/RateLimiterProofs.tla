-------------------------- MODULE RateLimiterProofs --------------------------
(***************************************************************************)
(* RateLimiter for every limit, window, delay within a window and number   *)
(* of concurrent requests.                                                 *)
(***************************************************************************)
EXTENDS RateLimiter, TLAPS

(***************************************************************************)
(* Buckets                                                                 *)
(***************************************************************************)
\* A time lies within its bucket.
LEMMA WithinBucket ==
  ASSUME NEW t \in Nat
  PROVE  /\ Bucket(t) \in Nat
         /\ Bucket(t) * Window <= t
         /\ t < (Bucket(t) + 1) * Window
BY WindowAssumption, SMTT(30) DEF Bucket

\* Products with the window are ordered as their factors.
LEMMA ByWindow ==
  ASSUME NEW i \in Int, NEW j \in Int
  PROVE  /\ i <= j => i * Window <= j * Window
         /\ i * Window < j * Window => i < j
         /\ (i + 1) * Window = i * Window + Window
         /\ (i + 2) * Window = i * Window + 2 * Window
BY WindowAssumption, SMTT(30)

\* Later times lie in later buckets or the same one.
LEMMA BucketsAscend ==
  ASSUME NEW s \in Nat, NEW t \in Nat, s <= t
  PROVE  Bucket(s) <= Bucket(t)
<1>1. /\ Bucket(s) \in Nat /\ Bucket(s) * Window <= s
      /\ Bucket(t) \in Nat /\ t < (Bucket(t) + 1) * Window
  BY WithinBucket
<1>2. Bucket(s) * Window \in Int /\ (Bucket(t) + 1) * Window \in Int
  BY <1>1, WindowAssumption
<1>3. Bucket(s) * Window < (Bucket(t) + 1) * Window
  BY <1>1, <1>2
<1> QED BY <1>1, <1>3, ByWindow

\* A bucket is current or previous until two windows after its start.
LEMMA UntilTwoWindows ==
  ASSUME NEW t \in Nat, NEW b \in Nat
  PROVE  Bucket(t) <= b + 1 <=> t < (b + 2) * Window
<1>1. Bucket(t) \in Nat /\ Bucket(t) * Window <= t /\ t < (Bucket(t) + 1) * Window
  BY WithinBucket
<1>2. /\ Bucket(t) * Window \in Int /\ (Bucket(t) + 1) * Window \in Int
      /\ (b + 2) * Window \in Int
  BY <1>1, WindowAssumption
<1>3. ASSUME Bucket(t) <= b + 1 PROVE t < (b + 2) * Window
  <2>1. (Bucket(t) + 1) * Window <= (b + 2) * Window
    BY <1>1, <1>3, ByWindow
  <2> QED BY <2>1, <1>1, <1>2
<1>4. ASSUME t < (b + 2) * Window PROVE Bucket(t) <= b + 1
  <2>1. Bucket(t) * Window < (b + 2) * Window
    BY <1>1, <1>2, <1>4
  <2> QED BY <2>1, <1>1, ByWindow
<1> QED BY <1>3, <1>4

\* A call that is at most a window old belongs to the current bucket or to the
\* previous one.
LEMMA DelayedByOne ==
  ASSUME NEW s \in Nat, NEW t \in Nat, t - s <= MaxDelay
  PROVE  Bucket(t) <= Bucket(s) + 1
<1>1. Bucket(s) \in Nat /\ s < (Bucket(s) + 1) * Window
  BY WithinBucket
<1>2. (Bucket(s) + 2) * Window = (Bucket(s) + 1) * Window + Window
  BY <1>1, ByWindow, WindowAssumption, SMTT(30)
<1>3. (Bucket(s) + 1) * Window \in Int
  BY <1>1, WindowAssumption
<1>4. t < (Bucket(s) + 2) * Window
  BY <1>1, <1>2, <1>3, DelayAssumption, WindowAssumption
<1> QED BY <1>1, <1>4, UntilTwoWindows

\* A previous bucket that let a call through weighs at least one call.
LEMMA PreviousWeighs ==
  ASSUME NEW p \in Nat \ {0}, NEW t \in 0..(Window - 1), NEW w \in Weighted(p, t)
  PROVE  w \in Nat \ {0}
<1>1. w \in Nat /\ p * (Window - t) <= w * Window
  BY WindowAssumption DEF Weighted
<1>2. p * (Window - t) > 0
  BY WindowAssumption, SMTT(30)
<1> QED BY <1>1, <1>2, WindowAssumption, SMTT(30)

(***************************************************************************)
(* The invariant                                                           *)
(***************************************************************************)
\* A time that was read is in a bucket that has a previous one.
LEMMA StampedBucket ==
  ASSUME NEW s \in Nat, Window <= s, s <= Horizon
  PROVE  Bucket(s) \in Buckets /\ Bucket(s) - 1 \in Buckets
<1>1. Bucket(s) \in Nat /\ s < (Bucket(s) + 1) * Window
  BY WithinBucket
<1>2. Bucket(Horizon) \in Nat /\ Bucket(s) <= Bucket(Horizon)
  BY WithinBucket, BucketsAscend, HorizonAssumption
<1>3. Bucket(s) # 0
  BY <1>1, WindowAssumption
<1> QED BY <1>1, <1>2, <1>3 DEF Buckets

LEMMA InitInv == Init => LimiterInv
<1> SUFFICES ASSUME Init PROVE LimiterInv
  OBVIOUS
<1>1. Bucket(Horizon) \in Nat
  BY WithinBucket, HorizonAssumption
<1>2. Buckets \subseteq Nat
  BY <1>1 DEF Buckets
<1>3. TypeOK
  <2>1. now \in Window..Horizon
    BY WindowAssumption, HorizonAssumption DEF Init
  <2>2. /\ stamp \in [Requests -> Nat \union {None}] /\ count \in [Buckets -> Nat]
        /\ expires \in [Buckets -> Nat] /\ passed \in [Buckets -> Nat]
    BY DEF Init
  <2>3. late \in BOOLEAN
    BY DEF Init
  <2> QED BY <2>1, <2>2, <2>3 DEF TypeOK
<1>4. CountersAgree /\ BucketBound
  BY LimitAssumption DEF Init, CountersAgree, BucketBound
<1>5. PairBound
  BY LimitAssumption, <1>2 DEF Init, PairBound
<1>6. /\ \A r \in Requests : stamp[r] = None
      /\ \A b \in Buckets : count[b] = 0 /\ passed[b] = 0 /\ ~(count[b] > 0)
  BY DEF Init
<1> QED BY <1>3, <1>4, <1>5, <1>6 DEF LimiterInv

\* The clock: a key that expires belongs to a bucket that is no longer used.
LEMMA TickInv == LimiterInv /\ Tick => LimiterInv'
<1> SUFFICES ASSUME LimiterInv, Tick PROVE LimiterInv'
  OBVIOUS
<1> USE DEF LimiterInv
<1>1. /\ now \in Nat /\ now + 1 \in Nat /\ Window <= now /\ now + 1 <= Horizon
      /\ Buckets \subseteq Nat
  <2>1. Bucket(Horizon) \in Nat
    BY WithinBucket, HorizonAssumption
  <2> QED BY <2>1, WindowAssumption, HorizonAssumption DEF TypeOK, Tick, Buckets
<1>2. TypeOK'
  BY <1>1, WindowAssumption, HorizonAssumption DEF TypeOK, Tick
<1>3. (\A r \in Requests : stamp[r] # None =>
         stamp[r] \in Window..now /\ now - stamp[r] <= MaxDelay)'
  BY <1>1, WindowAssumption, DelayAssumption DEF TypeOK, Tick
<1>4. (\A b \in Buckets : count[b] > 0 => (b + 2) * Window <= expires[b])'
  BY <1>1 DEF TypeOK, Tick
<1>5. Bucket(now) <= Bucket(now + 1) /\ Bucket(now) \in Nat /\ Bucket(now + 1) \in Nat
  BY <1>1, WithinBucket, BucketsAscend
<1>6. (\A b \in Buckets : Bucket(now) < b => passed[b] = 0)'
  BY <1>1, <1>5 DEF Tick
<1>7. CountersAgree'
  <2> SUFFICES ASSUME NEW b \in Buckets, Bucket(now + 1) <= b + 1
               PROVE  count'[b] = passed[b]
    BY DEF CountersAgree, Tick
  <2>1. b \in Nat /\ now + 1 < (b + 2) * Window /\ (b + 2) * Window \in Int
    BY <1>1, UntilTwoWindows, WindowAssumption
  <2>2. count[b] = passed[b]
    BY <1>1, <1>5, <2>1 DEF CountersAgree
  <2>3. count[b] \in Nat /\ expires[b] \in Nat
    BY DEF TypeOK
  <2>4. CASE count[b] = 0
    BY <2>2, <2>4 DEF Tick
  <2>5. CASE count[b] > 0
    <3>1. now + 1 < expires[b]
      BY <2>1, <2>3, <2>5, <1>1
    <3> QED BY <3>1, <2>2, <2>3, <1>1 DEF Tick
  <2> QED BY <2>3, <2>4, <2>5
<1>8. BucketBound' /\ PairBound'
  BY DEF BucketBound, PairBound, Tick
<1> QED BY <1>2, <1>3, <1>4, <1>6, <1>7, <1>8

LEMMA ArriveInv == ASSUME NEW r \in Requests, LimiterInv, Arrive(r) PROVE LimiterInv'
<1> USE DEF LimiterInv
<1>1. now \in Nat /\ Window <= now
  BY WindowAssumption DEF TypeOK
<1>2. TypeOK'
  BY <1>1 DEF TypeOK, Arrive
<1>3. (\A q \in Requests : stamp[q] # None =>
         stamp[q] \in Window..now /\ now - stamp[q] <= MaxDelay)'
  BY <1>1, WindowAssumption, DelayAssumption DEF TypeOK, Arrive
<1>4. CountersAgree' /\ BucketBound' /\ PairBound'
  BY DEF CountersAgree, BucketBound, PairBound, Arrive
<1> QED BY <1>2, <1>3, <1>4 DEF Arrive

LEMMA RefuseInv == ASSUME NEW r \in Requests, LimiterInv, Refuse(r) PROVE LimiterInv'
<1> USE DEF LimiterInv
<1>1. TypeOK'
  BY DEF TypeOK, Refuse
<1>2. (\A q \in Requests : stamp[q] # None =>
         stamp[q] \in Window..now /\ now - stamp[q] <= MaxDelay)'
  BY DEF TypeOK, Refuse
<1>3. CountersAgree' /\ BucketBound' /\ PairBound'
  BY DEF CountersAgree, BucketBound, PairBound, Refuse
<1> QED BY <1>1, <1>2, <1>3 DEF Refuse

\* The script: the keys of the bucket and of the previous one are those of the
\* calls let through, so the sum it compares is about them.
LEMMA AdmitInv == ASSUME NEW r \in Requests, LimiterInv, Admit(r) PROVE LimiterInv'
<1> USE DEF LimiterInv
<1> DEFINE s == stamp[r]
           b == Bucket(s)
<1>1. /\ s \in Nat /\ Window <= s /\ s <= now /\ now - s <= MaxDelay
      /\ now \in Nat /\ now <= Horizon
  BY WindowAssumption, HorizonAssumption DEF TypeOK, Admit
<1>2. b \in Nat /\ b * Window <= s /\ Bucket(now) \in Nat
  BY <1>1, WithinBucket
<1>3. b \in Buckets /\ b - 1 \in Buckets
  BY <1>1, StampedBucket, HorizonAssumption
<1>4. b <= Bucket(now) /\ Bucket(now) <= b + 1
  BY <1>1, BucketsAscend, DelayedByOne
<1>5. Buckets \subseteq Nat
  <2>1. Bucket(Horizon) \in Nat
    BY WithinBucket, HorizonAssumption
  <2> QED BY <2>1 DEF Buckets
<1> DEFINE p == count[b - 1]
<1>6. PICK w \in Weighted(p, s % Window) : w + count[b] < Limit
  BY DEF Admit, Below
<1>7. p \in Nat /\ count[b] \in Nat /\ passed[b] \in Nat /\ passed[b - 1] \in Nat
  BY <1>3 DEF TypeOK
<1>8. w \in Nat
  BY <1>6, <1>7 DEF Weighted
<1>9. count[b] = passed[b]
  BY <1>3, <1>4 DEF CountersAgree
<1>10. /\ count' = [count EXCEPT ![b] = @ + 1]
       /\ passed' = [passed EXCEPT ![b] = @ + 1]
       /\ expires' = IF count[b] = 0 THEN [expires EXCEPT ![b] = now + 2 * Window] ELSE expires
       /\ stamp' = [stamp EXCEPT ![r] = None]
       /\ late' = (late \/ Bucket(now) # b)
       /\ now' = now
  BY DEF Admit, Lifetime
<1> HIDE DEF s, b, p
<1>11. TypeOK'
  BY <1>1, <1>2, <1>3, <1>7, <1>10, WindowAssumption, NoneAssumption DEF TypeOK
<1>12. (\A q \in Requests : stamp[q] # None =>
          stamp[q] \in Window..now /\ now - stamp[q] <= MaxDelay)'
  BY <1>10 DEF TypeOK
<1>13. (\A c \in Buckets : count[c] > 0 => (c + 2) * Window <= expires[c])'
  <2>1. (b + 2) * Window <= now + 2 * Window
    <3>1. (b + 2) * Window = b * Window + 2 * Window /\ b * Window \in Int
      BY <1>2, ByWindow, WindowAssumption
    <3> QED BY <3>1, <1>1, <1>2, WindowAssumption
  <2> SUFFICES ASSUME NEW c \in Buckets, count'[c] > 0
               PROVE  (c + 2) * Window <= expires'[c]
    OBVIOUS
  <2>2. CASE c = b /\ count[b] = 0
    BY <2>1, <2>2, <1>3, <1>10 DEF TypeOK
  <2>3. CASE c = b /\ count[b] # 0
    BY <2>3, <1>3, <1>7, <1>10
  <2>4. CASE c # b
    BY <2>4, <1>10 DEF TypeOK
  <2> QED BY <2>2, <2>3, <2>4
<1>14. (\A c \in Buckets : Bucket(now) < c => passed[c] = 0)'
  <2> SUFFICES ASSUME NEW c \in Buckets, Bucket(now) < c PROVE passed'[c] = 0
    BY <1>10
  <2>1. c # b /\ passed[c] = 0
    BY <1>2, <1>4, <1>5
  <2> QED BY <2>1, <1>10 DEF TypeOK
<1>15. CountersAgree'
  BY <1>3, <1>9, <1>10 DEF CountersAgree, TypeOK
<1>16. BucketBound'
  BY <1>3, <1>6, <1>7, <1>8, <1>9, <1>10, LimitAssumption DEF BucketBound, TypeOK
<1>17. PairBound'
  <2> SUFFICES ASSUME ~late', NEW c \in Buckets, c + 1 \in Buckets
               PROVE  passed'[c] + passed'[c + 1] < 2 * Limit
    BY DEF PairBound
  <2>1. ~late /\ Bucket(now) = b
    BY <1>10 DEF TypeOK
  <2>2. passed[c] \in Nat /\ passed[c + 1] \in Nat /\ passed[c] + passed[c + 1] < 2 * Limit
    BY <2>1 DEF PairBound, TypeOK
  <2>3. CASE c # b /\ c + 1 # b
    BY <2>2, <2>3, <1>10 DEF TypeOK
  <2>4. CASE c = b
    <3>1. passed[c + 1] = 0
      BY <2>1, <2>4, <1>2
    <3>2. passed'[c] = passed[b] + 1 /\ passed'[c + 1] = 0
      BY <2>4, <3>1, <1>2, <1>3, <1>10 DEF TypeOK
    <3> QED BY <3>2, <1>6, <1>7, <1>8, <1>9, LimitAssumption
  <2>5. CASE c + 1 = b
    <3>1. c = b - 1 /\ c \in Nat
      BY <2>5, <1>5
    <3>2. passed'[c] = passed[c] /\ passed'[c + 1] = passed[b] + 1
      BY <2>5, <3>1, <1>2, <1>3, <1>10 DEF TypeOK
    <3>3. p = passed[c]
      BY <3>1, <2>1, <1>2, <1>3 DEF CountersAgree, p
    <3>4. passed[c] <= Limit
      BY DEF BucketBound
    <3>5. CASE passed[c] = 0
      BY <3>2, <3>5, <1>6, <1>7, <1>8, <1>9, LimitAssumption
    <3>6. CASE passed[c] # 0
      <4>1. s % Window \in 0..(Window - 1)
        BY <1>1, WindowAssumption
      <4>2. w \in Nat \ {0}
        BY <4>1, <3>3, <3>6, <2>2, <1>6, PreviousWeighs
      <4> QED BY <4>2, <3>2, <3>4, <2>2, <1>6, <1>7, <1>9, LimitAssumption
    <3> QED BY <3>5, <3>6
  <2> QED BY <2>3, <2>4, <2>5
<1> QED BY <1>11, <1>12, <1>13, <1>14, <1>15, <1>16, <1>17

\* The invariant holds in every reachable state.
THEOREM LimiterInvariance == Spec => []LimiterInv
<1>1. LimiterInv /\ [Next]_vars => LimiterInv'
  <2> SUFFICES ASSUME LimiterInv, [Next]_vars PROVE LimiterInv'
    OBVIOUS
  <2>1. CASE Tick
    BY <2>1, TickInv
  <2>2. CASE \E r \in Requests : Arrive(r) \/ Admit(r) \/ Refuse(r)
    BY <2>2, ArriveInv, AdmitInv, RefuseInv
  <2>3. CASE UNCHANGED vars
    BY <2>3 DEF LimiterInv, TypeOK, CountersAgree, BucketBound, PairBound, vars
  <2> QED BY <2>1, <2>2, <2>3 DEF Next
<1> QED BY <1>1, InitInv, PTL DEF Spec

\* No bucket lets more than the limit through, whatever the order in which
\* concurrent calls of one client reach Redis.
THEOREM NoBucketOverLimit == Spec => []BucketBound
BY LimiterInvariance, PTL DEF LimiterInv

\* Calls that reach Redis within their bucket are fewer than twice the limit in
\* any two buckets in a row, also when a product is rounded up too far.
THEOREM NoPairOverLimit == Spec => []PairBound
BY LimiterInvariance, PTL DEF LimiterInv
==============================================================================
