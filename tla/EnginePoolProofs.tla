--------------------------- MODULE EnginePoolProofs ---------------------------
(***************************************************************************)
(* EnginePool for every number of permits and connections and every length *)
(* of a batch.                                                             *)
(***************************************************************************)
EXTENDS EnginePool, FiniteSetTheorems, TLAPS

Waiting == {"read", "mark", "push", "ack"}

\* Who waits for a connection is in the queue, once.
QueueInv ==
  /\ \A a \in Actors : conn[a] = "queued" => \E i \in 1..Len(queue) : queue[i] = a
  /\ \A i \in 1..Len(queue) : conn[queue[i]] = "queued"
  /\ \A i, j \in 1..Len(queue) : queue[i] = queue[j] => i = j

\* Connections are asked for where a call to Redis is made; the main loop has
\* one, and entries left, while it dispatches.
PlacesInv ==
  /\ \A a \in Actors : conn[a] # "none" => at[a] \in Waiting \/ a = Main
  /\ conn[Main] = "queued" => at[Main] = "read"
  /\ at[Main] = "dispatch" => conn[Main] = "held" /\ left > 0

\* One connection is setup_conn.
NotOverbooked == Cardinality(Holders) < PoolSize

PoolInv == TypeOK /\ QueueInv /\ PlacesInv /\ NotOverbooked

LEMMA Constants ==
  /\ Permits \in Nat /\ PoolSize \in Nat /\ BatchLen \in Nat /\ PoolSize > 0
  /\ Main \in Actors /\ Slots \subseteq Actors /\ Main \notin Slots
  /\ Actors = Slots \union {Main}
BY SizesAssumption DEF Main, Actors, Slots

LEMMA ActorsFinite ==
  ASSUME NEW S \in SUBSET Actors
  PROVE  IsFiniteSet(S) /\ Cardinality(S) \in Nat
<1>1. IsFiniteSet(1..Permits)
  BY Constants, FS_Interval
<1>2. IsFiniteSet(Actors)
  BY <1>1, FS_AddElement DEF Actors, Slots
<1> QED BY <1>2, FS_Subset, FS_CardinalityType

LEMMA FirstInQueue ==
  ASSUME TypeOK, QueueInv, PlacesInv, queue # <<>>
  PROVE  /\ Head(queue) \in Actors /\ conn[Head(queue)] = "queued"
         /\ at[Head(queue)] \in Waiting
         /\ Head(queue) # Main => at[Head(queue)] # "read"
         /\ Head(queue) = queue[1]
         /\ Tail(queue) \in Seq(Actors) /\ Len(Tail(queue)) = Len(queue) - 1 /\ Len(queue) \in Nat \ {0}
         /\ \A i \in 1..Len(Tail(queue)) : Tail(queue)[i] = queue[i + 1]
<1>1. queue \in Seq(Actors) /\ Len(queue) \in Nat \ {0}
  BY DEF TypeOK
<1>2. Head(queue) = queue[1] /\ queue[1] \in Actors
  BY <1>1
<1>3. conn[queue[1]] = "queued"
  BY <1>1 DEF QueueInv
<1>4. at[queue[1]] \in Waiting
  BY <1>2, <1>3 DEF PlacesInv, Waiting
<1>5. queue[1] # Main => at[queue[1]] # "read"
  BY <1>2, Constants DEF TypeOK
<1> QED BY <1>1, <1>2, <1>3, <1>4, <1>5

\* The first in the queue leaves it, by a grant or a refusal.
LEMMA QueueServed ==
  ASSUME TypeOK, QueueInv, PlacesInv, queue # <<>>, NEW v \in {"held", "none"},
         conn' = [conn EXCEPT ![Head(queue)] = v], queue' = Tail(queue)
  PROVE  QueueInv'
<1> DEFINE h == Head(queue)
<1>1. /\ h \in Actors /\ h = queue[1] /\ Len(queue') = Len(queue) - 1 /\ Len(queue) \in Nat \ {0}
      /\ \A i \in 1..Len(queue') : queue'[i] = queue[i + 1] /\ i + 1 \in 1..Len(queue)
      /\ conn \in [Actors -> {"none", "queued", "held"}] /\ queue \in Seq(Actors)
  BY FirstInQueue DEF TypeOK
<1>2. \A i \in 1..Len(queue') : queue'[i] # h /\ queue'[i] \in Actors
  BY <1>1 DEF QueueInv
<1>3. \A i \in 1..Len(queue') : conn'[queue'[i]] = "queued"
  BY <1>1, <1>2 DEF QueueInv
<1>4. \A i, j \in 1..Len(queue') : queue'[i] = queue'[j] => i = j
  <2> SUFFICES ASSUME NEW i \in 1..Len(queue'), NEW j \in 1..Len(queue'), queue'[i] = queue'[j]
               PROVE  i = j
    OBVIOUS
  <2>1. i + 1 = j + 1
    BY <1>1 DEF QueueInv
  <2> QED BY <2>1
<1>5. ASSUME NEW a \in Actors, conn'[a] = "queued"
      PROVE  \E i \in 1..Len(queue') : queue'[i] = a
  <2>1. a # h /\ conn[a] = "queued"
    BY <1>1, <1>5
  <2>2. PICK k \in 1..Len(queue) : queue[k] = a
    BY <2>1 DEF QueueInv
  <2>3. k # 1 /\ k - 1 \in 1..Len(queue') /\ (k - 1) + 1 = k
    BY <1>1, <2>1, <2>2
  <2> QED BY <1>1, <2>2, <2>3
<1> QED BY <1>3, <1>4, <1>5 DEF QueueInv

\* An actor queues up.
LEMMA QueueJoined ==
  ASSUME TypeOK, QueueInv, NEW a \in Actors, conn[a] = "none",
         conn' = [conn EXCEPT ![a] = "queued"], queue' = Append(queue, a)
  PROVE  QueueInv'
<1>1. /\ queue \in Seq(Actors) /\ Len(queue) \in Nat /\ Len(queue') = Len(queue) + 1
      /\ queue'[Len(queue) + 1] = a
      /\ \A i \in 1..Len(queue) : queue'[i] = queue[i] /\ queue[i] \in Actors /\ queue[i] # a
      /\ conn \in [Actors -> {"none", "queued", "held"}]
  BY DEF TypeOK, QueueInv
<1>2. \A i \in 1..Len(queue') : i \in 1..Len(queue) \/ i = Len(queue) + 1
  BY <1>1
<1>3. \A i \in 1..Len(queue') : conn'[queue'[i]] = "queued"
  BY <1>1, <1>2 DEF QueueInv
<1>4. \A i, j \in 1..Len(queue') : queue'[i] = queue'[j] => i = j
  BY <1>1, <1>2 DEF QueueInv
<1>5. ASSUME NEW b \in Actors, conn'[b] = "queued"
      PROVE  \E i \in 1..Len(queue') : queue'[i] = b
  <2>1. CASE b = a
    BY <1>1, <2>1
  <2>2. CASE b # a
    <3>1. PICK k \in 1..Len(queue) : queue[k] = b
      BY <1>1, <1>5, <2>2 DEF QueueInv
    <3>2. k \in 1..Len(queue') /\ queue'[k] = b
      BY <1>1, <3>1
    <3> QED BY <3>2
  <2> QED BY <2>1, <2>2
<1> QED BY <1>3, <1>4, <1>5 DEF QueueInv

\* A step that lets go of connections at most, and of none that is waited for.
LEMMA QueueKept ==
  ASSUME QueueInv, TypeOK, queue' = queue,
         \A a \in Actors : conn'[a] = conn[a] \/ (conn[a] = "held" /\ conn'[a] = "none")
  PROVE  QueueInv'
<1>1. \A i \in 1..Len(queue) : queue[i] \in Actors
  BY DEF TypeOK
<1> QED BY <1>1 DEF QueueInv

\* Who stops holding a connection does not overbook the pool.
LEMMA NotMoreHolders ==
  ASSUME NotOverbooked, TypeOK, \A a \in Actors : conn'[a] = "held" => conn[a] = "held"
  PROVE  NotOverbooked'
<1>1. Holders' \subseteq Holders /\ Holders \in SUBSET Actors
  BY DEF Holders
<1>2. Cardinality(Holders') <= Cardinality(Holders)
  BY <1>1, ActorsFinite, FS_Subset
<1>3. Cardinality(Holders') \in Nat /\ Cardinality(Holders) \in Nat
  BY <1>1, ActorsFinite
<1> QED BY <1>2, <1>3, Constants DEF NotOverbooked

LEMMA InitPool == Init => PoolInv
<1> SUFFICES ASSUME Init PROVE PoolInv
  OBVIOUS
<1> USE Constants DEF Init
<1>1. TypeOK
  BY DEF TypeOK
<1>2. QueueInv /\ PlacesInv
  BY DEF QueueInv, PlacesInv
<1>3. Holders = {}
  BY DEF Holders
<1>4. NotOverbooked
  BY <1>3, FS_EmptySet DEF NotOverbooked
<1> QED BY <1>1, <1>2, <1>4 DEF PoolInv

LEMMA PoolStep == PoolInv /\ [Next]_vars => PoolInv'
<1> SUFFICES ASSUME PoolInv, [Next]_vars PROVE PoolInv'
  OBVIOUS
<1>t. TypeOK /\ QueueInv /\ PlacesInv /\ NotOverbooked
  BY DEF PoolInv
<1> USE Constants, <1>t
<1>1. ASSUME NEW a \in Actors, Ask(a) PROVE PoolInv'
  <2>1. TypeOK'
    BY <1>1 DEF Ask, TypeOK
  <2>2. QueueInv'
    BY <1>1, QueueJoined DEF Ask
  <2>3. PlacesInv'
    BY <1>1 DEF Ask, PlacesInv, Waiting, TypeOK
  <2>4. NotOverbooked'
    BY <1>1, NotMoreHolders DEF Ask, TypeOK
  <2> QED BY <2>1, <2>2, <2>3, <2>4 DEF PoolInv
<1>2. CASE Grant
  <2> DEFINE h == Head(queue)
  <2>1. /\ h \in Actors /\ conn[h] = "queued" /\ at[h] \in Waiting /\ Tail(queue) \in Seq(Actors)
    BY <1>2, FirstInQueue DEF Grant
  <2>2. TypeOK'
    BY <1>2, <2>1 DEF Grant, TypeOK
  <2>3. QueueInv'
    BY <1>2, QueueServed DEF Grant
  <2>4. PlacesInv'
    BY <1>2, <2>1 DEF Grant, PlacesInv, TypeOK, Waiting
  <2>5. NotOverbooked'
    <3>1. Holders' = Holders \union {h} /\ h \notin Holders /\ Holders \in SUBSET Actors
      BY <1>2, <2>1 DEF Grant, Holders, TypeOK
    <3>2. Cardinality(Holders') = Cardinality(Holders) + 1
      BY <3>1, ActorsFinite, FS_AddElement
    <3> QED BY <1>2, <3>1, <3>2, ActorsFinite DEF Grant, Spare, NotOverbooked
  <2> QED BY <2>2, <2>3, <2>4, <2>5 DEF PoolInv
<1>3. CASE Refuse
  <2> DEFINE h == Head(queue)
  <2>1. /\ h \in Actors /\ conn[h] = "queued" /\ at[h] \in Waiting /\ Tail(queue) \in Seq(Actors)
        /\ h # Main => at[h] # "read"
    BY <1>3, FirstInQueue DEF Refuse
  <2>2. /\ conn' = [conn EXCEPT ![h] = "none"] /\ left' = left
        /\ at' = [at EXCEPT ![h] = IF at[h] = "read" THEN "read" ELSE After[at[h]]]
    BY <1>3 DEF Refuse
  <2>3. IF at[h] = "read" THEN at'[h] = "read" ELSE at'[h] \in {"run", "ack", "idle"}
    BY <2>1, <2>2 DEF After, TypeOK, Waiting
  <2>4. \A b \in Actors \ {h} : at'[b] = at[b] /\ conn'[b] = conn[b]
    BY <2>2 DEF TypeOK
  <2>5. at[Main] # "read" => h # Main
    BY <2>1 DEF PlacesInv
  <2>6. TypeOK'
    <3>1. at'[Main] \in {"read", "dispatch"}
      BY <2>1, <2>3, <2>4, <2>5 DEF TypeOK
    <3>2. \A s \in Slots : at'[s] \notin {"read", "dispatch"}
      BY <2>1, <2>3, <2>4 DEF TypeOK
    <3>3. at' \in [Actors -> {"read", "dispatch", "idle", "mark", "run", "push", "ack"}]
      BY <2>1, <2>2, <2>3 DEF TypeOK
    <3> QED BY <1>3, <2>1, <2>2, <3>1, <3>2, <3>3 DEF Refuse, TypeOK
  <2>7. QueueInv'
    BY <1>3, QueueServed DEF Refuse
  <2>8. PlacesInv'
    BY <2>1, <2>2, <2>3, <2>4 DEF PlacesInv, Waiting, TypeOK
  <2>9. NotOverbooked'
    BY <2>2, <2>4, NotMoreHolders DEF TypeOK
  <2> QED BY <2>6, <2>7, <2>8, <2>9 DEF PoolInv
<1>4. ASSUME NEW n \in 0..BatchLen, Read(n) PROVE PoolInv'
  <2>1. TypeOK'
    BY <1>4 DEF Read, TypeOK
  <2>2. QueueInv'
    BY <1>4, QueueKept DEF Read, TypeOK
  <2>3. PlacesInv'
    BY <1>4 DEF Read, PlacesInv, Waiting, TypeOK
  <2>4. NotOverbooked'
    BY <1>4, NotMoreHolders DEF Read, TypeOK
  <2> QED BY <2>1, <2>2, <2>3, <2>4 DEF PoolInv
<1>5. ASSUME NEW s \in Slots, Dispatch(s) PROVE PoolInv'
  <2>1. s # Main /\ s \in Actors /\ left > 0 /\ conn[Main] = "held" /\ conn[s] = "none"
    BY <1>5 DEF Dispatch, PlacesInv, Waiting
  <2>2. /\ at' = [at EXCEPT ![s] = "mark", ![Main] = IF left = 1 THEN "read" ELSE at[Main]]
        /\ conn' = [conn EXCEPT ![Main] = IF left = 1 THEN "none" ELSE conn[Main]]
        /\ left' = left - 1 /\ queue' = queue
    BY <1>5 DEF Dispatch, TypeOK
  <2>3. TypeOK'
    BY <1>5, <2>1, <2>2 DEF Dispatch, TypeOK
  <2>4. QueueInv'
    BY <2>1, <2>2, QueueKept DEF TypeOK
  <2>5. PlacesInv'
    BY <1>5, <2>1, <2>2 DEF Dispatch, PlacesInv, Waiting, TypeOK
  <2>6. NotOverbooked'
    BY <2>1, <2>2, NotMoreHolders DEF TypeOK
  <2> QED BY <2>3, <2>4, <2>5, <2>6 DEF PoolInv
<1>6. ASSUME NEW s \in Slots, Return(s) PROVE PoolInv'
  <2>1. s # Main /\ s \in Actors /\ at[s] \in {"mark", "push", "ack"}
    BY <1>6 DEF Return, PlacesInv, Waiting, TypeOK
  <2>2. at' = [at EXCEPT ![s] = After[at[s]]] /\ After[at[s]] \in {"run", "ack", "idle"}
    BY <1>6, <2>1 DEF Return, After
  <2>3. conn' = [conn EXCEPT ![s] = "none"] /\ queue' = queue /\ left' = left /\ conn[s] = "held"
    BY <1>6 DEF Return
  <2>4. TypeOK'
    BY <2>1, <2>2, <2>3 DEF TypeOK
  <2>5. QueueInv'
    BY <2>3, QueueKept DEF TypeOK
  <2>6. PlacesInv'
    BY <2>1, <2>2, <2>3 DEF PlacesInv, TypeOK
  <2>7. NotOverbooked'
    BY <2>3, NotMoreHolders DEF TypeOK
  <2> QED BY <2>4, <2>5, <2>6, <2>7 DEF PoolInv
<1>7. ASSUME NEW s \in Slots, Judge(s) PROVE PoolInv'
  <2>1. PICK next \in {"push", "idle"} : at' = [at EXCEPT ![s] = next]
    BY <1>7 DEF Judge
  <2>2. s # Main /\ s \in Actors /\ conn[s] = "none" /\ UNCHANGED <<conn, queue, left>>
    BY <1>7 DEF Judge, PlacesInv, Waiting
  <2>3. TypeOK'
    BY <2>1, <2>2 DEF TypeOK
  <2>4. QueueInv' /\ NotOverbooked'
    BY <2>2, QueueKept, NotMoreHolders
  <2>5. PlacesInv'
    BY <2>1, <2>2 DEF PlacesInv, TypeOK
  <2> QED BY <2>3, <2>4, <2>5 DEF PoolInv
<1>8. CASE UNCHANGED vars
  <2>1. TypeOK' /\ QueueInv' /\ PlacesInv' /\ NotOverbooked'
    BY <1>8 DEF vars, TypeOK, QueueInv, PlacesInv, NotOverbooked, Holders
  <2> QED BY <2>1 DEF PoolInv
<1> QED BY <1>1, <1>2, <1>3, <1>4, <1>5, <1>6, <1>7, <1>8 DEF Next

\* Whoever waits for a connection is in the pool's queue and there once, so it is
\* neither forgotten nor served twice; and the pool is never overbooked, with
\* setup_conn that never comes back.
THEOREM PoolInvariance == Spec => []PoolInv
<1> QED BY InitPool, PoolStep, PTL DEF Spec

\* The types, which say that a refused call leads every actor to a next await.
THEOREM PoolTypes == Spec => []TypeOK
<1>1. PoolInv => TypeOK
  BY DEF PoolInv
<1> QED BY <1>1, PoolInvariance, PTL

\* On a machine of two cores or more main loop and tasks never wait for each
\* other in a circle: the default pool has the third connection that it takes.
THEOREM NoCircleOnTwoCores ==
  ASSUME NEW cores \in Nat \ {0, 1}, PoolSize = DefaultPoolSize(cores)
  PROVE  Spec => []NoCircularWait
<1>1. PoolSize > 2
  BY DEF DefaultPoolSize
<1>2. ASSUME PoolInv PROVE NoCircularWait
  <2> SUFFICES ASSUME \A s \in Slots : conn[s] # "held" PROVE Spare
    BY Constants, SizesAssumption DEF NoCircularWait, Slots
  <2>1. Holders \subseteq {Main}
    BY Constants DEF Holders
  <2>2. Cardinality({Main}) = 1 /\ IsFiniteSet({Main})
    BY FS_Singleton
  <2>3. Cardinality(Holders) <= 1 /\ Cardinality(Holders) \in Nat
    BY <2>1, <2>2, FS_Subset, FS_CardinalityType
  <2> QED BY <1>1, <2>3, Constants DEF Spare
<1> QED BY <1>2, PoolInvariance, PTL
=============================================================================
