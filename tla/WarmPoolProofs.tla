--------------------------- MODULE WarmPoolProofs ---------------------------
(***************************************************************************)
(* Proofs about the warm pool, for every policy and every number of        *)
(* requests. The inductive invariant is the conjunction of the type        *)
(* invariant, the partition of the booted instances and the two bounds on  *)
(* the queue; one lemma says what a refill does, and every method of the   *)
(* pool that changes the queue is a refill of some rest of it.             *)
(***************************************************************************)
EXTENDS WarmPool, SequenceTheorems, FiniteSetTheorems, TLAPS

Instances == Nat \ {0}

PoolIInv ==
  /\ PoolTypeOK
  /\ PoolPartition
  /\ PoolWithinCapacity
  /\ FilledToTarget

-----------------------------------------------------------------------------
(* Arithmetic of the policies. *)

LEMMA DivType ==
  ASSUME NEW n \in Nat, NEW d \in Nat \ {0}
  PROVE  n \div d \in Nat
OBVIOUS

LEMMA TimesType ==
  ASSUME NEW m \in Nat, NEW n \in Nat
  PROVE  m * n \in Nat
OBVIOUS

LEMMA TimesMonotone ==
  ASSUME NEW m \in Nat, NEW n \in Nat, NEW k \in Nat, m <= n
  PROVE  m * k <= n * k
OBVIOUS

LEMMA DivMonotone ==
  ASSUME NEW m \in Nat, NEW n \in Nat, NEW d \in Nat \ {0}, m <= n
  PROVE  m \div d <= n \div d
OBVIOUS

\* The target of either policy is a number of instances within its capacity.
LEMMA TargetType ==
  ASSUME NEW n \in Nat
  PROVE  Target(n) \in 0 .. Capacity
<1>1. (n * BufferNum) \div BufferDen \in Nat
  BY PolicyAssumption, TimesType, DivType
<1> QED
  BY <1>1, PolicyAssumption DEF Target, Clamp, Capacity

\* More demand never asks for fewer warm instances.
LEMMA TargetMonotone ==
  ASSUME NEW m \in Nat, NEW n \in Nat, m <= n
  PROVE  Target(m) <= Target(n)
<1> DEFINE scaled(k) == (k * BufferNum) \div BufferDen
<1>1. scaled(m) \in Nat /\ scaled(n) \in Nat
  BY PolicyAssumption, TimesType, DivType
<1>2. m * BufferNum <= n * BufferNum
  BY PolicyAssumption, TimesMonotone
<1>3. scaled(m) <= scaled(n)
  BY <1>2, PolicyAssumption, TimesType, DivMonotone
<1> HIDE DEF scaled
<1>4. Clamp(scaled(m)) <= Clamp(scaled(n))
  BY <1>1, <1>3, PolicyAssumption DEF Clamp
<1> QED
  BY <1>4, PolicyAssumption DEF Target, scaled

-----------------------------------------------------------------------------
(* What a refill does to a queue that holds the last instances booted. *)

LEMMA Refill ==
  ASSUME NEW rest \in Seq(Instances), NEW used \in Nat, NEW n \in Nat,
         Len(rest) <= used,
         \A j \in DOMAIN rest : rest[j] = used - Len(rest) + j,
         Len(rest) <= Capacity,
         PoolReplenish(rest, used, n)
  PROVE  /\ ready' \in Seq(Instances)
         /\ booted' \in Nat
         /\ short' \in BOOLEAN
         /\ Len(ready') <= booted'
         /\ booted' - Len(ready') = used - Len(rest)
         /\ \A j \in DOMAIN ready' : ready'[j] = used - Len(rest) + j
         /\ Len(ready') <= Capacity
         /\ short' \/ Len(ready') >= Target(n)
<1> DEFINE missing == Shortfall(Len(rest), Target(n))
<1>1. Len(rest) \in Nat /\ Target(n) \in Nat /\ Target(n) <= Capacity
      /\ Capacity \in Nat
  BY TargetType, PolicyAssumption DEF Capacity
<1>2. missing \in Nat
  BY <1>1 DEF Shortfall
<1>3. PICK k \in 0 .. missing :
        /\ ready' = rest \o [j \in 1 .. k |-> used + j]
        /\ booted' = used + k
        /\ short' = (k # missing)
  BY DEF PoolReplenish
<1> DEFINE fresh == [j \in 1 .. k |-> used + j]
<1>4. k \in Nat /\ k <= missing
  BY <1>2
<1>5. fresh \in Seq(Instances) /\ Len(fresh) = k
  BY <1>4 DEF Instances
<1>6. /\ ready' \in Seq(Instances)
      /\ Len(ready') = Len(rest) + k
      /\ \A j \in 1 .. Len(rest) + k :
           ready'[j] = IF j <= Len(rest) THEN rest[j] ELSE fresh[j - Len(rest)]
  <2> HIDE DEF fresh
  <2> QED
    BY <1>3, <1>5, ConcatProperties DEF fresh
<1>7. \A j \in DOMAIN ready' : ready'[j] = used - Len(rest) + j
  <2> SUFFICES ASSUME NEW j \in 1 .. Len(rest) + k
               PROVE  ready'[j] = used - Len(rest) + j
    BY <1>6, LenProperties
  <2>1. CASE j <= Len(rest)
    <3>1. j \in DOMAIN rest
      BY <2>1, <1>1, <1>4, LenProperties
    <3> QED
      BY <2>1, <3>1, <1>6
  <2>2. CASE ~ (j <= Len(rest))
    <3>1. j - Len(rest) \in 1 .. k
      BY <2>2, <1>1, <1>4
    <3>2. fresh[j - Len(rest)] = used + (j - Len(rest))
      BY <3>1
    <3> HIDE DEF fresh
    <3> QED
      BY <2>2, <3>2, <1>6, <1>1
  <2> QED
    BY <2>1, <2>2
<1>8. /\ Len(ready') <= Capacity
      /\ k = missing => Len(ready') >= Target(n)
  BY <1>1, <1>4, <1>6 DEF Shortfall
<1> HIDE DEF missing
<1>9. short' \in BOOLEAN
  BY <1>3
<1>10. short' \/ Len(ready') >= Target(n)
  <2>1. CASE k = missing
    BY <2>1, <1>8
  <2>2. CASE k # missing
    BY <2>2, <1>3
  <2> QED
    BY <2>1, <2>2
<1>11. /\ booted' \in Nat
       /\ Len(ready') <= booted'
       /\ booted' - Len(ready') = used - Len(rest)
  BY <1>1, <1>3, <1>4, <1>6
<1> QED
  BY <1>6, <1>7, <1>8, <1>9, <1>10, <1>11

-----------------------------------------------------------------------------
(* The methods. *)

\* An Acquire that returns hands out an instance no call has had before. This
\* is what the modules that call the pool rely on.
LEMMA AcquireIsFresh ==
  ASSUME PoolIInv, PoolAcquire(NextInstance)
  PROVE  /\ NextInstance \in Instances
         /\ NextInstance \notin handed
         /\ handed' = handed \cup {NextInstance}
<1>1. CASE ready = <<>>
  BY <1>1 DEF PoolIInv, PoolTypeOK, PoolPartition, PoolAcquire, NextInstance,
              Instances
<1>2. CASE ready # <<>>
  <2>1. Head(ready) = ready[1] /\ 1 \in DOMAIN ready /\ Len(ready) \in Nat
    BY <1>2 DEF PoolIInv, PoolTypeOK
  <2>2. Head(ready) = booted - Len(ready) + 1
    BY <2>1 DEF PoolIInv, PoolPartition
  <2> QED
    BY <1>2, <2>1, <2>2
    DEF PoolIInv, PoolTypeOK, PoolPartition, PoolAcquire, NextInstance, Instances
<1> QED
  BY <1>1, <1>2

LEMMA AcquirePreserves ==
  ASSUME PoolIInv, PoolAcquire(NextInstance)
  PROVE  PoolIInv'
<1> USE DEF PoolIInv
<1> DEFINE i    == NextInstance
           gone == booted - Len(ready)
<1>1. /\ ready \in Seq(Instances)
      /\ booted \in Nat
      /\ Len(ready) \in Nat
      /\ Len(ready) <= booted
      /\ Len(ready) <= Capacity
      /\ \A j \in DOMAIN ready : ready[j] = gone + j
  BY DEF PoolTypeOK, PoolPartition, PoolWithinCapacity, Instances
<1>2. i \in Instances /\ i \notin handed /\ handed' = handed \cup {i}
  BY AcquireIsFresh
<1>3. PICK rest \in Seq(Instances), used \in Nat, n \in Nat :
        /\ PoolReplenish(rest, used, n)
        /\ Len(rest) <= used
        /\ used - Len(rest) = gone + 1
        /\ \A j \in DOMAIN rest : rest[j] = used - Len(rest) + j
        /\ Len(rest) <= Capacity
        /\ live' = n
        /\ n <= live + 1
        /\ hits' \in Nat
        /\ misses' \in Nat
        /\ i = gone + 1
  <2>1. CASE PoolHit(i)
    <3>1. ready # <<>> /\ PoolReplenish(Tail(ready), booted, live + 1)
          /\ live' = live + 1 /\ hits' = hits + 1 /\ misses' = misses
      BY <2>1 DEF PoolHit
    <3>2. /\ Tail(ready) \in Seq(Instances)
          /\ Len(Tail(ready)) = Len(ready) - 1
          /\ \A j \in 1 .. Len(Tail(ready)) : Tail(ready)[j] = ready[j + 1]
      BY <3>1, <1>1, HeadTailProperties
    <3>3. \A j \in DOMAIN Tail(ready) : Tail(ready)[j] = gone + 1 + j
      <4> SUFFICES ASSUME NEW j \in 1 .. Len(ready) - 1
                   PROVE  Tail(ready)[j] = gone + 1 + j
        BY <3>2, LenProperties
      <4>1. j + 1 \in DOMAIN ready
        BY <1>1, LenProperties
      <4> QED
        BY <4>1, <3>2, <1>1
    <3>4. i = gone + 1
      <4>1. i = ready[1] /\ 1 \in DOMAIN ready
        BY <3>1, <1>1 DEF NextInstance
      <4> QED
        BY <4>1, <1>1
    <3>5. Len(ready) > 0
      BY <3>1, <1>1
    <3>6. live + 1 \in Nat /\ hits' \in Nat /\ misses' \in Nat
          /\ Len(Tail(ready)) \in Nat
      BY <3>1, <3>2, <3>5, <1>1 DEF PoolTypeOK
    <3>7. /\ Len(Tail(ready)) <= booted
          /\ booted - Len(Tail(ready)) = gone + 1
          /\ Len(Tail(ready)) <= Capacity
      BY <3>2, <3>5, <1>1, PolicyAssumption DEF Capacity
    <3> Tail(ready) \in Seq(Instances) /\ booted \in Nat /\ live + 1 \in Nat
      BY <3>2, <3>6, <1>1
    <3> WITNESS Tail(ready) \in Seq(Instances), booted \in Nat, live + 1 \in Nat
    <3> QED
      BY <3>1, <3>3, <3>4, <3>6, <3>7 DEF PoolTypeOK
  <2>2. CASE PoolMiss(i)
    <3>1. /\ ready = <<>>
          /\ i = booted + 1
          /\ live' \in 0 .. live + 1
          /\ PoolReplenish(<<>>, i, live')
          /\ misses' = misses + 1
          /\ hits' = hits
      BY <2>2 DEF PoolMiss
    <3>2. /\ <<>> \in Seq(Instances)
          /\ Len(<<>>) = 0
          /\ i \in Nat
          /\ live' \in Nat
          /\ gone = booted
      BY <3>1, <1>1 DEF PoolTypeOK
    <3>3. 0 <= Capacity
      BY PolicyAssumption DEF Capacity
    <3>4. \A j \in DOMAIN <<>> : <<>>[j] = i - Len(<<>>) + j
      OBVIOUS
    <3> <<>> \in Seq(Instances) /\ i \in Nat /\ live' \in Nat
      BY <3>2
    <3> HIDE DEF i
    <3> WITNESS <<>> \in Seq(Instances), i \in Nat, live' \in Nat
    <3> QED
      BY <3>1, <3>2, <3>3, <3>4, <1>1 DEF PoolTypeOK
  <2> QED
    BY <2>1, <2>2 DEF PoolAcquire
<1>4. /\ ready' \in Seq(Instances)
      /\ booted' \in Nat
      /\ short' \in BOOLEAN
      /\ Len(ready') <= booted'
      /\ booted' - Len(ready') = used - Len(rest)
      /\ \A j \in DOMAIN ready' : ready'[j] = used - Len(rest) + j
      /\ Len(ready') <= Capacity
      /\ short' \/ Len(ready') >= Target(n)
  BY <1>3, Refill
<1>5. PoolTypeOK'
  <2>1. recent' \in Nat /\ live' \in 0 .. recent'
    BY <1>3 DEF PoolTypeOK, PoolAcquire
  <2>2. handed' \in SUBSET Instances /\ dropped' \in SUBSET Instances
    BY <1>2 DEF PoolTypeOK, PoolAcquire, Instances
  <2> QED
    BY <2>1, <2>2, <1>3, <1>4 DEF PoolTypeOK, Instances
<1>6. PoolPartition'
  <2>1. handed' \cup dropped' = 1 .. gone + 1
    <3>1. gone \in Nat /\ i = gone + 1
      BY <1>1, <1>3
    <3>2. handed \cup dropped = 1 .. gone
      BY DEF PoolPartition
    <3>3. handed' = handed \cup {i} /\ dropped' = dropped
      BY <1>2 DEF PoolAcquire
    <3> HIDE DEF gone, i
    <3> QED
      BY <3>1, <3>2, <3>3
  <2>2. handed' \cap dropped' = {}
    <3>1. i \notin dropped
      BY <1>1, <1>3 DEF PoolPartition
    <3> QED
      BY <3>1, <1>2 DEF PoolPartition, PoolAcquire
  <2> QED
    BY <2>1, <2>2, <1>3, <1>4 DEF PoolPartition
<1>7. PoolWithinCapacity'
  BY <1>4 DEF PoolWithinCapacity, Capacity
<1>8. FilledToTarget'
  BY <1>3, <1>4 DEF FilledToTarget, Target, Clamp
<1> QED
  BY <1>5, <1>6, <1>7, <1>8

LEMMA AcquireFailsPreserves ==
  ASSUME PoolIInv, PoolAcquireFails
  PROVE  PoolIInv'
BY DEF PoolIInv, PoolAcquireFails, PoolTypeOK, PoolPartition,
       PoolWithinCapacity, FilledToTarget, Capacity

LEMMA AgePreserves ==
  ASSUME PoolIInv, PoolAge
  PROVE  PoolIInv'
<1> USE DEF PoolIInv
<1>1. live \in Nat /\ live' \in Nat /\ live' <= live /\ live' <= recent
  BY DEF PoolAge, PoolTypeOK
<1>2. PoolTypeOK'
  BY <1>1 DEF PoolAge, PoolTypeOK
<1>3. PoolPartition'
  BY DEF PoolAge, PoolPartition
<1>4. PoolWithinCapacity'
  BY DEF PoolAge, PoolWithinCapacity, Capacity
<1>5. FilledToTarget'
  <2>1. short' = short /\ ready' = ready /\ Len(ready) \in Nat
    BY DEF PoolAge, PoolTypeOK
  <2>2. Target(live') <= Target(live) /\ Target(live) \in Nat /\ Target(live') \in Nat
    BY <1>1, TargetMonotone, TargetType
  <2>3. CASE short
    BY <2>1, <2>3 DEF FilledToTarget
  <2>4. CASE ~ short
    <3>1. Len(ready) >= Target(live)
      BY <2>4 DEF FilledToTarget
    <3>2. Len(ready) >= Target(live')
      BY <3>1, <2>1, <2>2
    <3> QED
      BY <3>2, <2>1 DEF FilledToTarget, Target, Clamp
  <2> QED
    BY <2>3, <2>4
<1> QED
  BY <1>2, <1>3, <1>4, <1>5

LEMMA DrainPreserves ==
  ASSUME PoolIInv, PoolDrain
  PROVE  PoolIInv'
<1> USE DEF PoolIInv
<1>1. /\ ready \in Seq(Instances)
      /\ booted \in Nat
      /\ Len(ready) \in Nat
      /\ Len(ready) <= booted
      /\ DOMAIN ready = 1 .. Len(ready)
  BY DEF PoolTypeOK, PoolPartition, Instances
<1>2. /\ ready' = <<>>
      /\ booted' = booted
      /\ short' = TRUE
      /\ dropped' = dropped \cup Elements(ready)
      /\ handed' = handed
  BY DEF PoolDrain
<1>3. Elements(ready) = booted - Len(ready) + 1 .. booted
  <2>1. \A j \in 1 .. Len(ready) : ready[j] = booted - Len(ready) + j
    BY <1>1 DEF PoolPartition
  <2>2. ASSUME NEW x \in Elements(ready)
        PROVE  x \in booted - Len(ready) + 1 .. booted
    BY <2>1, <1>1 DEF Elements
  <2>3. ASSUME NEW x \in booted - Len(ready) + 1 .. booted
        PROVE  x \in Elements(ready)
    <3> DEFINE j == x - (booted - Len(ready))
    <3>1. j \in 1 .. Len(ready) /\ x = booted - Len(ready) + j
      BY <1>1
    <3> QED
      BY <3>1, <2>1, <1>1 DEF Elements
  <2> QED
    BY <2>2, <2>3
<1>4. PoolTypeOK'
  <2>1. Elements(ready) \subseteq Nat \ {0}
    BY <1>1, <1>3
  <2>2. ready' \in Seq(Nat \ {0})
    BY <1>2
  <2>3. dropped' \in SUBSET (Nat \ {0})
    BY <2>1, <1>2 DEF PoolTypeOK
  <2>4. short' \in BOOLEAN
    BY <1>2
  <2> QED
    BY <2>2, <2>3, <2>4 DEF PoolTypeOK, PoolDrain
<1>5. PoolPartition'
  <2>1. Len(ready') = 0 /\ DOMAIN ready' = {}
    BY <1>2
  <2> DEFINE gone == booted - Len(ready)
  <2>a. gone \in Nat /\ gone <= booted
    BY <1>1
  <2>b. handed \cup dropped = 1 .. gone /\ handed \cap dropped = {}
    BY DEF PoolPartition
  <2>c. Elements(ready) = gone + 1 .. booted
    BY <1>3
  <2> HIDE DEF gone
  <2>2. handed' \cup dropped' = 1 .. booted
    BY <1>1, <1>2, <2>a, <2>b, <2>c
  <2>3. handed' \cap dropped' = {}
    BY <1>1, <1>2, <2>a, <2>b, <2>c
  <2> QED
    BY <1>1, <1>2, <2>1, <2>2, <2>3 DEF PoolPartition
<1>6. PoolWithinCapacity'
  BY <1>2, PolicyAssumption DEF PoolWithinCapacity, Capacity
<1>7. FilledToTarget'
  BY <1>2 DEF FilledToTarget
<1> QED
  BY <1>4, <1>5, <1>6, <1>7

-----------------------------------------------------------------------------
(* The invariant, and what follows from it. *)

LEMMA InitEstablishes ==
  ASSUME PoolInit
  PROVE  PoolIInv
<1>1. PICK k \in 0 .. Target(0) :
        /\ ready = [j \in 1 .. k |-> j]
        /\ booted = k
        /\ short = (k # Target(0))
  BY DEF PoolInit
<1>2. /\ k \in Nat
      /\ k <= Capacity
      /\ Target(0) \in Nat
  BY <1>1, TargetType, PolicyAssumption DEF Capacity
<1>3. /\ ready \in Seq(Instances)
      /\ Len(ready) = k
      /\ DOMAIN ready = 1 .. k
      /\ \A j \in 1 .. k : ready[j] = j
  BY <1>1, <1>2 DEF Instances
<1>4. PoolTypeOK
  <2>1. short \in BOOLEAN
    BY <1>1
  <2> QED
    BY <2>1, <1>1, <1>2, <1>3 DEF PoolInit, PoolTypeOK, Instances
<1>5. PoolPartition
  BY <1>1, <1>2, <1>3 DEF PoolInit, PoolPartition
<1>6. PoolWithinCapacity
  BY <1>2, <1>3 DEF PoolWithinCapacity
<1>7. FilledToTarget
  <2>1. live = 0
    BY DEF PoolInit
  <2>2. CASE k = Target(0)
    BY <2>1, <2>2, <1>2, <1>3 DEF FilledToTarget
  <2>3. CASE k # Target(0)
    BY <2>3, <1>1 DEF FilledToTarget
  <2> QED
    BY <2>2, <2>3
<1> QED
  BY <1>4, <1>5, <1>6, <1>7 DEF PoolIInv

LEMMA StutterPreserves ==
  ASSUME PoolIInv, UNCHANGED poolVars
  PROVE  PoolIInv'
BY DEF PoolIInv, poolVars, PoolTypeOK, PoolPartition, PoolWithinCapacity,
       FilledToTarget, Target, Clamp, Capacity

\* The pool's own specification bounds how often it is called, nothing else, so
\* what is proved of the service holds of it.
THEOREM PoolSpecServes == PoolSpec => PoolService
<1>1. PoolNext => PoolCall \/ UNCHANGED poolVars
  BY DEF PoolNext, PoolCall
<1> QED
  BY <1>1, PTL DEF PoolSpec, PoolService

\* Every state the pool reaches satisfies the inductive invariant.
THEOREM PoolInvariant == PoolService => []PoolIInv
<1>1. PoolInit => PoolIInv
  BY InitEstablishes
<1>2. PoolIInv /\ [PoolCall]_poolVars => PoolIInv'
  <2> SUFFICES ASSUME PoolIInv, [PoolCall]_poolVars
               PROVE  PoolIInv'
    OBVIOUS
  <2>1. CASE PoolAcquire(NextInstance)
    BY <2>1, AcquirePreserves
  <2>2. CASE PoolAcquireFails
    BY <2>2, AcquireFailsPreserves
  <2>3. CASE PoolDrain
    BY <2>3, DrainPreserves
  <2>4. CASE PoolAge
    BY <2>4, AgePreserves
  <2>5. CASE UNCHANGED poolVars
    BY <2>5, StutterPreserves
  <2> QED
    BY <2>1, <2>2, <2>3, <2>4, <2>5 DEF PoolCall
<1> QED
  BY <1>1, <1>2, PTL DEF PoolService

\* The fields of the pool keep their types.
THEOREM PoolTyping == PoolService => []PoolTypeOK
<1>1. PoolIInv => PoolTypeOK
  BY DEF PoolIInv
<1> QED
  BY <1>1, PoolInvariant, PTL

\* No booted instance is lost or handed out twice, for every policy and every
\* interleaving of requests, failed boots and drains.
THEOREM PoolConserves == PoolService => []PoolPartition
<1>1. PoolIInv => PoolPartition
  BY DEF PoolIInv
<1> QED
  BY <1>1, PoolInvariant, PTL

\* The pool never holds more warm instances than its policy's largest target.
THEOREM PoolBounded == PoolService => []PoolWithinCapacity
<1>1. PoolIInv => PoolWithinCapacity
  BY DEF PoolIInv
<1> QED
  BY <1>1, PoolInvariant, PTL

\* Without failed boots and drains the pool is never below its target.
THEOREM PoolFilled == PoolService => []FilledToTarget
<1>1. PoolIInv => FilledToTarget
  BY DEF PoolIInv
<1> QED
  BY <1>1, PoolInvariant, PTL

\* A request pays for a cold boot only when the pool is short or the policy
\* keeps nothing warm: the emptiness of the queue that sends Acquire down that
\* path contradicts the fill level otherwise.
THEOREM ColdBootIsJustified == PoolService => MissOnlyWhenShort
<1> DEFINE Justified == misses' # misses => short \/ Target(live) = 0
<1>1. PoolIInv /\ [PoolCall]_poolVars => [Justified]_poolVars
  <2> SUFFICES ASSUME PoolIInv, PoolCall, misses' # misses
               PROVE  short \/ Target(live) = 0
    OBVIOUS
  <2>1. ready = <<>>
    BY DEF PoolCall, PoolAcquire, PoolHit, PoolMiss, PoolAcquireFails, PoolDrain,
           PoolAge, poolVars
  <2>2. short \/ 0 >= Target(live)
    BY <2>1 DEF PoolIInv, FilledToTarget
  <2>3. Target(live) \in Nat
    BY TargetType DEF PoolIInv, PoolTypeOK
  <2> QED
    BY <2>2, <2>3
<1> QED
  BY <1>1, PoolInvariant, PTL DEF PoolService, MissOnlyWhenShort

\* Every Acquire that returns is counted once, and no other call is: what it
\* returns is fresh, so the counters and the set of instances grow together.
THEOREM PoolAccounts == PoolService => []PoolAccounting
<1> DEFINE Inv == IsFiniteSet(handed) /\ PoolAccounting
<1>1. PoolInit => Inv
  BY FS_EmptySet DEF PoolInit, PoolAccounting
<1>2. PoolIInv /\ Inv /\ [PoolCall]_poolVars => Inv'
  <2> SUFFICES ASSUME PoolIInv, Inv, [PoolCall]_poolVars
               PROVE  Inv'
    OBVIOUS
  <2>1. CASE PoolAcquire(NextInstance)
    <3>1. NextInstance \notin handed /\ handed' = handed \cup {NextInstance}
      BY <2>1, AcquireIsFresh
    <3>2. /\ IsFiniteSet(handed \cup {NextInstance})
          /\ Cardinality(handed \cup {NextInstance}) = Cardinality(handed) + 1
      BY <3>1, FS_AddElement
    <3>3. /\ hits' + misses' = hits + misses + 1
          /\ recent' = recent + 1
      BY <2>1 DEF PoolAcquire, PoolHit, PoolMiss, PoolIInv, PoolTypeOK
    <3>4. hits \in Nat /\ misses \in Nat /\ recent \in Nat
      BY DEF PoolIInv, PoolTypeOK
    <3> QED
      BY <3>1, <3>2, <3>3, <3>4 DEF PoolAccounting
  <2>2. CASE PoolAcquireFails \/ PoolDrain \/ PoolAge \/ UNCHANGED poolVars
    BY <2>2
    DEF PoolAcquireFails, PoolDrain, PoolAge, poolVars, PoolAccounting, PoolIInv,
        PoolTypeOK
  <2> QED
    BY <2>1, <2>2 DEF PoolCall
<1> QED
  BY <1>1, <1>2, PoolInvariant, PTL DEF PoolService
=============================================================================
