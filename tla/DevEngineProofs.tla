--------------------------- MODULE DevEngineProofs ---------------------------
(***************************************************************************)
(* Proof that the development engine's memory follows what it queued, for  *)
(* every set of sessions and of utterances and any number of requests.     *)
(*                                                                         *)
(* The property counts: the k-th turn a session remembers is that of its   *)
(* k-th request that was queued. So the proof needs how the count of a     *)
(* session changes when one more request has been handled, and that the    *)
(* counts of what was handled before do not.                               *)
(***************************************************************************)
EXTENDS DevEngine, FiniteSetTheorems, TLAPS

Artifacts ==
  {NoArtifact} \cup
  {GenerateCode(ClassifyTarget(u), turns) : u \in Utterances, turns \in Seq(Utterances)}

Served ==
  [session : Sessions, turn : Utterances, artifact : Artifacts,
   outcome : {"REJECTED_HARDRAIL", "QUEUED_FOR_DEPLOY"}]

DevEngineTyping ==
  /\ memory \in [Sessions -> Seq(Utterances)]
  /\ handled \in Seq(Served)

DevEngineIInv == DevEngineTyping /\ SessionsFollowTheirQueue

-----------------------------------------------------------------------------

\* What is counted is finite, and among the first n are at most n.
LEMMA CountType ==
  ASSUME NEW h, NEW s, NEW n \in Nat
  PROVE  /\ IsFiniteSet(QueuedUpTo(h, s, n))
         /\ Cardinality(QueuedUpTo(h, s, n)) \in 0 .. n
<1>1. QueuedUpTo(h, s, n) \subseteq 1 .. n
  BY DEF QueuedUpTo
<1>2. IsFiniteSet(1 .. n) /\ Cardinality(1 .. n) = n
  BY FS_Interval
<1>3. IsFiniteSet(QueuedUpTo(h, s, n)) /\ Cardinality(QueuedUpTo(h, s, n)) <= n
  BY <1>1, <1>2, FS_Subset
<1> QED
  BY <1>3, FS_CardinalityType

\* Only the first n requests decide about the count up to n.
LEMMA CountsAgree ==
  ASSUME NEW g, NEW h, NEW s, NEW n \in Nat, \A i \in 1 .. n : g[i] = h[i]
  PROVE  QueuedUpTo(g, s, n) = QueuedUpTo(h, s, n)
BY Zenon DEF QueuedUpTo

\* One more request counts for its own session, and only if it was queued.
LEMMA CountNext ==
  ASSUME NEW h, NEW s, NEW n \in Nat
  PROVE  IF h[n + 1].session = s /\ h[n + 1].outcome = "QUEUED_FOR_DEPLOY"
         THEN /\ QueuedUpTo(h, s, n + 1) = QueuedUpTo(h, s, n) \cup {n + 1}
              /\ Cardinality(QueuedUpTo(h, s, n + 1)) =
                   Cardinality(QueuedUpTo(h, s, n)) + 1
         ELSE QueuedUpTo(h, s, n + 1) = QueuedUpTo(h, s, n)
<1>1. \A i : i \in 1 .. n + 1 <=> i \in 1 .. n \/ i = n + 1
  OBVIOUS
<1>2. n + 1 \notin QueuedUpTo(h, s, n)
  BY DEF QueuedUpTo
<1>3. CASE h[n + 1].session = s /\ h[n + 1].outcome = "QUEUED_FOR_DEPLOY"
  <2>1. QueuedUpTo(h, s, n + 1) = QueuedUpTo(h, s, n) \cup {n + 1}
    BY <1>1, <1>3 DEF QueuedUpTo
  <2>2. Cardinality(QueuedUpTo(h, s, n) \cup {n + 1}) =
          Cardinality(QueuedUpTo(h, s, n)) + 1
    BY <1>2, CountType, FS_AddElement
  <2> QED
    BY <1>3, <2>1, <2>2
<1>4. CASE ~ (h[n + 1].session = s /\ h[n + 1].outcome = "QUEUED_FOR_DEPLOY")
  BY <1>1, <1>4 DEF QueuedUpTo
<1> QED
  BY <1>3, <1>4

\* A request that is counted has its place among those that are.
LEMMA CountPlaces ==
  ASSUME NEW h, NEW s, NEW n \in Nat, NEW i \in QueuedUpTo(h, s, n)
  PROVE  Cardinality(QueuedUpTo(h, s, i)) \in 1 .. Cardinality(QueuedUpTo(h, s, n))
<1>1. i \in 1 .. n /\ i \in Nat
  BY DEF QueuedUpTo
<1>2. QueuedUpTo(h, s, i) \subseteq QueuedUpTo(h, s, n) /\ i \in QueuedUpTo(h, s, i)
  BY <1>1 DEF QueuedUpTo
<1>3. Cardinality(QueuedUpTo(h, s, i)) <= Cardinality(QueuedUpTo(h, s, n))
  BY <1>2, CountType, FS_Subset
<1>4. Cardinality(QueuedUpTo(h, s, i)) # 0
  BY <1>1, <1>2, CountType, FS_EmptySet
<1> QED
  BY <1>1, <1>3, <1>4, CountType

\* A request is recorded behind those handled before, whose counts it leaves
\* alone.
LEMMA RecordAppends ==
  ASSUME DevEngineTyping, NEW s \in Sessions, NEW u \in Utterances,
         NEW a \in Artifacts, NEW o \in {"REJECTED_HARDRAIL", "QUEUED_FOR_DEPLOY"},
         Record(s, u, a, o)
  PROVE  /\ handled' \in Seq(Served)
         /\ Len(handled) \in Nat
         /\ Len(handled') = Len(handled) + 1
         /\ handled'[Len(handled) + 1] =
              [session |-> s, turn |-> u, artifact |-> a, outcome |-> o]
         /\ \A i \in 1 .. Len(handled) : handled'[i] = handled[i]
         /\ \A z : \A n \in 0 .. Len(handled) :
              QueuedUpTo(handled', z, n) = QueuedUpTo(handled, z, n)
<1> DEFINE r == [session |-> s, turn |-> u, artifact |-> a, outcome |-> o]
<1>1. r \in Served
  BY DEF Served
<1>2. handled' = Append(handled, r) /\ handled \in Seq(Served)
  BY DEF Record, DevEngineTyping
<1> HIDE DEF r
<1>3. /\ handled' \in Seq(Served)
      /\ Len(handled) \in Nat
      /\ Len(handled') = Len(handled) + 1
      /\ handled'[Len(handled) + 1] = r
      /\ \A i \in 1 .. Len(handled) : handled'[i] = handled[i]
  BY <1>1, <1>2
<1>4. ASSUME NEW z, NEW n \in 0 .. Len(handled)
      PROVE  QueuedUpTo(handled', z, n) = QueuedUpTo(handled, z, n)
  <2>1. n \in Nat /\ \A i \in 1 .. n : handled'[i] = handled[i]
    BY <1>3
  <2> QED
    BY <2>1, CountsAgree
<1> QED
  BY <1>3, <1>4 DEF r

-----------------------------------------------------------------------------
(* The two outcomes. *)

LEMMA RejectPreserves ==
  ASSUME DevEngineIInv, NEW s \in Sessions, NEW u \in Utterances, Reject(s, u)
  PROVE  DevEngineIInv'
<1> DEFINE n == Len(handled)
<1>a. DevEngineTyping /\ SessionsFollowTheirQueue
  BY DEF DevEngineIInv
<1>b. memory' = memory /\ Record(s, u, NoArtifact, "REJECTED_HARDRAIL")
  BY DEF Reject
<1>1. /\ handled' \in Seq(Served)
      /\ n \in Nat
      /\ Len(handled') = n + 1
      /\ handled'[n + 1].outcome = "REJECTED_HARDRAIL"
      /\ \A i \in 1 .. n : handled'[i] = handled[i]
      /\ \A z : \A m \in 0 .. n :
           QueuedUpTo(handled', z, m) = QueuedUpTo(handled, z, m)
  <2> DEFINE r == [session |-> s, turn |-> u, artifact |-> NoArtifact,
                   outcome |-> "REJECTED_HARDRAIL"]
  <2>1. NoArtifact \in Artifacts
    BY DEF Artifacts
  <2>2. /\ handled' \in Seq(Served)
        /\ n \in Nat
        /\ Len(handled') = n + 1
        /\ handled'[n + 1] = r
        /\ \A i \in 1 .. n : handled'[i] = handled[i]
        /\ \A z : \A m \in 0 .. n :
             QueuedUpTo(handled', z, m) = QueuedUpTo(handled, z, m)
    BY <1>a, <1>b, <2>1, RecordAppends, Zenon
  <2>3. r.outcome = "REJECTED_HARDRAIL"
    OBVIOUS
  <2> HIDE DEF n, r
  <2> QED
    BY <2>2, <2>3
<1>2. DOMAIN handled = 1 .. n /\ DOMAIN handled' = 1 .. n + 1
  BY <1>1, <1>a DEF DevEngineTyping
<1> HIDE DEF n
<1>3. ASSUME NEW z
      PROVE  QueuedUpTo(handled', z, n + 1) = QueuedUpTo(handled, z, n)
  <2>1. QueuedUpTo(handled', z, n + 1) = QueuedUpTo(handled', z, n)
    BY <1>1, CountNext
  <2> QED
    BY <1>1, <2>1
<1>4. ASSUME NEW z \in Sessions
      PROVE  /\ Len(memory'[z]) = Cardinality(QueuedUpTo(handled', z, n + 1))
             /\ \A i \in QueuedUpTo(handled', z, n + 1) :
                  memory'[z][Cardinality(QueuedUpTo(handled', z, i))] =
                    handled'[i].turn
  <2>1. \A i \in QueuedUpTo(handled, z, n) : i \in 1 .. n
    BY DEF QueuedUpTo
  <2> QED
    BY <1>a, <1>b, <1>1, <1>3, <2>1 DEF SessionsFollowTheirQueue, n
<1>5. ASSUME NEW i \in 1 .. n + 1, handled'[i].outcome = "QUEUED_FOR_DEPLOY"
      PROVE  /\ handled'[i].artifact.turns =
                  Cardinality(QueuedUpTo(handled', handled'[i].session, i - 1))
             /\ handled'[i].artifact.path[1] # "infra-iac"
  <2>1. i \in 1 .. n /\ i - 1 \in 0 .. n
    BY <1>1, <1>5
  <2>2. handled'[i] = handled[i]
    BY <1>1, <2>1
  <2> QED
    BY <1>a, <1>1, <1>2, <1>5, <2>1, <2>2 DEF SessionsFollowTheirQueue
<1>6. SessionsFollowTheirQueue'
  BY <1>1, <1>2, <1>4, <1>5 DEF SessionsFollowTheirQueue
<1> QED
  BY <1>a, <1>b, <1>1, <1>6 DEF DevEngineIInv, DevEngineTyping

LEMMA QueuePreserves ==
  ASSUME DevEngineIInv, NEW s \in Sessions, NEW u \in Utterances, Queue(s, u)
  PROVE  DevEngineIInv'
<1> DEFINE n == Len(handled)
           a == GenerateCode(ClassifyTarget(u), memory[s])
           r == [session |-> s, turn |-> u, artifact |-> a,
                 outcome |-> "QUEUED_FOR_DEPLOY"]
<1>a. DevEngineTyping /\ SessionsFollowTheirQueue
  BY DEF DevEngineIInv
<1>b. /\ memory' = [memory EXCEPT ![s] = Append(@, u)]
      /\ Record(s, u, a, "QUEUED_FOR_DEPLOY")
      /\ ~ Forbidden(ClassifyTarget(u))
  BY DEF Queue, Recall
<1>c. /\ memory \in [Sessions -> Seq(Utterances)]
      /\ memory' \in [Sessions -> Seq(Utterances)]
      /\ memory[s] \in Seq(Utterances)
      /\ memory'[s] = Append(memory[s], u)
      /\ \A z \in Sessions \ {s} : memory'[z] = memory[z]
  BY <1>a, <1>b DEF DevEngineTyping
<1>1. /\ handled' \in Seq(Served)
      /\ n \in Nat
      /\ Len(handled') = n + 1
      /\ handled'[n + 1] = r
      /\ \A i \in 1 .. n : handled'[i] = handled[i]
      /\ \A z : \A m \in 0 .. n :
           QueuedUpTo(handled', z, m) = QueuedUpTo(handled, z, m)
  <2>1. a \in Artifacts
    BY <1>c DEF Artifacts
  <2> HIDE DEF a
  <2> QED
    BY <1>a, <1>b, <2>1, RecordAppends, Zenon
<1>2. DOMAIN handled = 1 .. n /\ DOMAIN handled' = 1 .. n + 1
  BY <1>1, <1>a DEF DevEngineTyping
<1>3. /\ r.session = s /\ r.outcome = "QUEUED_FOR_DEPLOY" /\ r.turn = u
      /\ r.artifact = a
  OBVIOUS
<1>4. a.turns = Len(memory[s]) /\ a.path[1] # "infra-iac"
  BY <1>b DEF GenerateCode, Forbidden
<1>5. \A z : \A i \in QueuedUpTo(handled, z, n) : i \in 1 .. n /\ i \in 0 .. n
  BY <1>1 DEF QueuedUpTo
<1>6. \A z \in Sessions :
        /\ Len(memory[z]) = Cardinality(QueuedUpTo(handled, z, n))
        /\ \A i \in QueuedUpTo(handled, z, n) :
             memory[z][Cardinality(QueuedUpTo(handled, z, i))] = handled[i].turn
  BY <1>a, Zenon DEF SessionsFollowTheirQueue
<1> HIDE DEF n, a, r
<1>7. ASSUME NEW z \in Sessions
      PROVE  /\ Len(memory'[z]) = Cardinality(QueuedUpTo(handled', z, n + 1))
             /\ \A i \in QueuedUpTo(handled', z, n + 1) :
                  memory'[z][Cardinality(QueuedUpTo(handled', z, i))] =
                    handled'[i].turn
  <2>1. CASE z = s
    <3>1. /\ QueuedUpTo(handled', s, n + 1) = QueuedUpTo(handled, s, n) \cup {n + 1}
          /\ Cardinality(QueuedUpTo(handled', s, n + 1)) = Len(memory[s]) + 1
      BY <1>1, <1>3, <1>6, CountNext
    <3>2. /\ Len(memory'[s]) = Len(memory[s]) + 1
          /\ memory'[s][Len(memory[s]) + 1] = u
          /\ \A k \in 1 .. Len(memory[s]) : memory'[s][k] = memory[s][k]
      BY <1>c
    <3>3. ASSUME NEW i \in QueuedUpTo(handled, s, n)
          PROVE  memory'[s][Cardinality(QueuedUpTo(handled', s, i))] = handled'[i].turn
      <4>1. Cardinality(QueuedUpTo(handled, s, i)) \in 1 .. Len(memory[s])
        BY <1>1, <1>6, CountPlaces
      <4>2. QueuedUpTo(handled', s, i) = QueuedUpTo(handled, s, i)
        BY <1>1, <1>5
      <4>3. memory[s][Cardinality(QueuedUpTo(handled, s, i))] = handled[i].turn
        BY <1>6
      <4> QED
        BY <4>1, <4>2, <4>3, <3>2, <1>1, <1>5
    <3>4. memory'[s][Cardinality(QueuedUpTo(handled', s, n + 1))] = handled'[n + 1].turn
      BY <3>1, <3>2, <1>1, <1>3
    <3> QED
      BY <2>1, <3>1, <3>2, <3>3, <3>4
  <2>2. CASE z # s
    <3>1. QueuedUpTo(handled', z, n + 1) = QueuedUpTo(handled, z, n)
      <4>1. QueuedUpTo(handled', z, n + 1) = QueuedUpTo(handled', z, n)
        BY <1>1, <1>3, <2>2, CountNext
      <4> QED
        BY <4>1, <1>1
    <3>2. memory'[z] = memory[z]
      BY <1>c, <2>2
    <3> QED
      BY <3>1, <3>2, <1>1, <1>5, <1>6
  <2> QED
    BY <2>1, <2>2
<1>8. ASSUME NEW i \in 1 .. n + 1, handled'[i].outcome = "QUEUED_FOR_DEPLOY"
      PROVE  /\ handled'[i].artifact.turns =
                  Cardinality(QueuedUpTo(handled', handled'[i].session, i - 1))
             /\ handled'[i].artifact.path[1] # "infra-iac"
  <2>1. CASE i = n + 1
    <3>1. i - 1 = n /\ handled'[i].session = s /\ handled'[i].artifact = a
      BY <2>1, <1>1, <1>3
    <3>2. QueuedUpTo(handled', s, n) = QueuedUpTo(handled, s, n)
      BY <1>1
    <3> QED
      BY <3>1, <3>2, <1>4, <1>6
  <2>2. CASE i \in 1 .. n
    <3>1. i - 1 \in 0 .. n /\ handled'[i] = handled[i]
      BY <1>1, <2>2
    <3> QED
      BY <1>a, <1>1, <1>2, <1>8, <2>2, <3>1 DEF SessionsFollowTheirQueue
  <2> QED
    BY <1>1, <2>1, <2>2
<1>9. SessionsFollowTheirQueue'
  BY <1>1, <1>2, <1>7, <1>8 DEF SessionsFollowTheirQueue
<1> QED
  BY <1>c, <1>1, <1>9 DEF DevEngineIInv, DevEngineTyping

\* Whatever the requests, a session remembers its own turns that went to the
\* pipeline, each change builds on them, and none is of the infrastructure.
THEOREM MemoryFollowsQueue == DevEngineSpec => []SessionsFollowTheirQueue
<1>1. DevEngineInit => DevEngineIInv
  <2> SUFFICES ASSUME DevEngineInit
               PROVE  DevEngineIInv
    OBVIOUS
  <2>1. DevEngineTyping /\ Len(handled) = 0 /\ DOMAIN handled = {}
    BY DEF DevEngineInit, DevEngineTyping
  <2>2. \A s \in Sessions : memory[s] = <<>> /\ QueuedUpTo(handled, s, 0) = {}
    BY DEF DevEngineInit, QueuedUpTo
  <2>3. ASSUME NEW s \in Sessions
        PROVE  /\ Len(memory[s]) = Cardinality(QueuedUpTo(handled, s, Len(handled)))
               /\ QueuedUpTo(handled, s, Len(handled)) = {}
    <3>1. Len(memory[s]) = 0 /\ QueuedUpTo(handled, s, Len(handled)) = {}
      BY <2>1, <2>2
    <3> QED
      BY <3>1, FS_EmptySet
  <2>4. SessionsFollowTheirQueue
    BY <2>1, <2>3 DEF SessionsFollowTheirQueue
  <2> QED
    BY <2>1, <2>4 DEF DevEngineIInv
<1>2. ASSUME DevEngineIInv, [DevEngineNext]_devEngineVars
      PROVE  DevEngineIInv'
  <2>1. CASE DevEngineNext
    BY <1>2, <2>1, RejectPreserves, QueuePreserves DEF DevEngineNext
  <2>2. CASE UNCHANGED devEngineVars
    BY <1>2, <2>2
    DEF devEngineVars, DevEngineIInv, DevEngineTyping, SessionsFollowTheirQueue
  <2> QED
    BY <1>2, <2>1, <2>2
<1>3. DevEngineIInv => SessionsFollowTheirQueue
  BY DEF DevEngineIInv
<1> QED
  BY <1>1, <1>2, <1>3, PTL DEF DevEngineSpec
=============================================================================
