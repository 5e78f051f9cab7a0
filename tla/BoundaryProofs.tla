--------------------------- MODULE BoundaryProofs ---------------------------
(***************************************************************************)
(* Proofs about EngineBoundary, for every pool, burst and need. What a job *)
(* was granted is at least what it would be granted now: that is what      *)
(* orders the grants, and what the inductive invariant keeps.              *)
(***************************************************************************)
EXTENDS EngineBoundary, SequenceTheorems, TLAPS

Jobs == [ops : Nat, need : Needs, granted : Int, preempted : BOOLEAN]

Purposes == {"ops", "dev", ""}

\* The number that Grant answers when operations use u.
Granted(u, n) ==
  LET idle == GpuTotal - u
  IN  IF idle <= 0 THEN 0 ELSE IF n > idle THEN idle ELSE n

BoundaryIInv ==
  /\ opsUsage \in Nat
  /\ devJobs \in Seq(Jobs)
  /\ returns \subseteq {Infer(p) : p \in Purposes}
  /\ applied \subseteq returns /\ piped \subseteq returns /\ written \subseteq returns
  /\ \A o \in applied : o.purpose = "ops"
  /\ \A o \in piped : o.purpose = "dev"
  /\ \A o \in written : o.purpose # "dev"
  /\ \A i \in DOMAIN devJobs :
       devJobs[i].granted >= Granted(opsUsage, devJobs[i].need)
  /\ JobsGetIdleOnly

\* An answer that fits the need, and the pool beside the operations.
WithinIdle(job) ==
  /\ 0 <= job.granted /\ job.granted <= job.need
  /\ job.granted > 0 => job.ops + job.granted <= GpuTotal
  /\ job.granted < job.need => job.preempted /\ job.ops + job.granted >= GpuTotal

\* What the pool answers fits.
LEMMA GrantWithinIdle ==
  ASSUME opsUsage \in Nat, NEW n \in Needs
  PROVE  /\ Grant(n) \in Jobs /\ Grant(n).need = n
         /\ Grant(n).granted = Granted(opsUsage, n)
         /\ WithinIdle(Grant(n))
BY BoundaryAssumption DEF Grant, Answer, Granted, Jobs, WithinIdle

\* A greater need is granted no less, a greater usage leaves no more.
LEMMA GrantedMonotone ==
  ASSUME NEW u \in Nat, NEW v \in Nat, u <= v,
         NEW m \in Needs, NEW n \in Needs, m <= n
  PROVE  Granted(v, m) <= Granted(u, n) /\ Granted(v, m) \in Int /\ Granted(u, n) \in Int
BY BoundaryAssumption DEF Granted

LEMMA JobFields ==
  ASSUME devJobs \in Seq(Jobs), NEW i \in DOMAIN devJobs
  PROVE  devJobs[i].need \in Needs /\ devJobs[i].granted \in Int
<1>1. devJobs[i] \in Jobs
  OBVIOUS
<1> QED
  BY <1>1 DEF Jobs

LEMMA BurstPreserves ==
  ASSUME BoundaryIInv, NEW a \in Bursts, OpsBurst(a)
  PROVE  BoundaryIInv'
<1> USE DEF BoundaryIInv
<1>1. /\ opsUsage' \in Nat /\ opsUsage <= opsUsage'
      /\ UNCHANGED <<devJobs, returns, applied, piped, written>>
  BY BoundaryAssumption DEF OpsBurst
<1>2. \A i \in DOMAIN devJobs :
        devJobs[i].granted >= Granted(opsUsage', devJobs[i].need)
  <2> SUFFICES ASSUME NEW i \in DOMAIN devJobs
               PROVE  devJobs[i].granted >= Granted(opsUsage', devJobs[i].need)
    OBVIOUS
  <2>1. devJobs[i].need \in Needs /\ devJobs[i].granted \in Int
    BY JobFields
  <2>2. PICK u \in Nat, v \in Nat, m \in Needs :
          u = opsUsage /\ v = opsUsage' /\ m = devJobs[i].need
    BY <1>1, <2>1
  <2>3. u <= v /\ m <= m
    BY <1>1, <2>2, BoundaryAssumption
  <2>4. Granted(v, m) <= Granted(u, m) /\ Granted(v, m) \in Int /\ Granted(u, m) \in Int
    BY <2>3, GrantedMonotone
  <2> QED
    BY <2>1, <2>2, <2>4
<1> QED
  BY <1>1, <1>2 DEF JobsGetIdleOnly, Granted

LEMMA RequestPreserves ==
  ASSUME BoundaryIInv, NEW n \in Needs, RequestDev(n)
  PROVE  BoundaryIInv'
<1> USE DEF BoundaryIInv
<1>1. PICK job \in Jobs : job = Grant(n)
  BY GrantWithinIdle
<1>2. job.need = n /\ job.granted = Granted(opsUsage, n) /\ WithinIdle(job)
  BY <1>1, GrantWithinIdle
<1> DEFINE last == Len(devJobs) + 1
<1>3. /\ devJobs' = Append(devJobs, job)
      /\ UNCHANGED <<opsUsage, returns, applied, piped, written>>
  BY <1>1 DEF RequestDev
<1>4. /\ devJobs' \in Seq(Jobs) /\ DOMAIN devJobs' = 1 .. last
      /\ devJobs'[last] = job /\ DOMAIN devJobs = 1 .. last - 1
      /\ last \in Nat \ {0}
      /\ \A i \in DOMAIN devJobs : devJobs'[i] = devJobs[i]
  BY <1>3
<1>5. \A i \in DOMAIN devJobs : devJobs[i].need >= n => devJobs[i].granted >= job.granted
  <2> SUFFICES ASSUME NEW i \in DOMAIN devJobs, devJobs[i].need >= n
               PROVE  devJobs[i].granted >= job.granted
    OBVIOUS
  <2>1. devJobs[i].need \in Needs /\ devJobs[i].granted \in Int
    BY JobFields
  <2>2. /\ Granted(opsUsage, n) <= Granted(opsUsage, devJobs[i].need)
        /\ Granted(opsUsage, n) \in Int /\ Granted(opsUsage, devJobs[i].need) \in Int
    BY <2>1, GrantedMonotone, BoundaryAssumption
  <2> QED
    BY <1>2, <2>1, <2>2
<1>6. JobsGetIdleOnly'
  <2> SUFFICES ASSUME NEW i \in DOMAIN devJobs'
               PROVE  /\ WithinIdle(devJobs'[i])
                      /\ \A j \in 1 .. i - 1 :
                           devJobs'[j].need >= devJobs'[i].need =>
                             devJobs'[j].granted >= devJobs'[i].granted
    BY DEF JobsGetIdleOnly, WithinIdle
  <2> HIDE DEF last
  <2>1. \A j \in 1 .. i - 1 : j \in DOMAIN devJobs
    BY <1>4
  <2>2. CASE i \in DOMAIN devJobs
    BY <1>4, <2>1, <2>2 DEF JobsGetIdleOnly, WithinIdle
  <2>3. CASE i = last
    BY <1>2, <1>4, <1>5, <2>1, <2>3
  <2> QED
    BY <1>4, <2>2, <2>3
<1>7. \A i \in DOMAIN devJobs' : devJobs'[i].granted >= Granted(opsUsage, devJobs'[i].need)
  <2>1. Granted(opsUsage, n) \in Int
    BY GrantedMonotone, BoundaryAssumption
  <2> QED
    BY <1>2, <1>4, <2>1
<1> QED
  BY <1>3, <1>4, <1>6, <1>7

LEMMA BoundaryPreserved ==
  ASSUME BoundaryIInv, [BoundaryNext]_boundaryVars
  PROVE  BoundaryIInv'
<1> USE DEF BoundaryIInv
<1>1. ASSUME NEW p \in Purposes, CallModel(p)
      PROVE  BoundaryIInv'
  <2>1. returns' \subseteq {Infer(q) : q \in Purposes} /\ returns \subseteq returns'
    BY <1>1 DEF CallModel
  <2> QED
    BY <1>1, <2>1 DEF CallModel, JobsGetIdleOnly
<1>2. ASSUME NEW o \in returns, ApplyOps(o) \/ RouteDev(o) \/ WriteInfra(o)
      PROVE  BoundaryIInv'
  BY <1>2 DEF ApplyOps, RouteDev, WriteInfra, DirectWrite, JobsGetIdleOnly
<1>3. CASE UNCHANGED boundaryVars
  BY <1>3 DEF boundaryVars, JobsGetIdleOnly
<1> QED
  BY <1>1, <1>2, <1>3, BurstPreserves, RequestPreserves DEF BoundaryNext, Purposes

\* Every state the pool and the model reach satisfies the inductive invariant.
THEOREM BoundaryInvariant == BoundarySpec => []BoundaryIInv
<1>1. BoundaryInit => BoundaryIInv
  BY DEF BoundaryInit, BoundaryIInv, JobsGetIdleOnly
<1>2. BoundaryIInv /\ [BoundaryNext]_boundaryVars => BoundaryIInv'
  BY BoundaryPreserved
<1> QED
  BY <1>1, <1>2, PTL DEF BoundarySpec

\* Whatever bursts and jobs come, what a job is granted was idle when it asked,
\* and is no more than a larger one was granted before it.
THEOREM JobsTakeWhatIsIdle == BoundarySpec => []JobsGetIdleOnly
<1>1. BoundaryIInv => JobsGetIdleOnly
  BY DEF BoundaryIInv
<1> QED
  BY <1>1, BoundaryInvariant, PTL

\* However its callers route them, code diffs reach the pipeline only.
THEOREM DiffsStayInPipeline == BoundarySpec => []ReturnsKeepApart
<1>1. ASSUME BoundaryIInv
      PROVE  ReturnsKeepApart
  <2>1. \A o \in returns : /\ o.purpose = "ops" => o.kind = "ops-result"
                           /\ o.purpose = "dev" => o.kind = "code-diff"
                           /\ o.kind = "code-diff" => o.purpose = "dev"
    <3> SUFFICES ASSUME NEW p \in Purposes
                 PROVE  /\ Infer(p).purpose = "ops" => Infer(p).kind = "ops-result"
                        /\ Infer(p).purpose = "dev" => Infer(p).kind = "code-diff"
                        /\ Infer(p).kind = "code-diff" => Infer(p).purpose = "dev"
      BY <1>1 DEF BoundaryIInv
    <3>1. CASE p = "ops"
      BY <3>1 DEF Infer
    <3>2. CASE p = "dev"
      BY <3>2 DEF Infer
    <3>3. CASE p = ""
      BY <3>3 DEF Infer
    <3> QED
      BY <3>1, <3>2, <3>3 DEF Purposes
  <2> QED
    BY <1>1, <2>1 DEF BoundaryIInv, ReturnsKeepApart
<1> QED
  BY <1>1, BoundaryInvariant, PTL
=============================================================================
