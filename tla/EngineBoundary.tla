--------------------------- MODULE EngineBoundary ---------------------------
(***************************************************************************)
(* What the operations engine and the development engine share             *)
(* (governance/engine_boundary_sim/main.go): one pool of GPUs and one code *)
(* model, whose returns part by the purpose of the call. The functions are *)
(* called in any order, where main calls them in one; nothing reads        *)
(* Provenance.                                                             *)
(***************************************************************************)
EXTENDS Integers, Sequences

CONSTANTS
  GpuTotal,  \* GpuPool.total
  Bursts,    \* what operations may take at once
  Needs,     \* what a development job may ask for
  MaxOps,    \* bound on opsUsage
  MaxJobs    \* bound on development jobs

ASSUME BoundaryAssumption ==
  /\ {GpuTotal, MaxOps, MaxJobs} \subseteq Nat
  /\ Bursts \subseteq Nat \* usage is only ever added
  /\ Needs \subseteq Nat

VARIABLES
  opsUsage,  \* GpuPool.opsUsage
  devJobs,   \* history: the answers RequestDev gave, and the usage at the time
  returns,   \* outputs of the code model
  applied,   \* outputs that applyOps applied at once
  piped,     \* outputs that routeDev handed to the pipeline
  written    \* outputs in whose context the infrastructure was written

boundaryVars == <<opsUsage, devJobs, returns, applied, piped, written>>

-----------------------------------------------------------------------------
(* The pool. *)

OpsBurst(amount) ==
  /\ opsUsage + amount <= MaxOps
  /\ opsUsage' = opsUsage + amount
  /\ UNCHANGED <<devJobs, returns, applied, piped, written>>

\* An answer of RequestDev, with the need and the usage that it answers to.
Answer(need, granted, preempted) ==
  [ops |-> opsUsage, need |-> need, granted |-> granted, preempted |-> preempted]

\* Mutation: what operations use is not subtracted.
GrantOfTotal(need) ==
  IF need > GpuTotal THEN Answer(need, GpuTotal, TRUE) ELSE Answer(need, need, FALSE)

\* What RequestDev answers. Usage may exceed the total, and idle be negative.
Grant(need) ==
  LET idle == GpuTotal - opsUsage
  IN  IF idle <= 0 THEN Answer(need, 0, TRUE)
      ELSE IF need > idle THEN Answer(need, idle, TRUE)
      ELSE Answer(need, need, FALSE)

\* The pool keeps no account of what it granted.
RequestDev(need) ==
  /\ Len(devJobs) < MaxJobs
  /\ devJobs' = Append(devJobs, Grant(need))
  /\ UNCHANGED <<opsUsage, returns, applied, piped, written>>

-----------------------------------------------------------------------------
(* The code model and the ways of its returns. *)

\* Mutation: every return has the context of operations.
InferAsOps(purpose) ==
  [kind |-> IF purpose = "ops" THEN "ops-result"
            ELSE IF purpose = "dev" THEN "code-diff" ELSE "",
   purpose |-> "ops"]

\* Infer: an Output is empty, its context too, for a purpose it does not know.
Infer(purpose) ==
  CASE purpose = "ops" -> [kind |-> "ops-result", purpose |-> "ops"]
    [] purpose = "dev" -> [kind |-> "code-diff", purpose |-> "dev"]
    [] OTHER           -> [kind |-> "", purpose |-> ""]

CallModel(purpose) ==
  /\ returns' = returns \cup {Infer(purpose)}
  /\ UNCHANGED <<opsUsage, devJobs, applied, piped, written>>

ApplyOps(o) ==
  /\ o.purpose = "ops"
  /\ applied' = applied \cup {o}
  /\ UNCHANGED <<opsUsage, devJobs, returns, piped, written>>

\* directWrite refuses the purpose dev, and no other.
DirectWrite(o) ==
  written' = IF o.purpose = "dev" THEN written ELSE written \cup {o}

WriteInfra(o) ==
  /\ DirectWrite(o)
  /\ UNCHANGED <<opsUsage, devJobs, returns, applied, piped>>

\* routeDev tries the rail itself and goes on when the write is refused.
RouteDev(o) ==
  /\ o.purpose = "dev"
  /\ DirectWrite(o)
  /\ piped' = piped \cup {o}
  /\ UNCHANGED <<opsUsage, devJobs, returns, applied>>

-----------------------------------------------------------------------------

BoundaryInit ==
  /\ opsUsage = 0
  /\ devJobs = <<>>
  /\ returns = {} /\ applied = {} /\ piped = {} /\ written = {}

\* A caller may take any return any way.
BoundaryNext ==
  \/ \E amount \in Bursts : OpsBurst(amount)
  \/ \E need \in Needs : RequestDev(need)
  \/ \E purpose \in {"ops", "dev", ""} : CallModel(purpose)
  \/ \E o \in returns : ApplyOps(o) \/ RouteDev(o) \/ WriteInfra(o)

BoundarySpec == BoundaryInit /\ [][BoundaryNext]_boundaryVars

-----------------------------------------------------------------------------
(* Properties. *)

\* A development job is granted idle GPUs only: together with what operations
\* used when it asked, its grant fits the pool, even when bursts have taken more
\* than there is. It is told when it gets less than it asks, and then gets all
\* that is idle. And usage only growing, no job is granted more than one that
\* asked for as much was before it.
JobsGetIdleOnly ==
  \A i \in DOMAIN devJobs :
    LET job == devJobs[i] IN
    /\ 0 <= job.granted /\ job.granted <= job.need
    /\ job.granted > 0 => job.ops + job.granted <= GpuTotal
    /\ job.granted < job.need => job.preempted /\ job.ops + job.granted >= GpuTotal
    /\ \A j \in 1 .. i - 1 :
         devJobs[j].need >= job.need => devJobs[j].granted >= job.granted

\* One model serves two engines, and its returns keep apart however callers
\* route them: no code diff is applied at once or written to infrastructure,
\* and nothing but code diffs goes down the pipeline.
ReturnsKeepApart ==
  /\ \A o \in applied : o.kind = "ops-result"
  /\ \A o \in piped   : o.kind = "code-diff"
  /\ \A o \in written : o.kind # "code-diff"
=============================================================================
