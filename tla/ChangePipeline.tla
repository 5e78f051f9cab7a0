--------------------------- MODULE ChangePipeline ---------------------------
(***************************************************************************)
(* Pipeline.Handle (governance/change_pipeline/main.go): the gates a       *)
(* ChangeRequest goes through until it is executed, rejected or left for   *)
(* the owner to approve.                                                   *)
(*                                                                         *)
(* One request is handled. A step is one gate, one candidate of the        *)
(* solver's loop or one step of the plan. The ports are either the mock    *)
(* adapters of the source, or any adapters at all: an authenticator and a  *)
(* policy that answer as they like, a generator of any candidates, an      *)
(* executor that may fail after any step. The origin that gate 2 attests   *)
(* is written to the audit log, and no later gate reads it.                *)
(***************************************************************************)
EXTENDS Solver

CONSTANTS
  ChangeRequests, \* the requests that may come
  Adapters,       \* "mock" or "any"
  Attestable,     \* origins that any other authenticator than the mock may attest
  CandidateLists  \* what any other generator than the mock may return

VARIABLES
  gate,    \* where Handle is
  req,     \* the request, with the origin it claims
  attested, \* the origin that Attest returned, "none" before gate 2
  dec,     \* the PolicyDecision, "none" before gate 3
  ran,     \* steps of the plan the executor has run
  audit,   \* audit.entries, the gate of each
  outcome  \* Result.Outcome, "none" before Handle returns

vars == <<solverVars, gate, req, attested, dec, ran, audit, outcome>>

Provenances == {"owner", "owner-client", "c-agent", "timeline", "auto-agent"}
ChangeKinds == {"code_change", "feature_toggle", "option_set", "resource_op",
                "self_improve"}
Purposes    == {"ops", "dev"}

\* The substrings that mockPolicy looks for in Summary; "" is none.
Summaries == {"", "cross-region-key", "disable-isolation"}

\* A ChangeRequest; infra says whether Target starts with "infra/". A string
\* field that was not filled in is "".
RequestType ==
  [id : {"", "id"}, origin : Provenances \cup {""}, purpose : Purposes \cup {""},
   kind : ChangeKinds \cup {""}, summary : Summaries, infra : BOOLEAN,
   reversible : BOOLEAN]

NoRequest ==
  [id |-> "", origin |-> "", purpose |-> "", kind |-> "", summary |-> "",
   infra |-> FALSE, reversible |-> FALSE]

ASSUME PipelineAssumption ==
  /\ Adapters \in {"mock", "any"}
  /\ Attestable \subseteq Provenances
  /\ CandidateLists \subseteq Seq(Candidates)
  /\ \A r \in ChangeRequests :
       r.reversible \in BOOLEAN /\ r.origin \in Provenances \cup {""}

-----------------------------------------------------------------------------
(* The mock adapters. *)

MockAttest(r) == {r.origin} \ {""}

MockEvaluate(r) ==
  IF \/ r.kind = "resource_op" /\ r.summary = "cross-region-key"
     \/ r.summary = "disable-isolation"
  THEN "hardrail" ELSE "allowed"

MockCandidate(r, cost, density, gpu, idle, sla, isolation, steps) ==
  [costDelta |-> cost, densityDelta |-> density, gpuUtilDelta |-> gpu,
   idleDelta |-> idle, slaHeadroom |-> sla, isolationOK |-> isolation,
   sovereigntyOK |-> TRUE, reversible |-> r.reversible, steps |-> steps]

\* mockCandidateGen.
MockGenerate(r) ==
  IF r.kind = "self_improve"
  THEN << MockCandidate(r, -3000, 90, 20, -30, 10, FALSE, 1),
          MockCandidate(r, -1800, 40, 15, -20, 30, TRUE, 4),
          MockCandidate(r, -500, 10, 5, 0, 50, TRUE, 2) >>
  ELSE << MockCandidate(r, -800, 10, 0, 0, 40, TRUE, 3) >>

-----------------------------------------------------------------------------
(* The ports. *)

\* What Attest may return for a request; it need not be what r claims.
Attest(r)        == IF Adapters = "any" THEN Attestable ELSE MockAttest(r)
AttestMayFail(r) == Adapters = "any" \/ MockAttest(r) = {}

Decisions(r) ==
  IF Adapters = "any" THEN {"allowed", "denied", "hardrail"} ELSE {MockEvaluate(r)}

Generated(r) ==
  {MockGenerate(r)} \cup (IF Adapters = "any" THEN CandidateLists ELSE {})

-----------------------------------------------------------------------------
(* The gates. *)

Log(g) == audit' = Append(audit, g)

Return(o) ==
  /\ gate' = "done"
  /\ outcome' = o

Continue(g) ==
  /\ gate' = g
  /\ UNCHANGED outcome

\* Gate 1.
Normalize(r) ==
  /\ gate = "normalize"
  /\ req' = r
  /\ Log("1-normalize")
  /\ IF r.id = "" \/ r.kind = "" THEN Return("REJECTED_AUTH")
                                 ELSE Continue("authn")
  /\ UNCHANGED <<solverVars, attested, dec, ran>>

\* Gate 2.
Authenticate ==
  /\ gate = "authn"
  /\ Log("2-authn")
  /\ \/ attested' \in Attest(req) /\ Continue("rail")
     \/ AttestMayFail(req) /\ Return("REJECTED_AUTH") /\ UNCHANGED attested
  /\ UNCHANGED <<solverVars, req, dec, ran>>

\* Mutation: only resource operations are looked at, not the target path.
DevInfraHardRailByKind(r) == r.purpose = "dev" /\ r.kind = "resource_op"

\* devInfraHardRail.
DevInfraHardRail(r) == r.purpose = "dev" /\ (r.kind = "resource_op" \/ r.infra)

\* Gate 3-0, the pipeline's own rail; it comes before any policy adapter.
StructuralRail ==
  /\ gate = "rail"
  /\ IF DevInfraHardRail(req)
     THEN Log("3-policy") /\ Return("REJECTED_HARDRAIL")
     ELSE Continue("policy") /\ UNCHANGED audit
  /\ UNCHANGED <<solverVars, req, attested, dec, ran>>

\* Mutation: a request that is denied, but not by a hard rail, goes on.
CheckPolicyHardRailOnly ==
  /\ gate = "policy"
  /\ dec' \in Decisions(req)
  /\ Log("3-policy")
  /\ IF dec' = "hardrail" THEN Return("REJECTED_HARDRAIL") ELSE Continue("generate")
  /\ UNCHANGED <<solverVars, req, attested, ran>>

\* Gate 3.
CheckPolicy ==
  /\ gate = "policy"
  /\ dec' \in Decisions(req)
  /\ Log("3-policy")
  /\ IF dec' = "allowed" THEN Continue("generate") ELSE Return("REJECTED_HARDRAIL")
  /\ UNCHANGED <<solverVars, req, attested, ran>>

\* Gate 4: the candidates, the loop over them, and its result.
Generate ==
  /\ gate = "generate"
  /\ \E cs \in Generated(req) : SolverStart(cs)
  /\ Continue("plan")
  /\ UNCHANGED <<req, attested, dec, ran, audit>>

Solve ==
  /\ gate = "plan"
  /\ SolverStep
  /\ UNCHANGED <<gate, req, attested, dec, ran, audit, outcome>>

PlanReady ==
  /\ gate = "plan"
  /\ SolverDone
  /\ Log("4-plan")
  /\ IF best = 0 THEN Return("FAILED_ROLLED_BACK") ELSE Continue("approve")
  /\ UNCHANGED <<solverVars, req, attested, dec, ran>>

\* Mutation: irreversible plans are forgotten.
NeedsOwnerUnlessHigh(r, risk) ==
  \/ risk = "high"
  \/ r.origin = "auto-agent" /\ r.kind = "code_change"

NeedsOwner(r, risk) ==
  \/ risk \in {"irreversible", "high"}
  \/ r.origin = "auto-agent" /\ r.kind = "code_change"

\* Gate 5. The origin it asks for is the one the request claims.
Approve ==
  /\ gate = "approve"
  /\ Log("5-approve")
  /\ IF NeedsOwner(req, RiskOf(cands[best])) THEN Return("AWAITING_OWNER")
                                             ELSE Continue("execute")
  /\ UNCHANGED <<solverVars, req, attested, dec, ran>>

\* A plan has a line on the choice before the steps of its candidate.
PlanSteps == 1 + cands[best].steps

\* Gate 6, one step of the plan; an executor logs each, as the mock one does.
ExecuteStep ==
  /\ gate = "execute"
  /\ ran < PlanSteps
  /\ ran' = ran + 1
  /\ Log("6-execute")
  /\ UNCHANGED <<solverVars, gate, req, attested, dec, outcome>>

\* Mutation: Execute returns after its first step.
ExecuteReturnsEarly ==
  /\ gate = "execute"
  /\ ran > 0
  /\ Log("6-execute")
  /\ Return("EXECUTED")
  /\ UNCHANGED <<solverVars, req, attested, dec, ran>>

ExecuteReturns ==
  /\ gate = "execute"
  /\ ran = PlanSteps
  /\ Log("6-execute")
  /\ Return("EXECUTED")
  /\ UNCHANGED <<solverVars, req, attested, dec, ran>>

\* Mutation: a Result without an outcome.
ExecuteFailsUnset ==
  /\ gate = "execute"
  /\ Adapters = "any"
  /\ Log("7-rollback")
  /\ Return("")
  /\ UNCHANGED <<solverVars, req, attested, dec, ran>>

\* Mutation: Handle tries the plan again, from its start.
ExecuteFailsRetried ==
  /\ gate = "execute"
  /\ Adapters = "any"
  /\ ran' = 0
  /\ Log("7-rollback")
  /\ UNCHANGED <<solverVars, gate, req, attested, dec, outcome>>

\* Gate 7: the executor returns an error. Handle itself undoes nothing.
ExecuteFails ==
  /\ gate = "execute"
  /\ Adapters = "any"
  /\ Log("7-rollback")
  /\ Return("FAILED_ROLLED_BACK")
  /\ UNCHANGED <<solverVars, req, attested, dec, ran>>

-----------------------------------------------------------------------------
(* The specification. *)

Init ==
  /\ cands = <<>>
  /\ seen = 0
  /\ best = 0
  /\ gate = "normalize"
  /\ req = NoRequest
  /\ attested = "none"
  /\ dec = "none"
  /\ ran = 0
  /\ audit = <<>>
  /\ outcome = "none"

\* Handle has returned.
Returned == gate = "done" /\ UNCHANGED vars

Next ==
  \/ \E r \in ChangeRequests : Normalize(r)
  \/ Authenticate \/ StructuralRail \/ CheckPolicy
  \/ Generate \/ Solve \/ PlanReady \/ Approve
  \/ ExecuteStep \/ ExecuteReturns \/ ExecuteFails
  \/ Returned

Spec == Init /\ [][Next]_vars

-----------------------------------------------------------------------------
(* Properties. *)

Gates == {"normalize", "authn", "rail", "policy", "generate", "plan", "approve",
          "execute", "done"}

AuditGates == {"1-normalize", "2-authn", "3-policy", "4-plan", "5-approve",
               "6-execute", "7-rollback"}

Outcomes == {"EXECUTED", "REJECTED_HARDRAIL", "AWAITING_OWNER",
             "FAILED_ROLLED_BACK", "REJECTED_AUTH"}

\* The variables hold what the program's fields and locals can hold.
PipelineTypeOK ==
  /\ cands \in Seq(Candidates)
  /\ seen \in 0 .. Len(cands)
  /\ best \in 0 .. seen
  /\ gate \in Gates
  /\ req \in ChangeRequests \cup {NoRequest}
  /\ attested \in Provenances \cup {"none"}
  /\ dec \in {"none", "allowed", "denied", "hardrail"}
  /\ ran \in Nat
  /\ audit \in Seq(AuditGates)
  /\ outcome \in Outcomes \cup {"none"}

\* With any adapters, no step of a plan runs unless every gate has let the
\* request pass, in their order: an origin was attested, policy allowed it, the
\* plan keeps the hard constraints, can be undone and changes the density
\* little, and it changes no code in a request that claims to come from an
\* outside agent. Of the origin that was attested this says nothing.
ExecutionIsGated ==
  ran > 0 =>
    /\ SubSeq(audit, 1, 5) =
         <<"1-normalize", "2-authn", "3-policy", "4-plan", "5-approve">>
    /\ attested \in Attest(req)
    /\ dec = "allowed"
    /\ IsOptimal(cands, best)
    /\ cands[best].reversible
    /\ ~ BigDensityChange(cands[best])
    /\ ~ (req.origin = "auto-agent" /\ req.kind = "code_change")

\* main.go: the rail between the development engine and the infrastructure
\* holds whichever adapters are plugged in. Such a request reaches no policy
\* adapter, no planner, no owner and no executor.
DevNeverTouchesInfra ==
  req.purpose = "dev" /\ (req.kind = "resource_op" \/ req.infra) =>
    /\ dec = "none"
    /\ cands = <<>>
    /\ ran = 0
    /\ outcome \in {"none", "REJECTED_AUTH", "REJECTED_HARDRAIL"}

\* main.go: what violates a hard rail, or is denied, does not even reach the
\* approval screen; nor is it planned.
DeniedDiesAtPolicy ==
  dec \in {"denied", "hardrail"} =>
    /\ gate = "done"
    /\ outcome = "REJECTED_HARDRAIL"
    /\ cands = <<>>
    /\ audit = <<"1-normalize", "2-authn", "3-policy">>

\* The outcomes that an audit ending at a gate may stand for.
Explains(g, o) ==
  \/ g \in {"1-normalize", "2-authn"} /\ o = "REJECTED_AUTH"
  \/ g = "3-policy" /\ o = "REJECTED_HARDRAIL"
  \/ g = "4-plan" /\ o = "FAILED_ROLLED_BACK"
  \/ g = "5-approve" /\ o = "AWAITING_OWNER"
  \/ g = "6-execute" /\ o = "EXECUTED"
  \/ g = "7-rollback" /\ o = "FAILED_ROLLED_BACK"

\* The audit alone tells afterwards what became of a request: its last entry
\* determines the outcome, "6-execute" entries count the steps that ran, and
\* an executed plan ran to its end. That each step is logged, and all are run, is
\* the executor's part: ExecuteStep does as mockExecutor.
OutcomeIsAudited ==
  outcome # "none" =>
    /\ audit # <<>>
    /\ Explains(audit[Len(audit)], outcome)
    /\ outcome = "EXECUTED" => ran = PlanSteps /\ Len(audit) = 5 + ran + 1
    /\ outcome \notin {"EXECUTED", "FAILED_ROLLED_BACK"} => ran = 0

-----------------------------------------------------------------------------
(* What the pipeline promises. *)

\* How far a change is for those who do not see the gates.
Stage ==
  CASE gate = "normalize" -> "new"
    [] gate = "approve"   -> "proposed"
    [] gate = "execute"   -> "granted"
    [] gate = "done"      -> "closed"
    [] OTHER              -> "open"

NoPlan == [steps |-> 0]

\* The plan is proposed when the loop over the candidates is through.
ProposedPlan ==
  IF gate \in {"approve", "execute", "done"} /\ best # 0 THEN cands[best] ELSE NoPlan

Governed == INSTANCE GovernedChange WITH
  Changes    <- ChangeRequests,
  NoChange   <- NoRequest,
  NoPlan     <- NoPlan,
  Permitted  <- {r \in ChangeRequests : ~ DevInfraHardRail(r)},
  Feasible   <- {c \in Candidates : HardConstraints(c)},
  \* by the origin that the change claims, as gate 5 has it
  Autonomous <- {x \in ChangeRequests \X Candidates : ~ NeedsOwner(x[1], RiskOf(x[2]))},
  Length     <- [c \in Candidates |-> 1 + c.steps],
  stage      <- Stage,
  change     <- req,
  plan       <- ProposedPlan,
  effects    <- ran,
  verdict    <- outcome

\* Whatever the adapters answer, the gates keep the promise of GovernedChange:
\* the plan that was approved is the one that runs, once and in order; nothing
\* runs before the grant or after the verdict; the owner is asked exactly for
\* what needs the owner.
HandledAsGoverned == Governed!Spec

-----------------------------------------------------------------------------
(* What the documentation says and the code does not keep. *)

\* main.go says that Attest confirms the origin, so that none can be forged. What
\* was attested as an outside agent's must then not change code without the
\* owner, whatever origin it claims.
AttestedOriginDecides ==
  ran > 0 => ~ (attested = "auto-agent" /\ req.kind = "code_change")
=============================================================================
