------------------------ MODULE ChangePipelineProofs ------------------------
(***************************************************************************)
(* Proofs about the change pipeline, for every set of requests, every list *)
(* of candidates and every behaviour of the adapters. The inductive        *)
(* invariant adds to the properties what the solver's loop knows of the    *)
(* candidates it has seen (Choice), what the audit holds at each gate      *)
(* (Trail) and what each gate may rely on (Passed).                        *)
(***************************************************************************)
EXTENDS ChangePipeline, SequenceTheorems, TLAPS

\* The choice is the optimum of the candidates the loop has been through.
Choice ==
  /\ best = 0 => \A j \in 1 .. seen : ~ HardConstraints(cands[j])
  /\ best # 0 =>
       /\ HardConstraints(cands[best])
       /\ \A j \in 1 .. seen : HardConstraints(cands[j]) =>
            /\ Score(cands[j]) <= Score(cands[best])
            /\ j < best => Score(cands[j]) < Score(cands[best])

FullTrail == <<"1-normalize", "2-authn", "3-policy", "4-plan", "5-approve">>

\* The audit a holds the entries of the first n gates, and perhaps more.
StartsTo(a, n) == Len(a) >= n /\ \A j \in 1 .. n : a[j] = FullTrail[j]

\* It holds these entries and no more.
HoldsTo(n) == StartsTo(audit, n) /\ Len(audit) = n

Trail ==
  /\ gate = "normalize" => HoldsTo(0)
  /\ gate = "authn" => HoldsTo(1)
  /\ gate \in {"rail", "policy"} => HoldsTo(2)
  /\ gate \in {"generate", "plan"} => HoldsTo(3)
  /\ gate = "approve" => HoldsTo(4)
  /\ gate = "execute" => Len(audit) = 5 + ran
  /\ gate = "execute" \/ ran > 0 => StartsTo(audit, 5)
  /\ gate \notin {"execute", "done"} => ran = 0
  /\ outcome = "none" <=> gate # "done"

MayExecute ==
  /\ dec = "allowed"
  /\ SolverDone
  /\ best # 0
  /\ ~ NeedsOwner(req, RiskOf(cands[best]))

Passed ==
  /\ gate \in {"normalize", "authn", "rail", "policy"} => dec = "none"
  /\ gate \in {"normalize", "authn", "rail", "policy", "generate"} => cands = <<>>
  /\ gate \in {"policy", "generate", "plan", "approve", "execute"} =>
       ~ DevInfraHardRail(req)
  /\ gate \in {"generate", "plan", "approve", "execute"} => dec = "allowed"
  /\ gate = "approve" => SolverDone /\ best # 0
  /\ gate = "execute" \/ ran > 0 => MayExecute
  /\ gate \notin {"normalize", "authn", "done"} \/ ran > 0 => attested \in Attest(req)
  /\ gate = "normalize" => req = NoRequest
  /\ gate # "normalize" => req \in ChangeRequests

IInv ==
  /\ PipelineTypeOK
  /\ Choice
  /\ Trail
  /\ Passed
  /\ DevNeverTouchesInfra
  /\ DeniedDiesAtPolicy
  /\ OutcomeIsAudited

-----------------------------------------------------------------------------
(* The types. *)

\* The mock generator returns candidates.
LEMMA MockGenerateType ==
  ASSUME NEW r, r.reversible \in BOOLEAN
  PROVE  MockGenerate(r) \in Seq(Candidates)
<1> DEFINE a == MockCandidate(r, -3000, 90, 20, -30, 10, FALSE, 1)
           b == MockCandidate(r, -1800, 40, 15, -20, 30, TRUE, 4)
           c == MockCandidate(r, -500, 10, 5, 0, 50, TRUE, 2)
           d == MockCandidate(r, -800, 10, 0, 0, 40, TRUE, 3)
<1>1. a \in Candidates /\ b \in Candidates /\ c \in Candidates /\ d \in Candidates
  BY DEF MockCandidate, Candidates
<1>2. MockGenerate(r) = IF r.kind = "self_improve" THEN <<a, b, c>> ELSE <<d>>
  BY Zenon DEF MockGenerate
<1> HIDE DEF a, b, c, d
<1>3. <<a, b, c>> \in Seq(Candidates) /\ <<d>> \in Seq(Candidates)
  BY <1>1
<1> QED
  BY <1>2, <1>3, Zenon

\* An entry of the audit.
LEMMA LogAppends ==
  ASSUME audit \in Seq(AuditGates), NEW g \in AuditGates, Log(g)
  PROVE  /\ audit' \in Seq(AuditGates)
         /\ Len(audit') = Len(audit) + 1
         /\ audit'[Len(audit')] = g
         /\ \A j \in 1 .. Len(audit) : audit'[j] = audit[j]
BY DEF Log

LEMMA TypesKept ==
  ASSUME IInv, Next
  PROVE  PipelineTypeOK'
<1>a. PipelineTypeOK
  BY DEF IInv
<1>b. \A g \in AuditGates : Log(g) => audit' \in Seq(AuditGates)
  BY <1>a, LogAppends DEF PipelineTypeOK
<1>c. /\ "1-normalize" \in AuditGates /\ "2-authn" \in AuditGates
      /\ "3-policy" \in AuditGates /\ "4-plan" \in AuditGates
      /\ "5-approve" \in AuditGates /\ "6-execute" \in AuditGates
      /\ "7-rollback" \in AuditGates
  BY DEF AuditGates
<1> USE <1>a, <1>b, <1>c DEF PipelineTypeOK, Gates, Outcomes, Return, Continue,
                             solverVars
<1>1. ASSUME NEW r \in ChangeRequests, Normalize(r)
      PROVE  PipelineTypeOK'
  BY <1>1 DEF Normalize
<1>2. CASE Authenticate
  <2>1. req \in ChangeRequests
    BY <1>2 DEF Authenticate, IInv, Passed
  <2>2. Attest(req) \subseteq Provenances
    BY <2>1, PipelineAssumption DEF Attest, MockAttest
  <2> QED
    BY <1>2, <2>2 DEF Authenticate
<1>3. CASE StructuralRail
  BY <1>3 DEF StructuralRail
<1>4. CASE CheckPolicy
  <2>1. dec' \in {"allowed", "denied", "hardrail"}
    BY <1>4 DEF CheckPolicy, Decisions, MockEvaluate
  <2> QED
    BY <1>4, <2>1 DEF CheckPolicy
<1>5. CASE Generate
  <2>1. req.reversible \in BOOLEAN
    <3>1. NoRequest.reversible \in BOOLEAN
      BY DEF NoRequest
    <3>2. CASE req \in ChangeRequests
      BY <3>2, PipelineAssumption
    <3>3. CASE req = NoRequest
      BY <3>1, <3>3
    <3> QED
      BY <3>2, <3>3
  <2>2. CandidateLists \subseteq Seq(Candidates)
    BY PipelineAssumption
  <2>3. Generated(req) \subseteq Seq(Candidates)
    BY <2>1, <2>2, MockGenerateType DEF Generated
  <2> QED
    BY <1>5, <2>3 DEF Generate, SolverStart
<1>6. CASE Solve
  BY <1>6 DEF Solve, SolverStep
<1>7. CASE PlanReady
  BY <1>7 DEF PlanReady
<1>8. CASE Approve
  BY <1>8 DEF Approve
<1>9. CASE ExecuteStep
  BY <1>9 DEF ExecuteStep
<1>10. CASE ExecuteReturns
  BY <1>10 DEF ExecuteReturns
<1>11. CASE ExecuteFails
  BY <1>11 DEF ExecuteFails
<1>12. CASE Returned
  BY <1>12 DEF Returned, vars
<1> QED
  BY <1>1, <1>2, <1>3, <1>4, <1>5, <1>6, <1>7, <1>8, <1>9, <1>10, <1>11, <1>12
  DEF Next

-----------------------------------------------------------------------------
(* The solver's loop. *)

LEMMA ScoreType ==
  ASSUME NEW c \in Candidates
  PROVE  Score(c) \in Int
BY DEF Score, Candidates

\* One more candidate keeps the choice optimal.
LEMMA SolverStepKeepsChoice ==
  ASSUME PipelineTypeOK, Choice, SolverStep
  PROVE  Choice'
<1> DEFINE n == seen + 1
<1>1. /\ cands' = cands
      /\ seen' = n
      /\ n \in DOMAIN cands
      /\ best \in 0 .. seen
      /\ seen \in Nat
  BY DEF SolverStep, PipelineTypeOK
<1>2. \A j \in 1 .. n : cands[j] \in Candidates /\ Score(cands[j]) \in Int
  BY <1>1, ScoreType DEF PipelineTypeOK
<1>3. \A j \in 1 .. n : j \in 1 .. seen \/ j = n
  BY <1>1
<1>4. CASE HardConstraints(cands[n]) /\ Better(cands[n])
  <2>1. best' = n
    BY <1>4 DEF SolverStep
  <2>2. ASSUME NEW j \in 1 .. seen, HardConstraints(cands[j])
        PROVE  Score(cands[j]) < Score(cands[n])
    <3>1. best # 0 /\ Score(cands[j]) <= Score(cands[best])
      BY <2>2 DEF Choice
    <3>2. Score(cands[n]) > Score(cands[best])
      BY <3>1, <1>4 DEF Better
    <3>3. j \in 1 .. n /\ best \in 1 .. n /\ n \in 1 .. n
      BY <1>1, <3>1
    <3> QED
      BY <3>1, <3>2, <3>3, <1>2
  <2>3. Score(cands[n]) \in Int /\ n # 0
    BY <1>1, <1>2
  <2>4. ASSUME NEW j \in 1 .. n, HardConstraints(cands[j])
        PROVE  /\ Score(cands[j]) <= Score(cands[n])
               /\ j < n => Score(cands[j]) < Score(cands[n])
    <3>1. CASE j = n
      BY <3>1, <2>3, <1>1
    <3>2. CASE j \in 1 .. seen
      BY <3>2, <2>2, <2>3, <2>4, <1>2
    <3> QED
      BY <3>1, <3>2, <1>3
  <2> QED
    BY <2>1, <2>3, <2>4, <1>1, <1>4 DEF Choice, HardConstraints, Score
<1>5. CASE ~ (HardConstraints(cands[n]) /\ Better(cands[n]))
  <2>1. best' = best
    BY <1>5 DEF SolverStep
  <2>2. CASE best = 0
    <3>1. ~ HardConstraints(cands[n])
      BY <1>5, <2>2 DEF Better
    <3>2. \A j \in 1 .. n : ~ HardConstraints(cands[j])
      BY <3>1, <2>2, <1>3 DEF Choice
    <3> QED
      BY <3>2, <2>1, <2>2, <1>1 DEF Choice, HardConstraints, Score
  <2>3. CASE best # 0
    <3>1. best \in 1 .. n /\ best < n
      BY <2>3, <1>1
    <3>2. HardConstraints(cands[n]) => Score(cands[n]) <= Score(cands[best])
      <4>1. n \in 1 .. n
        BY <1>1
      <4>2. Score(cands[n]) \in Int /\ Score(cands[best]) \in Int
        BY <4>1, <3>1, <1>2
      <4> HIDE DEF n
      <4> QED
        BY <1>5, <4>2 DEF Better
    <3>3. ASSUME NEW j \in 1 .. n, HardConstraints(cands[j])
          PROVE  /\ Score(cands[j]) <= Score(cands[best])
                 /\ j < best => Score(cands[j]) < Score(cands[best])
      <4>1. CASE j = n
        BY <4>1, <3>1, <3>2, <3>3, <1>1
      <4>2. CASE j \in 1 .. seen
        BY <4>2, <3>3, <2>3 DEF Choice
      <4> QED
        BY <4>1, <4>2, <1>3
    <3>4. HardConstraints(cands[best])
      BY <2>3 DEF Choice
    <3> QED
      BY <3>3, <3>4, <2>1, <2>3, <1>1 DEF Choice, HardConstraints, Score
  <2> QED
    BY <2>2, <2>3
<1> QED
  BY <1>4, <1>5

\* The choice of a finished loop is optimal.
LEMMA ChoiceIsOptimal ==
  ASSUME PipelineTypeOK, Choice
  PROVE  PlanIsOptimal
BY DEF PipelineTypeOK, Choice, PlanIsOptimal, IsOptimal, SolverDone

LEMMA ChoiceKept ==
  ASSUME IInv, Next
  PROVE  Choice'
<1>1. CASE Generate
  BY <1>1 DEF Generate, SolverStart, Choice
<1>2. CASE Solve
  BY <1>2, SolverStepKeepsChoice DEF Solve, IInv
<1>3. CASE UNCHANGED solverVars
  BY <1>3 DEF IInv, solverVars, Choice, HardConstraints, Score
<1> QED
  BY <1>1, <1>2, <1>3
  DEF Next, Normalize, Authenticate, StructuralRail, CheckPolicy, PlanReady,
      Approve, ExecuteStep, ExecuteReturns, ExecuteFails, Returned, vars

-----------------------------------------------------------------------------
(* The gates. *)

\* The next gate's entry extends the trail.
LEMMA LogExtends ==
  ASSUME audit \in Seq(AuditGates), NEW n \in 0 .. 4, HoldsTo(n),
         Log(FullTrail[n + 1])
  PROVE  HoldsTo(n + 1)'
<1>1. FullTrail[n + 1] \in AuditGates
  <2>1. n + 1 \in 1 .. 5
    OBVIOUS
  <2>2. \A j \in 1 .. 5 : FullTrail[j] \in AuditGates
    BY DEF FullTrail, AuditGates
  <2> QED
    BY <2>1, <2>2
<1>2. /\ Len(audit') = n + 1
      /\ audit'[n + 1] = FullTrail[n + 1]
      /\ \A j \in 1 .. n : audit'[j] = FullTrail[j]
  BY <1>1, LogAppends DEF HoldsTo, StartsTo
<1>3. \A j \in 1 .. n + 1 : j \in 1 .. n \/ j = n + 1
  OBVIOUS
<1> QED
  BY <1>2, <1>3 DEF HoldsTo, StartsTo

\* An audit that starts with all gates keeps doing so.
LEMMA LogKeepsStart ==
  ASSUME audit \in Seq(AuditGates), NEW g \in AuditGates, Log(g),
         StartsTo(audit, 5)
  PROVE  StartsTo(audit', 5)
BY LogAppends DEF StartsTo

LEMMA TrailKept ==
  ASSUME IInv, Next
  PROVE  Trail'
<1>a. PipelineTypeOK /\ Trail
  BY DEF IInv
<1>b. ran \in Nat /\ audit \in Seq(AuditGates)
  BY <1>a DEF PipelineTypeOK
<1>c. /\ FullTrail[0 + 1] = "1-normalize"
      /\ FullTrail[1 + 1] = "2-authn"
      /\ FullTrail[2 + 1] = "3-policy"
      /\ FullTrail[3 + 1] = "4-plan"
      /\ FullTrail[4 + 1] = "5-approve"
  BY DEF FullTrail
<1> USE DEF Trail, Return, Continue, Outcomes
<1>1. ASSUME NEW r \in ChangeRequests, Normalize(r)
      PROVE  Trail'
  <2>1. gate = "normalize" /\ Log("1-normalize") /\ ran' = ran /\ ran = 0
    BY <1>1, <1>a DEF Normalize
  <2>2. \/ gate' = "done" /\ outcome' = "REJECTED_AUTH"
        \/ gate' = "authn" /\ outcome' = outcome
    BY <1>1 DEF Normalize
  <2>3. HoldsTo(0) /\ Log(FullTrail[0 + 1])
    BY <2>1, <1>a, <1>c
  <2>4. HoldsTo(0 + 1)'
    BY <2>3, <1>b, LogExtends
  <2>5. HoldsTo(1)'
    BY <2>4
  <2> QED
    BY <2>1, <2>2, <2>5, <1>a
<1>2. CASE Authenticate
  <2>1. HoldsTo(1 + 1)'
    BY <1>2, <1>a, <1>b, <1>c, LogExtends DEF Authenticate
  <2> QED
    BY <1>2, <1>a, <2>1 DEF Authenticate
<1>3. CASE StructuralRail
  <2>1. CASE UNCHANGED audit
    BY <1>3, <1>a, <2>1 DEF StructuralRail, HoldsTo
  <2>2. CASE Return("REJECTED_HARDRAIL")
    BY <1>3, <1>a, <2>2 DEF StructuralRail
  <2> QED
    BY <1>3, <2>1, <2>2 DEF StructuralRail
<1>4. CASE CheckPolicy
  <2>1. HoldsTo(2 + 1)'
    BY <1>4, <1>a, <1>b, <1>c, LogExtends DEF CheckPolicy
  <2> QED
    BY <1>4, <1>a, <2>1 DEF CheckPolicy
<1>5. CASE Generate
  BY <1>5, <1>a DEF Generate, HoldsTo
<1>6. CASE Solve
  BY <1>6, <1>a DEF Solve, HoldsTo
<1>7. CASE PlanReady
  <2>1. HoldsTo(3 + 1)'
    BY <1>7, <1>a, <1>b, <1>c, LogExtends DEF PlanReady
  <2> QED
    BY <1>7, <1>a, <2>1 DEF PlanReady
<1>8. CASE Approve
  <2>1. HoldsTo(4 + 1)'
    BY <1>8, <1>a, <1>b, <1>c, LogExtends DEF Approve
  <2>2. Len(audit') = 5 /\ StartsTo(audit', 5)
    BY <2>1 DEF HoldsTo
  <2> QED
    BY <2>2, <1>8, <1>a DEF Approve
<1>9. CASE ExecuteStep
  <2>1. Len(audit) = 5 + ran /\ StartsTo(audit, 5) /\ "6-execute" \in AuditGates
    BY <1>9, <1>a DEF ExecuteStep, AuditGates
  <2>2. StartsTo(audit', 5) /\ Len(audit') = Len(audit) + 1
    BY <2>1, <1>9, <1>b, LogKeepsStart, LogAppends DEF ExecuteStep
  <2> QED
    BY <2>1, <2>2, <1>9, <1>a, <1>b DEF ExecuteStep
<1>10. CASE ExecuteReturns
  <2>1. StartsTo(audit, 5) /\ "6-execute" \in AuditGates
    BY <1>10, <1>a DEF ExecuteReturns, AuditGates
  <2>2. StartsTo(audit', 5)
    BY <2>1, <1>10, <1>b, LogKeepsStart DEF ExecuteReturns
  <2> QED
    BY <2>2, <1>10, <1>a DEF ExecuteReturns
<1>11. CASE ExecuteFails
  <2>1. StartsTo(audit, 5) /\ "7-rollback" \in AuditGates
    BY <1>11, <1>a DEF ExecuteFails, AuditGates
  <2>2. StartsTo(audit', 5)
    BY <2>1, <1>11, <1>b, LogKeepsStart DEF ExecuteFails
  <2> QED
    BY <2>2, <1>11, <1>a DEF ExecuteFails
<1>12. CASE Returned
  BY <1>12, <1>a DEF Returned, vars, HoldsTo
<1> QED
  BY <1>1, <1>2, <1>3, <1>4, <1>5, <1>6, <1>7, <1>8, <1>9, <1>10, <1>11, <1>12
  DEF Next

\* What a gate may rely on was decided by the gates before it.
LEMMA PassedKept ==
  ASSUME IInv, Next
  PROVE  Passed'
<1>a. Passed /\ (gate \notin {"execute", "done"} => ran = 0)
  BY DEF IInv, Trail
<1> USE DEF Passed, Attest, MayExecute, SolverDone, DevInfraHardRail, NeedsOwner, RiskOf,
            BigDensityChange, Return, Continue, solverVars
<1>1. ASSUME NEW r \in ChangeRequests, Normalize(r)
      PROVE  Passed'
  BY <1>1, <1>a DEF Normalize
<1>2. CASE Authenticate
  BY <1>2, <1>a DEF Authenticate
<1>3. CASE StructuralRail
  BY <1>3, <1>a DEF StructuralRail
<1>4. CASE CheckPolicy
  BY <1>4, <1>a DEF CheckPolicy
<1>5. CASE Generate
  BY <1>5, <1>a DEF Generate
<1>6. CASE Solve
  BY <1>6, <1>a DEF Solve
<1>7. CASE PlanReady
  BY <1>7, <1>a DEF PlanReady
<1>8. CASE Approve
  BY <1>8, <1>a DEF Approve
<1>9. CASE ExecuteStep
  BY <1>9, <1>a DEF ExecuteStep
<1>10. CASE ExecuteReturns
  BY <1>10, <1>a DEF ExecuteReturns
<1>11. CASE ExecuteFails
  BY <1>11, <1>a DEF ExecuteFails
<1>12. CASE Returned
  BY <1>12, <1>a DEF Returned, vars
<1> QED
  BY <1>1, <1>2, <1>3, <1>4, <1>5, <1>6, <1>7, <1>8, <1>9, <1>10, <1>11, <1>12
  DEF Next

\* A request of the development engine on the infrastructure ends at the rail.
LEMMA RailKept ==
  ASSUME IInv, Next
  PROVE  DevNeverTouchesInfra'
<1>a. /\ DevNeverTouchesInfra
      /\ Passed
      /\ gate \notin {"execute", "done"} => ran = 0
      /\ outcome = "none" <=> gate # "done"
  BY DEF IInv, Trail
<1> USE DEF DevNeverTouchesInfra, DevInfraHardRail, Passed, Return, Continue,
            solverVars
<1>1. ASSUME NEW r \in ChangeRequests, Normalize(r)
      PROVE  DevNeverTouchesInfra'
  BY <1>1, <1>a DEF Normalize
<1>2. CASE Authenticate
  BY <1>2, <1>a DEF Authenticate
<1>3. CASE StructuralRail
  BY <1>3, <1>a DEF StructuralRail
<1>4. CASE CheckPolicy \/ Generate \/ Solve \/ PlanReady \/ Approve
  BY <1>4, <1>a DEF CheckPolicy, Generate, Solve, SolverStep, PlanReady, Approve
<1>5. CASE ExecuteStep \/ ExecuteReturns \/ ExecuteFails
  BY <1>5, <1>a DEF ExecuteStep, ExecuteReturns, ExecuteFails
<1>6. CASE Returned
  BY <1>6, <1>a DEF Returned, vars
<1> QED
  BY <1>1, <1>2, <1>3, <1>4, <1>5, <1>6 DEF Next

\* A denied request ends at the policy gate.
LEMMA DeniedKept ==
  ASSUME IInv, Next
  PROVE  DeniedDiesAtPolicy'
<1>a. DeniedDiesAtPolicy /\ Passed
  BY DEF IInv
<1>b. gate = "policy" => HoldsTo(2)
  BY DEF IInv, Trail
<1>c. audit \in Seq(AuditGates)
  BY DEF IInv, PipelineTypeOK
<1> USE DEF DeniedDiesAtPolicy, Passed, Return, Continue, solverVars
<1>1. ASSUME NEW r \in ChangeRequests, Normalize(r)
      PROVE  DeniedDiesAtPolicy'
  BY <1>1, <1>a DEF Normalize
<1>2. CASE Authenticate \/ StructuralRail
  BY <1>2, <1>a DEF Authenticate, StructuralRail
<1>3. CASE CheckPolicy
  <2>1. CASE dec' = "allowed"
    BY <2>1
  <2>2. CASE dec' # "allowed"
    <3>1. "3-policy" \in AuditGates /\ FullTrail[2 + 1] = "3-policy"
      BY DEF AuditGates, FullTrail
    <3>2. HoldsTo(2 + 1)' /\ audit' \in Seq(AuditGates)
      BY <1>3, <1>b, <1>c, <3>1, LogExtends, LogAppends DEF CheckPolicy
    <3>3. Len(audit') = 3 /\ audit'[1] = "1-normalize" /\ audit'[2] = "2-authn"
          /\ audit'[3] = "3-policy"
      BY <3>2 DEF HoldsTo, StartsTo, FullTrail
    <3>4. audit' = <<"1-normalize", "2-authn", "3-policy">>
      BY <3>2, <3>3
    <3> QED
      BY <2>2, <3>4, <1>3, <1>a DEF CheckPolicy
  <2> QED
    BY <2>1, <2>2
<1>4. CASE Generate \/ Solve \/ PlanReady \/ Approve
  BY <1>4, <1>a DEF Generate, Solve, PlanReady, Approve
<1>5. CASE ExecuteStep \/ ExecuteReturns \/ ExecuteFails
  BY <1>5, <1>a DEF ExecuteStep, ExecuteReturns, ExecuteFails
<1>6. CASE Returned
  BY <1>6, <1>a DEF Returned, vars
<1> QED
  BY <1>1, <1>2, <1>3, <1>4, <1>5, <1>6 DEF Next

\* Every return of Handle writes the entry that explains it.
LEMMA AuditKept ==
  ASSUME IInv, Next
  PROVE  OutcomeIsAudited'
<1>a. /\ OutcomeIsAudited
      /\ outcome = "none" <=> gate # "done"
      /\ gate \notin {"execute", "done"} => ran = 0
      /\ gate = "execute" => Len(audit) = 5 + ran
  BY DEF IInv, Trail
<1>b. /\ audit \in Seq(AuditGates)
      /\ ran \in Nat
  BY DEF IInv, PipelineTypeOK
<1>c. ASSUME NEW g \in AuditGates, Log(g)
      PROVE  /\ audit' # <<>>
             /\ audit'[Len(audit')] = g
             /\ Len(audit') = Len(audit) + 1
  BY <1>b, <1>c, LogAppends
<1>d. /\ "1-normalize" \in AuditGates /\ "2-authn" \in AuditGates
      /\ "3-policy" \in AuditGates /\ "4-plan" \in AuditGates
      /\ "5-approve" \in AuditGates /\ "6-execute" \in AuditGates
      /\ "7-rollback" \in AuditGates
  BY DEF AuditGates
<1> USE DEF OutcomeIsAudited, Explains, Return, Continue, solverVars, PlanSteps
<1>1. ASSUME NEW r \in ChangeRequests, Normalize(r)
      PROVE  OutcomeIsAudited'
  BY <1>1, <1>a, <1>c, <1>d DEF Normalize
<1>2. CASE Authenticate
  BY <1>2, <1>a, <1>c, <1>d DEF Authenticate
<1>3. CASE StructuralRail
  BY <1>3, <1>a, <1>c, <1>d DEF StructuralRail
<1>4. CASE CheckPolicy
  BY <1>4, <1>a, <1>c, <1>d DEF CheckPolicy
<1>5. CASE Generate \/ Solve
  BY <1>5, <1>a DEF Generate, Solve
<1>6. CASE PlanReady
  BY <1>6, <1>a, <1>c, <1>d DEF PlanReady
<1>7. CASE Approve
  BY <1>7, <1>a, <1>c, <1>d DEF Approve
<1>8. CASE ExecuteStep
  BY <1>8, <1>a DEF ExecuteStep
<1>9. CASE ExecuteReturns
  BY <1>9, <1>a, <1>b, <1>c, <1>d DEF ExecuteReturns
<1>10. CASE ExecuteFails
  BY <1>10, <1>a, <1>c, <1>d DEF ExecuteFails
<1>11. CASE Returned
  BY <1>11, <1>a DEF Returned, vars
<1> QED
  BY <1>1, <1>2, <1>3, <1>4, <1>5, <1>6, <1>7, <1>8, <1>9, <1>10, <1>11 DEF Next

-----------------------------------------------------------------------------
(* The invariant, and what follows from it. *)

LEMMA InitHolds ==
  ASSUME Init
  PROVE  IInv
<1> USE DEF Init
<1>1. PipelineTypeOK
  BY DEF PipelineTypeOK, Gates, Outcomes
<1>2. Choice /\ Trail /\ Passed
  BY DEF Choice, Trail, HoldsTo, StartsTo, Passed
<1>3. DevNeverTouchesInfra /\ DeniedDiesAtPolicy /\ OutcomeIsAudited
  BY DEF DevNeverTouchesInfra, DeniedDiesAtPolicy, OutcomeIsAudited, NoRequest
<1> QED
  BY <1>1, <1>2, <1>3 DEF IInv

\* Every state Handle goes through satisfies the inductive invariant.
THEOREM PipelineInvariant == Spec => []IInv
<1>1. Init => IInv
  BY InitHolds
<1>2. ASSUME IInv, Next
      PROVE  IInv'
  BY <1>2, TypesKept, ChoiceKept, TrailKept, PassedKept, RailKept, DeniedKept,
     AuditKept DEF IInv
<1>3. ASSUME IInv, UNCHANGED vars
      PROVE  IInv'
  <2>1. PipelineTypeOK' /\ Choice'
    BY <1>3 DEF vars, solverVars, IInv, PipelineTypeOK, Choice, HardConstraints, Score
  <2>2. Trail' /\ Passed'
    BY <1>3 DEF vars, solverVars, IInv, Trail, Passed, Attest, MayExecute, SolverDone,
                NeedsOwner, RiskOf, BigDensityChange, DevInfraHardRail, HoldsTo
  <2>3. DevNeverTouchesInfra' /\ DeniedDiesAtPolicy'
    BY <1>3 DEF vars, solverVars, IInv, DevNeverTouchesInfra, DeniedDiesAtPolicy
  <2>4. OutcomeIsAudited'
    BY <1>3 DEF vars, solverVars, IInv, OutcomeIsAudited, Explains, PlanSteps
  <2> QED
    BY <2>1, <2>2, <2>3, <2>4 DEF IInv
<1> QED
  BY <1>1, <1>2, <1>3, PTL DEF Spec

\* The locals of Handle and of the solver keep their types.
THEOREM PipelineTyping == Spec => []PipelineTypeOK
<1>1. IInv => PipelineTypeOK
  BY DEF IInv
<1> QED
  BY <1>1, PipelineInvariant, PTL

\* For every list of candidates the solver chooses the first that meets the
\* constraints with the greatest score, or finds that none meets them.
THEOREM SolverChoosesOptimum == Spec => []PlanIsOptimal
<1>1. IInv => PlanIsOptimal
  BY ChoiceIsOptimal DEF IInv
<1> QED
  BY <1>1, PipelineInvariant, PTL

\* Whatever the adapters answer, no step of a plan runs before all gates have
\* passed, and what runs is the optimal plan and one that needs no owner by the
\* origin that its request claims.
THEOREM ExecutionNeedsAllGates == Spec => []ExecutionIsGated
<1>1. IInv => ExecutionIsGated
  <2> SUFFICES ASSUME IInv, ran > 0
               PROVE  /\ SubSeq(audit, 1, 5) = FullTrail
                      /\ attested \in Attest(req)
                      /\ dec = "allowed"
                      /\ IsOptimal(cands, best)
                      /\ cands[best].reversible
                      /\ ~ BigDensityChange(cands[best])
                      /\ ~ (req.origin = "auto-agent" /\ req.kind = "code_change")
    BY DEF ExecutionIsGated, FullTrail
  <2>1. StartsTo(audit, 5) /\ MayExecute /\ ran \in Nat /\ attested \in Attest(req)
    BY DEF IInv, Trail, Passed, PipelineTypeOK
  <2>2. SubSeq(audit, 1, 5) = FullTrail
    <3>1. audit \in Seq(AuditGates) /\ Len(audit) >= 5
      BY <2>1 DEF IInv, PipelineTypeOK, StartsTo
    <3>2. SubSeq(audit, 1, 5) = [j \in 1 .. 5 |-> audit[j]]
      BY <3>1
    <3>3. FullTrail = [j \in 1 .. 5 |-> FullTrail[j]]
      BY DEF FullTrail
    <3> QED
      BY <3>2, <3>3, <2>1 DEF StartsTo
  <2>3. IsOptimal(cands, best)
    BY <2>1, ChoiceIsOptimal DEF IInv, PlanIsOptimal, MayExecute
  <2>4. cands[best].reversible /\ ~ BigDensityChange(cands[best])
    BY <2>1 DEF MayExecute, NeedsOwner, RiskOf
  <2> QED
    BY <2>1, <2>2, <2>3, <2>4 DEF MayExecute, NeedsOwner
<1> QED
  BY <1>1, PipelineInvariant, PTL

\* The rail between development engine and infrastructure does not depend on
\* the adapters.
THEOREM RailIsStructural == Spec => []DevNeverTouchesInfra
<1>1. IInv => DevNeverTouchesInfra
  BY DEF IInv
<1> QED
  BY <1>1, PipelineInvariant, PTL

\* What policy denies is neither planned nor shown for approval.
THEOREM DenialIsFinal == Spec => []DeniedDiesAtPolicy
<1>1. IInv => DeniedDiesAtPolicy
  BY DEF IInv
<1> QED
  BY <1>1, PipelineInvariant, PTL

\* The audit explains every outcome.
THEOREM AuditExplainsOutcome == Spec => []OutcomeIsAudited
<1>1. IInv => OutcomeIsAudited
  BY DEF IInv
<1> QED
  BY <1>1, PipelineInvariant, PTL

-----------------------------------------------------------------------------
(* The pipeline implements GovernedChange. *)

\* What the gates before the plan do: submit the change, refuse it, or
\* nothing that can be seen.
LEMMA EarlyGatesAsGoverned ==
  ASSUME IInv, Next,
         \/ \E r \in ChangeRequests : Normalize(r)
         \/ Authenticate \/ StructuralRail \/ CheckPolicy
  PROVE  Governed!Submit \/ Governed!Refuse \/ UNCHANGED Governed!governedVars
<1>1. best = 0 \/ gate \notin {"normalize", "authn", "rail", "policy"}
  BY DEF IInv, PipelineTypeOK, Passed
<1> USE DEF Stage, Return, Continue, Governed!Close
<1>2. ASSUME NEW r \in ChangeRequests, Normalize(r)
      PROVE  Governed!Submit
  <2>1. ProposedPlan' = ProposedPlan
    BY <1>1, <1>2 DEF Normalize, ProposedPlan, solverVars
  <2> QED
    BY <1>2, <2>1 DEF Normalize, Governed!Submit
<1>3. CASE Authenticate \/ StructuralRail \/ CheckPolicy
  <2>1. gate \in {"authn", "rail", "policy"} /\ best = 0 /\ best' = 0
    BY <1>1, <1>3 DEF Authenticate, StructuralRail, CheckPolicy, solverVars
  <2>2. ProposedPlan' = ProposedPlan
    BY <2>1 DEF ProposedPlan
  <2>3. UNCHANGED <<req, ran>>
    BY <1>3 DEF Authenticate, StructuralRail, CheckPolicy
  <2>4. \/ gate' \in {"authn", "rail", "policy", "generate"} /\ outcome' = outcome
        \/ /\ gate' = "done"
           /\ outcome' \in {"REJECTED_AUTH", "REJECTED_HARDRAIL"}
    BY <1>3 DEF Authenticate, StructuralRail, CheckPolicy
  <2> QED
    BY <2>1, <2>2, <2>3, <2>4 DEF Governed!Refuse, Governed!governedVars
<1> QED
  BY <1>2, <1>3

\* The planner proposes the feasible plan it has chosen, or there is none.
LEMMA PlannerAsGoverned ==
  ASSUME IInv, IInv', Generate \/ Solve \/ PlanReady
  PROVE  Governed!Propose \/ Governed!Refuse \/ UNCHANGED Governed!governedVars
<1> USE DEF Stage, Return, Continue, Governed!Close
<1>1. CASE Generate \/ Solve
  BY <1>1 DEF Generate, Solve, ProposedPlan, Governed!governedVars
<1>2. CASE PlanReady
  <2>1. req \in ChangeRequests /\ ~ DevInfraHardRail(req)
    BY <1>2 DEF PlanReady, IInv, Passed
  <2>2. gate = "plan" /\ UNCHANGED <<cands, best, req, ran>>
    BY <1>2 DEF PlanReady, solverVars
  <2>3. ProposedPlan = NoPlan
    BY <2>2 DEF ProposedPlan
  <2>4. CASE best = 0
    BY <1>2, <2>1, <2>2, <2>3, <2>4 DEF PlanReady, ProposedPlan, Governed!Refuse
  <2>5. CASE best # 0
    <3>1. ProposedPlan' = cands[best] /\ gate' = "approve" /\ outcome' = outcome
      BY <1>2, <2>2, <2>5 DEF PlanReady, ProposedPlan
    <3>2. cands[best] \in Candidates /\ HardConstraints(cands[best])
      BY <2>5 DEF IInv, PipelineTypeOK, Choice
    <3> QED
      BY <2>1, <2>2, <3>1, <3>2 DEF Governed!Propose
  <2> QED
    BY <2>4, <2>5
<1> QED
  BY <1>1, <1>2

\* Gate 5 decides by the change and the plan, and neither changes after it.
LEMMA LateGatesAsGoverned ==
  ASSUME IInv, IInv', Approve \/ ExecuteStep \/ ExecuteReturns \/ ExecuteFails
  PROVE  \/ Governed!Defer \/ Governed!Grant
         \/ Governed!TakeEffect \/ Governed!Finish \/ Governed!Abandon
<1> DEFINE c == cands[best]
<1>1. /\ gate \in {"approve", "execute"} /\ gate' \in {"approve", "execute", "done"}
      /\ UNCHANGED <<cands, best, req>>
  BY DEF Approve, ExecuteStep, ExecuteReturns, ExecuteFails, Return, Continue,
         solverVars
<1>2. best # 0 /\ c \in Candidates /\ req \in ChangeRequests
  BY <1>1 DEF IInv, PipelineTypeOK, Passed, MayExecute
<1>3. ProposedPlan = c /\ ProposedPlan' = c
  BY <1>1, <1>2 DEF ProposedPlan
<1>4. /\ PlanSteps = 1 + c.steps
      /\ [d \in Candidates |-> 1 + d.steps][c] = 1 + c.steps
  BY <1>2 DEF PlanSteps
<1>5. <<req, c>> \in {x \in ChangeRequests \X Candidates : ~ NeedsOwner(x[1], RiskOf(x[2]))}
        <=> ~ NeedsOwner(req, RiskOf(c))
  BY <1>2
<1> HIDE DEF c
<1> USE DEF Stage, Return, Continue, Governed!Close
<1>6. CASE Approve
  BY <1>1, <1>3, <1>5, <1>6 DEF Approve, Governed!Defer, Governed!Grant, c
<1>7. CASE ExecuteStep
  BY <1>1, <1>3, <1>4, <1>7 DEF ExecuteStep, Governed!TakeEffect
<1>8. CASE ExecuteReturns
  BY <1>1, <1>3, <1>4, <1>8 DEF ExecuteReturns, Governed!Finish
<1>9. CASE ExecuteFails
  BY <1>1, <1>3, <1>9 DEF ExecuteFails, Governed!Abandon
<1> QED
  BY <1>6, <1>7, <1>8, <1>9

\* For every set of requests and candidates and any adapters, the pipeline
\* keeps the promise of GovernedChange.
THEOREM ChangesAreGoverned == Spec => HandledAsGoverned
<1>1. Init => Governed!Init
  BY DEF Init, Stage, ProposedPlan, Governed!Init
<1>2. ASSUME IInv, IInv', [Next]_vars
      PROVE  [Governed!Next]_(Governed!governedVars)
  <2>1. CASE Returned \/ UNCHANGED vars
    BY <2>1 DEF Returned, vars, solverVars, Stage, ProposedPlan, Governed!governedVars
  <2>2. CASE Next
    BY <1>2, <2>1, <2>2, EarlyGatesAsGoverned, PlannerAsGoverned, LateGatesAsGoverned
    DEF Next, Governed!Next
  <2> QED
    BY <1>2, <2>1, <2>2
<1> QED
  BY <1>1, <1>2, PipelineInvariant, PTL DEF Spec, HandledAsGoverned, Governed!Spec
=============================================================================
