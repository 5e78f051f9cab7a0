-------------------------- MODULE OperationsProofs --------------------------
(***************************************************************************)
(* Proofs about Operations, for any number of requests, organisations and  *)
(* keys, and any choice of calls that fail.                                *)
(*                                                                         *)
(* The inductive invariant ties the place of a handler and of its          *)
(* goroutine to what is in the store, and each request to the settled      *)
(* operation whose result it names.                                        *)
(***************************************************************************)
EXTENDS Operations, FiniteSetTheorems, TLAPS

\* How far onboarding is, and what that is enough for.
Signing(o) ==
  /\ signPc[o] \notin {"kek", "failed"} => o \in keks
  /\ signPc[o] \in {"put", "member", "token", "created"} => o \in customers
  /\ signPc[o] \in {"member", "token", "created"} => o \in orgs
  /\ signPc[o] \in {"token", "created"} => o \in owners
  /\ o \in orgs => o \in keks /\ o \in customers
  /\ o \in owners => o \in orgs

\* How far a request and its operation are.
Phase(r) ==
  /\ reqPc[r] \in {"idle", "make"} => workPc[r] = "idle"
  /\ reqPc[r] # "idle" => reqOrg[r] \in Orgs /\ reqKind[r] \in Kinds
  /\ workPc[r] = "idle" <=> opStatus[r] = "none"
  /\ workPc[r] = "done" <=> opStatus[r] \in Settled
  /\ workPc[r] = "project" => reqKind[r] = "create_project"
  /\ workPc[r] = "transition" => reqKind[r] # "create_project"

\* What an operation has stored by then.
Stored(r) ==
  /\ workPc[r] \in {"idle", "engine", "project", "put"} \/ opStatus[r] = "failed"
       => made[r] = "absent"
  /\ workPc[r] = "transition" => made[r] = "creating"
  /\ workPc[r] \in {"meter", "complete"} \/ opStatus[r] = "succeeded" => Usable(r)
  /\ r \in projects => reqKind[r] = "create_project" /\ workPc[r] # "idle"
  /\ workPc[r] = "put" /\ reqKind[r] = "create_project" => r \in projects

\* What a request names was a result, of the kind that its path asks for.
Named(r) ==
  reqPc[r] # "idle" =>
    IF reqKind[r] = "create_project" THEN reqTarget[r] = 0
    ELSE /\ reqTarget[r] \in Requests
         /\ opStatus[reqTarget[r]] = "succeeded"
         /\ \/ reqKind[reqTarget[r]] = "create_project"
            \/ reqKind[r] = "start_endpoint" /\ reqKind[reqTarget[r]] = "create_branch"

\* An operation that got past its lookup works on what its organisation owns.
Found(r) ==
  /\ reqKind[r] # "create_project"
  /\ workPc[r] \notin {"idle", "engine", "done"} \/ opStatus[r] = "succeeded"
  => reqOrg[reqTarget[r]] = reqOrg[r]

IInv ==
  /\ TypeOK
  /\ \A o \in Orgs : Signing(o)
  /\ \A r \in Requests : Phase(r) /\ Stored(r) /\ Named(r) /\ Found(r)

-----------------------------------------------------------------------------
(* Who changes what. *)

\* A goroutine is under way and changes only what is its operation's own.
LEMMA WorkIsLocal ==
  ASSUME TypeOK, NEW r \in Requests, WorkStep(r)
  PROVE  /\ workPc[r] \notin {"idle", "done"}
         /\ UNCHANGED <<onboardVars, handlerVars, idemp>>
         /\ \A q \in Requests \ {r} :
              /\ workPc'[q] = workPc[q] /\ opStatus'[q] = opStatus[q]
              /\ made'[q] = made[q] /\ (q \in projects' <=> q \in projects)
BY DEF WorkStep, WorkGoes, WorkFails, EngineReturns, PutProject, Put, Transition,
       Meter, Complete, TypeOK

\* A handler changes only what is its request's own, the keys apart.
LEMMA HandlerIsLocal ==
  ASSUME TypeOK, NEW r \in Requests, HandlerStep(r) \/ Arrive(r)
  PROVE  /\ UNCHANGED <<onboardVars, projects, made, metered>>
         /\ \A q \in Requests \ {r} :
              /\ reqPc'[q] = reqPc[q] /\ reqOrg'[q] = reqOrg[q]
              /\ reqKind'[q] = reqKind[q] /\ reqTarget'[q] = reqTarget[q]
              /\ workPc'[q] = workPc[q] /\ opStatus'[q] = opStatus[q]
BY DEF HandlerStep, Arrive, Lookup, Make, StoreKey, Reply, TypeOK

LEMMA TypePreserved ==
  ASSUME IInv, Next
  PROVE  TypeOK'
<1> USE DEF IInv, TypeOK
<1>1. ASSUME NEW o \in Orgs, Signup(o)
      PROVE  TypeOK'
  BY <1>1
  DEF Signup, SignupStep, SignupGoes, ProvisionTenantKEK, CreateCustomer, PutOrg,
      AddMembership, IssueToken, SignupFails, SignPcs, handlerVars
<1>2. ASSUME NEW r \in Requests, Arrive(r)
      PROVE  TypeOK'
  <2>1. PICK org \in Authenticated, key \in Keys \cup {NoKey}, kind \in Kinds :
          \E target \in Targets(kind) : Lookup(r, org, key, kind, target)
    BY <1>2 DEF Arrive
  <2>2. PICK target \in Targets(kind) : Lookup(r, org, key, kind, target)
    BY <2>1
  <2>3. target \in Requests \cup {0} /\ org \in Orgs
    BY <2>1, <2>2 DEF Targets, Kinds, Readable, Authenticated
  <2>4. (IF IdempFound(key) THEN idemp[key] ELSE NoOp) \in Requests \cup {NoOp}
    BY DEF IdempFound
  <2> QED
    BY <2>2, <2>3, <2>4 DEF Lookup, onboardVars
<1>3. ASSUME NEW r \in Requests, HandlerStep(r)
      PROVE  TypeOK'
  BY <1>3 DEF HandlerStep, Make, StoreKey, Reply, onboardVars
<1>4. ASSUME NEW r \in Requests, WorkStep(r)
      PROVE  TypeOK'
  <2>1. /\ workPc' \in [Requests -> {"idle", "engine", "project", "put",
                                     "transition", "meter", "complete", "done"}]
        /\ opStatus' \in [Requests -> {"none", "running"} \cup Settled]
        /\ projects' \in SUBSET Requests
        /\ made' \in [Requests -> {"absent", "creating", "ready", "active"}]
    BY <1>4 DEF WorkStep, WorkGoes, WorkFails, EngineReturns, PutProject, Put,
                Transition, Meter, Complete, Settled
  <2>2. metered' \in [Orgs -> Nat]
    BY <1>4 DEF WorkStep, WorkGoes, WorkFails, EngineReturns, PutProject, Put,
                Transition, Meter, Complete
  <2> QED
    BY <1>4, <2>1, <2>2, WorkIsLocal DEF onboardVars, handlerVars
<1>5. CASE AllServed
  BY <1>5 DEF AllServed, vars, onboardVars, handlerVars
<1> QED
  BY <1>1, <1>2, <1>3, <1>4, <1>5 DEF Next

-----------------------------------------------------------------------------
(* The invariant. *)

LEMMA SignupPreserves ==
  ASSUME IInv, NEW o \in Orgs, Signup(o), TypeOK'
  PROVE  IInv'
<1> USE DEF IInv, TypeOK
<1>1. UNCHANGED <<handlerVars, workPc, opStatus, projects, made>>
  BY DEF Signup
<1>2. \A q \in Orgs : Signing(q)'
  BY DEF Signing, Signup, SignupStep, SignupGoes, ProvisionTenantKEK,
         CreateCustomer, PutOrg, AddMembership, IssueToken, SignupFails, CallAt
<1>3. \A r \in Requests : Phase(r)'
  BY <1>1 DEF Phase, handlerVars
<1>4. \A r \in Requests : Stored(r)' /\ Named(r)' /\ Found(r)'
  BY <1>1 DEF Stored, Named, Found, Usable, handlerVars
<1> QED
  BY <1>2, <1>3, <1>4

LEMMA HandlerPreserves ==
  ASSUME IInv, NEW r \in Requests, HandlerStep(r) \/ Arrive(r), TypeOK'
  PROVE  IInv'
<1> USE DEF IInv
<1>1. /\ UNCHANGED <<onboardVars, projects, made>>
      /\ \A q \in Requests \ {r} :
           /\ reqPc'[q] = reqPc[q] /\ reqOrg'[q] = reqOrg[q]
           /\ reqKind'[q] = reqKind[q] /\ reqTarget'[q] = reqTarget[q]
           /\ workPc'[q] = workPc[q] /\ opStatus'[q] = opStatus[q]
  BY HandlerIsLocal
<1>2. UNCHANGED <<signPc, keks, customers, orgs, owners>>
  BY <1>1 DEF onboardVars
<1>3. \A o \in Orgs : Signing(o)'
  BY <1>2 DEF Signing
<1>4. CASE Arrive(r)
  <2>1. PICK org \in Authenticated, key \in Keys \cup {NoKey}, kind \in Kinds :
          \E target \in Targets(kind) : Lookup(r, org, key, kind, target)
    BY <1>4 DEF Arrive
  <2>2. PICK target \in Targets(kind) : Lookup(r, org, key, kind, target)
    BY <2>1
  <2>3. /\ reqPc[r] = "idle" /\ reqPc'[r] \in {"make", "replied"}
        /\ reqOrg'[r] = org /\ reqKind'[r] = kind /\ reqTarget'[r] = target
        /\ UNCHANGED <<workPc, opStatus>>
    BY <2>2 DEF Lookup, TypeOK
  <2>4. workPc[r] = "idle" /\ opStatus[r] = "none" /\ made[r] = "absent" /\ r \notin projects
    BY <2>3 DEF Phase, Stored
  <2>5. Phase(r)' /\ Stored(r)' /\ Found(r)'
    BY <1>1, <1>2, <2>1, <2>3, <2>4 DEF Phase, Stored, Found, Settled, Authenticated
  <2>6. Named(r)'
    <3>1. CASE kind = "create_project"
      BY <2>2, <2>3, <3>1 DEF Named, Targets
    <3>2. CASE kind = "create_branch"
      BY <1>1, <2>2, <2>3, <2>4, <3>2 DEF Named, Targets, Readable
    <3>3. CASE kind = "start_endpoint"
      BY <1>1, <2>2, <2>3, <2>4, <3>3 DEF Named, Targets, Readable
    <3> QED
      BY <2>1, <3>1, <3>2, <3>3 DEF Kinds
  <2>7. \A q \in Requests \ {r} : Phase(q)' /\ Stored(q)'
    BY <1>1, <1>2 DEF Phase, Stored, Usable
  <2>8. \A q \in Requests \ {r} : Named(q)' /\ Found(q)'
    <3> SUFFICES ASSUME NEW q \in Requests \ {r}
                 PROVE  Named(q)' /\ Found(q)'
      OBVIOUS
    <3>1. Named(q)'
      BY <1>1, <2>4 DEF Named
    <3>2. Found(q)'
      <4>1. reqPc[q] = "idle" => workPc[q] = "idle" /\ opStatus[q] = "none"
        BY DEF Phase
      <4>2. reqPc[q] # "idle" /\ reqKind[q] # "create_project" =>
              reqTarget[q] \in Requests \ {r}
        BY <2>4 DEF Named
      <4> QED
        BY <1>1, <4>1, <4>2 DEF Found
    <3> QED
      BY <3>1, <3>2
  <2> QED
    BY <1>3, <2>5, <2>6, <2>7, <2>8
<1>5. CASE HandlerStep(r)
  <2>1. /\ reqPc[r] \in {"make", "store"} /\ reqPc'[r] \in {"store", "replied"}
        /\ UNCHANGED <<reqOrg, reqKind, reqTarget>>
        /\ \/ /\ reqPc[r] = "make"
              /\ workPc'[r] = "engine" /\ opStatus'[r] = "running"
           \/ workPc'[r] = workPc[r] /\ opStatus'[r] = opStatus[r]
    BY <1>5 DEF HandlerStep, Make, StoreKey, Reply, TypeOK
  <2>2. reqPc[r] = "make" => workPc[r] = "idle" /\ opStatus[r] = "none"
    BY DEF Phase
  <2>3. Phase(r)'
    BY <1>2, <2>1, <2>2 DEF Phase, Settled
  <2>4. Stored(r)'
    BY <1>1, <2>1, <2>2 DEF Stored, Usable
  <2>5. \A q \in Requests : opStatus[q] = "succeeded" => opStatus'[q] = "succeeded"
    BY <1>1, <2>1, <2>2
  <2>6. Named(r)'
    BY <2>1, <2>5 DEF Named
  <2>7. Found(r)'
    BY <2>1 DEF Found
  <2>8. \A q \in Requests \ {r} : Phase(q)' /\ Stored(q)'
    BY <1>1, <1>2 DEF Phase, Stored, Usable
  <2>9. \A q \in Requests \ {r} : Named(q)'
    BY <1>1, <2>1, <2>5 DEF Named
  <2>10. \A q \in Requests \ {r} : Found(q)'
    BY <1>1, <2>1 DEF Found
  <2> QED
    BY <1>3, <2>3, <2>4, <2>6, <2>7, <2>8, <2>9, <2>10
<1> QED
  BY <1>4, <1>5

\* The steps of a goroutine, for its own operation.
LEMMA OwnWorkPreserves ==
  ASSUME IInv, NEW r \in Requests, WorkStep(r), TypeOK'
  PROVE  Phase(r)' /\ Stored(r)' /\ Found(r)'
<1> USE DEF IInv
<1>1. UNCHANGED <<onboardVars, handlerVars>>
  BY WorkIsLocal
<1>2. UNCHANGED <<reqPc, reqOrg, reqKind, reqTarget>>
  BY <1>1 DEF handlerVars
<1>3. Phase(r) /\ Stored(r) /\ Found(r) /\ Named(r)
  OBVIOUS
<1>4. /\ workPc[r] # "idle" /\ workPc[r] # "done" /\ opStatus[r] = "running"
      /\ reqPc[r] \notin {"idle", "make"} /\ reqKind[r] \in Kinds
  BY <1>3, WorkIsLocal DEF Phase, TypeOK, Settled
<1>5. CASE WorkFails(r)
  <2>1. /\ workPc[r] = "engine" /\ workPc'[r] = "done" /\ opStatus'[r] = "failed"
        /\ made' = made /\ projects' = projects
    BY <1>5 DEF WorkFails, WorkGoes, TypeOK
  <2> QED
    BY <1>2, <1>3, <1>4, <2>1 DEF Phase, Stored, Found, Settled
<1>6. CASE EngineReturns(r)
  <2>1. /\ workPc[r] = "engine"
        /\ workPc'[r] = IF reqKind[r] = "create_project" THEN "project" ELSE "put"
        /\ opStatus' = opStatus /\ made' = made /\ projects' = projects
    BY <1>6 DEF EngineReturns, WorkGoes, TypeOK
  <2>2. reqKind[r] # "create_project" => reqOrg[reqTarget[r]] = reqOrg[r]
    BY <1>4, <1>6 DEF EngineReturns, TargetFound, GetProject, GetBranch, Kinds
  <2> QED
    BY <1>2, <1>3, <1>4, <2>1, <2>2 DEF Phase, Stored, Found, Settled
<1>7. CASE PutProject(r)
  <2>1. /\ workPc[r] = "project" /\ workPc'[r] = "put"
        /\ opStatus' = opStatus /\ made' = made /\ projects' = projects \cup {r}
    BY <1>7 DEF PutProject, WorkGoes, TypeOK
  <2> QED
    BY <1>2, <1>3, <1>4, <2>1 DEF Phase, Stored, Found, Settled
<1>8. CASE Put(r)
  <2>1. /\ workPc[r] = "put"
        /\ IF reqKind[r] = "create_project"
           THEN workPc'[r] = "meter" /\ made'[r] = "ready"
           ELSE workPc'[r] = "transition" /\ made'[r] = "creating"
        /\ opStatus' = opStatus /\ projects' = projects
    BY <1>8 DEF Put, WorkGoes, TypeOK
  <2> QED
    BY <1>2, <1>3, <1>4, <2>1 DEF Phase, Stored, Found, Settled, Usable
<1>9. CASE Transition(r)
  <2>1. workPc[r] = "transition" /\ made[r] = "creating"
    BY <1>3, <1>9 DEF Transition, WorkGoes, Stored
  <2>2. /\ workPc'[r] = "meter"
        /\ made'[r] = IF reqKind[r] = "start_endpoint" THEN "active" ELSE "ready"
        /\ opStatus' = opStatus /\ projects' = projects
    BY <1>9, <2>1 DEF Transition, WorkGoes, TypeOK, transitions
  <2> QED
    BY <1>2, <1>3, <1>4, <2>1, <2>2 DEF Phase, Stored, Found, Settled, Usable
<1>10. CASE Meter(r)
  <2>1. /\ workPc[r] = "meter" /\ workPc'[r] = "complete"
        /\ opStatus' = opStatus /\ made' = made /\ projects' = projects
    BY <1>10 DEF Meter, WorkGoes, TypeOK
  <2> QED
    BY <1>2, <1>3, <1>4, <2>1 DEF Phase, Stored, Found, Settled, Usable
<1>11. CASE Complete(r)
  <2>1. /\ workPc[r] = "complete" /\ workPc'[r] = "done"
        /\ opStatus'[r] = "succeeded" /\ made' = made /\ projects' = projects
    BY <1>11 DEF Complete, WorkGoes, TypeOK
  <2> QED
    BY <1>2, <1>3, <1>4, <2>1 DEF Phase, Stored, Found, Settled, Usable
<1> QED
  BY <1>5, <1>6, <1>7, <1>8, <1>9, <1>10, <1>11 DEF WorkStep

LEMMA WorkPreserves ==
  ASSUME IInv, NEW r \in Requests, WorkStep(r), TypeOK'
  PROVE  IInv'
<1> USE DEF IInv
<1>1. /\ workPc[r] \notin {"idle", "done"}
      /\ UNCHANGED <<onboardVars, handlerVars>>
      /\ \A q \in Requests \ {r} :
           /\ workPc'[q] = workPc[q] /\ opStatus'[q] = opStatus[q]
           /\ made'[q] = made[q] /\ (q \in projects' <=> q \in projects)
  BY WorkIsLocal
<1>2. /\ UNCHANGED <<signPc, keks, customers, orgs, owners>>
      /\ UNCHANGED <<reqPc, reqOrg, reqKind, reqTarget>>
  BY <1>1 DEF onboardVars, handlerVars
<1>3. \A o \in Orgs : Signing(o)'
  BY <1>2 DEF Signing
<1>4. \A q \in Requests : opStatus[q] = "succeeded" => opStatus'[q] = "succeeded"
  BY <1>1 DEF Phase, Settled
<1>5. \A q \in Requests : Named(q)'
  BY <1>2, <1>4 DEF Named
<1>6. \A q \in Requests \ {r} : Phase(q)' /\ Stored(q)' /\ Found(q)'
  BY <1>1, <1>2 DEF Phase, Stored, Found, Usable
<1> QED
  BY <1>3, <1>5, <1>6, OwnWorkPreserves

LEMMA InitEstablishes == Init => IInv
BY OperationsAssumption
DEF Init, OnboardingInit, IInv, TypeOK, SignPcs, Settled, Signing, Phase, Stored,
    Named, Found, NoOp, Usable

LEMMA NextPreserves ==
  ASSUME IInv, [Next]_vars
  PROVE  IInv'
<1>1. CASE UNCHANGED vars
  BY <1>1
  DEF IInv, TypeOK, Signing, Phase, Stored, Named, Found, Usable,
      vars, onboardVars, handlerVars
<1>2. CASE AllServed
  BY <1>1, <1>2 DEF AllServed
<1>3. ASSUME NEW o \in Orgs, Signup(o)
      PROVE  IInv'
  BY <1>3, TypePreserved, SignupPreserves DEF Next
<1>4. ASSUME NEW r \in Requests, Arrive(r) \/ HandlerStep(r)
      PROVE  IInv'
  BY <1>4, TypePreserved, HandlerPreserves DEF Next
<1>5. ASSUME NEW r \in Requests, WorkStep(r)
      PROVE  IInv'
  BY <1>5, TypePreserved, WorkPreserves DEF Next
<1> QED
  BY <1>1, <1>2, <1>3, <1>4, <1>5 DEF Next

THEOREM Invariance == Spec => []IInv
<1>1. IInv /\ [Next]_vars => IInv'
  BY NextPreserves
<1> QED
  BY <1>1, InitEstablishes, PTL DEF Spec

-----------------------------------------------------------------------------
(* What follows from it. *)

\* The variables hold what the program's fields and locals can hold.
THEOREM TypeCorrect == Spec => []TypeOK
<1>1. IInv => TypeOK
  BY DEF IInv
<1> QED
  BY <1>1, Invariance, PTL

\* A client that sees its operation succeeded finds what it asked for.
THEOREM SucceededOperationsAreReady == Spec => []SucceededIsReady
<1>1. IInv => SucceededIsReady
  BY DEF IInv, Stored, SucceededIsReady
<1> QED
  BY <1>1, Invariance, PTL

\* What an operation has put in the store belongs to one that is past its
\* lookup, and what that named is usable.
LEMMA MadeOnOwn ==
  ASSUME IInv, NEW r \in Requests, made[r] # "absent", reqKind[r] # "create_project"
  PROVE  /\ reqTarget[r] \in Requests /\ Usable(reqTarget[r])
         /\ reqOrg[reqTarget[r]] = reqOrg[r]
         /\ \/ reqKind[reqTarget[r]] = "create_project"
            \/ reqKind[r] = "start_endpoint" /\ reqKind[reqTarget[r]] = "create_branch"
<1> USE DEF IInv
<1>1. /\ workPc[r] \notin {"idle", "engine", "project", "put"}
      /\ opStatus[r] # "failed"
  BY DEF Stored
<1>2. workPc[r] # "done" \/ opStatus[r] = "succeeded"
  BY <1>1 DEF Phase, Settled
<1>3. reqPc[r] # "idle"
  BY <1>1 DEF Phase
<1> QED
  BY <1>1, <1>2, <1>3 DEF Named, Found, Stored

\* A branch is stored only under a project of its own organisation.
THEOREM BranchesStayInOrganisation == Spec => []BranchInOwnProject
<1>1. ASSUME IInv
      PROVE  BranchInOwnProject
  <2> SUFFICES ASSUME NEW r \in Branches
               PROVE  LET p == IF reqKind[r] = "create_project" THEN r ELSE reqTarget[r]
                      IN  p \in projects /\ reqOrg[p] = reqOrg[r]
    BY DEF BranchInOwnProject
  <2>1. r \in Requests /\ reqKind[r] # "start_endpoint" /\ made[r] # "absent"
    BY DEF Branches
  <2>2. CASE reqKind[r] = "create_project"
    <3>1. workPc[r] \in {"meter", "complete"} \/ opStatus[r] = "succeeded"
      BY <1>1, <2>1, <2>2 DEF IInv, TypeOK, Stored, Phase, Settled
    <3> QED
      BY <1>1, <2>1, <2>2, <3>1 DEF IInv, Stored, Usable
  <2>3. CASE reqKind[r] # "create_project"
    BY <1>1, <2>1, <2>3, MadeOnOwn DEF Usable
  <2> QED
    BY <2>2, <2>3
<1> QED
  BY <1>1, Invariance, PTL

\* An endpoint is stored only on a ready branch of its own organisation.
THEOREM EndpointsStartOnReadyBranches == Spec => []EndpointOnReadyBranch
<1>1. IInv => EndpointOnReadyBranch
  BY MadeOnOwn DEF EndpointOnReadyBranch, Usable, Branches
<1> QED
  BY <1>1, Invariance, PTL

\* However Signup fails, what it has put in the store is complete.
THEOREM SignupsStoreCompleteOrgs == Spec => []StoredOrgsAreComplete
<1>1. IInv => StoredOrgsAreComplete
  BY DEF IInv, TypeOK, Signing, StoredOrgsAreComplete
<1> QED
  BY <1>1, Invariance, PTL

\* A result that a client polled stays true.
THEOREM OperationsSettleOnce == Spec => OpSettlesOnce
<1>1. ASSUME IInv, [Next]_vars
      PROVE  [\A r \in Requests : opStatus[r] \in Settled =>
                opStatus'[r] = opStatus[r]]_vars
  <2> USE <1>1 DEF IInv
  <2>1. ASSUME NEW q \in Requests, HandlerStep(q)
        PROVE  \A r \in Requests : opStatus[r] \in Settled => opStatus'[r] = opStatus[r]
    <3>1. reqPc[q] = "make" => opStatus[q] \notin Settled
      BY DEF Phase, Settled
    <3> QED
      BY <2>1, <3>1 DEF HandlerStep, Make, StoreKey, Reply, TypeOK
  <2>2. ASSUME NEW q \in Requests, WorkStep(q)
        PROVE  \A r \in Requests : opStatus[r] \in Settled => opStatus'[r] = opStatus[r]
    BY <2>2, WorkIsLocal DEF Phase
  <2>3. CASE \/ \E o \in Orgs : Signup(o)
             \/ \E q \in Requests : Arrive(q)
             \/ AllServed
    BY <2>3 DEF Signup, Arrive, Lookup, AllServed, vars
  <2>4. CASE UNCHANGED vars
    BY <2>4
  <2> QED
    BY <1>1, <2>1, <2>2, <2>3, <2>4 DEF Next
<1> QED
  BY <1>1, Invariance, PTL DEF Spec, OpSettlesOnce

-----------------------------------------------------------------------------
(* Idempotency keys. *)

\* A key that has been answered stands for an operation made under it.
KeysBound ==
  /\ \A k \in Keys : idemp[k] # NoOp => reqPc[idemp[k]] # "idle" /\ reqKey[idemp[k]] = k
  /\ \A q \in Requests : reqPc[q] = "replied" /\ reqKey[q] # NoKey =>
       idemp[reqKey[q]] # NoOp

LEMMA KeysStayBound ==
  ASSUME TypeOK, KeysBound, [Next]_vars
  PROVE  KeysBound'
<1> USE DEF TypeOK
<1>1. ASSUME NEW r \in Requests, Arrive(r)
      PROVE  KeysBound'
  <2>1. PICK org \in Authenticated, key \in Keys \cup {NoKey}, kind \in Kinds :
          \E target \in Targets(kind) : Lookup(r, org, key, kind, target)
    BY <1>1 DEF Arrive
  <2>2. /\ reqPc[r] = "idle" /\ reqKey'[r] = key /\ idemp' = idemp
        /\ reqPc'[r] = IF IdempFound(key) THEN "replied" ELSE "make"
        /\ \A q \in Requests \ {r} : reqPc'[q] = reqPc[q] /\ reqKey'[q] = reqKey[q]
    BY <2>1 DEF Lookup
  <2>3. \A k \in Keys : idemp[k] # NoOp => idemp[k] \in Requests \ {r}
    BY <2>2 DEF KeysBound
  <2>4. reqPc'[r] = "replied" /\ reqKey'[r] # NoKey => idemp'[reqKey'[r]] # NoOp
    BY <2>2 DEF IdempFound
  <2> QED
    BY <2>2, <2>3, <2>4 DEF KeysBound
<1>2. ASSUME NEW r \in Requests, Make(r)
      PROVE  KeysBound'
  <2>1. /\ reqPc'[r] = "store" /\ reqKey' = reqKey /\ idemp' = idemp
        /\ \A q \in Requests \ {r} : reqPc'[q] = reqPc[q]
    BY <1>2 DEF Make
  <2> QED
    BY <2>1 DEF KeysBound
<1>3. ASSUME NEW r \in Requests, StoreKey(r)
      PROVE  KeysBound'
  <2>1. /\ reqPc'[r] = "replied" /\ reqKey' = reqKey
        /\ \A q \in Requests \ {r} : reqPc'[q] = reqPc[q]
        /\ \A k \in Keys : idemp'[k] = IF k = reqKey[r] THEN r ELSE idemp[k]
    BY <1>3 DEF StoreKey, Reply
  <2>2. r # NoOp
    BY OperationsAssumption DEF Requests, NoOp
  <2> QED
    BY <2>1, <2>2 DEF KeysBound
<1>4. CASE \/ \E r \in Requests : WorkStep(r)
           \/ \E o \in Orgs : Signup(o)
           \/ AllServed \/ UNCHANGED vars
  BY <1>4, WorkIsLocal DEF Signup, AllServed, vars, handlerVars, KeysBound
<1> QED
  BY <1>1, <1>2, <1>3, <1>4 DEF Next, HandlerStep

\* A retry after an answer makes no operation, whoever sends it.
THEOREM RetriesReplay == Spec => RetryReplays
<1>1. Init => KeysBound
  BY DEF Init, KeysBound
<1>2. TypeOK /\ KeysBound /\ [Next]_vars => KeysBound'
  BY KeysStayBound
<1>3. ASSUME TypeOK, KeysBound, [Next]_vars
      PROVE  [\A q, r \in Requests :
                /\ reqPc[q] = "replied" /\ reqKey[q] # NoKey
                /\ reqPc[r] = "idle" /\ reqPc'[r] # "idle" /\ reqKey'[r] = reqKey[q]
                => /\ reqPc'[r] = "replied"
                   /\ reqKey[replyOp'[r]] = reqKey[q]]_vars
  <2> SUFFICES ASSUME Next, NEW q \in Requests, NEW r \in Requests,
                      reqPc[q] = "replied", reqKey[q] # NoKey, reqPc[r] = "idle",
                      reqPc'[r] # "idle", reqKey'[r] = reqKey[q]
               PROVE  reqPc'[r] = "replied" /\ reqKey[replyOp'[r]] = reqKey[q]
    BY <1>3
  <2>1. Arrive(r)
    <3>1. \A p \in Requests : Arrive(p) \/ HandlerStep(p) => reqPc'[r] = reqPc[r] \/ p = r
      BY <1>3, HandlerIsLocal
    <3>2. \A p \in Requests : WorkStep(p) => reqPc' = reqPc
      BY <1>3, WorkIsLocal DEF handlerVars
    <3> QED
      BY <3>1, <3>2
      DEF Next, HandlerStep, Make, StoreKey, Reply, Signup, AllServed, vars, handlerVars
  <2>2. PICK org \in Authenticated, key \in Keys \cup {NoKey}, kind \in Kinds :
          \E target \in Targets(kind) : Lookup(r, org, key, kind, target)
    BY <2>1 DEF Arrive
  <2>3. key = reqKey[q] /\ key \in Keys
    BY <1>3, <2>2 DEF Lookup, TypeOK
  <2>4. IdempFound(key)
    BY <1>3, <2>3 DEF IdempFound, KeysBound
  <2>5. reqPc'[r] = "replied" /\ replyOp'[r] = idemp[key]
    BY <1>3, <2>2, <2>4 DEF Lookup, TypeOK
  <2> QED
    BY <1>3, <2>3, <2>4, <2>5 DEF KeysBound, IdempFound
<1> QED
  BY <1>1, <1>2, <1>3, TypeCorrect, PTL DEF Spec, RetryReplays

\* A reply, and a key, stand for an operation that the store has. A handler
\* that has made its operation, but not stored the key, has it there too.
RepliesNamed ==
  /\ \A r \in Requests : reqPc[r] = "store" => opStatus[r] # "none"
  /\ \A k \in Keys : idemp[k] # NoOp => opStatus[idemp[k]] # "none"
  /\ ReplyNamesOperation

\* An operation in the store stays there.
LEMMA StatusStays ==
  ASSUME IInv, Next, NEW q \in Requests, opStatus[q] # "none"
  PROVE  opStatus'[q] # "none"
<1> USE DEF IInv, TypeOK
<1>1. ASSUME NEW r \in Requests, WorkStep(r)
      PROVE  opStatus'[q] # "none"
  BY <1>1 DEF WorkStep, WorkFails, EngineReturns, PutProject, Put, Transition,
              Meter, Complete
<1>2. ASSUME NEW r \in Requests, HandlerStep(r)
      PROVE  opStatus'[q] # "none"
  BY <1>2 DEF HandlerStep, Make, StoreKey, Reply
<1>3. CASE \/ \E o \in Orgs : Signup(o)
           \/ \E r \in Requests : Arrive(r)
           \/ AllServed
  BY <1>3 DEF Signup, Arrive, Lookup, AllServed, vars
<1> QED
  BY <1>1, <1>2, <1>3 DEF Next

LEMMA RepliesStayNamed ==
  ASSUME IInv, KeysBound, RepliesNamed, Next
  PROVE  RepliesNamed'
<1> USE DEF IInv, TypeOK
<1>1. \A q \in Requests : opStatus[q] # "none" => opStatus'[q] # "none"
  BY StatusStays
<1>2. ASSUME NEW r \in Requests, Arrive(r)
      PROVE  RepliesNamed'
  <2>1. PICK org \in Authenticated, key \in Keys \cup {NoKey}, kind \in Kinds :
          \E target \in Targets(kind) : Lookup(r, org, key, kind, target)
    BY <1>2 DEF Arrive
  <2>2. /\ reqPc[r] = "idle" /\ reqKey'[r] = key
        /\ reqPc'[r] = IF IdempFound(key) THEN "replied" ELSE "make"
        /\ IdempFound(key) => replyOp'[r] = idemp[key]
        /\ idemp' = idemp
        /\ \A q \in Requests \ {r} : /\ reqPc'[q] = reqPc[q] /\ reqKey'[q] = reqKey[q]
                                     /\ replyOp'[q] = replyOp[q]
    BY <2>1 DEF Lookup
  <2>3. IdempFound(key) =>
          /\ key \in Keys /\ idemp[key] \in Requests \ {r}
          /\ reqKey[idemp[key]] = key /\ opStatus[idemp[key]] # "none"
    BY <2>2 DEF IdempFound, KeysBound, RepliesNamed
  <2>4. \A q \in Requests : reqPc[q] = "replied" => q # r /\ replyOp[q] # r
    <3>1. opStatus[r] = "none"
      BY <2>2 DEF Phase
    <3> QED
      BY <2>2, <3>1 DEF RepliesNamed, ReplyNamesOperation
  <2>5. ReplyNamesOperation'
    <3>1. ASSUME NEW q \in Requests \ {r}, reqPc'[q] = "replied"
          PROVE  /\ \/ replyOp'[q] = q
                    \/ /\ replyOp'[q] \in Requests /\ reqKey'[q] # NoKey
                       /\ reqKey'[replyOp'[q]] = reqKey'[q]
                 /\ opStatus'[replyOp'[q]] # "none"
      <4>1. replyOp'[q] = replyOp[q] /\ replyOp[q] \in Requests \ {r}
        BY <2>2, <2>4, <3>1 DEF RepliesNamed, ReplyNamesOperation
      <4> QED
        BY <1>1, <2>2, <3>1, <4>1 DEF RepliesNamed, ReplyNamesOperation
    <3>2. ASSUME reqPc'[r] = "replied"
          PROVE  /\ replyOp'[r] \in Requests /\ reqKey'[r] # NoKey
                 /\ reqKey'[replyOp'[r]] = reqKey'[r]
                 /\ opStatus'[replyOp'[r]] # "none"
      <4>1. IdempFound(key)
        BY <2>2, <3>2
      <4> QED
        BY <1>1, <2>2, <2>3, <4>1, OperationsAssumption
    <3> QED
      BY <3>1, <3>2 DEF ReplyNamesOperation
  <2> QED
    BY <1>1, <2>2, <2>5 DEF RepliesNamed
<1>3. ASSUME NEW r \in Requests, Make(r)
      PROVE  RepliesNamed'
  <2>1. /\ reqPc[r] = "make" /\ reqPc'[r] = "store" /\ opStatus'[r] = "running"
        /\ UNCHANGED <<reqKey, replyOp, idemp>>
        /\ \A q \in Requests \ {r} : reqPc'[q] = reqPc[q]
    BY <1>3 DEF Make
  <2> QED
    BY <1>1, <2>1 DEF RepliesNamed, ReplyNamesOperation
<1>4. ASSUME NEW r \in Requests, StoreKey(r)
      PROVE  RepliesNamed'
  <2>1. /\ reqPc[r] = "store" /\ reqPc'[r] = "replied" /\ replyOp'[r] = r
        /\ UNCHANGED <<reqKey, opStatus>>
        /\ \A q \in Requests \ {r} : reqPc'[q] = reqPc[q] /\ replyOp'[q] = replyOp[q]
        /\ \A k \in Keys : idemp'[k] = IF k = reqKey[r] THEN r ELSE idemp[k]
    BY <1>4 DEF StoreKey, Reply
  <2> QED
    BY <2>1 DEF RepliesNamed, ReplyNamesOperation
<1>5. ASSUME UNCHANGED <<handlerVars, idemp>>
      PROVE  RepliesNamed'
  BY <1>1, <1>5 DEF RepliesNamed, ReplyNamesOperation, handlerVars
<1>6. CASE \/ \E r \in Requests : WorkStep(r)
           \/ \E o \in Orgs : Signup(o)
           \/ AllServed
  BY <1>5, <1>6, WorkIsLocal DEF Signup, AllServed, vars
<1> QED
  BY <1>2, <1>3, <1>4, <1>6 DEF Next, HandlerStep

\* What a 202 names is an operation the store has, the request's own or one made
\* under its key.
THEOREM RepliesNameOperations == Spec => []ReplyNamesOperation
<1> DEFINE Inv == KeysBound /\ RepliesNamed
<1>1. Init => Inv
  BY DEF Init, KeysBound, RepliesNamed, ReplyNamesOperation
<1>2. IInv /\ Inv /\ [Next]_vars => Inv'
  <2>1. ASSUME IInv, Inv, Next
        PROVE  Inv'
    BY <2>1, KeysStayBound, RepliesStayNamed DEF IInv
  <2>2. ASSUME Inv, UNCHANGED vars
        PROVE  Inv'
    BY <2>2 DEF vars, handlerVars, KeysBound, RepliesNamed, ReplyNamesOperation
  <2> QED
    BY <2>1, <2>2
<1>3. Inv => ReplyNamesOperation
  BY DEF RepliesNamed
<1> QED
  BY <1>1, <1>2, <1>3, Invariance, PTL DEF Spec

-----------------------------------------------------------------------------
(* Connection strings. *)

\* The first pair with a key is the one parseKV finds.
LEMMA FirstPairFound ==
  ASSUME NEW options, NEW key, DOMAIN options \subseteq Nat,
         NEW i \in DOMAIN options, options[i].key = key,
         \A j \in DOMAIN options : j < i => options[j].key # key
  PROVE  ParseKV(options, key) = options[i].value
<1> DEFINE hits == {j \in DOMAIN options : options[j].key = key}
           first == CHOOSE j \in hits : \A k \in hits : j <= k
<1>1. i \in hits /\ \A k \in hits : i <= k
  OBVIOUS
<1>2. first \in hits /\ \A k \in hits : first <= k
  BY <1>1
<1>3. first = i
  BY <1>1, <1>2
<1>4. hits # {}
  BY <1>1
<1> QED
  BY <1>3, <1>4 DEF ParseKV

\* Without such a pair it finds the empty string.
LEMMA NoPairFound ==
  ASSUME NEW options, NEW key,
         \A j \in DOMAIN options : options[j].key # key
  PROVE  ParseKV(options, key) = NoId
BY DEF ParseKV

\* Every way a client may name a started endpoint leads to that endpoint.
THEOREM UrisLeadBack == Spec => []UriLeadsBack
<1>1. UriLeadsBack
  <2> DEFINE Option(k, v)    == [key |-> k, value |-> v]
             named(e)        == [prefixed |-> TRUE, id |-> e, semicolon |-> TRUE]
             Reaches(e, s, o, p) ==
               ResolveEndpointID([sni |-> s, options |-> o, password |-> p]) = Host(e)
  <2> SUFFICES ASSUME NEW e \in Requests, NEW f \in Requests
               PROVE  LET other == [named(e) EXCEPT !.id = f]
                      IN  /\ \A s \in {Host(e), PooledHost(e)} :
                               Reaches(e, s, <<Option("endpoint", f)>>, other)
                          /\ Reaches(e, NoLabel,
                                     <<Option("user", f), Option("endpoint", e),
                                       Option("endpoint", f)>>, other)
                          /\ \A o \in {<<>>, <<Option("endpoint", NoId)>>,
                                       <<Option("user", f)>>} :
                               Reaches(e, NoLabel, o, named(e))
    BY DEF UriLeadsBack
  <2>1. e # NoId
    BY OperationsAssumption DEF Requests
  <2>2. ASSUME NEW s \in {Host(e), PooledHost(e)}, NEW o, NEW p
        PROVE  Reaches(e, s, o, p)
    <3>1. TrimPooler(s) = Host(e) /\ Host(e) # NoLabel
      BY <2>1 DEF TrimPooler, Host, PooledHost, NoLabel
    <3> QED
      BY <3>1 DEF ResolveEndpointID
  <2>3. TrimPooler(NoLabel) = NoLabel
    BY DEF TrimPooler, NoLabel
  <2>4. ASSUME NEW p
        PROVE  Reaches(e, NoLabel, <<Option("user", f), Option("endpoint", e),
                                     Option("endpoint", f)>>, p)
    <3> DEFINE o == <<Option("user", f), Option("endpoint", e), Option("endpoint", f)>>
    <3>1. /\ DOMAIN o \subseteq Nat /\ 2 \in DOMAIN o
          /\ o[2].key = "endpoint" /\ o[2].value = e
          /\ \A j \in DOMAIN o : j < 2 => o[j].key # "endpoint"
      OBVIOUS
    <3>2. ParseKV(o, "endpoint") = e
      <4> HIDE DEF o
      <4> QED
        BY <3>1, FirstPairFound
    <3> HIDE DEF o
    <3>3. Reaches(e, NoLabel, o, p)
      BY <2>1, <2>3, <3>2 DEF ResolveEndpointID, Host, NoLabel
    <3> QED
      BY <3>3 DEF o
  <2>5. ASSUME NEW o \in {<<>>, <<Option("endpoint", NoId)>>, <<Option("user", f)>>}
        PROVE  Reaches(e, NoLabel, o, named(e))
    <3>1. ParseKV(o, "endpoint") = NoId
      <4>1. CASE o = <<Option("endpoint", NoId)>>
        <5>1. /\ DOMAIN o \subseteq Nat /\ 1 \in DOMAIN o
              /\ o[1].key = "endpoint" /\ o[1].value = NoId
              /\ \A j \in DOMAIN o : j < 1 => o[j].key # "endpoint"
          BY <4>1
        <5> QED
          BY <5>1, FirstPairFound
      <4>2. CASE o = <<>> \/ o = <<Option("user", f)>>
        <5>1. \A j \in DOMAIN o : o[j].key # "endpoint"
          BY <4>2
        <5> QED
          BY <5>1, NoPairFound
      <4> QED
        BY <4>1, <4>2
    <3> QED
      BY <2>1, <2>3, <3>1 DEF ResolveEndpointID, Host, NoLabel
  <2> QED
    BY <2>2, <2>4, <2>5
<1> QED
  BY <1>1, PTL
=============================================================================
