----------------------------- MODULE Operations -----------------------------
(***************************************************************************)
(* Asynchronous operations of the control plane: the handlers that start   *)
(* one under an Idempotency-Key (controlplane/handlers.go), the goroutines *)
(* of App.CreateProject, App.CreateBranch and App.StartEndpoint            *)
(* (controlplane/app.go) and the part of the Store they share              *)
(* (controlplane/store.go), beside the onboarding of organisations. A      *)
(* request comes for any organisation, onboarded or not.                   *)
(*                                                                         *)
(* Requests are numbered in the order they reach startOp. A number stands  *)
(* for one POST and, if it gets that far, for the operation it makes:      *)
(* newID never repeats, so the request names the operation, and the        *)
(* project, the branch or the endpoint that operation creates. The handler *)
(* and the goroutine it spawns are two processes with that number.         *)
(* A step is one critical section of the store or one call of a port. The  *)
(* pool, engine and vault calls of a start are one step here: Endpoints    *)
(* models them, with the registry, in detail.                              *)
(***************************************************************************)
EXTENDS Onboarding, EndpointId, FiniteSets

CONSTANTS
  MaxRequests, \* bound: POSTs that start an operation
  Keys,       \* Idempotency-Key values
  NoKey,      \* the header is absent
  NoOrg

ASSUME OperationsAssumption ==
  /\ MaxRequests \in Nat
  /\ NoKey \notin Keys
  /\ NoOrg \notin Orgs
  /\ NoId = 0

VARIABLES
  \* the handler of request r
  reqPc,
  reqOrg,     \* Claims.OrgID of its token
  reqKey,
  reqKind,
  reqTarget,  \* the project of a create_branch, the branch of a start_endpoint
  replyOp,    \* the operation_id of its 202
  \* the goroutine of operation r
  workPc,
  \* the store
  opStatus,   \* operations[r].Status, "none" before put
  projects,   \* operations whose project is in store.projects
  made,       \* State of the branch or endpoint of operation r, or "absent"
  metered,    \* usageRollup(org)["branch_ops"]
  idemp       \* store.idemp: the operation stored under a key

handlerVars == <<reqPc, reqOrg, reqKey, reqKind, reqTarget, replyOp>>
vars == <<onboardVars, handlerVars, workPc, opStatus, projects, made, metered,
          idemp>>

Requests == 1 .. MaxRequests

NoOp == 0

Kinds == {"create_project", "create_branch", "start_endpoint"}

-----------------------------------------------------------------------------
(* The store. *)

\* getProject and getBranch filter by organisation: what belongs to another
\* one is not found. Branches are found whatever their state.
GetProject(org, p) == p \in projects /\ reqOrg[p] = org

Branches == {b \in Requests : reqKind[b] # "start_endpoint" /\ made[b] # "absent"}

GetBranch(org, b) == b \in Branches /\ reqOrg[b] = org

transitions ==
  [creating |-> {"ready", "active", "deleted"}, ready |-> {"deleted"},
   active |-> {"suspended", "deleted"}]

\* idempLookup, which asks for the key alone. An absent key matches nothing.
IdempFound(key) == key # NoKey /\ idemp[key] # NoOp

-----------------------------------------------------------------------------
(* startOp. *)

\* The ids of a kind that some client could have read in the result of an
\* operation, whoever's it is: that of another organisation stands for every
\* id that the store does not find.
Readable(kinds) ==
  {q \in Requests : reqKind[q] \in kinds /\ opStatus[q] = "succeeded"}

\* What the path of a request of this kind may name.
Targets(kind) ==
  CASE kind = "create_project" -> {0}
    [] kind = "create_branch"  -> Readable({"create_project"})
    [] kind = "start_endpoint" -> Readable({"create_project", "create_branch"})

\* A request with a valid token arrives and startOp looks its key up.
Lookup(r, org, key, kind, target) ==
  /\ reqPc[r] = "idle"
  /\ reqOrg' = [reqOrg EXCEPT ![r] = org]
  /\ reqKey' = [reqKey EXCEPT ![r] = key]
  /\ reqKind' = [reqKind EXCEPT ![r] = kind]
  /\ reqTarget' = [reqTarget EXCEPT ![r] = target]
  /\ replyOp' = [replyOp EXCEPT ![r] = IF IdempFound(key) THEN idemp[key] ELSE NoOp]
  /\ reqPc' = [reqPc EXCEPT ![r] = IF IdempFound(key) THEN "replied" ELSE "make"]
  /\ UNCHANGED <<onboardVars, workPc, opStatus, projects, made, metered, idemp>>

\* Mutation: the goroutine, and not its caller, puts the operation.
MakeUnstored(r) ==
  /\ reqPc[r] = "make"
  /\ workPc' = [workPc EXCEPT ![r] = "engine"]
  /\ reqPc' = [reqPc EXCEPT ![r] = "store"]
  /\ UNCHANGED <<onboardVars, reqOrg, reqKey, reqKind, reqTarget, replyOp,
                 opStatus, projects, made, metered, idemp>>

\* The running operation is stored and its goroutine spawned.
Make(r) ==
  /\ reqPc[r] = "make"
  /\ opStatus' = [opStatus EXCEPT ![r] = "running"]
  /\ workPc' = [workPc EXCEPT ![r] = "engine"]
  /\ reqPc' = [reqPc EXCEPT ![r] = "store"]
  /\ UNCHANGED <<onboardVars, reqOrg, reqKey, reqKind, reqTarget, replyOp,
                 projects, made, metered, idemp>>

\* The handler's last step.
Reply(r) ==
  /\ reqPc[r] = "store"
  /\ replyOp' = [replyOp EXCEPT ![r] = r]
  /\ reqPc' = [reqPc EXCEPT ![r] = "replied"]
  /\ UNCHANGED <<onboardVars, reqOrg, reqKey, reqKind, reqTarget, workPc,
                 opStatus, projects, made, metered>>

\* Mutation: the key is not stored.
StoreKeySkipped(r) == Reply(r) /\ UNCHANGED idemp

\* idempStore, then the 202.
StoreKey(r) ==
  /\ Reply(r)
  /\ idemp' = [k \in Keys |-> IF k = reqKey[r] THEN r ELSE idemp[k]]

-----------------------------------------------------------------------------
(* The goroutines. *)

WorkGoes(r, from, to) ==
  /\ workPc[r] = from
  /\ workPc' = [workPc EXCEPT ![r] = to]
  /\ UNCHANGED <<onboardVars, handlerVars, idemp>>

\* Mutation: what the path names is looked up by its id alone.
TargetFoundById(r) ==
  CASE reqKind[r] = "create_project" -> TRUE
    [] reqKind[r] = "create_branch"  -> reqTarget[r] \in projects
    [] reqKind[r] = "start_endpoint" -> reqTarget[r] \in Branches

\* The lookup that CreateBranch and StartEndpoint begin with.
TargetFound(r) ==
  CASE reqKind[r] = "create_project" -> TRUE
    [] reqKind[r] = "create_branch"  -> GetProject(reqOrg[r], reqTarget[r])
    [] reqKind[r] = "start_endpoint" -> GetBranch(reqOrg[r], reqTarget[r])

\* CreateBranch of the engine, or what gives an endpoint its compute.
PortOf(r) == IF reqKind[r] = "start_endpoint" THEN "compute" ELSE "branch"

\* Mutation: the return after failOp is missing.
WorkFailsGoesOn(r) ==
  /\ WorkGoes(r, "engine", "put")
  /\ ~ TargetFound(r)
  /\ opStatus' = [opStatus EXCEPT ![r] = "failed"]
  /\ UNCHANGED <<projects, made, metered>>

\* failOp and return: what the path names is not found, or a port call fails.
WorkFails(r) ==
  /\ WorkGoes(r, "engine", "done")
  /\ ~ TargetFound(r) \/ PortOf(r) \in Fallible
  /\ opStatus' = [opStatus EXCEPT ![r] = "failed"]
  /\ UNCHANGED <<projects, made, metered>>

EngineReturns(r) ==
  /\ WorkGoes(r, "engine", IF reqKind[r] = "create_project" THEN "project" ELSE "put")
  /\ TargetFound(r)
  /\ UNCHANGED <<opStatus, projects, made, metered>>

PutProject(r) ==
  /\ WorkGoes(r, "project", "put")
  /\ projects' = projects \cup {r}
  /\ UNCHANGED <<opStatus, made, metered>>

\* The root branch of a new project is stored ready, anything else creating.
Put(r) ==
  /\ IF reqKind[r] = "create_project"
     THEN /\ WorkGoes(r, "put", "meter")
          /\ made' = [made EXCEPT ![r] = "ready"]
     ELSE /\ WorkGoes(r, "put", "transition")
          /\ made' = [made EXCEPT ![r] = "creating"]
  /\ UNCHANGED <<opStatus, projects, metered>>

\* Mutations: the wrong constant is passed; the branch stays as it was stored.
TransitionToDeleted(r) ==
  /\ WorkGoes(r, "transition", "meter")
  /\ made' = [made EXCEPT ![r] = "deleted"]
  /\ UNCHANGED <<opStatus, projects, metered>>

TransitionSkipped(r) ==
  /\ WorkGoes(r, "transition", "meter")
  /\ UNCHANGED <<opStatus, projects, made, metered>>

\* transitionBranch or transitionEndpoint, its error discarded.
Transition(r) ==
  LET to == IF reqKind[r] = "start_endpoint" THEN "active" ELSE "ready"
  IN  /\ WorkGoes(r, "transition", "meter")
      /\ made' = IF to \in transitions[made[r]] THEN [made EXCEPT ![r] = to] ELSE made
      /\ UNCHANGED <<opStatus, projects, metered>>

\* Mutation: the event is appended for children only, not for root branches.
MeterChildrenOnly(r) ==
  /\ WorkGoes(r, "meter", "complete")
  /\ metered' = IF reqKind[r] = "create_branch"
                THEN [metered EXCEPT ![reqOrg[r]] = @ + 1] ELSE metered
  /\ UNCHANGED <<opStatus, projects, made>>

\* One branch_ops; or cu_hours with the value 0, which no rollup shows.
Meter(r) ==
  /\ WorkGoes(r, "meter", "complete")
  /\ metered' = IF reqKind[r] = "start_endpoint" THEN metered
                ELSE [metered EXCEPT ![reqOrg[r]] = @ + 1]
  /\ UNCHANGED <<opStatus, projects, made>>

\* completeOp.
Complete(r) ==
  /\ WorkGoes(r, "complete", "done")
  /\ opStatus' = [opStatus EXCEPT ![r] = "succeeded"]
  /\ UNCHANGED <<projects, made, metered>>

-----------------------------------------------------------------------------
(* The specification. *)

Init ==
  /\ OnboardingInit
  /\ reqPc = [r \in Requests |-> "idle"]
  /\ reqOrg = [r \in Requests |-> NoOrg]
  /\ reqKey = [r \in Requests |-> NoKey]
  /\ reqKind = [r \in Requests |-> "none"]
  /\ reqTarget = [r \in Requests |-> 0]
  /\ replyOp = [r \in Requests |-> NoOp]
  /\ workPc = [r \in Requests |-> "idle"]
  /\ opStatus = [r \in Requests |-> "none"]
  /\ projects = {}
  /\ made = [r \in Requests |-> "absent"]
  /\ metered = [o \in Orgs |-> 0]
  /\ idemp = [k \in Keys |-> NoOp]

Signup(o) ==
  /\ SignupStep(o)
  /\ UNCHANGED <<handlerVars, workPc, opStatus, projects, made, metered, idemp>>

Arrive(r) ==
  /\ \A q \in Requests : q < r => reqPc[q] # "idle"
  /\ \E org \in Authenticated, key \in Keys \cup {NoKey}, kind \in Kinds :
       \E target \in Targets(kind) : Lookup(r, org, key, kind, target)

HandlerStep(r) == Make(r) \/ StoreKey(r)

WorkStep(r) ==
  \/ WorkFails(r) \/ EngineReturns(r) \/ PutProject(r) \/ Put(r)
  \/ Transition(r) \/ Meter(r) \/ Complete(r)

\* Every signup has returned, every request that the bound allows has been
\* replied to, every goroutine has ended.
AllServed ==
  /\ \A o \in Orgs : signPc[o] \in {"created", "failed"}
  /\ \A r \in Requests : reqPc[r] = "replied" /\ workPc[r] \in {"idle", "done"}
  /\ UNCHANGED vars

Next ==
  \/ \E o \in Orgs : Signup(o)
  \/ \E r \in Requests : Arrive(r) \/ HandlerStep(r) \/ WorkStep(r)
  \/ AllServed

Spec == Init /\ [][Next]_vars

-----------------------------------------------------------------------------
(* Properties. *)

Settled == {"succeeded", "failed"}

\* The variables hold what the program's fields and locals can hold.
TypeOK ==
  /\ signPc \in [Orgs -> SignPcs]
  /\ {keks, customers, orgs, owners} \subseteq SUBSET Orgs
  /\ reqPc \in [Requests -> {"idle", "make", "store", "replied"}]
  /\ reqOrg \in [Requests -> Orgs \cup {NoOrg}]
  /\ reqKey \in [Requests -> Keys \cup {NoKey}]
  /\ reqKind \in [Requests -> Kinds \cup {"none"}]
  /\ reqTarget \in [Requests -> Requests \cup {0}]
  /\ replyOp \in [Requests -> Requests \cup {NoOp}]
  /\ workPc \in [Requests -> {"idle", "engine", "project", "put",
                              "transition", "meter", "complete", "done"}]
  /\ opStatus \in [Requests -> {"none", "running"} \cup Settled]
  /\ projects \in SUBSET Requests
  /\ made \in [Requests -> {"absent", "creating", "ready", "active"}]
  /\ metered \in [Orgs -> Nat]
  /\ idemp \in [Keys -> Requests \cup {NoOp}]

\* What operation r makes is in the store and can be used.
Usable(r) ==
  /\ made[r] = IF reqKind[r] = "start_endpoint" THEN "active" ELSE "ready"
  /\ reqKind[r] = "create_project" => r \in projects

\* A client that sees its operation succeeded finds what it asked for: the
\* project if there is one, and a branch that is ready or an endpoint that is
\* active.
SucceededIsReady ==
  \A r \in Requests : opStatus[r] = "succeeded" => Usable(r)

\* A branch is stored only under a project of the organisation that asked for
\* it, although clients may name any project and requests interleave freely.
BranchInOwnProject ==
  \A r \in Branches :
    LET p == IF reqKind[r] = "create_project" THEN r ELSE reqTarget[r]
    IN  p \in projects /\ reqOrg[p] = reqOrg[r]

\* An endpoint is stored only on a branch of its organisation that is ready,
\* although StartEndpoint does not look at the branch's state: an id gets out
\* only in the result of the operation that made the branch.
EndpointOnReadyBranch ==
  \A r \in Requests : reqKind[r] = "start_endpoint" /\ made[r] # "absent" =>
    /\ reqTarget[r] \in Branches
    /\ made[reqTarget[r]] = "ready"
    /\ reqOrg[reqTarget[r]] = reqOrg[r]

\* Usage counts each branch once: an organisation is never charged for an
\* operation that failed, nor spared one it sees as succeeded, so the two
\* numbers are equal whenever none of its operations is running.
MeteringMatches ==
  \A o \in Orgs :
    LET Ops(S) == Cardinality({r \in Requests :
                    reqOrg[r] = o /\ reqKind[r] # "start_endpoint" /\ opStatus[r] \in S})
    IN  /\ Ops({"succeeded"}) <= metered[o]
        /\ metered[o] <= Ops({"succeeded", "running"})

\* A connection that names a started endpoint reaches it and no other: by the
\* host of either connection string, whatever its options and password say; by
\* options without a server name, after other options; or before its password.
UriLeadsBack ==
  \A e \in Requests : reqKind[e] = "start_endpoint" /\ opStatus[e] = "succeeded" =>
    LET Option(k, v)    == [key |-> k, value |-> v]
        named           == [prefixed |-> TRUE, id |-> e, semicolon |-> TRUE]
        Reaches(s, o, p) ==
          ResolveEndpointID([sni |-> s, options |-> o, password |-> p]) = Host(e)
    IN  \A f \in Requests :
          LET other == [named EXCEPT !.id = f]
          IN  /\ \A s \in {Host(e), PooledHost(e)} :
                   Reaches(s, <<Option("endpoint", f)>>, other)
              /\ Reaches(NoLabel, <<Option("user", f), Option("endpoint", e),
                                    Option("endpoint", f)>>, other)
              /\ \A o \in {<<>>, <<Option("endpoint", NoId)>>, <<Option("user", f)>>} :
                   Reaches(NoLabel, o, named)

\* A settled operation never changes its status again, so a result that a
\* client polled stays true.
OpSettlesOnce ==
  [][\A r \in Requests : opStatus[r] \in Settled => opStatus'[r] = opStatus[r]]_vars

\* A retry that is sent after any request with its key has been answered makes
\* no operation: it is answered at once with one made under that key.
RetryReplays ==
  [][\A q, r \in Requests :
       /\ reqPc[q] = "replied" /\ reqKey[q] # NoKey
       /\ reqPc[r] = "idle" /\ reqPc'[r] # "idle" /\ reqKey'[r] = reqKey[q]
       => /\ reqPc'[r] = "replied"
          /\ reqKey[replyOp'[r]] = reqKey[q]]_vars

\* Every 202 names an operation that the store already has: the one that the
\* request made, or, if it came with a key, one that a request with this key
\* made, of whichever organisation. A key never leads to an operation that was
\* not stored yet, or to another key's; a client of the operation's own
\* organisation that polls at once finds it.
ReplyNamesOperation ==
  \A r \in Requests : reqPc[r] = "replied" =>
    LET q == replyOp[r]
    IN  /\ q = r \/ (q \in Requests /\ reqKey[r] # NoKey /\ reqKey[q] = reqKey[r])
        /\ opStatus[q] # "none"

\* The operations as a client sees them that learns ids from results only.
Seen(f, unseen) == [r \in Requests |-> IF opStatus[r] = "none" THEN unseen ELSE f[r]]

Delivered == {r \in Requests : opStatus[r] = "succeeded" /\ Usable(r)}

\* What an organisation is charged for before it is told of it.
Due(o) == {r \in Requests : /\ reqOrg[r] = o /\ workPc[r] = "complete"
                            /\ reqKind[r] # "start_endpoint"}

Charges == [o \in Orgs |-> metered[o] - Cardinality(Due(o))]

Delivery == INSTANCE AtomicDelivery WITH
  Ops     <- Requests,
  NoKind  <- "none",
  status  <- opStatus,
  kind    <- Seen(reqKind, "none"),
  owner   <- Seen(reqOrg, NoOrg),
  on      <- Seen(reqTarget, NoOp),
  live    <- Delivered,
  charged <- Charges

\* The steps of a goroutine, each visible to every other one, amount to the
\* one step of AtomicDelivery: no client sees, uses or pays for half of it.
DeliveryIsAtomic == Delivery!Spec

-----------------------------------------------------------------------------
(* What the documentation says and the code does not keep. *)

\* app.go says that onboarding is atomic and creates nothing in part. What a
\* Signup that returned an error has left behind must be nothing.
SignupIsAtomic ==
  \A o \in Orgs : signPc[o] = "failed" => o \notin keks \cup customers \cup orgs \cup owners

\* main.go says that a request repeated with its key gets the same operation.
\* Two requests of one organisation with one key must get one operation id.
SameKeySameOp ==
  \A q, r \in Requests :
    /\ reqPc[q] = "replied" /\ reqPc[r] = "replied"
    /\ reqOrg[q] = reqOrg[r]
    /\ reqKey[q] = reqKey[r] /\ reqKey[q] # NoKey
    => replyOp[q] = replyOp[r]

\* store.go says every lookup is filtered by org_id. An operation id handed to
\* a client must be one that its organisation can poll.
ReplyIsPollable ==
  \A r \in Requests : reqPc[r] = "replied" => reqOrg[replyOp[r]] = reqOrg[r]
=============================================================================
