# Sovereign Core: a TLA+ verification project

TLA+ models of the Go programs in this repository, the TLC configurations that
check them on small instances, and TLAPS proofs of their main safety properties
for every instance. Paths below are relative to `src/src/`.

## 1. Inventory

### Control plane (`controlplane/`)

| Component | State | Operations | What makes it correct |
|---|---|---|---|
| Warm pool (`warmpool.go`) | queue of warm instances, timestamps of acquires, hit and miss counters, under `p.mu` | `Acquire` (hit, miss, failed boot), refill, `Drain`, `Stats` | no instance lost or handed out twice; filled to its target, never beyond its maximum; cold boots only when that was impossible |
| Endpoint life (`app.go`) | goroutine locals | `StartEndpoint`, `SuspendEndpoint`, the wake hook | one compute stands for one endpoint, with that endpoint's branch attached; nothing visible half-made |
| Routing registry (`routing.go`) | `tbl`: endpoint id to address and state, under `r.mu` | `Register`, `SetState`, `Resolve`, `Deregister` (unused) | agrees with the store; a suspended endpoint is woken, another is not |
| Endpoint id (`routing.go`) | none | SNI, options and password fallbacks | all three reach the same endpoint |
| Operations and idempotency (`handlers.go`, `app.go`) | operation table, key table | `startOp`, goroutines of `CreateProject`, `CreateBranch`, `StartEndpoint` | an operation settles once, its result is there when it succeeds, each branch is billed once, nothing is built on what belongs to somebody else or is not ready; one key, one operation |
| Store (`store.go`, `model.go`) | maps and slices under `s.mu` | put, get by organisation, transitions, complete and fail, metering, keys | transitions follow the tables; lookups stay in the organisation |
| Onboarding (`app.go`) | none of its own | `Signup` | all of an organisation, or nothing; what the store has of one is complete |
| HTTP, token check, polling (`handlers.go`, `app.go`) | none | routes, `auth`, `waitOp` | claims come from the token only; any token that names an organisation is accepted |
| Ports and mocks (`ports.go`, `mocks.go`) | none | engine, KMS, vault, payment, identity | external |

A handler starts an operation and answers 202; a goroutine does the work
through the pool, the ports, the store and the registry, each with a lock of
its own and no lock around two of them. `Resolve` calls back into the
application (the wake hook), which uses pool, engine and store. What is hard
is therefore the interleaving between critical sections, the opposite orders
in which suspend and wake write store and registry, the reads `Resolve` makes
outside its lock, check-then-act on idempotency keys, and port calls that fail
after earlier steps have been made visible.

### Governance and training

| Component | State | Operations | What makes it correct |
|---|---|---|---|
| Change pipeline (`governance/change_pipeline/main.go`) | audit log of one request | `Handle`, seven gates over four ports | nothing executes that a gate should have stopped; the rail between development and infrastructure depends on no adapter; the audit explains the outcome |
| Solver (`governance/change_pipeline/solver.go`) | loop variables | `Plan`, `riskOf` | the first feasible candidate of greatest score |
| Engine boundary simulation (`governance/engine_boundary_sim`) | GPU pool | `RequestDev`, `OpsBurst`, two return paths | jobs are granted only what operations leave idle; code diffs are never applied at once nor written to infrastructure |
| Development engine flow (`training/dev_engine_flow`) | session memory | `handleDevRequest` | a session remembers what it queued and nothing else; a target classified as infrastructure stops before code is generated |

These are sequential programs with little state: what is hard is the order of
the gates and what any adapter behind a port may answer.

`PROJECT.json` lists every component with its status, and the hazards line by
line.

## 2. Modules

    WarmPool ---> Endpoints ---> MCEndpoints
       |              |  \
       |              |   +-- implements ComputeLease
       |              +--> EndpointsProofs ---> LeaseProofs
       +--> MCWarmPool
       +--> WarmPoolProofs

    Onboarding, EndpointId ---> Operations ---> MCOperations
                                    |  \
                                    |   +-- implements AtomicDelivery
                                    +--> OperationsProofs ---> DeliveryProofs

    Solver ---> ChangePipeline, EngineBoundary, DevEngine ---> MCChangePipeline
                  |  |               |              |
                  |  |               |              +--> DevEngineProofs
                  |  |               +--> BoundaryProofs
                  |  +--> ChangePipelineProofs
                  +-- implements GovernedChange

An arrow is EXTENDS (only ChangePipeline extends Solver); EndpointsProofs also
extends WarmPoolProofs. `ComputeLease`, `AtomicDelivery` and `GovernedChange`
are abstract specifications, instantiated with a refinement mapping.

**WarmPool.** Every method holds `p.mu` throughout, so each is one action:
`PoolHit`, `PoolMiss` and `PoolAcquireFails` are the three ways through
`Acquire`, each with its refill (`PoolReplenish`), which stops at the target or
at a boot that fails. `PoolAge` is time: timestamps leave the one-minute window
`recentAcquiresLocked` counts. Instances are numbered in boot order. `handed`,
`dropped`, `booted` and `short` are history variables. Only the walkthrough
calls `Drain`, so it is a step of the pool's own specification and not of
Endpoints. `PoolSpec` bounds the acquires for TLC; `PoolService` is the same pool
with callers that call it in any order and as often as they like, and it is what
the proofs are about.

**Endpoints** extends WarmPool. Endpoint ids, connections and suspends are
processes, one for each call. A step is one critical section, one port call, or
one unlocked read. Start: acquire, attach, credential and put, transition,
register, meter, complete. Connection: lookup under the lock, `b.state` and
`b.addr` without it, then, if it was suspended, the hook (acquire, attach,
transition) and the two writes under the lock, which may show in either order
to unlocked readers. Suspend: the store's lookup and the engine, registry,
store. Any port call named in `Fallible` may fail.

Two simplifications of unlocked reads are argued at their actions: a torn read
of `state` equals neither constant, as their lengths differ, so it counts as
not active; all host names have one length, so a torn address is one of the two
hosts. Callers belong to the endpoint's organisation, and hold ids they could
have learned: those of completed operations, or ids no endpoint has.

**ComputeLease** says what the calls of Endpoints promise together about
computes: one is leased to one endpoint and never again, filled with the data of
that endpoint's branch, and only then stands for it. The mapping (`Lease` in
Endpoints) reads `branchOf` as the home of an endpoint, `attached` as the data,
and takes as serving what the registry names and what connections were
answered. Program counters, locks and the pool disappear.

**Onboarding.** `Signup` is five steps: three port calls (key, customer, token),
of which each may fail, and two writes of the store. An organisation stands for
the call that makes it. `Authenticated` is `VerifyToken`: it accepts any token
that names an organisation and does not ask whether `Signup` issued it, so a
request may come for an organisation that is half made, or was never made.

**EndpointId** is `resolveEndpointID` as an operator: the first label of the
server name with at most one `-pooler` taken off, else the first `endpoint` pair
of the options, else what is before the semicolon of the password. `Host` and
`PooledHost` are the hosts of the two connection strings `StartEndpoint` makes.

**Operations** extends both. Requests are numbered; handler and goroutine of a
request are two processes. The lookup of the key, the creation of the operation
and the storing of the key are three steps of the handler; from the second on
the goroutine runs beside it. A request creates a project, a branch or an
endpoint, for any organisation, with any key, naming any project or
branch that some client could have read in a result: one of another
organisation stands for every id the store does not find. Branches and endpoints
go through the transition tables. Pool, engine and vault calls of a start are
one step, since Endpoints has them in detail.

**AtomicDelivery** is what a client sees of it: an operation is begun, and then
in one step fails, or delivers, is charged, and from then on can be built on by
its own organisation. The mapping (`Delivery` in Operations) shows an operation
from the moment it is stored, a result as live when the operation has
succeeded, and a charge when the operation it is for is complete: the metering
event written just before is subtracted (`Due`).

**Solver** and **ChangePipeline.** One action per gate, per candidate of the
solver's loop, per step of the plan. With `Adapters = "any"` the authenticator
and the policy answer what they like, the generator returns any list of
`CandidateLists`, the executor may fail after any step; with `"mock"` they are
the adapters of the source. The origin that gate 2 attests (`attested`) is one
of `Attestable`, whatever the request claims; the mock attests the claim. No
later gate reads it, in the code as in the model. Quantities are hundredths and weights tenths: exact integers,
so float rounding is out of the model. A `Target` is kept as whether it starts
with `infra/`, a summary as the substring a mock adapter looks for.

**GovernedChange** is the promise behind the gates: a change takes effect only by
a plan that was proposed for it, is feasible and needs no owner; the plan takes
effect step by step, each step once, none before the grant or after the verdict;
the owner is asked exactly for what needs the owner. The mapping (`Governed` in
ChangePipeline) folds the gates up to the plan into one stage, and takes the
plan as proposed when the solver's loop is through. Audit, policy decision and
candidates disappear.

**EngineBoundary.** The GPU pool, the code model and the ways of its returns,
called in any order where `main` calls them in one. `devJobs` is the history of
what `RequestDev` answered and of what operations used at that moment, as the
pool itself keeps no account.

**DevEngine.** `handleDevRequest` whole: recall, classification by first match,
generation or refusal, queueing, remembering. An utterance is the set of keyword
groups it contains. It is a program of its own: its `infra-iac` layer is refused
before the pipeline, whose rail looks for another prefix (`infra/`).

**MCChangePipeline** checks the three programs of this section in one run: they
are separate executables, so a behaviour is a run of one of them (`program`).

Definitions preceded by a comment "Mutation" model a plausible bug; nothing
uses them but the mutants of `PROJECT.json`, each of which breaks one property.

## 3. Runs

| Run | Instance | Shows |
|---|---|---|
| `warm_pool` | buffer 1.5, 1 to 3 warm, 4 acquires, failing boots, drains | `PoolPartition`, `PoolWithinCapacity`, `FilledToTarget`, `PoolAccounting`, `MissOnlyWhenShort` |
| `endpoints` | 2 endpoints, 2 branches, 2 connections, 1 suspend, every port may fail | `BackendExclusive`, `ServedIsAttached`, `PublishOrder`, `WakeHasCause`, `QuietAgreement`, `HandedIsAccounted`, and the refinement `LeaseKept` |
| `endpoints_progress` | 1 endpoint, 2 connections, 2 suspends, fair | `EveryCallReturns`, `PublishHoldsLock`, and again what a second suspend can disturb |
| `operations` | 2 signups, 3 requests, 1 key or none, failing payment, engine and compute | `SucceededIsReady`, `BranchInOwnProject`, `EndpointOnReadyBranch`, `StoredOrgsAreComplete`, `MeteringMatches`, `UriLeadsBack`, `ReplyNamesOperation`, `OpSettlesOnce`, `RetryReplays`, and the refinement `DeliveryIsAtomic` |
| `change_pipeline` | every combination of the fields the gates read, lists of up to 3 of 6 candidates, any adapters; 4 GPUs, usage up to 6, 3 jobs; 2 sessions, 3 turns | `PlanIsOptimal`, `ExecutionIsGated`, `DevNeverTouchesInfra`, `DeniedDiesAtPolicy`, `OutcomeIsAudited`; `JobsGetIdleOnly`, `ReturnsKeepApart`; `SessionsFollowTheirQueue`; and the refinement `HandledAsGoverned` |

Each also checks its module's type invariant, except `endpoints_progress`.
Deadlock is checked everywhere: the bounds end in explicit final actions
(`AllServed`, `Returned`, `ProgramEnds`, the last disjunct of `PoolNext`), so anything else
that stops is an error.

Seven runs end in a violation, of what a document or comment of the repository
says and the code does not keep:

| Run | Property | Disagreement |
|---|---|---|
| `lost_suspend` | `SuspendedWakesNext` | a wake overtakes a suspend: the store says suspended, the registry active, and no later connection wakes the endpoint (`controlplane/app.go:185`) |
| `double_wake` | `WokenIsRegistered` | two connections wake one endpoint twice; one is served by a compute the registry does not know (`controlplane/README.md:44`) |
| `registry_race` | `RegistryRaceFree` | `Resolve` reads a backend unlocked while another writes it (`controlplane/README.md:42`) |
| `same_key` | `SameKeySameOp` | concurrent requests with one key start two operations (`controlplane/main.go:133`) |
| `key_scope` | `ReplyIsPollable` | keys are shared by organisations (`controlplane/store.go:10`) |
| `partial_signup` | `SignupIsAtomic` | a `Signup` that fails leaves what it made before: a key, a customer, or an organisation whose owner has no token (`controlplane/app.go:63`) |
| `claimed_origin` | `AttestedOriginDecides` | a code change attested to be an outside agent's is executed without the owner when it claims another origin: gate 5 reads the claim (`change_pipeline/main.go:96`) |

Two more disagreements show on reading and have no run. `RequestDev` records no
grant: two jobs that ask one after the other are granted the same idle GPUs, and
`OpsBurst` takes nothing back, where `engine_boundary_sim/main.go:44` says that
jobs get the residual idle capacity and are preempted by a burst;
`JobsGetIdleOnly` is about each answer at its time. And `riskOf` has not
mockPlanner's rule that a schema drop is of high risk (`change_pipeline/main.go:310`),
where `change_pipeline/solver.go:128` says that the rules are inherited, so that
a reversible schema drop is executed without the owner.

**Why the bounds are enough.** Pool: four acquires take the target from its
minimum through the truncating product to the maximum, with a boot failing at
each. Endpoints: an interleaving hazard has two actors; two connections race
each other, a start, and a suspend on the same or on different endpoints. With
`MaxReady = 1` hits, misses and refills all occur. `MaxAcquires` bounds only the
pool's own specification; in Endpoints the number of calls bounds it.
Operations: two requests collide on a key and a third retries it; or one makes a
project, the next a branch in it, the third an endpoint on that branch, for the
same organisation or another. `operations` interleaves the two signups with each
other and lets requests in when both have returned, created or failed
(`SignupsFirst`): a signup and a request read and write different variables, so
their steps commute, and no property relates the two. The violations and the
proofs do without that constraint. Boundary: usage from nothing to above the pool, needs
below and at the pool's size, so that grants are full, partial and none in one
behaviour. Sessions: two turns of one session around one of the other, each
served or refused. Pipeline: three candidates have every order of
better, equal and infeasible. Connections, branches and endpoint ids (in
`endpoints`) and organisations (in `operations`) are used symmetrically; no run
with a liveness property uses symmetry.

**Fairness.** `FairEndpointSpec` assumes weak fairness of each started
goroutine's steps: the Go scheduler runs what can run, and a port call returns
or fails. `registry.mu` is only held for two assignments, and `sync.RWMutex`
lets a waiting writer in, so weak fairness of the waiting call is enough. No
request is assumed to come, and time need not pass.

## 4. Proofs

The eight proof modules are checked by TLAPS from the constants' named
assumptions alone: for every policy and number of acquires, every set of
endpoints, branches, connections and suspends, of requests, organisations and
keys, every set of failing calls, every list of candidates and every GPU pool.

**WarmPoolProofs.** The inductive invariant joins the type invariant, the
partition, the capacity and the fill level. The partition is the heart of it:
`ready` is the contiguous block of the last `Len(ready)` numbers booted, so a
head that leaves is in no other place, and what a refill appends is new.
`MissOnlyWhenShort` follows because a miss means an empty queue, and an unshort
empty queue means a target of zero. The theorems are about `PoolService`, so
they hold for every caller that keeps to the pool's methods; `PoolSpecServes`
adds that what TLC checks is such a caller.

**EndpointsProofs.** None of the properties is inductive alone. The
strengthening says which compute belongs to whom: `lease` is a function of the
instance, every local and every registry entry holds a leased instance, and
`attached` pairs leased instances with their endpoint's branch from the attach
step on. Publication needs what each program counter implies about the store
and the registry. Quiet agreement needs the fact that a registry entry is
suspended, while the store is still active, only if some call that will
reconcile the two is still in progress: a suspend before its store write, or a
wake before its publication. `PublishHoldsLock` is part of the invariant: a
connection between its two writes holds the lock, so the address and the state
it leaves are of the same call. The pool's part comes from lemmas about
`PoolAcquire` that are proved once; and since every step of Endpoints is a
`PoolCall` or leaves the pool alone (`PoolInUse`), what is proved of the pool by
itself holds of it under every load of starts and wakes (`PoolPromisesInUse`).

**LeaseProofs** uses that invariant for two results. Endpoints implements
ComputeLease: an acquire takes a number no lease has, since the pool's invariant
bounds all leases by what was booted; whatever serves after a step is leased and
filled; and no step changes what serves two endpoints (`ServingOfOne`), so each
is one abstract step of one endpoint or a stutter. And every compute ever booted
is accounted for: it is warm, or it is leased to an endpoint and then is what
the registry names for it, is held by a call in progress, or was forgotten in
one of two named ways: the call that took it failed, or the registry names the
compute of a wake in its place, be it that of the start or of an earlier wake.
That needs one more invariant (`WakesStand`): once a wake has published its
address, the registry names the compute of a wake for good. The first half joins the pool's partition with the fact that whoever gets a compute
leases it in the same step (`HandedLeased`).

**OperationsProofs.** The inductive invariant has one part for each way the
processes depend on each other: how far a signup is and what it has made
(`Signing`), how the places of handler and goroutine and the status go together
(`Phase`), what the goroutine has stored by then (`Stored`), that a request names
a settled result of the right kind (`Named`) and, past the lookup, one of its
own organisation (`Found`). `EndpointOnReadyBranch` then follows without any
look at the branch's state, because a succeeded operation never becomes
anything else. Retries need a further invariant (`KeysBound`): the key of an
answered request stays bound, to an operation made under it. With it,
`ReplyNamesOperation` says how far a wrong answer can go: a 202 names a stored
operation that is the request's own or was made under its key. That it may be
another organisation's is what the run `key_scope` shows. `UriLeadsBack` is a
proof about the fallback chain alone.

**DeliveryProofs** counts: usage is the cardinality of the operations that have
appended their event, and a step adds one to both or to neither. From it come
`MeteringMatches` and the refinement of AtomicDelivery, in which a metering
step is a stutter, as it adds one to usage and one to what is due.

**BoundaryProofs.** Each answer fits the pool beside the usage it was computed
from (`GrantWithinIdle`). A job's grant is at least what it would be granted now:
that is preserved when operations take more, and orders the grants among
themselves. That the grants together fit the pool is not true, and not claimed.

**ChangePipelineProofs.** The loop invariant of the solver is that `best` is
optimal among the candidates seen; the invariant of the pipeline gives, for
each gate, the audit so far and what the earlier gates established about
request and plan. Both hold with any adapters; what they say of the origin, they
say of the claimed one (`claimed_origin`). From this invariant each gate is a
step of GovernedChange or a stutter (`ChangesAreGoverned`): gate 5 decides by the
request and the chosen candidate, and from there on neither changes.

**DevEngineProofs.** `SessionsFollowTheirQueue` counts: the k-th turn a session
remembers is that of its k-th request that was queued. The proof is about how
such a count changes when one more request is handled: by one for the session
whose request was queued, by nothing for any other and for a refusal.

The list of theorems with the properties they establish is in `PROJECT.json`.

**Only model-checked.** `EveryCallReturns`, the only liveness property: fairness
and ENABLED are out of the prover's reach. What it needs of the lock, that no
path keeps it, is proved as `PublishHoldsLock`. Every invariant and every action
property that a passing run checks is the statement of a theorem. The violated
properties have counterexamples instead.

## 5. What is left

Everything in the source that changes state is an action of some module, but for
`Deregister`, which nothing calls. What could still be added needs code that is
not there: an operation that stops a compute, deletion of branches and
endpoints, a reader of a branch's parent, persistence. Endpoints and Operations
meet in `StartEndpoint`, in detail in the one and as one step in the other;
their product is too large for TLC and no property found so far needs it, since
a compute's history does not depend on whose request it serves.

## 6. Not modelled

JSON, routes, status codes and the validation of bodies (`handleSignup` asks for
`owner_user_id` in its message and reads `OwnerUserID`); the contents of keys,
credentials and tokens, of which only the organisation is kept; `Stats`, `JWKS`
and the reading endpoints, with the race of `handleGetEndpoint`, which
serialises a shared endpoint outside the lock; `Deregister` and the deletion of
branches and endpoints, which nothing calls; the parent of a branch, which
nothing reads; `waitOp`, which changes nothing and gives up by the wall clock,
and the walkthrough, a fixed order of calls; time other than the pool's window;
the memory that grows with `p.recent`, `metering` and the key table, which the
bounds cut off; printed lines of the simulations, and the text of diffs. Port
adapters are external: they succeed, or fail if `Fallible` names them, and a
failing call is taken to have had no effect.
