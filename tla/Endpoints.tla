----------------------------- MODULE Endpoints -----------------------------
(***************************************************************************)
(* The life of an endpoint in the control plane: the goroutines of         *)
(* App.StartEndpoint and App.SuspendEndpoint (controlplane/app.go), the    *)
(* connections that RoutingRegistry.Resolve routes and wakes               *)
(* (controlplane/routing.go), and the endpoint table of the Store          *)
(* (controlplane/store.go), on top of the warm pool.                       *)
(*                                                                         *)
(* A process is one call: an endpoint id e stands for the goroutine whose  *)
(* newID("ep") it is, a member of Conns for one call of ResolveConnection, *)
(* a member of Suspends for one call of SuspendEndpoint. A step is the     *)
(* longest stretch that other goroutines cannot observe half done: one     *)
(* critical section of the store, of the registry or of the pool, one call *)
(* of a port, or one of the reads of *backend that Resolve makes after it  *)
(* has given its lock back.                                                *)
(*                                                                         *)
(* The callers belong to the endpoint's own organisation: the store's      *)
(* org_id filter is modelled in Operations.                                *)
(***************************************************************************)
EXTENDS WarmPool

CONSTANTS
  EndpointIds,  \* the ids newID("ep") draws, one for each start operation
  Branches,     \* branches that are in the store
  NoBranch,     \* a branch id getBranch does not find
  Conns,        \* calls of ResolveConnection
  NoConn,
  Suspends,     \* calls of SuspendEndpoint
  NoEndpoint

ASSUME ProcessAssumption ==
  /\ NoBranch \notin Branches
  /\ NoConn \notin Conns
  /\ NoEndpoint \notin EndpointIds

VARIABLES
  \* the start operations
  opStatus,     \* Operation.Status
  branchOf,     \* branch id of the request, later Endpoint.BranchID
  startPc,
  startInst,    \* inst of the goroutine, 0 before it has one
  \* the store
  epState,      \* Endpoint.State, "absent" before put
  metered,      \* endpoints with a cu_hours event in store.metering
  \* the routing registry; an instance stands for its host
  tblAddr,      \* tbl[e].addr, 0 without an entry
  tblState,     \* tbl[e].state, "absent" without an entry
  writer,       \* the connection that holds registry.mu for writing
  \* the connections
  connPc,
  connEp,       \* endpointID
  connInst,     \* inst of the wake hook, 0 without a wake
  connAddr,     \* the address returned, 0 if there is none
  connResult,
  \* the suspends
  suspPc,
  suspEp,
  suspResult,
  \* the engine, and history
  attached,     \* pairs <<instance, branch>> AttachBranch was called for
  lease         \* history: <<instance, endpoint>> for each Acquire

opVars       == <<opStatus, branchOf, startPc, startInst>>
storeVars    == <<epState, metered>>
registryVars == <<tblAddr, tblState, writer>>
connVars     == <<connPc, connEp, connInst, connAddr, connResult>>
suspVars     == <<suspPc, suspEp, suspResult>>
engineVars   == <<attached, lease>>

endpointVars ==
  <<poolVars, opVars, storeVars, registryVars, connVars, suspVars, engineVars>>

-----------------------------------------------------------------------------
(* The endpoint state machine and the registry's lock. *)

endpointTransitions ==
  [creating  |-> {"active", "deleted"},
   active    |-> {"suspended", "deleted"},
   suspended |-> {"active", "deleted"},
   deleted   |-> {}]

CanTransition(e, to) ==
  /\ epState[e] # "absent"
  /\ to \in endpointTransitions[epState[e]]

\* transitionEndpoint by a caller that discards its error.
TryTransition(e, to) ==
  epState' = IF CanTransition(e, to) THEN [epState EXCEPT ![e] = to] ELSE epState

RegistryUnlocked == writer = NoConn

Registered(e) == tblState[e] # "absent"

-----------------------------------------------------------------------------
(* StartEndpoint and its goroutine. *)

\* The request: a running operation is stored and the goroutine spawned.
StartOp(e, b) ==
  /\ opStatus[e] = "none"
  /\ opStatus' = [opStatus EXCEPT ![e] = "running"]
  /\ branchOf' = [branchOf EXCEPT ![e] = b]
  /\ startPc' = [startPc EXCEPT ![e] = "acquire"]
  /\ UNCHANGED <<startInst, poolVars, storeVars, registryVars, connVars,
                 suspVars, engineVars>>

\* failOp and return. An instance already acquired is not given back.
StartFails(e) ==
  /\ opStatus' = [opStatus EXCEPT ![e] = "failed"]
  /\ startPc' = [startPc EXCEPT ![e] = "done"]
  /\ UNCHANGED <<branchOf, startInst, storeVars, registryVars, connVars,
                 suspVars, engineVars>>

StartBranchNotFound(e) ==
  /\ startPc[e] = "acquire"
  /\ branchOf[e] = NoBranch
  /\ StartFails(e)
  /\ UNCHANGED poolVars

StartAcquire(e) ==
  /\ startPc[e] = "acquire"
  /\ branchOf[e] # NoBranch
  /\ PoolAcquire(NextInstance)
  /\ startInst' = [startInst EXCEPT ![e] = NextInstance]
  /\ lease' = lease \cup {<<NextInstance, e>>}
  /\ startPc' = [startPc EXCEPT ![e] = "attach"]
  /\ UNCHANGED <<opStatus, branchOf, storeVars, registryVars, connVars,
                 suspVars, attached>>

StartAcquireFails(e) ==
  /\ startPc[e] = "acquire"
  /\ branchOf[e] # NoBranch
  /\ PoolAcquireFails
  /\ StartFails(e)

StartAttach(e) ==
  /\ startPc[e] = "attach"
  /\ attached' = attached \cup {<<startInst[e], branchOf[e]>>}
  /\ startPc' = [startPc EXCEPT ![e] = "put"]
  /\ UNCHANGED <<opStatus, branchOf, startInst, poolVars, storeVars,
                 registryVars, connVars, suspVars, lease>>

StartAttachFails(e) ==
  /\ startPc[e] = "attach"
  /\ "attach" \in Fallible
  /\ StartFails(e)
  /\ UNCHANGED poolVars

\* Mutation: the endpoint is stored without a state.
StartPutUnset(e) ==
  /\ startPc[e] = "put"
  /\ epState' = [epState EXCEPT ![e] = ""]
  /\ startPc' = [startPc EXCEPT ![e] = "transition"]
  /\ UNCHANGED <<opStatus, branchOf, startInst, metered, poolVars,
                 registryVars, connVars, suspVars, engineVars>>

\* IssueDBCredential, then put of the endpoint in state creating.
StartPut(e) ==
  /\ startPc[e] = "put"
  /\ epState' = [epState EXCEPT ![e] = "creating"]
  /\ startPc' = [startPc EXCEPT ![e] = "transition"]
  /\ UNCHANGED <<opStatus, branchOf, startInst, metered, poolVars,
                 registryVars, connVars, suspVars, engineVars>>

StartCredentialFails(e) ==
  /\ startPc[e] = "put"
  /\ "credential" \in Fallible
  /\ StartFails(e)
  /\ UNCHANGED poolVars

\* Mutation: the endpoint is never registered.
StartTransitionOnly(e) ==
  /\ startPc[e] = "transition"
  /\ TryTransition(e, "active")
  /\ startPc' = [startPc EXCEPT ![e] = "meter"]
  /\ UNCHANGED <<opStatus, branchOf, startInst, metered, poolVars,
                 registryVars, connVars, suspVars, engineVars>>

StartTransition(e) ==
  /\ startPc[e] = "transition"
  /\ TryTransition(e, "active")
  /\ startPc' = [startPc EXCEPT ![e] = "register"]
  /\ UNCHANGED <<opStatus, branchOf, startInst, metered, poolVars,
                 registryVars, connVars, suspVars, engineVars>>

\* Mutation: the state registered is the one the endpoint was stored with.
StartRegisterCreating(e) ==
  /\ startPc[e] = "register"
  /\ RegistryUnlocked
  /\ tblAddr' = [tblAddr EXCEPT ![e] = startInst[e]]
  /\ tblState' = [tblState EXCEPT ![e] = "creating"]
  /\ startPc' = [startPc EXCEPT ![e] = "meter"]
  /\ UNCHANGED <<opStatus, branchOf, startInst, writer, poolVars, storeVars,
                 connVars, suspVars, engineVars>>

StartRegister(e) ==
  /\ startPc[e] = "register"
  /\ RegistryUnlocked
  /\ tblAddr' = [tblAddr EXCEPT ![e] = startInst[e]]
  /\ tblState' = [tblState EXCEPT ![e] = "active"]
  /\ startPc' = [startPc EXCEPT ![e] = "meter"]
  /\ UNCHANGED <<opStatus, branchOf, startInst, writer, poolVars, storeVars,
                 connVars, suspVars, engineVars>>

StartMeter(e) ==
  /\ startPc[e] = "meter"
  /\ metered' = metered \cup {e}
  /\ startPc' = [startPc EXCEPT ![e] = "complete"]
  /\ UNCHANGED <<opStatus, branchOf, startInst, epState, poolVars,
                 registryVars, connVars, suspVars, engineVars>>

\* completeOp: from here on a client can learn the endpoint's id.
StartComplete(e) ==
  /\ startPc[e] = "complete"
  /\ opStatus' = [opStatus EXCEPT ![e] = "succeeded"]
  /\ startPc' = [startPc EXCEPT ![e] = "done"]
  /\ UNCHANGED <<branchOf, startInst, poolVars, storeVars, registryVars,
                 connVars, suspVars, engineVars>>

-----------------------------------------------------------------------------
(* Resolve and the wake hook. *)

\* The ids a caller may hold: of an endpoint whose operation has succeeded, or
\* one that no endpoint has. That of an operation still running is not out yet.
Known(e) == opStatus[e] # "running"

\* The lookup in tbl, the only read of Resolve that holds the lock.
ConnLookup(c, e) ==
  /\ connPc[c] = "idle"
  /\ Known(e)
  /\ RegistryUnlocked
  /\ connEp' = [connEp EXCEPT ![c] = e]
  /\ IF Registered(e)
     THEN /\ connPc' = [connPc EXCEPT ![c] = "state"]
          /\ UNCHANGED connResult
     ELSE /\ connPc' = [connPc EXCEPT ![c] = "done"]
          /\ connResult' = [connResult EXCEPT ![c] = "notfound"]
  /\ UNCHANGED <<connInst, connAddr, poolVars, opVars, storeVars,
                 registryVars, suspVars, engineVars>>

\* b.state, read without the lock. Writers store one of two constants, of
\* different lengths: a torn read does not equal "active" either.
ConnReadState(c) ==
  /\ connPc[c] = "state"
  /\ connPc' = [connPc EXCEPT ![c] =
                  IF tblState[connEp[c]] = "active" THEN "addr" ELSE "wake"]
  /\ UNCHANGED <<connEp, connInst, connAddr, connResult, poolVars, opVars,
                 storeVars, registryVars, suspVars, engineVars>>

\* b.addr, read without the lock. All hosts have the same length, so a torn
\* read is the old host or the new one.
ConnReadAddr(c) ==
  /\ connPc[c] = "addr"
  /\ connAddr' = [connAddr EXCEPT ![c] = tblAddr[connEp[c]]]
  /\ connResult' = [connResult EXCEPT ![c] = "served"]
  /\ connPc' = [connPc EXCEPT ![c] = "done"]
  /\ UNCHANGED <<connEp, connInst, poolVars, opVars, storeVars, registryVars,
                 suspVars, engineVars>>

\* The hook: endpointRef, which finds every registered endpoint (see
\* PublishOrder), and Acquire.
ConnWakeAcquire(c) ==
  /\ connPc[c] = "wake"
  /\ epState[connEp[c]] # "absent"
  /\ PoolAcquire(NextInstance)
  /\ connInst' = [connInst EXCEPT ![c] = NextInstance]
  /\ lease' = lease \cup {<<NextInstance, connEp[c]>>}
  /\ connPc' = [connPc EXCEPT ![c] = "attach"]
  /\ UNCHANGED <<connEp, connAddr, connResult, opVars, storeVars,
                 registryVars, suspVars, attached>>

\* The hook returns an error, and Resolve wraps it.
ConnWakeFails(c) ==
  /\ connResult' = [connResult EXCEPT ![c] = "failed"]
  /\ connPc' = [connPc EXCEPT ![c] = "done"]
  /\ UNCHANGED <<connEp, connInst, connAddr, opVars, storeVars, registryVars,
                 suspVars, engineVars>>

ConnWakeAcquireFails(c) ==
  /\ connPc[c] = "wake"
  /\ PoolAcquireFails
  /\ ConnWakeFails(c)

\* Mutation: the hook forgets AttachBranch.
ConnWakeAttachSkipped(c) ==
  /\ connPc[c] = "attach"
  /\ connPc' = [connPc EXCEPT ![c] = "transition"]
  /\ UNCHANGED <<connEp, connInst, connAddr, connResult, poolVars, opVars,
                 storeVars, registryVars, suspVars, engineVars>>

ConnWakeAttach(c) ==
  /\ connPc[c] = "attach"
  /\ attached' = attached \cup {<<connInst[c], branchOf[connEp[c]]>>}
  /\ connPc' = [connPc EXCEPT ![c] = "transition"]
  /\ UNCHANGED <<connEp, connInst, connAddr, connResult, poolVars, opVars,
                 storeVars, registryVars, suspVars, lease>>

ConnWakeAttachFails(c) ==
  /\ connPc[c] = "attach"
  /\ "attach" \in Fallible
  /\ ConnWakeFails(c)
  /\ UNCHANGED poolVars

\* The hook discards the error of transitionEndpoint.
ConnWakeTransition(c) ==
  /\ connPc[c] = "transition"
  /\ TryTransition(connEp[c], "active")
  /\ connPc' = [connPc EXCEPT ![c] = "publish"]
  /\ UNCHANGED <<connEp, connInst, connAddr, connResult, metered, poolVars,
                 opVars, registryVars, suspVars, engineVars>>

\* Resolve takes the lock and writes b.addr and b.state. The lock does not
\* order the two writes for the readers above, so either may show first.
ConnPublishAddrFirst(c) ==
  /\ connPc[c] = "publish"
  /\ RegistryUnlocked
  /\ writer' = c
  /\ tblAddr' = [tblAddr EXCEPT ![connEp[c]] = connInst[c]]
  /\ connPc' = [connPc EXCEPT ![c] = "publishState"]
  /\ UNCHANGED <<connEp, connInst, connAddr, connResult, tblState, poolVars,
                 opVars, storeVars, suspVars, engineVars>>

ConnPublishStateFirst(c) ==
  /\ connPc[c] = "publish"
  /\ RegistryUnlocked
  /\ writer' = c
  /\ tblState' = [tblState EXCEPT ![connEp[c]] = "active"]
  /\ connPc' = [connPc EXCEPT ![c] = "publishAddr"]
  /\ UNCHANGED <<connEp, connInst, connAddr, connResult, tblAddr, poolVars,
                 opVars, storeVars, suspVars, engineVars>>

\* Mutation: the unlock is missing.
ConnServeWokenLocked(c) ==
  /\ connAddr' = [connAddr EXCEPT ![c] = connInst[c]]
  /\ connResult' = [connResult EXCEPT ![c] = "served"]
  /\ connPc' = [connPc EXCEPT ![c] = "done"]
  /\ UNCHANGED <<writer, connEp, connInst, poolVars, opVars, storeVars,
                 suspVars, engineVars>>

\* The other write; then Resolve unlocks and returns the address of the hook.
ConnServeWoken(c) ==
  /\ connAddr' = [connAddr EXCEPT ![c] = connInst[c]]
  /\ connResult' = [connResult EXCEPT ![c] = "served"]
  /\ connPc' = [connPc EXCEPT ![c] = "done"]
  /\ writer' = NoConn
  /\ UNCHANGED <<connEp, connInst, poolVars, opVars, storeVars, suspVars,
                 engineVars>>

ConnPublishState(c) ==
  /\ connPc[c] = "publishState"
  /\ tblState' = [tblState EXCEPT ![connEp[c]] = "active"]
  /\ UNCHANGED tblAddr
  /\ ConnServeWoken(c)

ConnPublishAddr(c) ==
  /\ connPc[c] = "publishAddr"
  /\ tblAddr' = [tblAddr EXCEPT ![connEp[c]] = connInst[c]]
  /\ UNCHANGED tblState
  /\ ConnServeWoken(c)

-----------------------------------------------------------------------------
(* SuspendEndpoint. *)

SuspendReturns(s, r) ==
  /\ suspResult' = [suspResult EXCEPT ![s] = r]
  /\ suspPc' = [suspPc EXCEPT ![s] = "done"]

\* getEndpoint, then the engine is told to suspend. A client that has seen no
\* endpoint with this id gets an error.
SuspendBegin(s, e) ==
  /\ suspPc[s] = "idle"
  /\ Known(e)
  /\ suspEp' = [suspEp EXCEPT ![s] = e]
  /\ IF epState[e] = "absent"
     THEN SuspendReturns(s, "notfound")
     ELSE /\ suspPc' = [suspPc EXCEPT ![s] = "registry"]
          /\ UNCHANGED suspResult
  /\ UNCHANGED <<poolVars, opVars, storeVars, registryVars, connVars,
                 engineVars>>

SuspendEngineFails(s, e) ==
  /\ suspPc[s] = "idle"
  /\ Known(e)
  /\ epState[e] # "absent"
  /\ "suspend" \in Fallible
  /\ suspEp' = [suspEp EXCEPT ![s] = e]
  /\ SuspendReturns(s, "failed")
  /\ UNCHANGED <<poolVars, opVars, storeVars, registryVars, connVars,
                 engineVars>>

\* Mutation: the lock is not taken.
SuspendRegistryUnlocked(s) ==
  /\ suspPc[s] = "registry"
  /\ tblState' = [tblState EXCEPT ![suspEp[s]] =
                    IF Registered(suspEp[s]) THEN "suspended" ELSE @]
  /\ suspPc' = [suspPc EXCEPT ![s] = "store"]
  /\ UNCHANGED <<suspEp, suspResult, tblAddr, writer, poolVars, opVars,
                 storeVars, connVars, engineVars>>

\* registry.SetState: the next connection must wake the endpoint.
SuspendRegistry(s) ==
  /\ suspPc[s] = "registry"
  /\ RegistryUnlocked
  /\ tblState' = [tblState EXCEPT ![suspEp[s]] =
                    IF Registered(suspEp[s]) THEN "suspended" ELSE @]
  /\ suspPc' = [suspPc EXCEPT ![s] = "store"]
  /\ UNCHANGED <<suspEp, suspResult, tblAddr, writer, poolVars, opVars,
                 storeVars, connVars, engineVars>>

\* Mutation: the store is not told.
SuspendStoreSkipped(s) ==
  /\ suspPc[s] = "store"
  /\ SuspendReturns(s, "ok")
  /\ UNCHANGED <<suspEp, poolVars, opVars, storeVars, registryVars, connVars,
                 engineVars>>

\* store.transitionEndpoint, whose error the caller gets to see.
SuspendStore(s) ==
  /\ suspPc[s] = "store"
  /\ TryTransition(suspEp[s], "suspended")
  /\ SuspendReturns(s, IF CanTransition(suspEp[s], "suspended") THEN "ok"
                                                                ELSE "forbidden")
  /\ UNCHANGED <<suspEp, metered, poolVars, opVars, registryVars, connVars,
                 engineVars>>

-----------------------------------------------------------------------------
(* The specification. *)

EndpointInit ==
  /\ PoolInit
  /\ opStatus = [e \in EndpointIds |-> "none"]
  /\ branchOf = [e \in EndpointIds |-> NoBranch]
  /\ startPc = [e \in EndpointIds |-> "idle"]
  /\ startInst = [e \in EndpointIds |-> 0]
  /\ epState = [e \in EndpointIds |-> "absent"]
  /\ metered = {}
  /\ tblAddr = [e \in EndpointIds |-> 0]
  /\ tblState = [e \in EndpointIds |-> "absent"]
  /\ writer = NoConn
  /\ connPc = [c \in Conns |-> "idle"]
  /\ connEp = [c \in Conns |-> NoEndpoint]
  /\ connInst = [c \in Conns |-> 0]
  /\ connAddr = [c \in Conns |-> 0]
  /\ connResult = [c \in Conns |-> "none"]
  /\ suspPc = [s \in Suspends |-> "idle"]
  /\ suspEp = [s \in Suspends |-> NoEndpoint]
  /\ suspResult = [s \in Suspends |-> "none"]
  /\ attached = {}
  /\ lease = {}

StartStep(e) ==
  \/ StartBranchNotFound(e) \/ StartAcquire(e) \/ StartAcquireFails(e)
  \/ StartAttach(e) \/ StartAttachFails(e)
  \/ StartPut(e) \/ StartCredentialFails(e)
  \/ StartTransition(e) \/ StartRegister(e) \/ StartMeter(e) \/ StartComplete(e)

ConnStep(c) ==
  \/ ConnReadState(c) \/ ConnReadAddr(c)
  \/ ConnWakeAcquire(c) \/ ConnWakeAcquireFails(c)
  \/ ConnWakeAttach(c) \/ ConnWakeAttachFails(c) \/ ConnWakeTransition(c)
  \/ ConnPublishAddrFirst(c) \/ ConnPublishStateFirst(c)
  \/ ConnPublishState(c) \/ ConnPublishAddr(c)

SuspendStep(s) == SuspendRegistry(s) \/ SuspendStore(s)

Requests ==
  \/ \E e \in EndpointIds, b \in Branches \cup {NoBranch} : StartOp(e, b)
  \/ \E c \in Conns, e \in EndpointIds : ConnLookup(c, e)
  \/ \E s \in Suspends, e \in EndpointIds :
       SuspendBegin(s, e) \/ SuspendEngineFails(s, e)

\* The one-minute window moves on while calls are in progress.
TimePasses ==
  /\ PoolAge
  /\ UNCHANGED <<opVars, storeVars, registryVars, connVars, suspVars, engineVars>>

\* No call is in progress.
Quiet ==
  /\ \A e \in EndpointIds : opStatus[e] # "running"
  /\ \A c \in Conns : connPc[c] \in {"idle", "done"}
  /\ \A s \in Suspends : suspPc[s] \in {"idle", "done"}

\* Every call the bounds allow has returned.
AllServed ==
  /\ Quiet
  /\ \A e \in EndpointIds : opStatus[e] # "none"
  /\ \A c \in Conns : connPc[c] = "done"
  /\ \A s \in Suspends : suspPc[s] = "done"
  /\ UNCHANGED endpointVars

EndpointNext ==
  \/ Requests
  \/ \E e \in EndpointIds : StartStep(e)
  \/ \E c \in Conns : ConnStep(c)
  \/ \E s \in Suspends : SuspendStep(s)
  \/ TimePasses
  \/ AllServed

EndpointSpec == EndpointInit /\ [][EndpointNext]_endpointVars

\* The Go scheduler runs every goroutine that can run, and a port call returns.
\* Requests themselves need never come.
EndpointFairness ==
  /\ \A e \in EndpointIds : WF_endpointVars(StartStep(e))
  /\ \A c \in Conns : WF_endpointVars(ConnStep(c))
  /\ \A s \in Suspends : WF_endpointVars(SuspendStep(s))

FairEndpointSpec == EndpointSpec /\ EndpointFairness

-----------------------------------------------------------------------------
(* Properties. *)

OpStatuses == {"none", "running", "succeeded", "failed"}

StartPcs == {"idle", "acquire", "attach", "put", "transition", "register",
             "meter", "complete", "done"}

ConnPcs == {"idle", "state", "addr", "wake", "attach", "transition", "publish",
            "publishState", "publishAddr", "done"}

\* The variables hold what the program's fields and locals can hold.
EndpointTypeOK ==
  /\ PoolTypeOK
  /\ opStatus \in [EndpointIds -> OpStatuses]
  /\ branchOf \in [EndpointIds -> Branches \cup {NoBranch}]
  /\ startPc \in [EndpointIds -> StartPcs]
  /\ startInst \in [EndpointIds -> Nat]
  /\ epState \in [EndpointIds -> {"absent", "creating", "active", "suspended"}]
  /\ metered \in SUBSET EndpointIds
  /\ tblAddr \in [EndpointIds -> Nat]
  /\ tblState \in [EndpointIds -> {"absent", "active", "suspended"}]
  /\ writer \in Conns \cup {NoConn}
  /\ connPc \in [Conns -> ConnPcs]
  /\ connEp \in [Conns -> EndpointIds \cup {NoEndpoint}]
  /\ connInst \in [Conns -> Nat]
  /\ connAddr \in [Conns -> Nat]
  /\ connResult \in [Conns -> {"none", "served", "notfound", "failed"}]
  /\ suspPc \in [Suspends -> {"idle", "registry", "store", "done"}]
  /\ suspEp \in [Suspends -> EndpointIds \cup {NoEndpoint}]
  /\ suspResult \in
       [Suspends -> {"none", "ok", "notfound", "failed", "forbidden"}]
  /\ attached \in SUBSET (Nat \X Branches)
  /\ lease \in SUBSET (Nat \X EndpointIds)

\* The computes that stand for endpoint e: the one the registry names, and
\* those that connections to e were sent to.
Serving(e) ==
  ({tblAddr[e]} \cup {connAddr[c] : c \in {d \in Conns : connEp[d] = e}}) \ {0}

\* However starts, connections and suspends interleave, no compute ever stands
\* for two endpoints: neither the registry nor an answer of Resolve mixes up
\* the computes that the pool handed to different calls.
BackendExclusive ==
  \A e, f \in EndpointIds : e # f => Serving(e) \cap Serving(f) = {}

\* A compute that stands for an endpoint carries the data of that endpoint's
\* branch and of no other: no address is published or returned before
\* AttachBranch, also when the wakes of two endpoints overlap.
ServedIsAttached ==
  \A e \in EndpointIds : \A i \in Serving(e) :
    {b \in Branches : <<i, b>> \in attached} = {branchOf[e]}

\* What a succeeded operation promises is there when a client first sees it:
\* the endpoint is routable, billed and past its creation; and the registry
\* names only endpoints the store has, so the hook's "endpoint gone" is never
\* taken.
PublishOrder ==
  \A e \in EndpointIds :
    /\ opStatus[e] = "succeeded" =>
         /\ Registered(e)
         /\ e \in metered
         /\ epState[e] \in {"active", "suspended"}
    /\ Registered(e) => /\ epState[e] \in {"active", "suspended"}
                        /\ tblAddr[e] # 0

\* Some suspend of e has set its registry entry.
Suspended(e) ==
  \E s \in Suspends :
    suspEp[s] = e /\ (suspPc[s] = "store" \/ suspResult[s] \in {"ok", "forbidden"})

\* Resolve boots or takes a compute for an endpoint only after some suspend of
\* that endpoint has reached the registry: a fresh endpoint is never woken, nor
\* one whose suspend the engine refused.
WakeHasCause == \A c \in Conns : connInst[c] # 0 => Suspended(connEp[c])

\* Once no call is in progress, an endpoint that the store shows as active is
\* routed without a wake. SuspendEndpoint and Resolve write registry and store
\* in opposite orders, and either may overtake the other.
QuietAgreement ==
  Quiet => \A e \in EndpointIds :
             epState[e] = "active" /\ Registered(e) => tblState[e] = "active"

\* No compute that was booted is lost: it is warm, or leased to one endpoint; and
\* each lease is accounted for: the registry names the compute, or a call that
\* holds it is in progress, or the call that took it failed, or the registry
\* names, in place of it, the compute of a wake of this endpoint: it replaced
\* that of the start or of another wake. The last two are forgotten: nothing
\* stops them or gives them back, though connections may still be using them.
HandedIsAccounted ==
  /\ \A i \in 1 .. booted :
       i \in Elements(ready) \/ \E e \in EndpointIds : <<i, e>> \in lease
  /\ \A p \in lease :
       LET i == p[1]
           e == p[2]
       IN  \/ i = tblAddr[e]
           \/ startInst[e] = i /\ opStatus[e] \in {"running", "failed"}
           \/ \E c \in Conns :
                connInst[c] = i /\ (connPc[c] # "done" \/ connResult[c] = "failed")
           \/ /\ Registered(e)
              /\ \E c \in Conns : connEp[c] = e /\ connInst[c] = tblAddr[e]

\* The registry's lock is held exactly while a connection is between its two
\* writes, so no path keeps it for ever; and what that connection wrote first
\* still stands when it makes the second write, whichever starts, suspends and
\* other wakes want the same entry: the entry never ends up with the address of
\* one call and the state of another.
PublishHoldsLock ==
  /\ writer # NoConn => connPc[writer] \in {"publishState", "publishAddr"}
  /\ \A c \in Conns :
       /\ connPc[c] = "publishState" =>
            writer = c /\ tblAddr[connEp[c]] = connInst[c]
       /\ connPc[c] = "publishAddr" =>
            writer = c /\ tblState[connEp[c]] = "active"

\* Computes and what stands for an endpoint, without the calls that do it.
Lease == INSTANCE ComputeLease WITH
  Endpoints <- EndpointIds,
  home      <- branchOf,
  data      <- attached,
  serving   <- UNION {Serving(e) \X {e} : e \in EndpointIds}

\* Whatever interleaves, each step of a call takes, fills or routes one compute
\* of one endpoint as ComputeLease allows, or changes nothing of this.
LeaseKept == Lease!LeaseSpec

\* Every operation settles and every call returns, whatever the others do.
EveryCallReturns ==
  /\ \A e \in EndpointIds :
       opStatus[e] = "running" ~> opStatus[e] \in {"succeeded", "failed"}
  /\ \A c \in Conns : connPc[c] # "idle" ~> connResult[c] # "none"
  /\ \A s \in Suspends : suspPc[s] # "idle" ~> suspResult[s] # "none"

-----------------------------------------------------------------------------
(* What the documentation says and the code does not keep. *)

\* app.go says of SetState in SuspendEndpoint that the next connection goes
\* through the wake hook: with no call in progress, an endpoint the store
\* shows as suspended must not be routed as if it were running.
SuspendedWakesNext ==
  Quiet => \A e \in EndpointIds :
             epState[e] = "suspended" => tblState[e] = "suspended"

\* README.md says the backend of an endpoint is the instance the registry maps
\* it to. When all wakes follow the same suspend, the computes they return must
\* be the one the registry ends up with.
WokenIsRegistered ==
  Quiet => \A c \in Conns :
             connInst[c] # 0 /\ connResult[c] = "served" =>
               connAddr[c] = tblAddr[connEp[c]]

\* README.md counts zero data races. No connection may be about to read a
\* field of a backend without the lock while another one is writing that same
\* backend under it.
RegistryRaceFree ==
  \A c, d \in Conns :
    ~ /\ connPc[c] \in {"state", "addr"}
      /\ connPc[d] \in {"publishState", "publishAddr"}
      /\ connEp[c] = connEp[d]
=============================================================================
