---------------------------- MODULE LeaseProofs ----------------------------
(***************************************************************************)
(* Proofs that Endpoints implements ComputeLease, and that every compute   *)
(* handed out is accounted for, for every policy, every number of          *)
(* endpoints, branches, connections and suspends, and every set of port    *)
(* calls that may fail.                                                    *)
(*                                                                         *)
(* The refinement rests on the inductive invariant of EndpointsProofs: a   *)
(* step that acquires takes a compute that nobody has had, and whatever    *)
(* stands for an endpoint after a step is owned by it and carries its      *)
(* branch. What is left is that no step disturbs two endpoints.            *)
(***************************************************************************)
EXTENDS EndpointsProofs

\* What serves in the abstract specification.
ServingPairs == UNION {Serving(e) \X {e} : e \in EndpointIds}

LEMMA ServingPair ==
  ASSUME NEW p
  PROVE  p \in ServingPairs <=>
           \E e \in EndpointIds : \E i \in Serving(e) : p = <<i, e>>
BY DEF ServingPairs

\* What stands for an endpoint in two ways of looking at it.
LEMMA ServingMembers ==
  ASSUME NEW e \in EndpointIds, NEW i
  PROVE  i \in Serving(e) <=>
           i # 0 /\ (i = tblAddr[e] \/ \E c \in Conns : connEp[c] = e /\ i = connAddr[c])
BY DEF Serving

\* ServingIsEquipped of the state after a step.
LEMMA ServingIsEquippedAfter ==
  ASSUME EndpointIInv', NEW e \in EndpointIds, NEW i \in Serving(e)'
  PROVE  (i \in Nat /\ Equipped(i, e))'
<1>1. CASE i = tblAddr'[e]
  BY <1>1 DEF EndpointIInv, EndpointTypeOK, TableEquipped, Serving, Equipped, Owned
<1>2. CASE \E c \in Conns : connEp'[c] = e /\ i = connAddr'[c]
  BY <1>2 DEF EndpointIInv, EndpointTypeOK, ConnHolds, Serving, Equipped, Owned
<1> QED
  BY <1>1, <1>2 DEF Serving

\* Who writes what stands for an endpoint.
LEMMA ServingSteps ==
  ASSUME EndpointNext
  PROVE  \/ UNCHANGED <<tblAddr, connEp, connAddr>>
         \/ \E e \in EndpointIds : StartRegister(e)
         \/ \E c \in Conns, e \in EndpointIds : ConnLookup(c, e)
         \/ \E c \in Conns :
              \/ ConnReadAddr(c) \/ ConnPublishAddrFirst(c)
              \/ ConnPublishState(c) \/ ConnPublishAddr(c)
BY DEF EndpointNext, Requests, StartStep, ConnStep, SuspendStep, TimePasses,
       AllServed, PoolAge, PoolAcquireFails, StartOp,
       StartBranchNotFound, StartFails, StartAcquire,
       StartAcquireFails, StartAttach, StartAttachFails, StartPut,
       StartCredentialFails, StartTransition, StartMeter,
       StartComplete, ConnReadState, ConnWakeAcquire, ConnWakeAcquireFails,
       ConnWakeFails, ConnWakeAttach, ConnWakeAttachFails, ConnWakeTransition,
       ConnPublishStateFirst, SuspendBegin, SuspendEngineFails,
       SuspendRegistry, SuspendStore, endpointVars, poolVars, opVars,
       storeVars, registryVars, connVars, suspVars, engineVars

\* A step changes what stands for one endpoint at most.
LEMMA ServingOfOne ==
  ASSUME EndpointIInv, EndpointNext
  PROVE  \/ \A f \in EndpointIds : Serving(f)' = Serving(f)
         \/ \E e \in EndpointIds : \A f \in EndpointIds \ {e} : Serving(f)' = Serving(f)
<1> USE DEF EndpointIInv, EndpointTypeOK
<1>1. CASE UNCHANGED <<tblAddr, connEp, connAddr>>
  BY <1>1 DEF Serving
<1>2. ASSUME NEW e \in EndpointIds, StartRegister(e)
      PROVE  \A f \in EndpointIds \ {e} : Serving(f)' = Serving(f)
  BY <1>2 DEF StartRegister, Serving, connVars
<1>3. ASSUME NEW c \in Conns, NEW e \in EndpointIds, ConnLookup(c, e)
      PROVE  \A f \in EndpointIds : Serving(f)' = Serving(f)
  <2>1. connAddr[c] = 0 /\ UNCHANGED <<tblAddr, connAddr>>
    BY <1>3 DEF ConnLookup, ConnHolds, registryVars
  <2>2. \A d \in Conns \ {c} : connEp'[d] = connEp[d]
    BY <1>3 DEF ConnLookup
  <2>3. ASSUME NEW f \in EndpointIds, NEW i
        PROVE  i \in Serving(f)' <=> i \in Serving(f)
    BY <2>1, <2>2 DEF Serving
  <2> QED
    BY <2>3 DEF Serving
<1>4. ASSUME NEW c \in Conns,
             \/ ConnReadAddr(c) \/ ConnPublishAddrFirst(c)
             \/ ConnPublishState(c) \/ ConnPublishAddr(c)
      PROVE  \E e \in EndpointIds : \A f \in EndpointIds \ {e} : Serving(f)' = Serving(f)
  <2>1. connEp[c] \in EndpointIds /\ UNCHANGED connEp
    BY <1>4
    DEF ConnReadAddr, ConnPublishAddrFirst, ConnPublishState, ConnPublishAddr,
        ConnServeWoken, ConnTargets, ConnPcs
  <2>2. \A d \in Conns \ {c} : connAddr'[d] = connAddr[d]
    BY <1>4
    DEF ConnReadAddr, ConnPublishAddrFirst, ConnPublishState, ConnPublishAddr,
        ConnServeWoken
  <2>3. \A f \in EndpointIds \ {connEp[c]} : tblAddr'[f] = tblAddr[f]
    BY <1>4
    DEF ConnReadAddr, ConnPublishAddrFirst, ConnPublishState, ConnPublishAddr,
        ConnServeWoken, registryVars
  <2>4. ASSUME NEW f \in EndpointIds \ {connEp[c]}, NEW i
        PROVE  i \in Serving(f)' <=> i \in Serving(f)
    BY <2>1, <2>2, <2>3 DEF Serving
  <2>5. \A f \in EndpointIds \ {connEp[c]} : Serving(f)' = Serving(f)
    BY <2>4 DEF Serving
  <2> QED
    BY <2>1, <2>5
<1> QED
  BY <1>1, <1>2, <1>3, <1>4, ServingSteps

-----------------------------------------------------------------------------
(* The steps of the abstract specification. *)

\* StartOp opens an endpoint that has no compute.
LEMMA OpenSteps ==
  ASSUME EndpointIInv, NEW e \in EndpointIds, NEW b \in Branches \cup {NoBranch},
         StartOp(e, b)
  PROVE  Lease!LeaseNext
<1>1. ASSUME NEW p \in lease
      PROVE  p[2] # e
  BY <1>1 DEF EndpointIInv, EndpointTypeOK, Leasing, Owned, StartOp
<1>2. branchOf' = [branchOf EXCEPT ![e] = b]
  BY DEF StartOp
<1>3. UNCHANGED <<lease, attached>>
  BY DEF StartOp, engineVars
<1>4. \A f \in EndpointIds : Serving(f)' = Serving(f)
  BY DEF StartOp, registryVars, connVars, Serving
<1>5. UNCHANGED ServingPairs
  BY <1>4 DEF ServingPairs
<1>6. Lease!Open(e, b)
  BY <1>1, <1>2, <1>3, <1>5 DEF Lease!Open, ServingPairs
<1> QED
  BY <1>6 DEF Lease!LeaseNext

\* Acquire, from a start or from a wake, takes a compute nobody has had.
LEMMA TakeSteps ==
  ASSUME EndpointIInv, NEW e \in EndpointIds, branchOf[e] \in Branches,
         PoolAcquire(NextInstance),
         lease' = lease \cup {<<NextInstance, e>>},
         UNCHANGED <<attached, branchOf, tblAddr, connEp, connAddr>>
  PROVE  Lease!LeaseNext
<1> DEFINE i == NextInstance
<1>1. i \in Nat /\ i \notin handed
  BY AcquireIsFresh DEF EndpointIInv, Instances
<1> HIDE DEF i
<1>2. ASSUME NEW q \in lease
      PROVE  q[1] # i
  BY <1>1, <1>2 DEF EndpointIInv, EndpointTypeOK, Leasing, Owned
<1>3. branchOf[e] # NoBranch
  BY ProcessAssumption
<1>4. \A f \in EndpointIds : Serving(f)' = Serving(f)
  BY DEF Serving
<1>5. UNCHANGED ServingPairs
  BY <1>4 DEF ServingPairs
<1>6. /\ <<i, e>> \in lease'
      /\ \A q \in lease : q[1] # <<i, e>>[1]
      /\ lease' = lease \cup {<<i, e>>}
  BY <1>2 DEF i
<1>7. Lease!Take(e)
  BY <1>3, <1>5, <1>6 DEF Lease!Take, ServingPairs
<1> QED
  BY <1>7 DEF Lease!LeaseNext

\* AttachBranch fills a compute of the endpoint.
LEMMA FillSteps ==
  ASSUME NEW e \in EndpointIds, NEW i, Owned(i, e),
         attached' = attached \cup {<<i, branchOf[e]>>},
         UNCHANGED <<lease, branchOf, tblAddr, connEp, connAddr>>
  PROVE  Lease!LeaseNext
<1>1. \A f \in EndpointIds : Serving(f)' = Serving(f)
  BY DEF Serving
<1>2. UNCHANGED ServingPairs
  BY <1>1 DEF ServingPairs
<1>3. Lease!Fill(e)
  BY <1>2 DEF Lease!Fill, ServingPairs, Owned
<1> QED
  BY <1>3 DEF Lease!LeaseNext

\* A step that leaves leases and data alone routes one endpoint, or nothing.
LEMMA RouteSteps ==
  ASSUME EndpointIInv, EndpointIInv', EndpointNext,
         UNCHANGED <<lease, attached, branchOf>>
  PROVE  [Lease!LeaseNext]_(Lease!leaseVars)
<1>1. CASE \A f \in EndpointIds : Serving(f)' = Serving(f)
  BY <1>1 DEF ServingPairs, Lease!leaseVars
<1>2. ASSUME NEW e \in EndpointIds,
             \A f \in EndpointIds \ {e} : Serving(f)' = Serving(f)
      PROVE  Lease!Route(e)
  <2>1. \A p : p \in ServingPairs' <=>
          \E f \in EndpointIds : \E i \in Serving(f)' : p = <<i, f>>
    BY DEF ServingPairs
  <2>2. ASSUME NEW p \in ServingPairs' \ ServingPairs
        PROVE  p[2] = e /\ p \in lease /\ <<p[1], branchOf[e]>> \in attached
    <3>1. PICK f \in EndpointIds : \E i \in Serving(f)' : p = <<i, f>>
      BY <2>1, <2>2
    <3>2. f = e
      BY <1>2, <2>2, <3>1, ServingPair
    <3>3. PICK i \in Serving(e)' : p = <<i, e>>
      BY <3>1, <3>2
    <3>4. (i \in Nat /\ Equipped(i, e))'
      BY ServingIsEquippedAfter
    <3> QED
      BY <3>3, <3>4 DEF Equipped, Owned
  <2>3. ASSUME NEW p \in ServingPairs \ ServingPairs'
        PROVE  p[2] = e
    <3>1. PICK f \in EndpointIds : \E i \in Serving(f) : p = <<i, f>>
      BY <2>3, ServingPair
    <3> QED
      BY <1>2, <2>1, <2>3, <3>1
  <2> QED
    BY <2>2, <2>3 DEF Lease!Route, ServingPairs
<1> QED
  BY <1>1, <1>2, ServingOfOne DEF Lease!LeaseNext

\* Every step of the control plane is a step of the abstract specification.
LEMMA LeaseSimulation ==
  ASSUME EndpointIInv, EndpointIInv', [EndpointNext]_endpointVars
  PROVE  [Lease!LeaseNext]_(Lease!leaseVars)
<1>1. CASE UNCHANGED endpointVars
  BY <1>1
  DEF endpointVars, opVars, registryVars, connVars, engineVars, Serving,
      Lease!leaseVars
<1>2. ASSUME NEW e \in EndpointIds, StartAcquire(e)
      PROVE  Lease!LeaseNext
  <2>1. branchOf[e] \in Branches
    BY <1>2 DEF StartAcquire, EndpointIInv, EndpointTypeOK
  <2> QED
    BY <1>2, <2>1, TakeSteps DEF StartAcquire, registryVars, connVars
<1>3. ASSUME NEW c \in Conns, ConnWakeAcquire(c)
      PROVE  Lease!LeaseNext
  <2>1. connEp[c] \in EndpointIds /\ Registered(connEp[c])
    BY <1>3 DEF ConnWakeAcquire, EndpointIInv, ConnTargets, ConnPcs
  <2>2. Owned(tblAddr[connEp[c]], connEp[c]) /\ tblAddr[connEp[c]] \in Nat
    BY <2>1
    DEF EndpointIInv, EndpointTypeOK, TablePhases, TableEquipped, Equipped
  <2>3. branchOf[connEp[c]] \in Branches
    BY <2>1, <2>2 DEF EndpointIInv, Leasing
  <2> QED
    BY <1>3, <2>1, <2>3, TakeSteps DEF ConnWakeAcquire, opVars, registryVars
<1>4. ASSUME NEW e \in EndpointIds, StartAttach(e)
      PROVE  Lease!LeaseNext
  <2>1. Owned(startInst[e], e)
    BY <1>4 DEF StartAttach, EndpointIInv, StartHolds
  <2> QED
    BY <1>4, <2>1, FillSteps DEF StartAttach, registryVars, connVars
<1>5. ASSUME NEW c \in Conns, ConnWakeAttach(c)
      PROVE  Lease!LeaseNext
  <2>1. connEp[c] \in EndpointIds /\ Owned(connInst[c], connEp[c])
    BY <1>5 DEF ConnWakeAttach, EndpointIInv, ConnTargets, ConnHolds, ConnPcs
  <2> QED
    BY <1>5, <2>1, FillSteps DEF ConnWakeAttach, opVars, registryVars
<1>6. CASE EndpointNext /\ UNCHANGED <<lease, attached, branchOf>>
  BY <1>6, RouteSteps
<1> QED
  BY <1>1, <1>2, <1>3, <1>4, <1>5, <1>6, LeaseSteps, AttachSteps, OpenSteps

\* Endpoints implements ComputeLease: however calls interleave and whichever
\* fail, a compute belongs to one endpoint for ever, is given that endpoint's
\* data and no other, and stands for an endpoint only after that.
THEOREM LeasesAreKept == EndpointSpec => LeaseKept
<1>1. EndpointInit => Lease!LeaseInit
  BY DEF EndpointInit, Lease!LeaseInit, Serving
<1>2. EndpointIInv /\ EndpointIInv' /\ [EndpointNext]_endpointVars
        => [Lease!LeaseNext]_(Lease!leaseVars)
  BY LeaseSimulation
<1> QED
  BY <1>1, <1>2, EndpointInvariant, PTL DEF EndpointSpec, LeaseKept, Lease!LeaseSpec

-----------------------------------------------------------------------------
(* Where the computes are. *)

\* A call takes its compute once and keeps it in a local.
Accounts ==
  /\ \A e \in EndpointIds :
       /\ startPc[e] \in {"idle", "acquire"} => startInst[e] = 0
       /\ ~ Registered(e) => tblAddr[e] = 0
  /\ \A c \in Conns :
       /\ connPc[c] \in {"idle", "state", "addr", "wake"} => connInst[c] = 0
       /\ connPc[c] = "done" /\ connInst[c] # 0 =>
            connResult[c] \in {"failed", "served"}

\* A call for endpoint e has compute i in its local inst.
InLocal(i, e) ==
  startInst[e] = i \/ \E c \in Conns : connEp[c] = e /\ connInst[c] = i

\* Whoever acquired a compute has it in a local, and so has who registered it.
Locals ==
  /\ \A i \in Nat, e \in EndpointIds : Owned(i, e) => InLocal(i, e)
  /\ \A e \in EndpointIds : tblAddr[e] # 0 => InLocal(tblAddr[e], e)

\* Who writes what Locals speaks of.
LEMMA LocalsSteps ==
  ASSUME EndpointNext
  PROVE  \/ UNCHANGED <<lease, startInst, connEp, connInst, tblAddr>>
         \/ \E e \in EndpointIds : StartAcquire(e) \/ StartRegister(e)
         \/ \E c \in Conns, e \in EndpointIds : ConnLookup(c, e)
         \/ \E c \in Conns :
              ConnWakeAcquire(c) \/ ConnPublishAddrFirst(c) \/ ConnPublishAddr(c)
BY DEF EndpointNext, Requests, StartStep, ConnStep, SuspendStep, TimePasses,
       AllServed, PoolAge, PoolAcquireFails, StartOp, StartBranchNotFound,
       StartFails, StartAcquireFails, StartAttach, StartAttachFails, StartPut,
       StartCredentialFails, StartTransition, StartMeter, StartComplete,
       ConnReadState, ConnReadAddr, ConnWakeAcquireFails, ConnWakeFails,
       ConnWakeAttach, ConnWakeAttachFails, ConnWakeTransition,
       ConnPublishStateFirst, ConnPublishState, ConnServeWoken, SuspendBegin,
       SuspendEngineFails, SuspendRegistry, SuspendStore, endpointVars,
       poolVars, opVars, storeVars, registryVars, connVars, suspVars,
       engineVars

LEMMA AccountsKept ==
  ASSUME EndpointIInv, Accounts, EndpointNext
  PROVE  Accounts'
<1> USE DEF EndpointIInv, EndpointTypeOK, Registered
<1>1. ASSUME NEW e \in EndpointIds, NEW b \in Branches \cup {NoBranch}, StartOp(e, b)
      PROVE  Accounts'
  BY <1>1 DEF StartOp, Accounts, OpPhases, registryVars, connVars
<1>2. ASSUME NEW e \in EndpointIds, StartStep(e)
      PROVE  Accounts'
  <2>1. UNCHANGED connVars
    BY <1>2
    DEF StartStep, StartBranchNotFound, StartFails, StartAcquire,
        StartAcquireFails, StartAttach, StartAttachFails, StartPut,
        StartCredentialFails, StartTransition, StartRegister, StartMeter,
        StartComplete
  <2>2. \A f \in EndpointIds \ {e} :
          /\ startPc'[f] = startPc[f] /\ startInst'[f] = startInst[f]
          /\ tblAddr'[f] = tblAddr[f] /\ tblState'[f] = tblState[f]
    BY <1>2
    DEF StartStep, StartBranchNotFound, StartFails, StartAcquire,
        StartAcquireFails, StartAttach, StartAttachFails, StartPut,
        StartCredentialFails, StartTransition, StartRegister, StartMeter,
        StartComplete, registryVars
  <2>3. startPc'[e] \notin {"idle", "acquire"}
    BY <1>2
    DEF StartStep, StartBranchNotFound, StartFails, StartAcquire,
        StartAcquireFails, StartAttach, StartAttachFails, StartPut,
        StartCredentialFails, StartTransition, StartRegister, StartMeter,
        StartComplete
  <2>4. ~ Registered(e)' => ~ Registered(e) /\ tblAddr'[e] = tblAddr[e]
    BY <1>2
    DEF StartStep, StartBranchNotFound, StartFails, StartAcquire,
        StartAcquireFails, StartAttach, StartAttachFails, StartPut,
        StartCredentialFails, StartTransition, StartRegister, StartMeter,
        StartComplete, registryVars
  <2> QED
    BY <2>1, <2>2, <2>3, <2>4 DEF Accounts, connVars
<1>3. ASSUME NEW c \in Conns, NEW e \in EndpointIds, ConnLookup(c, e)
      PROVE  Accounts'
  BY <1>3 DEF ConnLookup, Accounts, opVars, registryVars
<1>4. ASSUME NEW c \in Conns, ConnStep(c)
      PROVE  Accounts'
  <2>1. UNCHANGED <<startPc, startInst>>
    BY <1>4
    DEF ConnStep, ConnReadState, ConnReadAddr, ConnWakeAcquire,
        ConnWakeAcquireFails, ConnWakeFails, ConnWakeAttach,
        ConnWakeAttachFails, ConnWakeTransition, ConnPublishAddrFirst,
        ConnPublishStateFirst, ConnPublishState, ConnPublishAddr,
        ConnServeWoken, opVars
  <2>2. \A e \in EndpointIds : ~ Registered(e)' =>
          ~ Registered(e) /\ tblAddr'[e] = tblAddr[e]
    <3>1. connEp[c] \in EndpointIds /\ Registered(connEp[c])
      BY <1>4
      DEF ConnStep, ConnReadState, ConnReadAddr, ConnWakeAcquire,
          ConnWakeAcquireFails, ConnWakeAttach, ConnWakeAttachFails,
          ConnWakeTransition, ConnPublishAddrFirst, ConnPublishStateFirst,
          ConnPublishState, ConnPublishAddr, ConnTargets, ConnPcs
    <3> QED
      BY <1>4, <3>1, RegisteredStays
      DEF ConnStep, ConnReadState, ConnReadAddr, ConnWakeAcquire,
          ConnWakeAcquireFails, ConnWakeFails, ConnWakeAttach,
          ConnWakeAttachFails, ConnWakeTransition, ConnPublishAddrFirst,
          ConnPublishStateFirst, ConnPublishState, ConnPublishAddr,
          ConnServeWoken, registryVars
  <2>3. \A d \in Conns \ {c} :
          /\ connPc'[d] = connPc[d] /\ connInst'[d] = connInst[d]
          /\ connResult'[d] = connResult[d]
    BY <1>4
    DEF ConnStep, ConnReadState, ConnReadAddr, ConnWakeAcquire,
        ConnWakeAcquireFails, ConnWakeFails, ConnWakeAttach,
        ConnWakeAttachFails, ConnWakeTransition, ConnPublishAddrFirst,
        ConnPublishStateFirst, ConnPublishState, ConnPublishAddr,
        ConnServeWoken
  <2>4. /\ connPc'[c] \in {"idle", "state", "addr", "wake"} => connInst'[c] = 0
        /\ connPc'[c] = "done" /\ connInst'[c] # 0 =>
             connResult'[c] \in {"failed", "served"}
    BY <1>4
    DEF ConnStep, ConnReadState, ConnReadAddr, ConnWakeAcquire,
        ConnWakeAcquireFails, ConnWakeFails, ConnWakeAttach,
        ConnWakeAttachFails, ConnWakeTransition, ConnPublishAddrFirst,
        ConnPublishStateFirst, ConnPublishState, ConnPublishAddr,
        ConnServeWoken, Accounts
  <2> QED
    BY <2>1, <2>2, <2>3, <2>4 DEF Accounts
<1>5. ASSUME UNCHANGED <<opVars, connVars, tblAddr>>
      PROVE  Accounts'
  <2>1. \A e \in EndpointIds : Registered(e) => Registered(e)'
    BY RegisteredStays
  <2> QED
    BY <1>5, <2>1 DEF Accounts, opVars, connVars
<1>6. CASE \/ \E s \in Suspends, e \in EndpointIds :
                SuspendBegin(s, e) \/ SuspendEngineFails(s, e)
           \/ \E s \in Suspends : SuspendStep(s)
           \/ TimePasses \/ AllServed
  BY <1>5, <1>6
  DEF SuspendBegin, SuspendEngineFails, SuspendStep, SuspendRegistry,
      SuspendStore, TimePasses, AllServed, registryVars, endpointVars
<1> QED
  BY <1>1, <1>2, <1>3, <1>4, <1>6 DEF EndpointNext, Requests

LEMMA LocalsKept ==
  ASSUME EndpointIInv, Accounts, Locals, EndpointNext
  PROVE  Locals'
<1> USE DEF EndpointIInv, EndpointTypeOK
<1>1. ASSUME NEW e \in EndpointIds, StartAcquire(e)
      PROVE  Locals'
  <2>1. startInst[e] = 0 /\ tblAddr' = tblAddr
    BY <1>1 DEF StartAcquire, Accounts, registryVars
  <2>2. \A i, f : i # 0 /\ f \in EndpointIds /\ InLocal(i, f) => InLocal(i, f)'
    BY <1>1, <2>1 DEF StartAcquire, InLocal, connVars
  <2>3. startInst'[e] = NextInstance
    BY <1>1 DEF StartAcquire
  <2>4. \A i \in Nat, f \in EndpointIds :
          Owned(i, f)' => Owned(i, f) \/ (i = startInst'[e] /\ f = e)
    BY <1>1, <2>3 DEF StartAcquire, Owned
  <2>5. \A i \in Nat, f \in EndpointIds : Owned(i, f) => i # 0
    BY DEF Leasing
  <2>6. \A i \in Nat, f \in EndpointIds : Owned(i, f)' => InLocal(i, f)'
    <3> SUFFICES ASSUME NEW i \in Nat, NEW f \in EndpointIds, Owned(i, f)'
                 PROVE  InLocal(i, f)'
      OBVIOUS
    <3>1. CASE Owned(i, f)
      BY <3>1, <2>2, <2>5 DEF Locals
    <3>2. CASE i = startInst'[e] /\ f = e
      BY <3>2 DEF InLocal
    <3> QED
      BY <3>1, <3>2, <2>4
  <2>7. \A f \in EndpointIds : tblAddr'[f] # 0 => InLocal(tblAddr[f], f)'
    BY <2>1, <2>2 DEF Locals
  <2> QED
    BY <2>1, <2>6, <2>7 DEF Locals, InLocal
<1>2. ASSUME NEW c \in Conns, ConnWakeAcquire(c)
      PROVE  Locals'
  <2>1. /\ connInst[c] = 0 /\ tblAddr' = tblAddr
        /\ \A d \in Conns \ {c} : connInst'[d] = connInst[d]
        /\ connEp' = connEp /\ startInst' = startInst
    BY <1>2 DEF ConnWakeAcquire, Accounts, registryVars, opVars
  <2>2. \A i, f : i # 0 /\ f \in EndpointIds /\ InLocal(i, f) => InLocal(i, f)'
    BY <2>1 DEF InLocal
  <2>3. connInst'[c] = NextInstance
    BY <1>2 DEF ConnWakeAcquire
  <2>4. \A i \in Nat, f \in EndpointIds :
          Owned(i, f)' => Owned(i, f) \/ (i = connInst'[c] /\ f = connEp'[c])
    BY <1>2, <2>1, <2>3 DEF ConnWakeAcquire, Owned
  <2>5. \A i \in Nat, f \in EndpointIds : Owned(i, f) => i # 0
    BY DEF Leasing
  <2>6. \A i \in Nat, f \in EndpointIds : Owned(i, f)' => InLocal(i, f)'
    <3> SUFFICES ASSUME NEW i \in Nat, NEW f \in EndpointIds, Owned(i, f)'
                 PROVE  InLocal(i, f)'
      OBVIOUS
    <3>1. CASE Owned(i, f)
      BY <3>1, <2>2, <2>5 DEF Locals
    <3>2. CASE i = connInst'[c] /\ f = connEp'[c]
      BY <3>2 DEF InLocal
    <3> QED
      BY <3>1, <3>2, <2>4
  <2>7. \A f \in EndpointIds : tblAddr'[f] # 0 => InLocal(tblAddr[f], f)'
    BY <2>1, <2>2 DEF Locals
  <2> QED
    BY <2>1, <2>6, <2>7 DEF Locals, InLocal
<1>3. ASSUME NEW c \in Conns, NEW e \in EndpointIds, ConnLookup(c, e)
      PROVE  Locals'
  <2>1. connInst[c] = 0 /\ UNCHANGED <<connInst, startInst, tblAddr, lease>>
    BY <1>3 DEF ConnLookup, Accounts, opVars, registryVars, engineVars
  <2>2. \A d \in Conns \ {c} : connEp'[d] = connEp[d]
    BY <1>3 DEF ConnLookup
  <2>3. \A i, f : i # 0 /\ f \in EndpointIds /\ InLocal(i, f) => InLocal(i, f)'
    BY <2>1, <2>2 DEF InLocal
  <2>4. \A i \in Nat, f \in EndpointIds : Owned(i, f)' => Owned(i, f) /\ i # 0
    BY <2>1 DEF Leasing, Owned
  <2>5. \A i \in Nat, f \in EndpointIds : Owned(i, f)' => InLocal(i, f)'
    BY <2>3, <2>4 DEF Locals
  <2>6. \A f \in EndpointIds : tblAddr'[f] # 0 => InLocal(tblAddr[f], f)'
    BY <2>1, <2>3 DEF Locals
  <2> QED
    BY <2>1, <2>5, <2>6 DEF Locals, InLocal
<1>4. ASSUME UNCHANGED <<lease, startInst, connEp, connInst>>,
             \A e \in EndpointIds : \/ tblAddr'[e] = tblAddr[e]
                                    \/ tblAddr'[e] = startInst[e]
                                    \/ \E c \in Conns : connEp[c] = e /\ connInst[c] = tblAddr'[e]
      PROVE  Locals'
  BY <1>4 DEF Locals, InLocal, Owned
<1>5. ASSUME NEW e \in EndpointIds, StartRegister(e)
      PROVE  Locals'
  BY <1>4, <1>5 DEF StartRegister, connVars, engineVars
<1>6. ASSUME NEW c \in Conns, ConnPublishAddrFirst(c) \/ ConnPublishAddr(c)
      PROVE  Locals'
  BY <1>4, <1>6
  DEF ConnPublishAddrFirst, ConnPublishAddr, ConnServeWoken, opVars, engineVars
<1>7. CASE UNCHANGED <<lease, startInst, connEp, connInst, tblAddr>>
  BY <1>4, <1>7
<1> QED
  BY <1>1, <1>2, <1>3, <1>5, <1>6, <1>7, LocalsSteps

\* The registry sends clients of e to the compute of a wake.
WokenEntry(e) ==
  tblAddr[e] # 0 /\ \E d \in Conns : connEp[d] = e /\ connInst[d] = tblAddr[e]

\* Connection c has written the address of its own compute.
Published(c) ==
  \/ connPc[c] = "publishState"
  \/ connPc[c] = "done" /\ connResult[c] = "served" /\ connInst[c] # 0

\* After a wake the registry names the compute of a wake, this one or a later
\* one, and never again that of the start.
WakesStand ==
  \A c \in Conns : Published(c) => connEp[c] \in EndpointIds /\ WokenEntry(connEp[c])

LEMMA WokenEntryKept ==
  ASSUME EndpointIInv, Accounts, EndpointNext, NEW e \in EndpointIds, WokenEntry(e)
  PROVE  WokenEntry(e)'
<1> USE DEF EndpointIInv, EndpointTypeOK
<1>1. PICK d \in Conns : connEp[d] = e /\ connInst[d] = tblAddr[e] /\ connInst[d] # 0
  BY DEF WokenEntry
<1>2. Registered(e)
  BY DEF WokenEntry, Accounts
<1>3. CASE UNCHANGED <<lease, startInst, connEp, connInst, tblAddr>>
  BY <1>3 DEF WokenEntry
<1>4. ASSUME NEW f \in EndpointIds, StartAcquire(f) \/ StartRegister(f)
      PROVE  WokenEntry(e)'
  <2>1. StartRegister(f) => f # e
    BY <1>2 DEF StartRegister, TablePhases
  <2> QED
    BY <1>1, <1>4, <2>1 DEF StartAcquire, StartRegister, WokenEntry, connVars,
                            registryVars
<1>5. ASSUME NEW c \in Conns, NEW f \in EndpointIds, ConnLookup(c, f)
      PROVE  WokenEntry(e)'
  BY <1>1, <1>5 DEF ConnLookup, Accounts, WokenEntry, registryVars
<1>6. ASSUME NEW c \in Conns, ConnWakeAcquire(c)
      PROVE  WokenEntry(e)'
  BY <1>1, <1>6 DEF ConnWakeAcquire, Accounts, WokenEntry, registryVars
<1>7. ASSUME NEW c \in Conns, ConnPublishAddrFirst(c) \/ ConnPublishAddr(c)
      PROVE  WokenEntry(e)'
  <2>1. connInst[c] # 0
    BY <1>7 DEF ConnPublishAddrFirst, ConnPublishAddr, ConnHolds, Leasing,
                ConnTargets, ConnPcs
  <2> QED
    BY <1>1, <1>7, <2>1 DEF ConnPublishAddrFirst, ConnPublishAddr, ConnServeWoken,
                            WokenEntry
<1> QED
  BY <1>3, <1>4, <1>5, <1>6, <1>7, LocalsSteps

\* Who publishes, and who else ends the wake of a connection.
LEMMA PublishedSteps ==
  ASSUME EndpointIInv, Accounts, EndpointNext, NEW c \in Conns, Published(c)'
  PROVE  \/ Published(c) /\ connEp'[c] = connEp[c]
         \/ /\ connPc[c] \in {"publish", "publishAddr"}
            /\ connEp'[c] = connEp[c] /\ connInst'[c] = connInst[c]
            /\ tblAddr'[connEp[c]] = connInst[c]
<1> USE DEF EndpointIInv, EndpointTypeOK
<1>1. CASE \E d \in Conns : ConnStep(d)
  <2>1. PICK d \in Conns : ConnStep(d)
    BY <1>1
  <2>2. CASE d # c
    BY <2>1, <2>2
    DEF ConnStep, ConnReadState, ConnReadAddr, ConnWakeAcquire,
        ConnWakeAcquireFails, ConnWakeFails, ConnWakeAttach,
        ConnWakeAttachFails, ConnWakeTransition, ConnPublishAddrFirst,
        ConnPublishStateFirst, ConnPublishState, ConnPublishAddr,
        ConnServeWoken, Published
  <2>3. CASE ConnPublishAddrFirst(c) \/ ConnPublishAddr(c)
    <3>1. connEp[c] \in EndpointIds
      BY <2>3 DEF ConnPublishAddrFirst, ConnPublishAddr, ConnTargets, ConnPcs
    <3> QED
      BY <2>3, <3>1 DEF ConnPublishAddrFirst, ConnPublishAddr, ConnServeWoken
  <2>4. CASE ConnPublishState(c)
    BY <2>4 DEF ConnPublishState, ConnServeWoken, Published
  <2>5. CASE \/ ConnReadState(c) \/ ConnReadAddr(c) \/ ConnWakeAcquire(c)
             \/ ConnWakeAcquireFails(c) \/ ConnWakeAttach(c)
             \/ ConnWakeAttachFails(c) \/ ConnWakeTransition(c)
             \/ ConnPublishStateFirst(c)
    BY <2>5 DEF ConnReadState, ConnReadAddr, ConnWakeAcquire,
                ConnWakeAcquireFails, ConnWakeFails, ConnWakeAttach,
                ConnWakeAttachFails, ConnWakeTransition,
                ConnPublishStateFirst, Published, Accounts
  <2> QED
    BY <2>1, <2>2, <2>3, <2>4, <2>5 DEF ConnStep
<1>2. CASE \E d \in Conns, e \in EndpointIds : ConnLookup(d, e)
  BY <1>2 DEF ConnLookup, Published
<1>3. CASE UNCHANGED connVars
  BY <1>3 DEF connVars, Published
<1>4. CASE \/ \E e \in EndpointIds, b \in Branches \cup {NoBranch} : StartOp(e, b)
           \/ \E e \in EndpointIds : StartStep(e)
           \/ \E s \in Suspends, e \in EndpointIds :
                SuspendBegin(s, e) \/ SuspendEngineFails(s, e)
           \/ \E s \in Suspends : SuspendStep(s)
           \/ TimePasses \/ AllServed
  BY <1>3, <1>4
  DEF StartOp, StartStep, StartBranchNotFound, StartFails, StartAcquire,
      StartAcquireFails, StartAttach, StartAttachFails, StartPut,
      StartCredentialFails, StartTransition, StartRegister, StartMeter,
      StartComplete, SuspendBegin, SuspendEngineFails, SuspendStep,
      SuspendRegistry, SuspendStore, TimePasses, AllServed, endpointVars
<1> QED
  BY <1>1, <1>2, <1>4 DEF EndpointNext, Requests

LEMMA WakesStandKept ==
  ASSUME EndpointIInv, Accounts, WakesStand, EndpointNext
  PROVE  WakesStand'
<1> USE DEF EndpointIInv
<1> SUFFICES ASSUME NEW c \in Conns, Published(c)'
             PROVE  (connEp[c] \in EndpointIds /\ WokenEntry(connEp[c]))'
  BY DEF WakesStand
<1>1. CASE Published(c) /\ connEp'[c] = connEp[c]
  <2>1. PICK e \in EndpointIds : e = connEp[c] /\ WokenEntry(e)
    BY <1>1 DEF WakesStand
  <2>2. WokenEntry(e)'
    BY <2>1, WokenEntryKept
  <2> QED
    BY <1>1, <2>1, <2>2
<1>2. CASE /\ connPc[c] \in {"publish", "publishAddr"}
           /\ connEp'[c] = connEp[c] /\ connInst'[c] = connInst[c]
           /\ tblAddr'[connEp[c]] = connInst[c]
  <2>1. connEp[c] \in EndpointIds /\ connInst[c] # 0
    BY <1>2 DEF ConnHolds, Leasing, ConnTargets, ConnPcs, EndpointTypeOK
  <2> QED
    BY <1>2, <2>1 DEF WokenEntry
<1> QED
  BY <1>1, <1>2, PublishedSteps

\* Every compute the pool handed out is leased, and nothing drains the pool.
HandedLeased ==
  /\ dropped = {}
  /\ \A i \in handed : \E e \in EndpointIds : Owned(i, e)

\* Who hands a compute out.
LEMMA HandedSteps ==
  ASSUME EndpointNext
  PROVE  \/ UNCHANGED <<handed, dropped, lease>>
         \/ \E e \in EndpointIds : StartAcquire(e)
         \/ \E c \in Conns : ConnWakeAcquire(c)
BY DEF EndpointNext, Requests, StartStep, ConnStep, SuspendStep, TimePasses,
       AllServed, PoolAge, PoolAcquireFails, StartOp, StartBranchNotFound,
       StartFails, StartAcquireFails, StartAttach, StartAttachFails, StartPut,
       StartCredentialFails, StartTransition, StartRegister, StartMeter,
       StartComplete, ConnLookup, ConnReadState, ConnReadAddr,
       ConnWakeAcquireFails, ConnWakeFails, ConnWakeAttach,
       ConnWakeAttachFails, ConnWakeTransition, ConnPublishAddrFirst,
       ConnPublishStateFirst, ConnPublishState, ConnPublishAddr,
       ConnServeWoken, SuspendBegin, SuspendEngineFails, SuspendRegistry,
       SuspendStore, endpointVars, poolVars, opVars, storeVars, registryVars,
       connVars, suspVars, engineVars

LEMMA HandedKept ==
  ASSUME EndpointIInv, HandedLeased, EndpointNext
  PROVE  HandedLeased'
<1>1. ASSUME NEW e \in EndpointIds, PoolAcquire(NextInstance),
             lease' = lease \cup {<<NextInstance, e>>}
      PROVE  HandedLeased'
  BY <1>1 DEF PoolAcquire, HandedLeased, Owned
<1>2. ASSUME NEW e \in EndpointIds, StartAcquire(e)
      PROVE  HandedLeased'
  BY <1>1, <1>2 DEF StartAcquire
<1>3. ASSUME NEW c \in Conns, ConnWakeAcquire(c)
      PROVE  HandedLeased'
  <2>1. connEp[c] \in EndpointIds
    BY <1>3 DEF ConnWakeAcquire, EndpointIInv, ConnTargets, ConnPcs
  <2> QED
    BY <1>1, <1>3, <2>1 DEF ConnWakeAcquire
<1>4. CASE UNCHANGED <<handed, dropped, lease>>
  BY <1>4 DEF HandedLeased, Owned
<1> QED
  BY <1>2, <1>3, <1>4, HandedSteps

\* What was booted and is not warm was handed out.
LEMMA BootedIsWarmOrLeased ==
  ASSUME EndpointIInv, HandedLeased, NEW i \in 1 .. booted
  PROVE  i \in Elements(ready) \/ \E e \in EndpointIds : Owned(i, e)
<1> DEFINE gone == booted - Len(ready)
<1>1. /\ booted \in Nat /\ Len(ready) \in Nat /\ Len(ready) <= booted
      /\ DOMAIN ready = 1 .. Len(ready)
      /\ \A j \in DOMAIN ready : ready[j] = gone + j
      /\ handed = 1 .. gone
  BY DEF EndpointIInv, PoolIInv, PoolTypeOK, PoolPartition, HandedLeased
<1>2. CASE i \in 1 .. gone
  BY <1>1, <1>2 DEF HandedLeased
<1>3. CASE i > gone
  <2>1. i - gone \in DOMAIN ready /\ ready[i - gone] = i
    BY <1>1, <1>3
  <2> QED
    BY <2>1 DEF Elements
<1> QED
  BY <1>1, <1>2, <1>3

\* A booted compute is warm or leased; and a leased one is registered, is held by
\* a call in progress, was taken by a call that failed, or was replaced by the
\* compute of a wake.
THEOREM HandedComputesAreAccounted == EndpointSpec => []HandedIsAccounted
<1> DEFINE Inv == EndpointIInv /\ Accounts /\ Locals /\ WakesStand /\ HandedLeased
<1>1. EndpointInit => Inv
  BY EndpointInitEstablishes
  DEF EndpointInit, PoolInit, Accounts, Locals, WakesStand, Published, HandedLeased,
      Owned, Registered
<1>2. Inv /\ [EndpointNext]_endpointVars => Inv'
  <2>1. CASE EndpointNext
    BY <2>1, EndpointNextPreserves, AccountsKept, LocalsKept, WakesStandKept,
       HandedKept
  <2>2. CASE UNCHANGED endpointVars
    BY <2>2, EndpointStutterPreserves
    DEF endpointVars, poolVars, opVars, registryVars, connVars, engineVars,
        Accounts, Locals, InLocal, WakesStand, WokenEntry, Published,
        HandedLeased, Owned, Registered
  <2> QED
    BY <2>1, <2>2
<1>3. ASSUME Inv, NEW p \in lease
      PROVE  \/ p[1] = tblAddr[p[2]]
             \/ /\ startInst[p[2]] = p[1]
                /\ opStatus[p[2]] \in {"running", "failed"}
             \/ \E c \in Conns :
                  /\ connInst[c] = p[1]
                  /\ connPc[c] # "done" \/ connResult[c] = "failed"
             \/ /\ Registered(p[2])
                /\ \E c \in Conns : connEp[c] = p[2] /\ connInst[c] = tblAddr[p[2]]
  <2> USE <1>3 DEF EndpointIInv, EndpointTypeOK
  <2>1. p[1] \in Nat /\ p[2] \in EndpointIds /\ Owned(p[1], p[2])
    BY DEF Owned
  <2>2. p[1] # 0 /\ opStatus[p[2]] # "none"
    BY <2>1 DEF Leasing
  <2>3. CASE startInst[p[2]] = p[1] /\ opStatus[p[2]] = "succeeded"
    <3>1. Registered(p[2]) /\ tblAddr[p[2]] # 0
      BY <2>1, <2>3 DEF TablePhases
    <3> QED
      BY <2>1, <2>2, <2>3, <3>1 DEF Locals, InLocal
  <2>4. ASSUME NEW c \in Conns, connEp[c] = p[2], connInst[c] = p[1]
        PROVE  \/ connPc[c] # "done" \/ connResult[c] = "failed"
               \/ /\ Registered(p[2])
                  /\ \E d \in Conns : connEp[d] = p[2] /\ connInst[d] = tblAddr[p[2]]
    <3>1. connPc[c] = "done" /\ connResult[c] # "failed" => WokenEntry(p[2])
      BY <2>2, <2>4 DEF Accounts, WakesStand, Published
    <3>2. WokenEntry(p[2]) => Registered(p[2])
      BY <2>1 DEF WokenEntry, Accounts
    <3> QED
      BY <3>1, <3>2 DEF WokenEntry
  <2> QED
    BY <2>1, <2>2, <2>3, <2>4 DEF Locals, InLocal, OpStatuses
<1>4. Inv => HandedIsAccounted
  BY <1>3, BootedIsWarmOrLeased DEF HandedIsAccounted, Owned
<1> QED
  BY <1>1, <1>2, <1>4, PTL DEF EndpointSpec
=============================================================================
