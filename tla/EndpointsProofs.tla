-------------------------- MODULE EndpointsProofs --------------------------
(***************************************************************************)
(* Proofs about the life of endpoints, for every policy, every number of   *)
(* endpoints, branches, connections and suspends, and every set of port    *)
(* calls that may fail.                                                    *)
(*                                                                         *)
(* The inductive invariant says who owns a compute (Leasing), what each    *)
(* step of a start, a connection and a suspend may rely on (the parts      *)
(* named ...Phases, ...Holds and ...Targets), who holds the registry's     *)
(* lock (PublishHoldsLock), why an entry is suspended (Causes), and who is *)
(* bound to repair a disagreement of registry and store (Repair). Each     *)
(* part speaks of few variables. A lemma ...Steps names the actions that   *)
(* write them, so the proof that a part is preserved has one step for each *)
(* of these actions and none for the others.                               *)
(***************************************************************************)
EXTENDS Endpoints, WarmPoolProofs

Owned(i, e) == <<i, e>> \in lease

\* Compute i belongs to e and carries its branch.
Equipped(i, e) == Owned(i, e) /\ <<i, branchOf[e]>> \in attached

\* A compute has one owner for ever, and only its owner's branch.
Leasing ==
  /\ \A i \in Nat, e \in EndpointIds : Owned(i, e) =>
       i # 0 /\ i \in handed /\ branchOf[e] \in Branches /\ opStatus[e] # "none"
  /\ \A i \in Nat, e, f \in EndpointIds : Owned(i, e) /\ Owned(i, f) => e = f
  /\ \A i \in Nat, b \in Branches : <<i, b>> \in attached =>
       \E e \in EndpointIds : Owned(i, e) /\ branchOf[e] = b

OpPhases ==
  \A e \in EndpointIds :
    /\ opStatus[e] = "none" <=> startPc[e] = "idle"
    /\ opStatus[e] \in {"succeeded", "failed"} <=> startPc[e] = "done"

StartHolds ==
  \A e \in EndpointIds :
    /\ startPc[e] \in {"attach", "put", "transition", "register", "meter",
                       "complete"} => Owned(startInst[e], e)
    /\ startPc[e] \in {"put", "transition", "register", "meter", "complete"} =>
         Equipped(startInst[e], e)

StorePhases ==
  /\ \A e \in EndpointIds :
       /\ startPc[e] \in {"idle", "acquire", "attach", "put"} =>
            epState[e] = "absent"
       /\ startPc[e] = "transition" => epState[e] = "creating"
       /\ startPc[e] \in {"register", "meter", "complete"} =>
            epState[e] \in {"active", "suspended"}
       /\ startPc[e] = "done" =>
            epState[e] \in (IF opStatus[e] = "succeeded"
                            THEN {"active", "suspended"} ELSE {"absent"})
  /\ \A s \in Suspends : suspPc[s] \in {"registry", "store"} =>
       /\ suspEp[s] \in EndpointIds
       /\ epState[suspEp[s]] \in {"active", "suspended"}

TablePhases ==
  \A e \in EndpointIds :
    /\ startPc[e] \in {"meter", "complete"} => Registered(e)
    /\ startPc[e] \in {"idle", "acquire", "attach", "put", "transition",
                       "register"} => ~ Registered(e)
    /\ startPc[e] = "complete" => e \in metered
    /\ opStatus[e] = "succeeded" => Registered(e) /\ e \in metered
    /\ opStatus[e] = "failed" => ~ Registered(e)
    /\ Registered(e) => tblAddr[e] # 0

TableEquipped == \A e \in EndpointIds : tblAddr[e] # 0 => Equipped(tblAddr[e], e)

Causes ==
  /\ \A e \in EndpointIds : tblState[e] = "suspended" => Suspended(e)
  /\ \A s \in Suspends : suspPc[s] # "done" => suspResult[s] = "none"
  /\ \A c \in Conns :
       /\ connPc[c] \in {"idle", "state", "addr"} => connInst[c] = 0
       /\ connPc[c] = "wake" => Suspended(connEp[c])
       /\ connInst[c] # 0 => Suspended(connEp[c])

ConnTargets ==
  \A c \in Conns : connPc[c] \in ConnPcs \ {"idle", "done"} =>
    connEp[c] \in EndpointIds /\ Registered(connEp[c])

ConnHolds ==
  \A c \in Conns :
    /\ connPc[c] # "done" => connAddr[c] = 0
    /\ connPc[c] \in {"attach", "transition", "publish", "publishState",
                      "publishAddr"} => Owned(connInst[c], connEp[c])
    /\ connPc[c] \in {"transition", "publish", "publishState", "publishAddr"} =>
         Equipped(connInst[c], connEp[c])
    /\ connAddr[c] # 0 =>
         connEp[c] \in EndpointIds /\ Equipped(connAddr[c], connEp[c])

\* A suspend between its two writes, or a wake that has not published yet.
RepairPending(e) ==
  \/ \E s \in Suspends : suspEp[s] = e /\ suspPc[s] = "store"
  \/ \E c \in Conns : connEp[c] = e /\ connPc[c] \in {"publish", "publishState"}

Repair ==
  \A e \in EndpointIds :
    epState[e] = "active" /\ tblState[e] = "suspended" => RepairPending(e)

EndpointIInv ==
  /\ PoolIInv
  /\ EndpointTypeOK
  /\ Leasing
  /\ OpPhases
  /\ StartHolds
  /\ StorePhases
  /\ TablePhases
  /\ TableEquipped
  /\ Causes
  /\ ConnTargets
  /\ ConnHolds
  /\ PublishHoldsLock
  /\ Repair

-----------------------------------------------------------------------------
(* The pool inside the control plane. *)

\* Every step of the control plane is one method of the pool or leaves it alone.
LEMMA PoolSteps ==
  ASSUME EndpointNext
  PROVE  \/ PoolAcquire(NextInstance) \/ PoolAcquireFails \/ PoolAge
         \/ UNCHANGED poolVars
BY DEF EndpointNext, Requests, StartStep, ConnStep, SuspendStep, TimePasses,
       AllServed, StartOp, StartBranchNotFound, StartAcquire,
       StartAcquireFails, StartAttach, StartAttachFails, StartPut,
       StartCredentialFails, StartTransition, StartRegister, StartMeter,
       StartComplete, ConnLookup, ConnReadState, ConnReadAddr,
       ConnWakeAcquire, ConnWakeAcquireFails, ConnWakeAttach,
       ConnWakeAttachFails, ConnWakeTransition, ConnPublishAddrFirst,
       ConnPublishStateFirst, ConnPublishState, ConnServeWoken,
       ConnPublishAddr, SuspendBegin, SuspendEngineFails, SuspendRegistry,
       SuspendStore, endpointVars

LEMMA PoolKept ==
  ASSUME PoolIInv, EndpointNext
  PROVE  PoolIInv'
BY PoolSteps, AcquirePreserves, AcquireFailsPreserves, AgePreserves,
   StutterPreserves

-----------------------------------------------------------------------------
(* What a step never takes back. *)

\* A lease is only added, and only by an Acquire.
LEMMA LeaseSteps ==
  ASSUME EndpointNext
  PROVE  \/ UNCHANGED <<lease>>
         \/ \E e \in EndpointIds :
              \/ StartAcquire(e)
         \/ \E c \in Conns :
              \/ ConnWakeAcquire(c)
BY DEF EndpointNext, Requests, StartStep, ConnStep, SuspendStep, TimePasses,
       AllServed, PoolAge, PoolAcquireFails, StartOp,
       StartBranchNotFound, StartFails, StartAcquireFails, StartAttach,
       StartAttachFails, StartPut, StartCredentialFails,
       StartTransition, StartRegister, StartMeter, StartComplete,
       ConnLookup, ConnReadState, ConnReadAddr, ConnWakeAcquireFails,
       ConnWakeFails, ConnWakeAttach, ConnWakeAttachFails,
       ConnWakeTransition, ConnPublishAddrFirst, ConnPublishStateFirst,
       ConnPublishState, ConnServeWoken, ConnPublishAddr, SuspendBegin,
       SuspendEngineFails, SuspendRegistry, SuspendStore, endpointVars,
       poolVars, opVars, storeVars, registryVars, connVars, suspVars,
       engineVars

LEMMA OwnedStays ==
  ASSUME EndpointNext
  PROVE  \A i \in Nat, e \in EndpointIds : Owned(i, e) => Owned(i, e)'
BY LeaseSteps DEF StartAcquire, ConnWakeAcquire, Owned

\* What decides whether a compute carries the branch of its endpoint.
LEMMA AttachSteps ==
  ASSUME EndpointNext
  PROVE  \/ UNCHANGED <<attached, branchOf>>
         \/ \E e \in EndpointIds, b \in Branches \cup {NoBranch} : StartOp(e, b)
         \/ \E e \in EndpointIds :
              \/ StartAttach(e)
         \/ \E c \in Conns :
              \/ ConnWakeAttach(c)
BY DEF EndpointNext, Requests, StartStep, ConnStep, SuspendStep, TimePasses,
       AllServed, PoolAge, PoolAcquireFails, StartBranchNotFound,
       StartFails, StartAcquire, StartAcquireFails, StartAttachFails,
       StartPut, StartCredentialFails, StartTransition, StartRegister,
       StartMeter, StartComplete, ConnLookup, ConnReadState,
       ConnReadAddr, ConnWakeAcquire, ConnWakeAcquireFails,
       ConnWakeFails, ConnWakeAttachFails, ConnWakeTransition,
       ConnPublishAddrFirst, ConnPublishStateFirst, ConnPublishState,
       ConnServeWoken, ConnPublishAddr, SuspendBegin,
       SuspendEngineFails, SuspendRegistry, SuspendStore, endpointVars,
       poolVars, opVars, storeVars, registryVars, connVars, suspVars,
       engineVars

\* The branch of an endpoint is fixed before its first compute is acquired.
LEMMA EquippedStays ==
  ASSUME EndpointTypeOK, Leasing, EndpointNext
  PROVE  \A i \in Nat, e \in EndpointIds : Equipped(i, e) => Equipped(i, e)'
<1> SUFFICES ASSUME NEW i \in Nat, NEW e \in EndpointIds, Equipped(i, e)
             PROVE  Equipped(i, e)'
  OBVIOUS
<1>1. Owned(i, e) /\ <<i, branchOf[e]>> \in attached
  BY DEF Equipped
<1>2. Owned(i, e)'
  BY <1>1, OwnedStays
<1>3. opStatus[e] # "none"
  BY <1>1 DEF Leasing
<1>4. branchOf'[e] = branchOf[e] /\ attached \subseteq attached'
  BY <1>3, AttachSteps
  DEF StartOp, StartAttach, ConnWakeAttach, EndpointTypeOK, opVars, engineVars
<1> QED
  BY <1>1, <1>2, <1>4 DEF Equipped

\* Who writes the state of a registry entry.
LEMMA EntrySteps ==
  ASSUME EndpointNext
  PROVE  \/ UNCHANGED <<tblState>>
         \/ \E e \in EndpointIds :
              \/ StartRegister(e)
         \/ \E c \in Conns :
              \/ ConnPublishStateFirst(c) \/ ConnPublishState(c)
         \/ \E s \in Suspends :
              \/ SuspendRegistry(s)
BY DEF EndpointNext, Requests, StartStep, ConnStep, SuspendStep, TimePasses,
       AllServed, PoolAge, PoolAcquireFails, StartOp,
       StartBranchNotFound, StartFails, StartAcquire,
       StartAcquireFails, StartAttach, StartAttachFails, StartPut,
       StartCredentialFails, StartTransition, StartMeter,
       StartComplete, ConnLookup, ConnReadState, ConnReadAddr,
       ConnWakeAcquire, ConnWakeAcquireFails, ConnWakeFails,
       ConnWakeAttach, ConnWakeAttachFails, ConnWakeTransition,
       ConnPublishAddrFirst, ConnPublishAddr, ConnServeWoken,
       SuspendBegin, SuspendEngineFails, SuspendStore, endpointVars,
       poolVars, opVars, storeVars, registryVars, connVars, suspVars,
       engineVars

\* Nothing deregisters an endpoint.
LEMMA RegisteredStays ==
  ASSUME EndpointTypeOK, EndpointNext
  PROVE  \A e \in EndpointIds : Registered(e) => Registered(e)'
BY EntrySteps DEF EndpointTypeOK, Registered, StartRegister,
                  ConnPublishStateFirst, ConnPublishState, SuspendRegistry

\* The steps of a suspend.
LEMMA SuspendSteps ==
  ASSUME EndpointNext
  PROVE  \/ UNCHANGED <<suspPc, suspEp, suspResult>>
         \/ \E s \in Suspends, e \in EndpointIds :
              \/ SuspendBegin(s, e) \/ SuspendEngineFails(s, e)
         \/ \E s \in Suspends :
              \/ SuspendRegistry(s) \/ SuspendStore(s)
BY DEF EndpointNext, Requests, StartStep, ConnStep, SuspendStep, TimePasses,
       AllServed, PoolAge, PoolAcquireFails, StartOp,
       StartBranchNotFound, StartFails, StartAcquire,
       StartAcquireFails, StartAttach, StartAttachFails, StartPut,
       StartCredentialFails, StartTransition, StartRegister,
       StartMeter, StartComplete, ConnLookup, ConnReadState,
       ConnReadAddr, ConnWakeAcquire, ConnWakeAcquireFails,
       ConnWakeFails, ConnWakeAttach, ConnWakeAttachFails,
       ConnWakeTransition, ConnPublishAddrFirst, ConnPublishStateFirst,
       ConnPublishState, ConnServeWoken, ConnPublishAddr, endpointVars,
       poolVars, opVars, storeVars, registryVars, connVars, suspVars,
       engineVars

\* A suspend that has reached the registry stays its entry's cause.
LEMMA SuspendedStays ==
  ASSUME EndpointTypeOK, Causes, EndpointNext
  PROVE  \A e : Suspended(e) => Suspended(e)'
<1> SUFFICES ASSUME NEW e, Suspended(e)
             PROVE  Suspended(e)'
  OBVIOUS
<1>1. PICK s \in Suspends :
        suspEp[s] = e /\ (suspPc[s] = "store" \/ suspResult[s] \in {"ok", "forbidden"})
  BY DEF Suspended
<1>2. suspPc[s] # "done" => suspResult[s] = "none"
  BY DEF Causes
<1>3. /\ suspEp'[s] = e
      /\ suspPc'[s] = "store" \/ suspResult'[s] \in {"ok", "forbidden"}
  BY <1>1, <1>2, SuspendSteps
  DEF EndpointTypeOK, SuspendBegin, SuspendEngineFails, SuspendRegistry,
      SuspendStore, SuspendReturns
<1> QED
  BY <1>3 DEF Suspended

-----------------------------------------------------------------------------
(* The types. *)

\* The variables keep their types: what a call reads of another one's entry is
\* there when it reads it.
LEMMA EndpointTypeOKKept ==
  ASSUME PoolIInv, EndpointTypeOK, Leasing, StartHolds, ConnTargets, ConnHolds,
         EndpointNext
  PROVE  EndpointTypeOK'
<1>1. PoolTypeOK'
  BY PoolKept DEF PoolIInv
<1>2. \A e \in EndpointIds : startPc[e] = "attach" => branchOf[e] \in Branches
  BY DEF EndpointTypeOK, StartHolds, Leasing
<1>3. \A c \in Conns : connPc[c] \in ConnPcs \ {"idle", "done"} =>
        connEp[c] \in EndpointIds
  BY DEF ConnTargets
<1>4. \A c \in Conns : connPc[c] = "attach" => branchOf[connEp[c]] \in Branches
  <2> SUFFICES ASSUME NEW c \in Conns, connPc[c] = "attach"
               PROVE  branchOf[connEp[c]] \in Branches
    OBVIOUS
  <2>1. connEp[c] \in EndpointIds /\ connInst[c] \in Nat
    BY <1>3 DEF EndpointTypeOK, ConnPcs
  <2>2. Owned(connInst[c], connEp[c])
    BY DEF ConnHolds
  <2> QED
    BY <2>1, <2>2 DEF Leasing
<1> USE DEF EndpointTypeOK, OpStatuses, StartPcs, ConnPcs, opVars, storeVars,
            registryVars, connVars, suspVars, engineVars
<1>5. ASSUME NEW e \in EndpointIds, NEW b \in Branches \cup {NoBranch},
             StartOp(e, b)
      PROVE  EndpointTypeOK'
  BY <1>5, <1>1 DEF StartOp
<1>6. ASSUME NEW e \in EndpointIds, StartBranchNotFound(e)
      PROVE  EndpointTypeOK'
  BY <1>6, <1>1 DEF StartBranchNotFound, StartFails
<1>7. ASSUME NEW e \in EndpointIds, StartAcquire(e)
      PROVE  EndpointTypeOK'
  <2>1. NextInstance \in Nat
    BY <1>7, AcquireIsFresh DEF StartAcquire, Instances
  <2> QED
    BY <1>7, <1>1, <2>1 DEF StartAcquire
<1>8. ASSUME NEW e \in EndpointIds, StartAcquireFails(e)
      PROVE  EndpointTypeOK'
  BY <1>8, <1>1 DEF StartAcquireFails, StartFails
<1>9. ASSUME NEW e \in EndpointIds, StartAttach(e)
      PROVE  EndpointTypeOK'
  BY <1>9, <1>1, <1>2 DEF StartAttach
<1>10. ASSUME NEW e \in EndpointIds, StartAttachFails(e)
      PROVE  EndpointTypeOK'
  BY <1>10, <1>1 DEF StartAttachFails, StartFails
<1>11. ASSUME NEW e \in EndpointIds, StartPut(e)
      PROVE  EndpointTypeOK'
  BY <1>11, <1>1 DEF StartPut
<1>12. ASSUME NEW e \in EndpointIds, StartCredentialFails(e)
      PROVE  EndpointTypeOK'
  BY <1>12, <1>1 DEF StartCredentialFails, StartFails
<1>13. ASSUME NEW e \in EndpointIds, StartTransition(e)
      PROVE  EndpointTypeOK'
  BY <1>13, <1>1
  DEF StartTransition, TryTransition, CanTransition, endpointTransitions
<1>14. ASSUME NEW e \in EndpointIds, StartRegister(e)
      PROVE  EndpointTypeOK'
  BY <1>14, <1>1 DEF StartRegister
<1>15. ASSUME NEW e \in EndpointIds, StartMeter(e)
      PROVE  EndpointTypeOK'
  BY <1>15, <1>1 DEF StartMeter
<1>16. ASSUME NEW e \in EndpointIds, StartComplete(e)
      PROVE  EndpointTypeOK'
  BY <1>16, <1>1 DEF StartComplete
<1>17. ASSUME NEW c \in Conns, NEW e \in EndpointIds, ConnLookup(c, e)
      PROVE  EndpointTypeOK'
  BY <1>17, <1>1 DEF ConnLookup
<1>18. ASSUME NEW c \in Conns, ConnReadState(c)
      PROVE  EndpointTypeOK'
  BY <1>18, <1>1 DEF ConnReadState
<1>19. ASSUME NEW c \in Conns, ConnReadAddr(c)
      PROVE  EndpointTypeOK'
  BY <1>19, <1>1, <1>3 DEF ConnReadAddr
<1>20. ASSUME NEW c \in Conns, ConnWakeAcquire(c)
      PROVE  EndpointTypeOK'
  <2>1. NextInstance \in Nat
    BY <1>20, AcquireIsFresh DEF ConnWakeAcquire, Instances
  <2> QED
    BY <1>20, <1>1, <1>3, <2>1 DEF ConnWakeAcquire
<1>21. ASSUME NEW c \in Conns, ConnWakeAcquireFails(c)
      PROVE  EndpointTypeOK'
  BY <1>21, <1>1 DEF ConnWakeAcquireFails, ConnWakeFails
<1>22. ASSUME NEW c \in Conns, ConnWakeAttach(c)
      PROVE  EndpointTypeOK'
  BY <1>22, <1>1, <1>3, <1>4 DEF ConnWakeAttach
<1>23. ASSUME NEW c \in Conns, ConnWakeAttachFails(c)
      PROVE  EndpointTypeOK'
  BY <1>23, <1>1 DEF ConnWakeAttachFails, ConnWakeFails
<1>24. ASSUME NEW c \in Conns, ConnWakeTransition(c)
      PROVE  EndpointTypeOK'
  BY <1>24, <1>1
  DEF ConnWakeTransition, TryTransition, CanTransition, endpointTransitions
<1>25. ASSUME NEW c \in Conns, ConnPublishAddrFirst(c)
      PROVE  EndpointTypeOK'
  BY <1>25, <1>1 DEF ConnPublishAddrFirst
<1>26. ASSUME NEW c \in Conns, ConnPublishStateFirst(c)
      PROVE  EndpointTypeOK'
  BY <1>26, <1>1 DEF ConnPublishStateFirst
<1>27. ASSUME NEW c \in Conns, ConnPublishState(c)
      PROVE  EndpointTypeOK'
  BY <1>27, <1>1 DEF ConnPublishState, ConnServeWoken
<1>28. ASSUME NEW c \in Conns, ConnPublishAddr(c)
      PROVE  EndpointTypeOK'
  BY <1>28, <1>1 DEF ConnPublishAddr, ConnServeWoken
<1>29. ASSUME NEW s \in Suspends, NEW e \in EndpointIds,
             SuspendBegin(s, e)
      PROVE  EndpointTypeOK'
  BY <1>29, <1>1 DEF SuspendBegin, SuspendReturns
<1>30. ASSUME NEW s \in Suspends, NEW e \in EndpointIds,
             SuspendEngineFails(s, e)
      PROVE  EndpointTypeOK'
  BY <1>30, <1>1 DEF SuspendEngineFails, SuspendReturns
<1>31. ASSUME NEW s \in Suspends, SuspendRegistry(s)
      PROVE  EndpointTypeOK'
  BY <1>31, <1>1 DEF SuspendRegistry
<1>32. ASSUME NEW s \in Suspends, SuspendStore(s)
      PROVE  EndpointTypeOK'
  BY <1>32, <1>1
  DEF SuspendStore, SuspendReturns, TryTransition, CanTransition, endpointTransitions
<1>33. CASE TimePasses
  BY <1>33, <1>1 DEF TimePasses
<1>34. CASE UNCHANGED endpointVars
  BY <1>34, <1>1 DEF endpointVars
<1> QED
  BY <1>5, <1>6, <1>7, <1>8, <1>9, <1>10, <1>11, <1>12, <1>13, <1>14, <1>15,
     <1>16, <1>17, <1>18, <1>19, <1>20, <1>21, <1>22, <1>23, <1>24,
     <1>25, <1>26, <1>27, <1>28, <1>29, <1>30, <1>31, <1>32, <1>33, <1>34
  DEF EndpointNext, Requests, StartStep, ConnStep, SuspendStep, AllServed

-----------------------------------------------------------------------------
(* Leases. *)

\* An Acquire for an endpoint that has a branch: the instance is nobody else's.
LEMMA AcquireLeases ==
  ASSUME PoolIInv, EndpointTypeOK, Leasing,
         NEW e \in EndpointIds, branchOf[e] \in Branches, opStatus[e] # "none",
         PoolAcquire(NextInstance),
         lease' = lease \cup {<<NextInstance, e>>},
         UNCHANGED <<attached, branchOf, opStatus>>
  PROVE  Leasing'
<1> DEFINE i == NextInstance
<1>1. i \in Nat /\ i # 0 /\ i \notin handed /\ handed' = handed \cup {i}
  BY AcquireIsFresh DEF Instances
<1>2. \A f \in EndpointIds : ~ Owned(i, f)
  BY <1>1 DEF Leasing
<1> HIDE DEF i
<1>3. \A j \in Nat, f \in EndpointIds :
        Owned(j, f)' <=> Owned(j, f) \/ (j = i /\ f = e)
  BY <1>1 DEF Owned, i
<1>4. \A j \in Nat, f \in EndpointIds : Owned(j, f)' =>
        j # 0 /\ j \in handed' /\ branchOf'[f] \in Branches /\ opStatus'[f] # "none"
  BY <1>1, <1>3 DEF Leasing
<1>5. \A j \in Nat, f, g \in EndpointIds : Owned(j, f)' /\ Owned(j, g)' => f = g
  BY <1>2, <1>3 DEF Leasing
<1>6. \A j \in Nat, b \in Branches : <<j, b>> \in attached' =>
        \E f \in EndpointIds : Owned(j, f)' /\ branchOf'[f] = b
  BY <1>3 DEF Leasing
<1> QED
  BY <1>4, <1>5, <1>6 DEF Leasing, Owned

\* AttachBranch for a compute that belongs to an endpoint.
LEMMA AttachKeepsLeases ==
  ASSUME EndpointTypeOK, Leasing,
         NEW e \in EndpointIds, NEW i \in Nat, Owned(i, e),
         attached' = attached \cup {<<i, branchOf[e]>>},
         UNCHANGED <<lease, handed, branchOf, opStatus>>
  PROVE  Leasing'
<1>1. \A j \in Nat, f \in EndpointIds : Owned(j, f)' <=> Owned(j, f)
  BY DEF Owned
<1>2. \A j \in Nat, b \in Branches : <<j, b>> \in attached' =>
        \E f \in EndpointIds : Owned(j, f)' /\ branchOf'[f] = b
  <2> SUFFICES ASSUME NEW j \in Nat, NEW b \in Branches, <<j, b>> \in attached'
               PROVE  \E f \in EndpointIds : Owned(j, f)' /\ branchOf'[f] = b
    OBVIOUS
  <2>1. CASE <<j, b>> \in attached
    BY <2>1, <1>1 DEF Leasing
  <2>2. CASE j = i /\ b = branchOf[e]
    BY <2>2, <1>1
  <2> QED
    BY <2>1, <2>2
<1>3. \A j \in Nat, f \in EndpointIds : Owned(j, f)' =>
        j # 0 /\ j \in handed' /\ branchOf'[f] \in Branches /\ opStatus'[f] # "none"
  BY <1>1 DEF Leasing
<1>4. \A j \in Nat, f, g \in EndpointIds : Owned(j, f)' /\ Owned(j, g)' => f = g
  BY <1>1 DEF Leasing
<1> QED
  BY <1>2, <1>3, <1>4 DEF Leasing

\* The actions that write what Leasing speaks of.
LEMMA LeasingSteps ==
  ASSUME EndpointNext
  PROVE  \/ UNCHANGED <<lease, attached, handed, branchOf, opStatus>>
         \/ \E e \in EndpointIds, b \in Branches \cup {NoBranch} : StartOp(e, b)
         \/ \E e \in EndpointIds :
              \/ StartBranchNotFound(e) \/ StartAcquire(e)
              \/ StartAcquireFails(e) \/ StartAttach(e)
              \/ StartAttachFails(e) \/ StartCredentialFails(e)
              \/ StartComplete(e)
         \/ \E c \in Conns :
              \/ ConnWakeAcquire(c) \/ ConnWakeAttach(c)
BY DEF EndpointNext, Requests, StartStep, ConnStep, SuspendStep, TimePasses,
       AllServed, PoolAge, PoolAcquireFails, StartPut, StartTransition,
       StartRegister, StartMeter, ConnLookup, ConnReadState,
       ConnReadAddr, ConnWakeAcquireFails, ConnWakeFails,
       ConnWakeAttachFails, ConnWakeTransition, ConnPublishAddrFirst,
       ConnPublishStateFirst, ConnPublishState, ConnServeWoken,
       ConnPublishAddr, SuspendBegin, SuspendEngineFails,
       SuspendRegistry, SuspendStore, endpointVars, poolVars, opVars,
       storeVars, registryVars, connVars, suspVars, engineVars

\* No step gives a compute a second owner, or its owner another branch.
LEMMA LeasingKept ==
  ASSUME PoolIInv,
         EndpointTypeOK,
         Leasing,
         OpPhases,
         StartHolds,
         TablePhases,
         TableEquipped,
         ConnTargets,
         ConnHolds,
         EndpointNext
  PROVE  Leasing'
<1> USE DEF EndpointTypeOK, OpStatuses, StartPcs, ConnPcs, opVars, storeVars,
            registryVars, connVars, suspVars, engineVars
<1>1. CASE UNCHANGED <<lease, attached, handed, branchOf, opStatus>>
  BY <1>1 DEF Leasing, Owned
<1>2. ASSUME NEW e \in EndpointIds, NEW b \in Branches \cup {NoBranch},
             StartOp(e, b)
      PROVE  Leasing'
  <2>1. \A i \in Nat, f \in EndpointIds : Owned(i, f)' <=> Owned(i, f)
    BY <1>2 DEF StartOp, Owned
  <2> QED
    BY <1>2, <2>1 DEF StartOp, Leasing, poolVars
<1>3. ASSUME NEW e \in EndpointIds, StartBranchNotFound(e)
      PROVE  Leasing'
  <2>1. \A i \in Nat, f \in EndpointIds : Owned(i, f)' <=> Owned(i, f)
    BY <1>3 DEF StartBranchNotFound, StartFails, Owned
  <2> QED
    BY <1>3, <2>1 DEF StartBranchNotFound, StartFails, Leasing, poolVars
<1>4. ASSUME NEW e \in EndpointIds, StartAcquire(e)
      PROVE  Leasing'
  <2>1. branchOf[e] \in Branches /\ opStatus[e] # "none"
    BY <1>4 DEF StartAcquire, OpPhases
  <2> QED
    BY <1>4, <2>1, AcquireLeases DEF StartAcquire
<1>5. ASSUME NEW e \in EndpointIds, StartAcquireFails(e)
      PROVE  Leasing'
  <2>1. \A i \in Nat, f \in EndpointIds : Owned(i, f)' <=> Owned(i, f)
    BY <1>5 DEF StartAcquireFails, PoolAcquireFails, StartFails, Owned
  <2> QED
    BY <1>5, <2>1 DEF StartAcquireFails, PoolAcquireFails, StartFails, Leasing
<1>6. ASSUME NEW e \in EndpointIds, StartAttach(e)
      PROVE  Leasing'
  <2>1. Owned(startInst[e], e) /\ startInst[e] \in Nat
    BY <1>6 DEF StartAttach, StartHolds
  <2> QED
    BY <1>6, <2>1, AttachKeepsLeases DEF StartAttach, poolVars
<1>7. ASSUME NEW e \in EndpointIds, StartAttachFails(e)
      PROVE  Leasing'
  <2>1. \A i \in Nat, f \in EndpointIds : Owned(i, f)' <=> Owned(i, f)
    BY <1>7 DEF StartAttachFails, StartFails, Owned
  <2> QED
    BY <1>7, <2>1 DEF StartAttachFails, StartFails, Leasing, poolVars
<1>8. ASSUME NEW e \in EndpointIds, StartCredentialFails(e)
      PROVE  Leasing'
  <2>1. \A i \in Nat, f \in EndpointIds : Owned(i, f)' <=> Owned(i, f)
    BY <1>8 DEF StartCredentialFails, StartFails, Owned
  <2> QED
    BY <1>8, <2>1 DEF StartCredentialFails, StartFails, Leasing, poolVars
<1>9. ASSUME NEW e \in EndpointIds, StartComplete(e)
      PROVE  Leasing'
  <2>1. \A i \in Nat, f \in EndpointIds : Owned(i, f)' <=> Owned(i, f)
    BY <1>9 DEF StartComplete, Owned
  <2> QED
    BY <1>9, <2>1 DEF StartComplete, Leasing, poolVars
<1>10. ASSUME NEW c \in Conns, ConnWakeAcquire(c)
      PROVE  Leasing'
  <2>1. connEp[c] \in EndpointIds /\ Registered(connEp[c])
    BY <1>10 DEF ConnWakeAcquire, ConnTargets
  <2>2. tblAddr[connEp[c]] \in Nat /\ Owned(tblAddr[connEp[c]], connEp[c])
    BY <2>1 DEF TablePhases, TableEquipped, Equipped
  <2>3. branchOf[connEp[c]] \in Branches /\ opStatus[connEp[c]] # "none"
    BY <2>1, <2>2 DEF Leasing
  <2> QED
    BY <1>10, <2>1, <2>3, AcquireLeases DEF ConnWakeAcquire
<1>11. ASSUME NEW c \in Conns, ConnWakeAttach(c)
      PROVE  Leasing'
  <2>1. connEp[c] \in EndpointIds /\ connInst[c] \in Nat
    BY <1>11 DEF ConnWakeAttach, ConnTargets
  <2>2. Owned(connInst[c], connEp[c])
    BY <1>11 DEF ConnWakeAttach, ConnHolds
  <2> QED
    BY <1>11, <2>1, <2>2, AttachKeepsLeases DEF ConnWakeAttach, poolVars
<1> QED
  BY <1>1, <1>2, <1>3, <1>4, <1>5, <1>6, <1>7, <1>8, <1>9, <1>10, <1>11,
     LeasingSteps

-----------------------------------------------------------------------------
(* The steps of a start. *)

\* The actions that write what OpPhases speaks of.
LEMMA OpPhasesSteps ==
  ASSUME EndpointNext
  PROVE  \/ UNCHANGED <<opStatus, startPc>>
         \/ \E e \in EndpointIds, b \in Branches \cup {NoBranch} : StartOp(e, b)
         \/ \E e \in EndpointIds :
              \/ StartBranchNotFound(e) \/ StartAcquire(e)
              \/ StartAcquireFails(e) \/ StartAttach(e)
              \/ StartAttachFails(e) \/ StartPut(e)
              \/ StartCredentialFails(e) \/ StartTransition(e)
              \/ StartRegister(e) \/ StartMeter(e) \/ StartComplete(e)
BY DEF EndpointNext, Requests, StartStep, ConnStep, SuspendStep, TimePasses,
       AllServed, PoolAge, PoolAcquireFails, ConnLookup, ConnReadState,
       ConnReadAddr, ConnWakeAcquire, ConnWakeAcquireFails,
       ConnWakeFails, ConnWakeAttach, ConnWakeAttachFails,
       ConnWakeTransition, ConnPublishAddrFirst, ConnPublishStateFirst,
       ConnPublishState, ConnServeWoken, ConnPublishAddr, SuspendBegin,
       SuspendEngineFails, SuspendRegistry, SuspendStore, endpointVars,
       poolVars, opVars, storeVars, registryVars, connVars, suspVars,
       engineVars

\* An operation has settled exactly when its goroutine has returned.
LEMMA OpPhasesKept ==
  ASSUME EndpointTypeOK,
         OpPhases,
         EndpointNext
  PROVE  OpPhases'
<1> USE DEF OpPhases, EndpointTypeOK, OpStatuses, StartPcs, ConnPcs, opVars,
            storeVars, registryVars, connVars, suspVars,
            engineVars
<1>1. CASE UNCHANGED <<opStatus, startPc>>
  BY <1>1
<1>2. ASSUME NEW e \in EndpointIds, NEW b \in Branches \cup {NoBranch},
             StartOp(e, b)
      PROVE  OpPhases'
  BY <1>2 DEF StartOp
<1>3. ASSUME NEW e \in EndpointIds, StartBranchNotFound(e)
      PROVE  OpPhases'
  BY <1>3 DEF StartBranchNotFound, StartFails
<1>4. ASSUME NEW e \in EndpointIds, StartAcquire(e)
      PROVE  OpPhases'
  BY <1>4 DEF StartAcquire
<1>5. ASSUME NEW e \in EndpointIds, StartAcquireFails(e)
      PROVE  OpPhases'
  BY <1>5 DEF StartAcquireFails, StartFails
<1>6. ASSUME NEW e \in EndpointIds, StartAttach(e)
      PROVE  OpPhases'
  BY <1>6 DEF StartAttach
<1>7. ASSUME NEW e \in EndpointIds, StartAttachFails(e)
      PROVE  OpPhases'
  BY <1>7 DEF StartAttachFails, StartFails
<1>8. ASSUME NEW e \in EndpointIds, StartPut(e)
      PROVE  OpPhases'
  BY <1>8 DEF StartPut
<1>9. ASSUME NEW e \in EndpointIds, StartCredentialFails(e)
      PROVE  OpPhases'
  BY <1>9 DEF StartCredentialFails, StartFails
<1>10. ASSUME NEW e \in EndpointIds, StartTransition(e)
      PROVE  OpPhases'
  BY <1>10
  DEF StartTransition, TryTransition, CanTransition, endpointTransitions
<1>11. ASSUME NEW e \in EndpointIds, StartRegister(e)
      PROVE  OpPhases'
  BY <1>11 DEF StartRegister
<1>12. ASSUME NEW e \in EndpointIds, StartMeter(e)
      PROVE  OpPhases'
  BY <1>12 DEF StartMeter
<1>13. ASSUME NEW e \in EndpointIds, StartComplete(e)
      PROVE  OpPhases'
  BY <1>13 DEF StartComplete
<1> QED
  BY <1>1, <1>2, <1>3, <1>4, <1>5, <1>6, <1>7, <1>8, <1>9, <1>10, <1>11,
     <1>12, <1>13, OpPhasesSteps

\* The actions that write what StartHolds speaks of.
LEMMA StartHoldsSteps ==
  ASSUME EndpointNext
  PROVE  \/ UNCHANGED <<startPc, startInst>>
         \/ \E e \in EndpointIds, b \in Branches \cup {NoBranch} : StartOp(e, b)
         \/ \E e \in EndpointIds :
              \/ StartBranchNotFound(e) \/ StartAcquire(e)
              \/ StartAcquireFails(e) \/ StartAttach(e)
              \/ StartAttachFails(e) \/ StartPut(e)
              \/ StartCredentialFails(e) \/ StartTransition(e)
              \/ StartRegister(e) \/ StartMeter(e) \/ StartComplete(e)
BY DEF EndpointNext, Requests, StartStep, ConnStep, SuspendStep, TimePasses,
       AllServed, PoolAge, PoolAcquireFails, ConnLookup, ConnReadState,
       ConnReadAddr, ConnWakeAcquire, ConnWakeAcquireFails,
       ConnWakeFails, ConnWakeAttach, ConnWakeAttachFails,
       ConnWakeTransition, ConnPublishAddrFirst, ConnPublishStateFirst,
       ConnPublishState, ConnServeWoken, ConnPublishAddr, SuspendBegin,
       SuspendEngineFails, SuspendRegistry, SuspendStore, endpointVars,
       poolVars, opVars, storeVars, registryVars, connVars, suspVars,
       engineVars

\* A start keeps the compute it has acquired.
LEMMA StartHoldsKept ==
  ASSUME PoolIInv,
         EndpointTypeOK,
         Leasing,
         StartHolds,
         EndpointNext
  PROVE  StartHolds'
<1> USE DEF StartHolds, EndpointTypeOK, OpStatuses, StartPcs, ConnPcs, opVars,
            storeVars, registryVars, connVars, suspVars,
            engineVars
<1>a. \A i \in Nat, f \in EndpointIds : Owned(i, f) => Owned(i, f)'
  BY OwnedStays
<1>b. \A i \in Nat, f \in EndpointIds : Equipped(i, f) => Equipped(i, f)'
  BY EquippedStays
<1>1. CASE UNCHANGED <<startPc, startInst>>
  BY <1>1, <1>a, <1>b
<1>2. ASSUME NEW e \in EndpointIds, NEW b \in Branches \cup {NoBranch},
             StartOp(e, b)
      PROVE  StartHolds'
  BY <1>2, <1>a, <1>b DEF StartOp
<1>3. ASSUME NEW e \in EndpointIds, StartBranchNotFound(e)
      PROVE  StartHolds'
  BY <1>3, <1>a, <1>b DEF StartBranchNotFound, StartFails
<1>4. ASSUME NEW e \in EndpointIds, StartAcquire(e)
      PROVE  StartHolds'
  <2>1. <<NextInstance, e>> \in lease'
    BY <1>4 DEF StartAcquire
  <2>2. startInst' = [startInst EXCEPT ![e] = NextInstance]
        /\ startPc' = [startPc EXCEPT ![e] = "attach"]
    BY <1>4 DEF StartAcquire
  <2>3. Owned(startInst[e], e)'
    BY <2>1, <2>2 DEF Owned
  <2> QED
    BY <2>2, <2>3, <1>a, <1>b
<1>5. ASSUME NEW e \in EndpointIds, StartAcquireFails(e)
      PROVE  StartHolds'
  BY <1>5, <1>a, <1>b DEF StartAcquireFails, StartFails
<1>6. ASSUME NEW e \in EndpointIds, StartAttach(e)
      PROVE  StartHolds'
  <2>1. Owned(startInst[e], e) /\ startInst[e] \in Nat
    BY <1>6 DEF StartAttach
  <2>2. Equipped(startInst[e], e)'
    BY <1>6, <2>1 DEF StartAttach, Equipped, Owned
  <2> QED
    BY <1>6, <2>1, <2>2, <1>a, <1>b DEF StartAttach
<1>7. ASSUME NEW e \in EndpointIds, StartAttachFails(e)
      PROVE  StartHolds'
  BY <1>7, <1>a, <1>b DEF StartAttachFails, StartFails
<1>8. ASSUME NEW e \in EndpointIds, StartPut(e)
      PROVE  StartHolds'
  BY <1>8, <1>a, <1>b DEF StartPut
<1>9. ASSUME NEW e \in EndpointIds, StartCredentialFails(e)
      PROVE  StartHolds'
  BY <1>9, <1>a, <1>b DEF StartCredentialFails, StartFails
<1>10. ASSUME NEW e \in EndpointIds, StartTransition(e)
      PROVE  StartHolds'
  BY <1>10, <1>a, <1>b
  DEF StartTransition, TryTransition, CanTransition, endpointTransitions
<1>11. ASSUME NEW e \in EndpointIds, StartRegister(e)
      PROVE  StartHolds'
  BY <1>11, <1>a, <1>b DEF StartRegister
<1>12. ASSUME NEW e \in EndpointIds, StartMeter(e)
      PROVE  StartHolds'
  BY <1>12, <1>a, <1>b DEF StartMeter
<1>13. ASSUME NEW e \in EndpointIds, StartComplete(e)
      PROVE  StartHolds'
  BY <1>13, <1>a, <1>b DEF StartComplete
<1> QED
  BY <1>1, <1>2, <1>3, <1>4, <1>5, <1>6, <1>7, <1>8, <1>9, <1>10, <1>11,
     <1>12, <1>13, StartHoldsSteps

\* The actions that write what StorePhases speaks of.
LEMMA StorePhasesSteps ==
  ASSUME EndpointNext
  PROVE  \/ UNCHANGED <<opStatus, startPc, epState, tblState, suspPc, suspEp>>
         \/ \E e \in EndpointIds, b \in Branches \cup {NoBranch} : StartOp(e, b)
         \/ \E e \in EndpointIds :
              \/ StartBranchNotFound(e) \/ StartAcquire(e)
              \/ StartAcquireFails(e) \/ StartAttach(e)
              \/ StartAttachFails(e) \/ StartPut(e)
              \/ StartCredentialFails(e) \/ StartTransition(e)
              \/ StartRegister(e) \/ StartMeter(e) \/ StartComplete(e)
         \/ \E c \in Conns :
              \/ ConnWakeTransition(c) \/ ConnPublishStateFirst(c)
              \/ ConnPublishState(c)
         \/ \E s \in Suspends, e \in EndpointIds :
              \/ SuspendBegin(s, e) \/ SuspendEngineFails(s, e)
         \/ \E s \in Suspends :
              \/ SuspendRegistry(s) \/ SuspendStore(s)
BY DEF EndpointNext, Requests, StartStep, ConnStep, SuspendStep, TimePasses,
       AllServed, PoolAge, PoolAcquireFails, ConnLookup, ConnReadState,
       ConnReadAddr, ConnWakeAcquire, ConnWakeAcquireFails,
       ConnWakeFails, ConnWakeAttach, ConnWakeAttachFails,
       ConnPublishAddrFirst, ConnPublishAddr, ConnServeWoken,
       endpointVars, poolVars, opVars, storeVars, registryVars,
       connVars, suspVars, engineVars

\* The endpoint table follows the phases of a start.
LEMMA StorePhasesKept ==
  ASSUME EndpointTypeOK,
         StorePhases,
         OpPhases,
         TablePhases,
         ConnTargets,
         EndpointNext
  PROVE  StorePhases'
<1> USE DEF StorePhases, OpPhases, TablePhases, ConnTargets, Registered,
            Known, EndpointTypeOK, OpStatuses, StartPcs, ConnPcs,
            opVars, storeVars, registryVars, connVars, suspVars,
            engineVars
<1>1. CASE UNCHANGED <<opStatus, startPc, epState, tblState, suspPc, suspEp>>
  BY <1>1
<1>2. ASSUME NEW e \in EndpointIds, NEW b \in Branches \cup {NoBranch},
             StartOp(e, b)
      PROVE  StorePhases'
  BY <1>2 DEF StartOp
<1>3. ASSUME NEW e \in EndpointIds, StartBranchNotFound(e)
      PROVE  StorePhases'
  BY <1>3 DEF StartBranchNotFound, StartFails
<1>4. ASSUME NEW e \in EndpointIds, StartAcquire(e)
      PROVE  StorePhases'
  BY <1>4 DEF StartAcquire
<1>5. ASSUME NEW e \in EndpointIds, StartAcquireFails(e)
      PROVE  StorePhases'
  BY <1>5 DEF StartAcquireFails, StartFails
<1>6. ASSUME NEW e \in EndpointIds, StartAttach(e)
      PROVE  StorePhases'
  BY <1>6 DEF StartAttach
<1>7. ASSUME NEW e \in EndpointIds, StartAttachFails(e)
      PROVE  StorePhases'
  BY <1>7 DEF StartAttachFails, StartFails
<1>8. ASSUME NEW e \in EndpointIds, StartPut(e)
      PROVE  StorePhases'
  BY <1>8 DEF StartPut
<1>9. ASSUME NEW e \in EndpointIds, StartCredentialFails(e)
      PROVE  StorePhases'
  BY <1>9 DEF StartCredentialFails, StartFails
<1>10. ASSUME NEW e \in EndpointIds, StartTransition(e)
      PROVE  StorePhases'
  BY <1>10
  DEF StartTransition, TryTransition, CanTransition, endpointTransitions
<1>11. ASSUME NEW e \in EndpointIds, StartRegister(e)
      PROVE  StorePhases'
  BY <1>11 DEF StartRegister
<1>12. ASSUME NEW e \in EndpointIds, StartMeter(e)
      PROVE  StorePhases'
  BY <1>12 DEF StartMeter
<1>13. ASSUME NEW e \in EndpointIds, StartComplete(e)
      PROVE  StorePhases'
  BY <1>13 DEF StartComplete
<1>14. ASSUME NEW c \in Conns, ConnWakeTransition(c)
      PROVE  StorePhases'
  BY <1>14
  DEF ConnWakeTransition, TryTransition, CanTransition, endpointTransitions
<1>15. ASSUME NEW c \in Conns, ConnPublishStateFirst(c)
      PROVE  StorePhases'
  BY <1>15 DEF ConnPublishStateFirst
<1>16. ASSUME NEW c \in Conns, ConnPublishState(c)
      PROVE  StorePhases'
  BY <1>16 DEF ConnPublishState, ConnServeWoken
<1>17. ASSUME NEW s \in Suspends, NEW e \in EndpointIds,
             SuspendBegin(s, e)
      PROVE  StorePhases'
  BY <1>17 DEF SuspendBegin, SuspendReturns
<1>18. ASSUME NEW s \in Suspends, NEW e \in EndpointIds,
             SuspendEngineFails(s, e)
      PROVE  StorePhases'
  BY <1>18 DEF SuspendEngineFails, SuspendReturns
<1>19. ASSUME NEW s \in Suspends, SuspendRegistry(s)
      PROVE  StorePhases'
  BY <1>19 DEF SuspendRegistry
<1>20. ASSUME NEW s \in Suspends, SuspendStore(s)
      PROVE  StorePhases'
  BY <1>20
  DEF SuspendStore, SuspendReturns, TryTransition, CanTransition, endpointTransitions
<1> QED
  BY <1>1, <1>2, <1>3, <1>4, <1>5, <1>6, <1>7, <1>8, <1>9, <1>10, <1>11,
     <1>12, <1>13, <1>14, <1>15, <1>16, <1>17, <1>18, <1>19, <1>20,
     StorePhasesSteps

\* The actions that write what TablePhases speaks of.
LEMMA TablePhasesSteps ==
  ASSUME EndpointNext
  PROVE  \/ UNCHANGED <<opStatus, startPc, tblState, tblAddr, metered>>
         \/ \E e \in EndpointIds, b \in Branches \cup {NoBranch} : StartOp(e, b)
         \/ \E e \in EndpointIds :
              \/ StartBranchNotFound(e) \/ StartAcquire(e)
              \/ StartAcquireFails(e) \/ StartAttach(e)
              \/ StartAttachFails(e) \/ StartPut(e)
              \/ StartCredentialFails(e) \/ StartTransition(e)
              \/ StartRegister(e) \/ StartMeter(e) \/ StartComplete(e)
         \/ \E c \in Conns :
              \/ ConnPublishAddrFirst(c) \/ ConnPublishStateFirst(c)
              \/ ConnPublishState(c) \/ ConnPublishAddr(c)
         \/ \E s \in Suspends :
              \/ SuspendRegistry(s)
BY DEF EndpointNext, Requests, StartStep, ConnStep, SuspendStep, TimePasses,
       AllServed, PoolAge, PoolAcquireFails, ConnLookup, ConnReadState,
       ConnReadAddr, ConnWakeAcquire, ConnWakeAcquireFails,
       ConnWakeFails, ConnWakeAttach, ConnWakeAttachFails,
       ConnWakeTransition, SuspendBegin, SuspendEngineFails,
       SuspendStore, endpointVars, poolVars, opVars, storeVars,
       registryVars, connVars, suspVars, engineVars

\* An endpoint is in the registry from the registration of its start on.
LEMMA TablePhasesKept ==
  ASSUME EndpointTypeOK,
         Leasing,
         OpPhases,
         StartHolds,
         TablePhases,
         ConnTargets,
         ConnHolds,
         EndpointNext
  PROVE  TablePhases'
<1> USE DEF TablePhases, OpPhases, Registered, ConnTargets, EndpointTypeOK,
            OpStatuses, StartPcs, ConnPcs, opVars, storeVars,
            registryVars, connVars, suspVars, engineVars
<1>a. \A c \in Conns : connPc[c] \in {"publish", "publishAddr"} => connInst[c] # 0
  BY DEF ConnHolds, Leasing
<1>b. \A e \in EndpointIds : startPc[e] = "register" => startInst[e] # 0
  BY DEF StartHolds, Leasing
<1>1. CASE UNCHANGED <<opStatus, startPc, tblState, tblAddr, metered>>
  BY <1>1, <1>a, <1>b
<1>2. ASSUME NEW e \in EndpointIds, NEW b \in Branches \cup {NoBranch},
             StartOp(e, b)
      PROVE  TablePhases'
  BY <1>2, <1>a, <1>b DEF StartOp
<1>3. ASSUME NEW e \in EndpointIds, StartBranchNotFound(e)
      PROVE  TablePhases'
  BY <1>3, <1>a, <1>b DEF StartBranchNotFound, StartFails
<1>4. ASSUME NEW e \in EndpointIds, StartAcquire(e)
      PROVE  TablePhases'
  BY <1>4, <1>a, <1>b DEF StartAcquire
<1>5. ASSUME NEW e \in EndpointIds, StartAcquireFails(e)
      PROVE  TablePhases'
  BY <1>5, <1>a, <1>b DEF StartAcquireFails, StartFails
<1>6. ASSUME NEW e \in EndpointIds, StartAttach(e)
      PROVE  TablePhases'
  BY <1>6, <1>a, <1>b DEF StartAttach
<1>7. ASSUME NEW e \in EndpointIds, StartAttachFails(e)
      PROVE  TablePhases'
  BY <1>7, <1>a, <1>b DEF StartAttachFails, StartFails
<1>8. ASSUME NEW e \in EndpointIds, StartPut(e)
      PROVE  TablePhases'
  BY <1>8, <1>a, <1>b DEF StartPut
<1>9. ASSUME NEW e \in EndpointIds, StartCredentialFails(e)
      PROVE  TablePhases'
  BY <1>9, <1>a, <1>b DEF StartCredentialFails, StartFails
<1>10. ASSUME NEW e \in EndpointIds, StartTransition(e)
      PROVE  TablePhases'
  BY <1>10, <1>a, <1>b
  DEF StartTransition, TryTransition, CanTransition, endpointTransitions
<1>11. ASSUME NEW e \in EndpointIds, StartRegister(e)
      PROVE  TablePhases'
  BY <1>11, <1>a, <1>b DEF StartRegister
<1>12. ASSUME NEW e \in EndpointIds, StartMeter(e)
      PROVE  TablePhases'
  BY <1>12, <1>a, <1>b DEF StartMeter
<1>13. ASSUME NEW e \in EndpointIds, StartComplete(e)
      PROVE  TablePhases'
  BY <1>13, <1>a, <1>b DEF StartComplete
<1>14. ASSUME NEW c \in Conns, ConnPublishAddrFirst(c)
      PROVE  TablePhases'
  BY <1>14, <1>a, <1>b DEF ConnPublishAddrFirst
<1>15. ASSUME NEW c \in Conns, ConnPublishStateFirst(c)
      PROVE  TablePhases'
  BY <1>15, <1>a, <1>b DEF ConnPublishStateFirst
<1>16. ASSUME NEW c \in Conns, ConnPublishState(c)
      PROVE  TablePhases'
  BY <1>16, <1>a, <1>b DEF ConnPublishState, ConnServeWoken
<1>17. ASSUME NEW c \in Conns, ConnPublishAddr(c)
      PROVE  TablePhases'
  BY <1>17, <1>a, <1>b DEF ConnPublishAddr, ConnServeWoken
<1>18. ASSUME NEW s \in Suspends, SuspendRegistry(s)
      PROVE  TablePhases'
  BY <1>18, <1>a, <1>b DEF SuspendRegistry
<1> QED
  BY <1>1, <1>2, <1>3, <1>4, <1>5, <1>6, <1>7, <1>8, <1>9, <1>10, <1>11,
     <1>12, <1>13, <1>14, <1>15, <1>16, <1>17, <1>18, TablePhasesSteps

\* The actions that write what TableEquipped speaks of.
LEMMA TableEquippedSteps ==
  ASSUME EndpointNext
  PROVE  \/ UNCHANGED <<tblAddr>>
         \/ \E e \in EndpointIds :
              \/ StartRegister(e)
         \/ \E c \in Conns :
              \/ ConnPublishAddrFirst(c) \/ ConnPublishAddr(c)
BY DEF EndpointNext, Requests, StartStep, ConnStep, SuspendStep, TimePasses,
       AllServed, PoolAge, PoolAcquireFails, StartOp,
       StartBranchNotFound, StartFails, StartAcquire,
       StartAcquireFails, StartAttach, StartAttachFails, StartPut,
       StartCredentialFails, StartTransition, StartMeter,
       StartComplete, ConnLookup, ConnReadState, ConnReadAddr,
       ConnWakeAcquire, ConnWakeAcquireFails, ConnWakeFails,
       ConnWakeAttach, ConnWakeAttachFails, ConnWakeTransition,
       ConnPublishStateFirst, ConnPublishState, ConnServeWoken,
       SuspendBegin, SuspendEngineFails, SuspendRegistry, SuspendStore,
       endpointVars, poolVars, opVars, storeVars, registryVars,
       connVars, suspVars, engineVars

\* What is published carries the branch.
LEMMA TableEquippedKept ==
  ASSUME EndpointTypeOK,
         Leasing,
         StartHolds,
         TableEquipped,
         ConnTargets,
         ConnHolds,
         EndpointNext
  PROVE  TableEquipped'
<1> USE DEF TableEquipped, StartHolds, ConnTargets, ConnHolds, EndpointTypeOK,
            OpStatuses, StartPcs, ConnPcs, opVars, storeVars,
            registryVars, connVars, suspVars, engineVars
<1>a. \A i \in Nat, f \in EndpointIds : Equipped(i, f) => Equipped(i, f)'
  BY EquippedStays
<1>1. CASE UNCHANGED <<tblAddr>>
  BY <1>1, <1>a
<1>2. ASSUME NEW e \in EndpointIds, StartRegister(e)
      PROVE  TableEquipped'
  BY <1>2, <1>a DEF StartRegister
<1>3. ASSUME NEW c \in Conns, ConnPublishAddrFirst(c)
      PROVE  TableEquipped'
  BY <1>3, <1>a DEF ConnPublishAddrFirst
<1>4. ASSUME NEW c \in Conns, ConnPublishAddr(c)
      PROVE  TableEquipped'
  BY <1>4, <1>a DEF ConnPublishAddr, ConnServeWoken
<1> QED
  BY <1>1, <1>2, <1>3, <1>4, TableEquippedSteps

-----------------------------------------------------------------------------
(* The steps of a connection. *)

\* The actions that write what ConnTargets speaks of.
LEMMA ConnTargetsSteps ==
  ASSUME EndpointNext
  PROVE  \/ UNCHANGED <<connPc, connEp, tblState>>
         \/ \E e \in EndpointIds :
              \/ StartRegister(e)
         \/ \E c \in Conns, e \in EndpointIds : ConnLookup(c, e)
         \/ \E c \in Conns :
              \/ ConnReadState(c) \/ ConnReadAddr(c) \/ ConnWakeAcquire(c)
              \/ ConnWakeAcquireFails(c) \/ ConnWakeAttach(c)
              \/ ConnWakeAttachFails(c) \/ ConnWakeTransition(c)
              \/ ConnPublishAddrFirst(c) \/ ConnPublishStateFirst(c)
              \/ ConnPublishState(c) \/ ConnPublishAddr(c)
         \/ \E s \in Suspends :
              \/ SuspendRegistry(s)
BY DEF EndpointNext, Requests, StartStep, ConnStep, SuspendStep, TimePasses,
       AllServed, PoolAge, PoolAcquireFails, StartOp,
       StartBranchNotFound, StartFails, StartAcquire,
       StartAcquireFails, StartAttach, StartAttachFails, StartPut,
       StartCredentialFails, StartTransition, StartMeter,
       StartComplete, SuspendBegin, SuspendEngineFails, SuspendStore,
       endpointVars, poolVars, opVars, storeVars, registryVars,
       connVars, suspVars, engineVars

\* A connection routes an endpoint that stays registered.
LEMMA ConnTargetsKept ==
  ASSUME EndpointTypeOK,
         ConnTargets,
         EndpointNext
  PROVE  ConnTargets'
<1> USE DEF ConnTargets, EndpointTypeOK, OpStatuses, StartPcs, ConnPcs,
            opVars, storeVars, registryVars, connVars, suspVars,
            engineVars
<1>a. \A f \in EndpointIds : Registered(f) => Registered(f)'
  BY RegisteredStays
<1>1. CASE UNCHANGED <<connPc, connEp, tblState>>
  BY <1>1, <1>a
<1>2. ASSUME NEW e \in EndpointIds, StartRegister(e)
      PROVE  ConnTargets'
  BY <1>2, <1>a DEF StartRegister
<1>3. ASSUME NEW c \in Conns, NEW e \in EndpointIds, ConnLookup(c, e)
      PROVE  ConnTargets'
  BY <1>3, <1>a DEF ConnLookup
<1>4. ASSUME NEW c \in Conns, ConnReadState(c)
      PROVE  ConnTargets'
  BY <1>4, <1>a DEF ConnReadState
<1>5. ASSUME NEW c \in Conns, ConnReadAddr(c)
      PROVE  ConnTargets'
  BY <1>5, <1>a DEF ConnReadAddr
<1>6. ASSUME NEW c \in Conns, ConnWakeAcquire(c)
      PROVE  ConnTargets'
  BY <1>6, <1>a DEF ConnWakeAcquire
<1>7. ASSUME NEW c \in Conns, ConnWakeAcquireFails(c)
      PROVE  ConnTargets'
  BY <1>7, <1>a DEF ConnWakeAcquireFails, ConnWakeFails
<1>8. ASSUME NEW c \in Conns, ConnWakeAttach(c)
      PROVE  ConnTargets'
  BY <1>8, <1>a DEF ConnWakeAttach
<1>9. ASSUME NEW c \in Conns, ConnWakeAttachFails(c)
      PROVE  ConnTargets'
  BY <1>9, <1>a DEF ConnWakeAttachFails, ConnWakeFails
<1>10. ASSUME NEW c \in Conns, ConnWakeTransition(c)
      PROVE  ConnTargets'
  BY <1>10, <1>a
  DEF ConnWakeTransition, TryTransition, CanTransition, endpointTransitions
<1>11. ASSUME NEW c \in Conns, ConnPublishAddrFirst(c)
      PROVE  ConnTargets'
  BY <1>11, <1>a DEF ConnPublishAddrFirst
<1>12. ASSUME NEW c \in Conns, ConnPublishStateFirst(c)
      PROVE  ConnTargets'
  BY <1>12, <1>a DEF ConnPublishStateFirst
<1>13. ASSUME NEW c \in Conns, ConnPublishState(c)
      PROVE  ConnTargets'
  BY <1>13, <1>a DEF ConnPublishState, ConnServeWoken
<1>14. ASSUME NEW c \in Conns, ConnPublishAddr(c)
      PROVE  ConnTargets'
  BY <1>14, <1>a DEF ConnPublishAddr, ConnServeWoken
<1>15. ASSUME NEW s \in Suspends, SuspendRegistry(s)
      PROVE  ConnTargets'
  BY <1>15, <1>a DEF SuspendRegistry
<1> QED
  BY <1>1, <1>2, <1>3, <1>4, <1>5, <1>6, <1>7, <1>8, <1>9, <1>10, <1>11,
     <1>12, <1>13, <1>14, <1>15, ConnTargetsSteps

\* The actions that write what ConnHolds speaks of.
LEMMA ConnHoldsSteps ==
  ASSUME EndpointNext
  PROVE  \/ UNCHANGED <<connPc, connEp, connInst, connAddr>>
         \/ \E c \in Conns, e \in EndpointIds : ConnLookup(c, e)
         \/ \E c \in Conns :
              \/ ConnReadState(c) \/ ConnReadAddr(c) \/ ConnWakeAcquire(c)
              \/ ConnWakeAcquireFails(c) \/ ConnWakeAttach(c)
              \/ ConnWakeAttachFails(c) \/ ConnWakeTransition(c)
              \/ ConnPublishAddrFirst(c) \/ ConnPublishStateFirst(c)
              \/ ConnPublishState(c) \/ ConnPublishAddr(c)
BY DEF EndpointNext, Requests, StartStep, ConnStep, SuspendStep, TimePasses,
       AllServed, PoolAge, PoolAcquireFails, StartOp,
       StartBranchNotFound, StartFails, StartAcquire,
       StartAcquireFails, StartAttach, StartAttachFails, StartPut,
       StartCredentialFails, StartTransition, StartRegister,
       StartMeter, StartComplete, SuspendBegin, SuspendEngineFails,
       SuspendRegistry, SuspendStore, endpointVars, poolVars, opVars,
       storeVars, registryVars, connVars, suspVars, engineVars

\* A connection keeps the compute it has woken and returns no other.
LEMMA ConnHoldsKept ==
  ASSUME PoolIInv,
         EndpointTypeOK,
         Leasing,
         TablePhases,
         TableEquipped,
         ConnTargets,
         ConnHolds,
         EndpointNext
  PROVE  ConnHolds'
<1> USE DEF ConnHolds, ConnTargets, TablePhases, TableEquipped,
            EndpointTypeOK, OpStatuses, StartPcs, ConnPcs, opVars,
            storeVars, registryVars, connVars, suspVars,
            engineVars
<1>a. \A i \in Nat, f \in EndpointIds : Owned(i, f) => Owned(i, f)'
  BY OwnedStays
<1>b. \A i \in Nat, f \in EndpointIds : Equipped(i, f) => Equipped(i, f)'
  BY EquippedStays
<1>1. CASE UNCHANGED <<connPc, connEp, connInst, connAddr>>
  BY <1>1, <1>a, <1>b
<1>2. ASSUME NEW c \in Conns, NEW e \in EndpointIds, ConnLookup(c, e)
      PROVE  ConnHolds'
  BY <1>2, <1>a, <1>b DEF ConnLookup
<1>3. ASSUME NEW c \in Conns, ConnReadState(c)
      PROVE  ConnHolds'
  BY <1>3, <1>a, <1>b DEF ConnReadState
<1>4. ASSUME NEW c \in Conns, ConnReadAddr(c)
      PROVE  ConnHolds'
  BY <1>4, <1>a, <1>b DEF ConnReadAddr
<1>5. ASSUME NEW c \in Conns, ConnWakeAcquire(c)
      PROVE  ConnHolds'
  <2>1. connEp[c] \in EndpointIds /\ connEp' = connEp
    BY <1>5 DEF ConnWakeAcquire
  <2>2. <<NextInstance, connEp[c]>> \in lease'
    BY <1>5 DEF ConnWakeAcquire
  <2>3. /\ connInst' = [connInst EXCEPT ![c] = NextInstance]
        /\ connPc' = [connPc EXCEPT ![c] = "attach"]
        /\ connAddr' = connAddr
        /\ connPc[c] = "wake"
    BY <1>5 DEF ConnWakeAcquire
  <2>4. Owned(connInst[c], connEp[c])'
    BY <2>1, <2>2, <2>3 DEF Owned
  <2> QED
    BY <2>1, <2>3, <2>4, <1>a, <1>b
<1>6. ASSUME NEW c \in Conns, ConnWakeAcquireFails(c)
      PROVE  ConnHolds'
  BY <1>6, <1>a, <1>b DEF ConnWakeAcquireFails, ConnWakeFails
<1>7. ASSUME NEW c \in Conns, ConnWakeAttach(c)
      PROVE  ConnHolds'
  <2>1. /\ connEp[c] \in EndpointIds
        /\ connInst[c] \in Nat
        /\ Owned(connInst[c], connEp[c])
    BY <1>7 DEF ConnWakeAttach
  <2>2. Equipped(connInst[c], connEp[c])'
    BY <1>7, <2>1 DEF ConnWakeAttach, Equipped, Owned
  <2> QED
    BY <1>7, <2>1, <2>2, <1>a, <1>b DEF ConnWakeAttach
<1>8. ASSUME NEW c \in Conns, ConnWakeAttachFails(c)
      PROVE  ConnHolds'
  BY <1>8, <1>a, <1>b DEF ConnWakeAttachFails, ConnWakeFails
<1>9. ASSUME NEW c \in Conns, ConnWakeTransition(c)
      PROVE  ConnHolds'
  BY <1>9, <1>a, <1>b
  DEF ConnWakeTransition, TryTransition, CanTransition, endpointTransitions
<1>10. ASSUME NEW c \in Conns, ConnPublishAddrFirst(c)
      PROVE  ConnHolds'
  BY <1>10, <1>a, <1>b DEF ConnPublishAddrFirst
<1>11. ASSUME NEW c \in Conns, ConnPublishStateFirst(c)
      PROVE  ConnHolds'
  BY <1>11, <1>a, <1>b DEF ConnPublishStateFirst
<1>12. ASSUME NEW c \in Conns, ConnPublishState(c)
      PROVE  ConnHolds'
  BY <1>12, <1>a, <1>b DEF ConnPublishState, ConnServeWoken
<1>13. ASSUME NEW c \in Conns, ConnPublishAddr(c)
      PROVE  ConnHolds'
  BY <1>13, <1>a, <1>b DEF ConnPublishAddr, ConnServeWoken
<1> QED
  BY <1>1, <1>2, <1>3, <1>4, <1>5, <1>6, <1>7, <1>8, <1>9, <1>10, <1>11,
     <1>12, <1>13, ConnHoldsSteps

\* The actions that write what PublishHoldsLock speaks of.
LEMMA LockingSteps ==
  ASSUME EndpointNext
  PROVE  \/ UNCHANGED <<connPc, connEp, connInst, tblAddr, tblState, writer>>
         \/ \E e \in EndpointIds :
              \/ StartRegister(e)
         \/ \E c \in Conns, e \in EndpointIds : ConnLookup(c, e)
         \/ \E c \in Conns :
              \/ ConnReadState(c) \/ ConnReadAddr(c) \/ ConnWakeAcquire(c)
              \/ ConnWakeAcquireFails(c) \/ ConnWakeAttach(c)
              \/ ConnWakeAttachFails(c) \/ ConnWakeTransition(c)
              \/ ConnPublishAddrFirst(c) \/ ConnPublishStateFirst(c)
              \/ ConnPublishState(c) \/ ConnPublishAddr(c)
         \/ \E s \in Suspends :
              \/ SuspendRegistry(s)
BY DEF EndpointNext, Requests, StartStep, ConnStep, SuspendStep, TimePasses,
       AllServed, PoolAge, PoolAcquireFails, StartOp,
       StartBranchNotFound, StartFails, StartAcquire,
       StartAcquireFails, StartAttach, StartAttachFails, StartPut,
       StartCredentialFails, StartTransition, StartMeter,
       StartComplete, SuspendBegin, SuspendEngineFails, SuspendStore,
       endpointVars, poolVars, opVars, storeVars, registryVars,
       connVars, suspVars, engineVars

\* A connection between its two writes has the lock.
LEMMA LockingKept ==
  ASSUME EndpointTypeOK,
         TablePhases,
         ConnTargets,
         PublishHoldsLock,
         EndpointNext
  PROVE  PublishHoldsLock'
<1> USE DEF PublishHoldsLock, TablePhases, ConnTargets, Registered,
            RegistryUnlocked, EndpointTypeOK, OpStatuses, StartPcs, ConnPcs, opVars,
            storeVars, registryVars, connVars, suspVars,
            engineVars
<1>a. NoConn \notin Conns
  BY ProcessAssumption
<1>1. CASE UNCHANGED <<connPc, connEp, connInst, tblAddr, tblState, writer>>
  BY <1>1, <1>a
<1>2. ASSUME NEW e \in EndpointIds, StartRegister(e)
      PROVE  PublishHoldsLock'
  BY <1>2, <1>a DEF StartRegister
<1>3. ASSUME NEW c \in Conns, NEW e \in EndpointIds, ConnLookup(c, e)
      PROVE  PublishHoldsLock'
  BY <1>3, <1>a DEF ConnLookup
<1>4. ASSUME NEW c \in Conns, ConnReadState(c)
      PROVE  PublishHoldsLock'
  BY <1>4, <1>a DEF ConnReadState
<1>5. ASSUME NEW c \in Conns, ConnReadAddr(c)
      PROVE  PublishHoldsLock'
  BY <1>5, <1>a DEF ConnReadAddr
<1>6. ASSUME NEW c \in Conns, ConnWakeAcquire(c)
      PROVE  PublishHoldsLock'
  BY <1>6, <1>a DEF ConnWakeAcquire
<1>7. ASSUME NEW c \in Conns, ConnWakeAcquireFails(c)
      PROVE  PublishHoldsLock'
  BY <1>7, <1>a DEF ConnWakeAcquireFails, ConnWakeFails
<1>8. ASSUME NEW c \in Conns, ConnWakeAttach(c)
      PROVE  PublishHoldsLock'
  BY <1>8, <1>a DEF ConnWakeAttach
<1>9. ASSUME NEW c \in Conns, ConnWakeAttachFails(c)
      PROVE  PublishHoldsLock'
  BY <1>9, <1>a DEF ConnWakeAttachFails, ConnWakeFails
<1>10. ASSUME NEW c \in Conns, ConnWakeTransition(c)
      PROVE  PublishHoldsLock'
  BY <1>10, <1>a
  DEF ConnWakeTransition, TryTransition, CanTransition, endpointTransitions
<1>11. ASSUME NEW c \in Conns, ConnPublishAddrFirst(c)
      PROVE  PublishHoldsLock'
  BY <1>11, <1>a DEF ConnPublishAddrFirst
<1>12. ASSUME NEW c \in Conns, ConnPublishStateFirst(c)
      PROVE  PublishHoldsLock'
  BY <1>12, <1>a DEF ConnPublishStateFirst
<1>13. ASSUME NEW c \in Conns, ConnPublishState(c)
      PROVE  PublishHoldsLock'
  BY <1>13, <1>a DEF ConnPublishState, ConnServeWoken
<1>14. ASSUME NEW c \in Conns, ConnPublishAddr(c)
      PROVE  PublishHoldsLock'
  BY <1>14, <1>a DEF ConnPublishAddr, ConnServeWoken
<1>15. ASSUME NEW s \in Suspends, SuspendRegistry(s)
      PROVE  PublishHoldsLock'
  BY <1>15, <1>a DEF SuspendRegistry
<1> QED
  BY <1>1, <1>2, <1>3, <1>4, <1>5, <1>6, <1>7, <1>8, <1>9, <1>10, <1>11,
     <1>12, <1>13, <1>14, <1>15, LockingSteps

-----------------------------------------------------------------------------
(* Suspends, and what they leave to others. *)

\* The actions that write what Causes speaks of.
LEMMA CausesSteps ==
  ASSUME EndpointNext
  PROVE  \/ UNCHANGED <<tblState, suspPc, suspEp, suspResult, connPc, connEp, connInst>>
         \/ \E e \in EndpointIds :
              \/ StartRegister(e)
         \/ \E c \in Conns, e \in EndpointIds : ConnLookup(c, e)
         \/ \E c \in Conns :
              \/ ConnReadState(c) \/ ConnReadAddr(c) \/ ConnWakeAcquire(c)
              \/ ConnWakeAcquireFails(c) \/ ConnWakeAttach(c)
              \/ ConnWakeAttachFails(c) \/ ConnWakeTransition(c)
              \/ ConnPublishAddrFirst(c) \/ ConnPublishStateFirst(c)
              \/ ConnPublishState(c) \/ ConnPublishAddr(c)
         \/ \E s \in Suspends, e \in EndpointIds :
              \/ SuspendBegin(s, e) \/ SuspendEngineFails(s, e)
         \/ \E s \in Suspends :
              \/ SuspendRegistry(s) \/ SuspendStore(s)
BY DEF EndpointNext, Requests, StartStep, ConnStep, SuspendStep, TimePasses,
       AllServed, PoolAge, PoolAcquireFails, StartOp,
       StartBranchNotFound, StartFails, StartAcquire,
       StartAcquireFails, StartAttach, StartAttachFails, StartPut,
       StartCredentialFails, StartTransition, StartMeter,
       StartComplete, endpointVars, poolVars, opVars, storeVars,
       registryVars, connVars, suspVars, engineVars

\* An entry is suspended, and a wake on its way, because of a suspend.
LEMMA CausesKept ==
  ASSUME EndpointTypeOK,
         Causes,
         TablePhases,
         ConnTargets,
         EndpointNext
  PROVE  Causes'
<1> USE DEF Causes, ConnTargets, Registered, EndpointTypeOK, OpStatuses,
            StartPcs, ConnPcs, opVars, storeVars, registryVars,
            connVars, suspVars, engineVars
<1>a. \A f : Suspended(f) => Suspended(f)'
  BY SuspendedStays
<1>1. CASE UNCHANGED <<tblState, suspPc, suspEp, suspResult, connPc, connEp, connInst>>
  BY <1>1, <1>a
<1>2. ASSUME NEW e \in EndpointIds, StartRegister(e)
      PROVE  Causes'
  BY <1>2, <1>a DEF StartRegister
<1>3. ASSUME NEW c \in Conns, NEW e \in EndpointIds, ConnLookup(c, e)
      PROVE  Causes'
  BY <1>3, <1>a DEF ConnLookup
<1>4. ASSUME NEW c \in Conns, ConnReadState(c)
      PROVE  Causes'
  BY <1>4, <1>a DEF ConnReadState
<1>5. ASSUME NEW c \in Conns, ConnReadAddr(c)
      PROVE  Causes'
  BY <1>5, <1>a DEF ConnReadAddr
<1>6. ASSUME NEW c \in Conns, ConnWakeAcquire(c)
      PROVE  Causes'
  BY <1>6, <1>a DEF ConnWakeAcquire
<1>7. ASSUME NEW c \in Conns, ConnWakeAcquireFails(c)
      PROVE  Causes'
  BY <1>7, <1>a DEF ConnWakeAcquireFails, ConnWakeFails
<1>8. ASSUME NEW c \in Conns, ConnWakeAttach(c)
      PROVE  Causes'
  BY <1>8, <1>a DEF ConnWakeAttach
<1>9. ASSUME NEW c \in Conns, ConnWakeAttachFails(c)
      PROVE  Causes'
  BY <1>9, <1>a DEF ConnWakeAttachFails, ConnWakeFails
<1>10. ASSUME NEW c \in Conns, ConnWakeTransition(c)
      PROVE  Causes'
  BY <1>10, <1>a
  DEF ConnWakeTransition, TryTransition, CanTransition, endpointTransitions
<1>11. ASSUME NEW c \in Conns, ConnPublishAddrFirst(c)
      PROVE  Causes'
  BY <1>11, <1>a DEF ConnPublishAddrFirst
<1>12. ASSUME NEW c \in Conns, ConnPublishStateFirst(c)
      PROVE  Causes'
  BY <1>12, <1>a DEF ConnPublishStateFirst
<1>13. ASSUME NEW c \in Conns, ConnPublishState(c)
      PROVE  Causes'
  BY <1>13, <1>a DEF ConnPublishState, ConnServeWoken
<1>14. ASSUME NEW c \in Conns, ConnPublishAddr(c)
      PROVE  Causes'
  BY <1>14, <1>a DEF ConnPublishAddr, ConnServeWoken
<1>15. ASSUME NEW s \in Suspends, NEW e \in EndpointIds,
             SuspendBegin(s, e)
      PROVE  Causes'
  BY <1>15, <1>a DEF SuspendBegin, SuspendReturns
<1>16. ASSUME NEW s \in Suspends, NEW e \in EndpointIds,
             SuspendEngineFails(s, e)
      PROVE  Causes'
  BY <1>16, <1>a DEF SuspendEngineFails, SuspendReturns
<1>17. ASSUME NEW s \in Suspends, SuspendRegistry(s)
      PROVE  Causes'
  <2>1. Suspended(suspEp[s])'
    BY <1>17 DEF SuspendRegistry, Suspended
  <2> QED
    BY <1>17, <2>1, <1>a DEF SuspendRegistry
<1>18. ASSUME NEW s \in Suspends, SuspendStore(s)
      PROVE  Causes'
  BY <1>18, <1>a
  DEF SuspendStore, SuspendReturns, TryTransition, CanTransition, endpointTransitions
<1> QED
  BY <1>1, <1>2, <1>3, <1>4, <1>5, <1>6, <1>7, <1>8, <1>9, <1>10, <1>11,
     <1>12, <1>13, <1>14, <1>15, <1>16, <1>17, <1>18, CausesSteps

\* The actions that write what Repair speaks of.
LEMMA RepairSteps ==
  ASSUME EndpointNext
  PROVE  \/ UNCHANGED <<epState, tblState, suspPc, suspEp, connPc, connEp>>
         \/ \E e \in EndpointIds :
              \/ StartPut(e) \/ StartTransition(e) \/ StartRegister(e)
         \/ \E c \in Conns, e \in EndpointIds : ConnLookup(c, e)
         \/ \E c \in Conns :
              \/ ConnReadState(c) \/ ConnReadAddr(c) \/ ConnWakeAcquire(c)
              \/ ConnWakeAcquireFails(c) \/ ConnWakeAttach(c)
              \/ ConnWakeAttachFails(c) \/ ConnWakeTransition(c)
              \/ ConnPublishAddrFirst(c) \/ ConnPublishStateFirst(c)
              \/ ConnPublishState(c) \/ ConnPublishAddr(c)
         \/ \E s \in Suspends, e \in EndpointIds :
              \/ SuspendBegin(s, e) \/ SuspendEngineFails(s, e)
         \/ \E s \in Suspends :
              \/ SuspendRegistry(s) \/ SuspendStore(s)
BY DEF EndpointNext, Requests, StartStep, ConnStep, SuspendStep, TimePasses,
       AllServed, PoolAge, PoolAcquireFails, StartOp,
       StartBranchNotFound, StartFails, StartAcquire,
       StartAcquireFails, StartAttach, StartAttachFails,
       StartCredentialFails, StartMeter, StartComplete, endpointVars,
       poolVars, opVars, storeVars, registryVars, connVars, suspVars,
       engineVars

\* An active endpoint with a suspended entry has somebody who will correct one
\* of the two.
LEMMA RepairKept ==
  ASSUME EndpointTypeOK,
         StorePhases,
         TablePhases,
         ConnTargets,
         PublishHoldsLock,
         Repair,
         EndpointNext
  PROVE  Repair'
<1> USE DEF Repair, RepairPending, StorePhases, TablePhases, ConnTargets,
            PublishHoldsLock, Registered, EndpointTypeOK, OpStatuses,
            StartPcs, ConnPcs, opVars, storeVars, registryVars,
            connVars, suspVars, engineVars
<1>1. CASE UNCHANGED <<epState, tblState, suspPc, suspEp, connPc, connEp>>
  BY <1>1
<1>2. ASSUME NEW e \in EndpointIds, StartPut(e)
      PROVE  Repair'
  BY <1>2 DEF StartPut
<1>3. ASSUME NEW e \in EndpointIds, StartTransition(e)
      PROVE  Repair'
  BY <1>3 DEF StartTransition, TryTransition, CanTransition, endpointTransitions
<1>4. ASSUME NEW e \in EndpointIds, StartRegister(e)
      PROVE  Repair'
  BY <1>4 DEF StartRegister
<1>5. ASSUME NEW c \in Conns, NEW e \in EndpointIds, ConnLookup(c, e)
      PROVE  Repair'
  BY <1>5 DEF ConnLookup
<1>6. ASSUME NEW c \in Conns, ConnReadState(c)
      PROVE  Repair'
  BY <1>6 DEF ConnReadState
<1>7. ASSUME NEW c \in Conns, ConnReadAddr(c)
      PROVE  Repair'
  BY <1>7 DEF ConnReadAddr
<1>8. ASSUME NEW c \in Conns, ConnWakeAcquire(c)
      PROVE  Repair'
  BY <1>8 DEF ConnWakeAcquire
<1>9. ASSUME NEW c \in Conns, ConnWakeAcquireFails(c)
      PROVE  Repair'
  BY <1>9 DEF ConnWakeAcquireFails, ConnWakeFails
<1>10. ASSUME NEW c \in Conns, ConnWakeAttach(c)
      PROVE  Repair'
  BY <1>10 DEF ConnWakeAttach
<1>11. ASSUME NEW c \in Conns, ConnWakeAttachFails(c)
      PROVE  Repair'
  BY <1>11 DEF ConnWakeAttachFails, ConnWakeFails
<1>12. ASSUME NEW c \in Conns, ConnWakeTransition(c)
      PROVE  Repair'
  BY <1>12
  DEF ConnWakeTransition, TryTransition, CanTransition, endpointTransitions
<1>13. ASSUME NEW c \in Conns, ConnPublishAddrFirst(c)
      PROVE  Repair'
  BY <1>13 DEF ConnPublishAddrFirst
<1>14. ASSUME NEW c \in Conns, ConnPublishStateFirst(c)
      PROVE  Repair'
  BY <1>14 DEF ConnPublishStateFirst
<1>15. ASSUME NEW c \in Conns, ConnPublishState(c)
      PROVE  Repair'
  BY <1>15 DEF ConnPublishState, ConnServeWoken
<1>16. ASSUME NEW c \in Conns, ConnPublishAddr(c)
      PROVE  Repair'
  BY <1>16 DEF ConnPublishAddr, ConnServeWoken
<1>17. ASSUME NEW s \in Suspends, NEW e \in EndpointIds,
             SuspendBegin(s, e)
      PROVE  Repair'
  BY <1>17 DEF SuspendBegin, SuspendReturns
<1>18. ASSUME NEW s \in Suspends, NEW e \in EndpointIds,
             SuspendEngineFails(s, e)
      PROVE  Repair'
  BY <1>18 DEF SuspendEngineFails, SuspendReturns
<1>19. ASSUME NEW s \in Suspends, SuspendRegistry(s)
      PROVE  Repair'
  BY <1>19 DEF SuspendRegistry
<1>20. ASSUME NEW s \in Suspends, SuspendStore(s)
      PROVE  Repair'
  BY <1>20
  DEF SuspendStore, SuspendReturns, TryTransition, CanTransition, endpointTransitions
<1> QED
  BY <1>1, <1>2, <1>3, <1>4, <1>5, <1>6, <1>7, <1>8, <1>9, <1>10, <1>11,
     <1>12, <1>13, <1>14, <1>15, <1>16, <1>17, <1>18, <1>19, <1>20,
     RepairSteps

-----------------------------------------------------------------------------
(* The invariant. *)

LEMMA EndpointInitEstablishes ==
  ASSUME EndpointInit
  PROVE  EndpointIInv
<1>1. PoolIInv
  BY InitEstablishes DEF EndpointInit
<1>2. EndpointTypeOK
  BY <1>1
  DEF PoolIInv, EndpointInit, EndpointTypeOK, OpStatuses, StartPcs, ConnPcs
<1>3. Leasing /\ StartHolds /\ TableEquipped
  BY DEF EndpointInit, Leasing, StartHolds, TableEquipped, Owned, Equipped
<1>4. OpPhases /\ StorePhases /\ TablePhases
  BY DEF EndpointInit, OpPhases, StorePhases, TablePhases, Registered
<1>5. ConnTargets /\ ConnHolds /\ PublishHoldsLock
  BY DEF EndpointInit, ConnTargets, ConnHolds, PublishHoldsLock, ConnPcs
<1>6. Causes /\ Repair
  BY DEF EndpointInit, Causes, Repair
<1> QED
  BY <1>1, <1>2, <1>3, <1>4, <1>5, <1>6 DEF EndpointIInv

LEMMA EndpointNextPreserves ==
  ASSUME EndpointIInv, EndpointNext
  PROVE  EndpointIInv'
<1>1. /\ PoolIInv /\ EndpointTypeOK /\ Leasing /\ OpPhases /\ StartHolds
      /\ StorePhases /\ TablePhases /\ TableEquipped /\ Causes /\ ConnTargets
      /\ ConnHolds /\ PublishHoldsLock /\ Repair
  BY DEF EndpointIInv
<1>2. PoolIInv' /\ EndpointTypeOK' /\ Leasing'
  BY <1>1, PoolKept, EndpointTypeOKKept, LeasingKept
<1>3. OpPhases' /\ StartHolds' /\ StorePhases' /\ TablePhases' /\ TableEquipped'
  BY <1>1, OpPhasesKept, StartHoldsKept, StorePhasesKept, TablePhasesKept,
     TableEquippedKept
<1>4. ConnTargets' /\ ConnHolds' /\ PublishHoldsLock'
  BY <1>1, ConnTargetsKept, ConnHoldsKept, LockingKept
<1>5. Causes' /\ Repair'
  BY <1>1, CausesKept, RepairKept
<1> QED
  BY <1>2, <1>3, <1>4, <1>5 DEF EndpointIInv

\* A stuttering step is the step that the control plane takes when nobody calls
\* any more, so far as the invariant can tell.
LEMMA EndpointStutterPreserves ==
  ASSUME EndpointIInv, UNCHANGED endpointVars
  PROVE  EndpointIInv'
<1>1. PoolIInv'
  BY StutterPreserves DEF EndpointIInv, endpointVars
<1> USE DEF endpointVars, opVars, storeVars, registryVars, connVars, suspVars,
            engineVars
<1>2. EndpointTypeOK'
  BY <1>1 DEF PoolIInv, EndpointIInv, EndpointTypeOK
<1>3. Leasing' /\ StartHolds' /\ TableEquipped'
  BY
  DEF EndpointIInv, poolVars, Leasing, StartHolds, TableEquipped, Owned, Equipped
<1>4. OpPhases' /\ StorePhases' /\ TablePhases'
  BY DEF EndpointIInv, OpPhases, StorePhases, TablePhases, Registered
<1>5. ConnTargets' /\ ConnHolds' /\ PublishHoldsLock'
  BY
  DEF EndpointIInv, ConnTargets, ConnHolds, PublishHoldsLock, Registered, Owned,
      Equipped
<1>6. Causes' /\ Repair'
  BY DEF EndpointIInv, Causes, Repair, RepairPending, Suspended
<1> QED
  BY <1>1, <1>2, <1>3, <1>4, <1>5, <1>6 DEF EndpointIInv

\* Every state the control plane reaches satisfies the inductive invariant.
THEOREM EndpointInvariant == EndpointSpec => []EndpointIInv
<1>1. EndpointInit => EndpointIInv
  BY EndpointInitEstablishes
<1>2. EndpointIInv /\ [EndpointNext]_endpointVars => EndpointIInv'
  BY EndpointNextPreserves, EndpointStutterPreserves
<1> QED
  BY <1>1, <1>2, PTL DEF EndpointSpec

\* The variables of every call keep their types, so no call reads an entry of
\* the registry or of the store that is not there.
THEOREM EndpointTyping == EndpointSpec => []EndpointTypeOK
<1>1. EndpointIInv => EndpointTypeOK
  BY DEF EndpointIInv
<1> QED
  BY <1>1, EndpointInvariant, PTL

\* The calls of the control plane use the pool as its service allows, so the
\* pool keeps every promise to them whatever they do with its instances.
THEOREM PoolInUse == EndpointSpec => PoolService
<1>1. EndpointInit => PoolInit
  BY DEF EndpointInit
<1>2. EndpointNext => PoolCall \/ UNCHANGED poolVars
  BY PoolSteps DEF PoolCall
<1>3. UNCHANGED endpointVars => UNCHANGED poolVars
  BY DEF endpointVars
<1> QED
  BY <1>1, <1>2, <1>3, PTL DEF EndpointSpec, PoolService

\* Under every load that starts and wakes can make, no booted instance is lost
\* or handed out twice, the queue is bounded and filled to its target, each
\* answered Acquire is counted once, and a call boots cold only if it must.
THEOREM PoolPromisesInUse ==
  EndpointSpec =>
    /\ [](PoolPartition /\ PoolWithinCapacity /\ FilledToTarget /\ PoolAccounting)
    /\ MissOnlyWhenShort
BY PoolInUse, PoolConserves, PoolBounded, PoolFilled, PoolAccounts,
   ColdBootIsJustified, PTL DEF MissOnlyWhenShort

\* Whatever stands for an endpoint belongs to it and carries its branch.
LEMMA ServingIsEquipped ==
  ASSUME EndpointIInv, NEW e \in EndpointIds, NEW i \in Serving(e)
  PROVE  i \in Nat /\ Equipped(i, e)
<1>1. CASE i = tblAddr[e]
  BY <1>1 DEF EndpointIInv, EndpointTypeOK, TableEquipped, Serving
<1>2. CASE \E c \in Conns : connEp[c] = e /\ i = connAddr[c]
  BY <1>2 DEF EndpointIInv, EndpointTypeOK, ConnHolds, Serving
<1> QED
  BY <1>1, <1>2 DEF Serving

\* However many starts, connections and suspends interleave, no compute stands
\* for two endpoints, in the registry or in an answer of Resolve.
THEOREM BackendsAreExclusive == EndpointSpec => []BackendExclusive
<1>1. EndpointIInv => BackendExclusive
  <2> SUFFICES ASSUME EndpointIInv, NEW e \in EndpointIds, NEW f \in EndpointIds,
                      NEW i \in Serving(e), i \in Serving(f)
               PROVE  e = f
    BY DEF BackendExclusive
  <2>1. i \in Nat /\ Owned(i, e) /\ Owned(i, f)
    BY ServingIsEquipped DEF Equipped
  <2> QED
    BY <2>1 DEF EndpointIInv, Leasing
<1> QED
  BY <1>1, EndpointInvariant, PTL

\* Whatever Resolve returns, and whatever the registry names, carries the data
\* of the endpoint's own branch and of no other.
THEOREM ServedComputesAreAttached == EndpointSpec => []ServedIsAttached
<1>1. EndpointIInv => ServedIsAttached
  <2> SUFFICES ASSUME EndpointIInv, NEW e \in EndpointIds, NEW i \in Serving(e)
               PROVE  {b \in Branches : <<i, b>> \in attached} = {branchOf[e]}
    BY DEF ServedIsAttached
  <2>1. i \in Nat /\ Owned(i, e) /\ <<i, branchOf[e]>> \in attached
    BY ServingIsEquipped DEF Equipped
  <2>2. branchOf[e] \in Branches
    BY <2>1 DEF EndpointIInv, Leasing
  <2>3. ASSUME NEW b \in Branches, <<i, b>> \in attached
        PROVE  b = branchOf[e]
    BY <2>1, <2>3 DEF EndpointIInv, Leasing
  <2> QED
    BY <2>1, <2>2, <2>3
<1> QED
  BY <1>1, EndpointInvariant, PTL

\* A succeeded operation's endpoint is routable, billed and past its creation,
\* and the registry names only endpoints the store has.
THEOREM PublicationIsOrdered == EndpointSpec => []PublishOrder
<1>1. EndpointIInv => PublishOrder
  <2> SUFFICES ASSUME EndpointIInv, NEW e \in EndpointIds
               PROVE  /\ opStatus[e] = "succeeded" =>
                           /\ Registered(e)
                           /\ e \in metered
                           /\ epState[e] \in {"active", "suspended"}
                      /\ Registered(e) => /\ epState[e] \in {"active", "suspended"}
                                          /\ tblAddr[e] # 0
    BY DEF PublishOrder
  <2>1. /\ startPc[e] \in StartPcs
        /\ opStatus[e] \in OpStatuses
    BY DEF EndpointIInv, EndpointTypeOK
  <2>2. opStatus[e] = "succeeded" =>
          Registered(e) /\ e \in metered /\ startPc[e] = "done"
    BY DEF EndpointIInv, TablePhases, OpPhases
  <2>3. Registered(e) =>
          /\ tblAddr[e] # 0
          /\ \/ startPc[e] \in {"meter", "complete"}
             \/ startPc[e] = "done" /\ opStatus[e] = "succeeded"
    BY <2>1 DEF EndpointIInv, TablePhases, OpPhases, StartPcs, OpStatuses
  <2> QED
    BY <2>2, <2>3 DEF EndpointIInv, StorePhases
<1> QED
  BY <1>1, EndpointInvariant, PTL

\* A connection takes a compute for an endpoint only after a suspend of that
\* endpoint has reached the registry.
THEOREM WakesHaveCauses == EndpointSpec => []WakeHasCause
<1>1. EndpointIInv => WakeHasCause
  BY DEF EndpointIInv, Causes, WakeHasCause
<1> QED
  BY <1>1, EndpointInvariant, PTL

\* The registry's lock is never held but by a connection between its two writes,
\* and the first of these still stands when it makes the second.
THEOREM PublicationHoldsLock == EndpointSpec => []PublishHoldsLock
<1>1. EndpointIInv => PublishHoldsLock
  BY DEF EndpointIInv
<1> QED
  BY <1>1, EndpointInvariant, PTL

\* When no call is in progress, an endpoint the store shows as active is routed
\* without a wake: the disagreement that the opposite write orders of suspend
\* and wake allow always has a call that will end it.
THEOREM QuietStatesAgree == EndpointSpec => []QuietAgreement
<1>1. EndpointIInv => QuietAgreement
  <2> SUFFICES ASSUME EndpointIInv, Quiet, NEW e \in EndpointIds,
                      epState[e] = "active", Registered(e), tblState[e] # "active"
               PROVE  FALSE
    BY DEF QuietAgreement
  <2>1. tblState[e] = "suspended"
    BY DEF EndpointIInv, EndpointTypeOK, Registered
  <2>2. RepairPending(e)
    BY <2>1 DEF EndpointIInv, Repair
  <2> QED
    BY <2>2 DEF RepairPending, Quiet
<1> QED
  BY <1>1, EndpointInvariant, PTL
=============================================================================
