--------------------------- MODULE DeliveryProofs ---------------------------
(***************************************************************************)
(* Proofs that count: what an organisation is charged is the number of the *)
(* branches it was given, and Operations implements AtomicDelivery.        *)
(***************************************************************************)
EXTENDS OperationsProofs

\* The operations that have appended their branch_ops event.
Charged(o) ==
  {r \in Requests : /\ reqOrg[r] = o /\ reqKind[r] # "start_endpoint"
                    /\ workPc[r] = "complete" \/ opStatus[r] = "succeeded"}

\* Each of them has appended one.
MeteredOnce == \A o \in Orgs : metered[o] = Cardinality(Charged(o))

LEMMA RequestSetsAreFinite ==
  ASSUME NEW S \in SUBSET Requests
  PROVE  IsFiniteSet(S) /\ Cardinality(S) \in Nat
<1>1. IsFiniteSet(Requests)
  BY OperationsAssumption, FS_Interval DEF Requests
<1> QED
  BY <1>1, FS_Subset, FS_CardinalityType

-----------------------------------------------------------------------------
(* Who charges. *)

\* A step that neither meters nor completes leaves the sums alone.
LEMMA QuietSteps ==
  ASSUME IInv, [Next]_vars,
         \A r \in Requests : ~ Meter(r) /\ ~ Complete(r)
  PROVE  /\ metered' = metered
         /\ \A o \in Orgs : Charged(o)' = Charged(o) /\ Due(o)' = Due(o)
<1> USE DEF IInv
<1>1. ASSUME NEW r \in Requests, Arrive(r)
      PROVE  /\ metered' = metered
             /\ \A o \in Orgs : Charged(o)' = Charged(o) /\ Due(o)' = Due(o)
  <2>1. reqPc[r] = "idle" /\ UNCHANGED <<metered, workPc, opStatus>>
    BY <1>1 DEF Arrive, Lookup
  <2>2. workPc[r] = "idle" /\ opStatus[r] = "none"
    BY <2>1 DEF Phase
  <2>3. \A q \in Requests \ {r} : reqOrg'[q] = reqOrg[q] /\ reqKind'[q] = reqKind[q]
    BY <1>1, HandlerIsLocal
  <2> QED
    BY <2>1, <2>2, <2>3 DEF Charged, Due
<1>2. ASSUME NEW r \in Requests, HandlerStep(r)
      PROVE  /\ metered' = metered
             /\ \A o \in Orgs : Charged(o)' = Charged(o) /\ Due(o)' = Due(o)
  <2>1. UNCHANGED <<metered, reqOrg, reqKind>>
    BY <1>2 DEF HandlerStep, Make, StoreKey, Reply
  <2>2. \A q \in Requests : /\ workPc'[q] = "complete" <=> workPc[q] = "complete"
                            /\ opStatus'[q] = "succeeded" <=> opStatus[q] = "succeeded"
    BY <1>2 DEF HandlerStep, Make, StoreKey, Reply, Phase, TypeOK
  <2> QED
    BY <2>1, <2>2 DEF Charged, Due
<1>3. ASSUME NEW r \in Requests, WorkStep(r)
      PROVE  /\ metered' = metered
             /\ \A o \in Orgs : Charged(o)' = Charged(o) /\ Due(o)' = Due(o)
  <2>1. UNCHANGED <<reqOrg, reqKind>>
    BY <1>3, WorkIsLocal DEF handlerVars
  <2>2. metered' = metered
    BY <1>3 DEF WorkStep, WorkFails, EngineReturns, PutProject, Put, Transition
  <2>3. workPc[r] # "complete" /\ opStatus[r] # "succeeded"
    BY <1>3, WorkIsLocal
    DEF WorkStep, WorkGoes, WorkFails, EngineReturns, PutProject, Put, Transition,
        Phase, Settled
  <2>4. workPc'[r] # "complete" /\ opStatus'[r] # "succeeded"
    BY <1>3, <2>3
    DEF WorkStep, WorkGoes, WorkFails, EngineReturns, PutProject, Put, Transition,
        TypeOK
  <2>5. \A q \in Requests \ {r} : workPc'[q] = workPc[q] /\ opStatus'[q] = opStatus[q]
    BY <1>3, WorkIsLocal
  <2> QED
    BY <2>1, <2>2, <2>3, <2>4, <2>5 DEF Charged, Due
<1>4. CASE UNCHANGED vars \/ AllServed \/ \E o \in Orgs : Signup(o)
  BY <1>4 DEF AllServed, Signup, vars, handlerVars, Charged, Due
<1> QED
  BY <1>1, <1>2, <1>3, <1>4 DEF Next

\* Meter charges and notes what is due; Complete settles it.
LEMMA ChargingSteps ==
  ASSUME IInv, NEW r \in Requests, Meter(r) \/ Complete(r), NEW o \in Orgs
  PROVE  LET own == reqKind[r] # "start_endpoint" /\ o = reqOrg[r]
         IN  /\ ~ own =>
                  /\ metered'[o] = metered[o]
                  /\ Charged(o)' = Charged(o) /\ Due(o)' = Due(o)
             /\ own /\ Meter(r) =>
                  /\ metered'[o] = metered[o] + 1
                  /\ r \notin Charged(o) /\ Charged(o)' = Charged(o) \cup {r}
                  /\ r \notin Due(o) /\ Due(o)' = Due(o) \cup {r}
             /\ own /\ Complete(r) =>
                  /\ metered'[o] = metered[o] /\ Charged(o)' = Charged(o)
                  /\ r \in Due(o) /\ Due(o)' = Due(o) \ {r}
<1> USE DEF IInv
<1>1. UNCHANGED <<reqOrg, reqKind>>
  BY DEF Meter, Complete, WorkGoes, handlerVars
<1>2. \A q \in Requests \ {r} : workPc'[q] = workPc[q] /\ opStatus'[q] = opStatus[q]
  BY WorkIsLocal DEF WorkStep
<1>3. reqOrg[r] \in Orgs /\ workPc[r] \in {"meter", "complete"} /\ opStatus[r] # "succeeded"
  BY DEF Meter, Complete, WorkGoes, Phase, Settled
<1>4. CASE Meter(r)
  <2>1. workPc[r] = "meter" /\ workPc'[r] = "complete" /\ opStatus' = opStatus
    BY <1>4 DEF Meter, WorkGoes, TypeOK
  <2>2. ~ Complete(r)
    BY <2>1 DEF Complete, WorkGoes
  <2>3. metered' = IF reqKind[r] = "start_endpoint" THEN metered
                   ELSE [metered EXCEPT ![reqOrg[r]] = @ + 1]
    BY <1>4 DEF Meter
  <2>4. ASSUME ~ (reqKind[r] # "start_endpoint" /\ o = reqOrg[r])
        PROVE  /\ metered'[o] = metered[o]
               /\ Charged(o)' = Charged(o) /\ Due(o)' = Due(o)
    BY <1>1, <1>2, <1>3, <2>1, <2>3, <2>4 DEF Charged, Due, TypeOK
  <2>5. ASSUME reqKind[r] # "start_endpoint" /\ o = reqOrg[r]
        PROVE  /\ metered'[o] = metered[o] + 1
               /\ r \notin Charged(o) /\ Charged(o)' = Charged(o) \cup {r}
               /\ r \notin Due(o) /\ Due(o)' = Due(o) \cup {r}
    BY <1>1, <1>2, <1>3, <2>1, <2>3, <2>5 DEF Charged, Due, TypeOK
  <2> QED
    BY <2>2, <2>4, <2>5
<1>5. CASE Complete(r)
  <2>1. /\ workPc[r] = "complete" /\ workPc'[r] = "done"
        /\ opStatus'[r] = "succeeded" /\ metered' = metered
    BY <1>5 DEF Complete, WorkGoes, TypeOK
  <2>2. ~ Meter(r)
    BY <2>1 DEF Meter, WorkGoes
  <2>3. ASSUME ~ (reqKind[r] # "start_endpoint" /\ o = reqOrg[r])
        PROVE  Charged(o)' = Charged(o) /\ Due(o)' = Due(o)
    BY <1>1, <1>2, <1>3, <2>1, <2>3 DEF Charged, Due
  <2>4. ASSUME reqKind[r] # "start_endpoint" /\ o = reqOrg[r]
        PROVE  /\ Charged(o)' = Charged(o)
               /\ r \in Due(o) /\ Due(o)' = Due(o) \ {r}
    BY <1>1, <1>2, <1>3, <2>1, <2>4 DEF Charged, Due
  <2> QED
    BY <2>1, <2>2, <2>3, <2>4
<1> QED
  BY <1>4, <1>5

\* An organisation is charged once for each branch it was given.
THEOREM BranchesAreChargedOnce == Spec => []MeteringMatches
<1> DEFINE Inv == IInv /\ MeteredOnce
<1>1. Init => Inv
  <2>1. Init => \A o \in Orgs : metered[o] = 0 /\ Charged(o) = {}
    BY DEF Init, Charged
  <2> QED
    BY <2>1, InitEstablishes, FS_EmptySet DEF MeteredOnce
<1>2. Inv /\ [Next]_vars => Inv'
  <2> SUFFICES ASSUME Inv, [Next]_vars
               PROVE  MeteredOnce'
    BY NextPreserves
  <2>1. CASE \A r \in Requests : ~ Meter(r) /\ ~ Complete(r)
    BY <2>1, QuietSteps DEF MeteredOnce
  <2>2. ASSUME NEW r \in Requests, Meter(r) \/ Complete(r)
        PROVE  MeteredOnce'
    <3> SUFFICES ASSUME NEW o \in Orgs
                 PROVE  metered'[o] = Cardinality(Charged(o)')
      BY DEF MeteredOnce
    <3>1. metered[o] = Cardinality(Charged(o)) /\ IsFiniteSet(Charged(o))
      BY RequestSetsAreFinite DEF MeteredOnce, Charged
    <3>2. CASE reqKind[r] # "start_endpoint" /\ o = reqOrg[r] /\ Meter(r)
      <4>1. /\ metered'[o] = metered[o] + 1
            /\ r \notin Charged(o) /\ Charged(o)' = Charged(o) \cup {r}
        BY <3>2, ChargingSteps
      <4>2. Cardinality(Charged(o) \cup {r}) = Cardinality(Charged(o)) + 1
        BY <3>1, <4>1, FS_AddElement
      <4> QED
        BY <3>1, <4>1, <4>2
    <3>3. CASE ~ (reqKind[r] # "start_endpoint" /\ o = reqOrg[r] /\ Meter(r))
      <4>1. metered'[o] = metered[o] /\ Charged(o)' = Charged(o)
        BY <2>2, <3>3, ChargingSteps
      <4> QED
        BY <3>1, <4>1
    <3> QED
      BY <3>2, <3>3
  <2> QED
    BY <2>1, <2>2
<1>3. Inv => MeteringMatches
  <2> SUFFICES ASSUME Inv, NEW o \in Orgs
               PROVE  LET Ops(S) == Cardinality({r \in Requests :
                            /\ reqOrg[r] = o /\ reqKind[r] # "start_endpoint"
                            /\ opStatus[r] \in S})
                      IN  /\ Ops({"succeeded"}) <= metered[o]
                          /\ metered[o] <= Ops({"succeeded", "running"})
    BY DEF MeteringMatches
  <2> DEFINE Those(S) == {r \in Requests : /\ reqOrg[r] = o
                                           /\ reqKind[r] # "start_endpoint"
                                           /\ opStatus[r] \in S}
  <2>1. Those({"succeeded"}) \in SUBSET Charged(o)
    BY DEF Charged
  <2>2. Charged(o) \in SUBSET Those({"succeeded", "running"})
    BY DEF Charged, IInv, Phase, TypeOK, Settled
  <2>3. IsFiniteSet(Charged(o)) /\ IsFiniteSet(Those({"succeeded", "running"}))
    BY RequestSetsAreFinite DEF Charged
  <2>4. Cardinality(Those({"succeeded"})) <= Cardinality(Charged(o))
    BY <2>1, <2>3, FS_Subset
  <2>5. Cardinality(Charged(o)) <= Cardinality(Those({"succeeded", "running"}))
    BY <2>2, <2>3, FS_Subset
  <2> QED
    BY <2>4, <2>5 DEF MeteredOnce
<1> QED
  BY <1>1, <1>2, <1>3, PTL DEF Spec

-----------------------------------------------------------------------------
(* Operations implements AtomicDelivery. *)

\* Whatever succeeded is usable, so that clients can name just that.
LEMMA DeliveredIsSucceeded ==
  ASSUME IInv
  PROVE  Delivered = {r \in Requests : opStatus[r] = "succeeded"}
BY DEF IInv, Stored, Delivered

LEMMA DeliveredNext ==
  ASSUME IInv'
  PROVE  Delivered' = {r \in Requests : opStatus'[r] = "succeeded"}
BY DEF IInv, Stored, Delivered

\* A step that no status tells of changes nothing that clients see.
LEMMA UnseenSteps ==
  ASSUME IInv, IInv', [Next]_vars, opStatus' = opStatus
  PROVE  UNCHANGED <<Seen(reqKind, "none"), Seen(reqOrg, NoOrg),
                     Seen(reqTarget, NoOp), Delivered>>
<1> USE DEF IInv
<1>1. Delivered' = Delivered
  BY DeliveredIsSucceeded, DeliveredNext
<1>2. \A r \in Requests : opStatus[r] # "none" =>
        /\ reqKind'[r] = reqKind[r] /\ reqOrg'[r] = reqOrg[r]
        /\ reqTarget'[r] = reqTarget[r]
  <2>1. ASSUME NEW q \in Requests, Arrive(q)
        PROVE  \A r \in Requests : opStatus[r] # "none" =>
                 /\ reqKind'[r] = reqKind[r] /\ reqOrg'[r] = reqOrg[r]
                 /\ reqTarget'[r] = reqTarget[r]
    <3>1. opStatus[q] = "none"
      BY <2>1 DEF Arrive, Lookup, Phase
    <3> QED
      BY <2>1, <3>1, HandlerIsLocal
  <2>2. CASE \/ \E q \in Requests : HandlerStep(q) \/ WorkStep(q)
             \/ \E o \in Orgs : Signup(o)
             \/ AllServed \/ UNCHANGED vars
    BY <2>2, WorkIsLocal
    DEF HandlerStep, Make, StoreKey, Reply, Signup, AllServed, vars, handlerVars
  <2> QED
    BY <2>1, <2>2 DEF Next
<1> QED
  BY <1>1, <1>2 DEF Seen

LEMMA MakeBegins ==
  ASSUME IInv, IInv', NEW r \in Requests, Make(r), Charges' = Charges
  PROVE  Delivery!Begin(r)
<1> USE DEF IInv
<1>1. /\ reqPc[r] = "make" /\ opStatus' = [opStatus EXCEPT ![r] = "running"]
      /\ UNCHANGED <<reqKind, reqOrg, reqTarget>>
  BY DEF Make
<1>2. opStatus[r] = "none"
  BY <1>1 DEF Phase
<1>3. reqKind[r] \in Kinds /\ reqOrg[r] \in Orgs
  BY <1>1 DEF Phase
<1>4. Delivered' = Delivered
  <2>1. \A q \in Requests : opStatus'[q] = "succeeded" <=> opStatus[q] = "succeeded"
    BY <1>1, <1>2 DEF TypeOK
  <2> QED
    BY <2>1, DeliveredIsSucceeded, DeliveredNext
<1>5. reqTarget[r] \in Delivered \cup {NoOp}
  BY <1>1, DeliveredIsSucceeded DEF Named, NoOp
<1>6. /\ Seen(reqKind, "none")' = [Seen(reqKind, "none") EXCEPT ![r] = reqKind[r]]
      /\ Seen(reqOrg, NoOrg)' = [Seen(reqOrg, NoOrg) EXCEPT ![r] = reqOrg[r]]
      /\ Seen(reqTarget, NoOp)' = [Seen(reqTarget, NoOp) EXCEPT ![r] = reqTarget[r]]
  BY <1>1, <1>2 DEF Seen, TypeOK
<1> QED
  BY <1>1, <1>2, <1>3, <1>4, <1>5, <1>6 DEF Delivery!Begin

LEMMA FailureFails ==
  ASSUME IInv, IInv', NEW r \in Requests, WorkFails(r), Charges' = Charges
  PROVE  Delivery!Fail(r)
<1> USE DEF IInv
<1>1. /\ opStatus' = [opStatus EXCEPT ![r] = "failed"] /\ workPc[r] = "engine"
      /\ UNCHANGED <<reqKind, reqOrg, reqTarget>>
  BY DEF WorkFails, WorkGoes, handlerVars
<1>2. opStatus[r] = "running"
  BY <1>1 DEF Phase, TypeOK, Settled
<1>3. Delivered' = Delivered
  <2>1. \A q \in Requests : opStatus'[q] = "succeeded" <=> opStatus[q] = "succeeded"
    BY <1>1, <1>2 DEF TypeOK
  <2> QED
    BY <2>1, DeliveredIsSucceeded, DeliveredNext
<1>4. UNCHANGED <<Seen(reqKind, "none"), Seen(reqOrg, NoOrg), Seen(reqTarget, NoOp)>>
  BY <1>1, <1>2 DEF Seen, TypeOK
<1> QED
  BY <1>1, <1>2, <1>3, <1>4 DEF Delivery!Fail

LEMMA CompleteDelivers ==
  ASSUME IInv, IInv', NEW r \in Requests, Complete(r),
         Charges' = IF reqKind[r] = "start_endpoint" THEN Charges
                    ELSE [Charges EXCEPT ![reqOrg[r]] = @ + 1]
  PROVE  Delivery!Deliver(r)
<1> USE DEF IInv
<1>1. /\ opStatus' = [opStatus EXCEPT ![r] = "succeeded"] /\ workPc[r] = "complete"
      /\ UNCHANGED <<reqKind, reqOrg, reqTarget>>
  BY DEF Complete, WorkGoes, handlerVars
<1>2. opStatus[r] = "running" /\ reqPc[r] # "idle"
  BY <1>1 DEF Phase, TypeOK, Settled
<1>3. Delivered' = Delivered \cup {r}
  BY <1>1, DeliveredIsSucceeded, DeliveredNext DEF TypeOK
<1>4. UNCHANGED <<Seen(reqKind, "none"), Seen(reqOrg, NoOrg), Seen(reqTarget, NoOp)>>
  BY <1>1, <1>2 DEF Seen, TypeOK
<1>5. /\ Seen(reqKind, "none")[r] = reqKind[r]
      /\ Seen(reqOrg, NoOrg)[r] = reqOrg[r]
      /\ Seen(reqTarget, NoOp)[r] = reqTarget[r]
  BY <1>2 DEF Seen
<1>6. IF reqTarget[r] = NoOp THEN reqKind[r] = "create_project"
      ELSE reqTarget[r] \in Delivered /\ Seen(reqOrg, NoOrg)[reqTarget[r]] = reqOrg[r]
  <2>1. CASE reqKind[r] = "create_project"
    BY <1>2, <2>1 DEF Named, NoOp
  <2>2. CASE reqKind[r] # "create_project"
    <3>1. /\ reqTarget[r] \in Requests /\ opStatus[reqTarget[r]] = "succeeded"
          /\ reqOrg[reqTarget[r]] = reqOrg[r]
      BY <1>1, <1>2, <2>2 DEF Named, Found
    <3> QED
      BY <3>1, DeliveredIsSucceeded DEF Seen, NoOp, Requests
  <2> QED
    BY <2>1, <2>2
<1> QED
  BY <1>1, <1>2, <1>3, <1>4, <1>5, <1>6 DEF Delivery!Deliver

\* What an organisation is charged, without what is due, grows as it is told.
LEMMA ChargesGrow ==
  ASSUME IInv, [Next]_vars
  PROVE  /\ (\A r \in Requests : ~ Complete(r)) => Charges' = Charges
         /\ \A r \in Requests : Complete(r) =>
              Charges' = IF reqKind[r] = "start_endpoint" THEN Charges
                         ELSE [Charges EXCEPT ![reqOrg[r]] = @ + 1]
<1> USE DEF IInv
<1>1. \A o \in Orgs : /\ IsFiniteSet(Due(o)) /\ Cardinality(Due(o)) \in Nat
                      /\ metered[o] \in Nat
  BY RequestSetsAreFinite DEF Due, TypeOK
<1>2. ASSUME \A r \in Requests : ~ Meter(r) /\ ~ Complete(r)
      PROVE  Charges' = Charges
  BY <1>2, QuietSteps DEF Charges
<1>3. ASSUME NEW r \in Requests, Meter(r)
      PROVE  Charges' = Charges
  <2> SUFFICES ASSUME NEW o \in Orgs
               PROVE  metered'[o] - Cardinality(Due(o)') = metered[o] - Cardinality(Due(o))
    BY DEF Charges
  <2>1. CASE reqKind[r] # "start_endpoint" /\ o = reqOrg[r]
    <3>1. /\ metered'[o] = metered[o] + 1
          /\ r \notin Due(o) /\ Due(o)' = Due(o) \cup {r}
      BY <1>3, <2>1, ChargingSteps
    <3>2. Cardinality(Due(o) \cup {r}) = Cardinality(Due(o)) + 1
      BY <1>1, <3>1, FS_AddElement
    <3> QED
      BY <1>1, <3>1, <3>2
  <2>2. CASE ~ (reqKind[r] # "start_endpoint" /\ o = reqOrg[r])
    BY <1>3, <2>2, ChargingSteps
  <2> QED
    BY <2>1, <2>2
<1>4. ASSUME NEW r \in Requests, Complete(r)
      PROVE  Charges' = IF reqKind[r] = "start_endpoint" THEN Charges
                        ELSE [Charges EXCEPT ![reqOrg[r]] = @ + 1]
  <2>1. \A o \in Orgs : ~ (reqKind[r] # "start_endpoint" /\ o = reqOrg[r]) =>
          metered'[o] = metered[o] /\ Due(o)' = Due(o)
    BY <1>4, ChargingSteps
  <2>2. CASE reqKind[r] = "start_endpoint"
    BY <2>1, <2>2 DEF Charges
  <2>3. CASE reqKind[r] # "start_endpoint"
    <3>1. PICK org \in Orgs : org = reqOrg[r]
      BY <1>4 DEF Complete, WorkGoes, Phase
    <3>2. /\ metered'[org] = metered[org]
          /\ r \in Due(org) /\ Due(org)' = Due(org) \ {r}
      BY <1>4, <2>3, <3>1, ChargingSteps
    <3>3. Cardinality(Due(org) \ {r}) = Cardinality(Due(org)) - 1
      BY <1>1, <3>1, <3>2, FS_RemoveElement
    <3>4. metered'[org] - Cardinality(Due(org)') = metered[org] - Cardinality(Due(org)) + 1
      BY <1>1, <3>1, <3>2, <3>3
    <3> QED
      BY <2>1, <3>1, <3>4 DEF Charges
  <2> QED
    BY <2>2, <2>3
<1> QED
  BY <1>2, <1>3, <1>4

LEMMA DeliverySimulation ==
  ASSUME IInv, IInv', [Next]_vars
  PROVE  [Delivery!Next]_(Delivery!deliveryVars)
<1>1. CASE \E r \in Requests : Complete(r)
  BY <1>1, ChargesGrow, CompleteDelivers DEF Delivery!Next
<1>2. CASE \A r \in Requests : ~ Complete(r)
  <2>1. Charges' = Charges
    BY <1>2, ChargesGrow
  <2>2. CASE \E r \in Requests : Make(r)
    BY <2>1, <2>2, MakeBegins DEF Delivery!Next
  <2>3. CASE \E r \in Requests : WorkFails(r)
    BY <2>1, <2>3, FailureFails DEF Delivery!Next
  <2>4. CASE \A r \in Requests : ~ Make(r) /\ ~ WorkFails(r)
    <3>1. opStatus' = opStatus
      BY <1>2, <2>4
      DEF Next, Signup, Arrive, Lookup, HandlerStep, StoreKey, Reply, WorkStep,
          EngineReturns, PutProject, Put, Transition, Meter, AllServed, vars
    <3> QED
      BY <2>1, <3>1, UnseenSteps DEF Delivery!deliveryVars
  <2> QED
    BY <2>2, <2>3, <2>4
<1> QED
  BY <1>1, <1>2

\* Operations implements AtomicDelivery: whichever calls fail and however the
\* handlers and goroutines of any number of requests interleave, an operation
\* delivers in one step what it made, or nothing.
THEOREM DeliveriesAreAtomic == Spec => DeliveryIsAtomic
<1>1. Init => Delivery!Init
  <2> SUFFICES ASSUME Init
               PROVE  Delivery!Init
    OBVIOUS
  <2>1. \A o \in Orgs : Due(o) = {} /\ metered[o] = 0
    BY DEF Init, Due
  <2>2. Charges = [o \in Orgs |-> 0]
    BY <2>1, FS_EmptySet DEF Charges
  <2>3. Delivered = {} /\ opStatus = [r \in Requests |-> "none"]
    BY DEF Init, Delivered
  <2> QED
    BY <2>2, <2>3 DEF Delivery!Init, Seen
<1>2. IInv /\ IInv' /\ [Next]_vars => [Delivery!Next]_(Delivery!deliveryVars)
  BY DeliverySimulation
<1> QED
  BY <1>1, <1>2, Invariance, PTL DEF Spec, DeliveryIsAtomic, Delivery!Spec
=============================================================================
