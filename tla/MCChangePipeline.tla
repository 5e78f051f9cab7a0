-------------------------- MODULE MCChangePipeline --------------------------
(* Requests and candidates for TLC: every combination of the fields that a   *)
(* gate or a mock adapter reads, and lists of up to three candidates. Beside *)
(* the pipeline, the two programs that rehearse the boundary it guards: a    *)
(* behaviour is a run of one of the three.                                   *)
EXTENDS ChangePipeline, EngineBoundary, DevEngine, FiniteSets

VARIABLE program

\* The origins and kinds that a gate or the generator asks for, and another.
MCRequests ==
  {r \in RequestType :
     /\ r.origin \in {"", "c-agent", "auto-agent"}
     /\ r.kind \in {"", "code_change", "resource_op", "self_improve"}
     /\ r.summary = ""
     /\ r.reversible}

Cand(cost, density, sla, isolation, rev) ==
  [costDelta |-> cost, densityDelta |-> density, gpuUtilDelta |-> 0,
   idleDelta |-> 0, slaHeadroom |-> sla, isolationOK |-> isolation,
   sovereigntyOK |-> TRUE, reversible |-> rev, steps |-> 1]

\* Of equal score, of greater score, infeasible in two ways, of high risk, and
\* one that cannot be undone.
MCCandidates ==
  {Cand(-100, 0, 10, TRUE, TRUE), Cand(-100, 0, 0, TRUE, FALSE),
   Cand(-200, 60, 0, TRUE, TRUE), Cand(-300, 50, 10, FALSE, TRUE),
   Cand(-300, -60, -1, TRUE, TRUE), Cand(-150, -50, 0, TRUE, TRUE)}

MCCandidateLists == UNION {[1 .. n -> MCCandidates] : n \in 0 .. 3}

\* An utterance names up to two groups of keywords.
MCUtterances == {u \in SUBSET (1 .. 5) : Cardinality(u) <= 2 /\ 4 \notin u}

CONSTANT Programs

MCInit ==
  /\ Init /\ BoundaryInit /\ DevEngineInit
  /\ program \in Programs

PipelineRun == program = "change_pipeline" /\ Next
               /\ UNCHANGED <<program, boundaryVars, devEngineVars>>

BoundaryRun == program = "engine_boundary_sim" /\ BoundaryNext
               /\ UNCHANGED <<program, vars, devEngineVars>>

DevEngineRun == program = "dev_engine_flow" /\ DevEngineNext
                /\ UNCHANGED <<program, vars, boundaryVars>>

\* The bounded programs come to their end.
ProgramEnds == program # "change_pipeline"
               /\ UNCHANGED <<program, vars, boundaryVars, devEngineVars>>

MCNext == PipelineRun \/ BoundaryRun \/ DevEngineRun \/ ProgramEnds

MCSpec == MCInit /\ [][MCNext]_<<program, vars, boundaryVars, devEngineVars>>
=============================================================================
