CONSTANTS
  Adapters = "any"
  Attestable = {"c-agent", "auto-agent"}
  ChangeRequests <- MCRequests
  CandidateLists <- MCCandidateLists
  Programs = {"change_pipeline", "engine_boundary_sim", "dev_engine_flow"}
  GpuTotal = 4
  Bursts = {1, 3}
  Needs = {1, 4}
  MaxOps = 6
  MaxJobs = 3
  Sessions = {s1, s2}
  MaxTurns = 3
  Utterances <- MCUtterances
SPECIFICATION MCSpec
INVARIANTS
  PipelineTypeOK
  PlanIsOptimal
  ExecutionIsGated
  DevNeverTouchesInfra
  DeniedDiesAtPolicy
  OutcomeIsAudited
  JobsGetIdleOnly
  ReturnsKeepApart
  SessionsFollowTheirQueue
PROPERTIES
  HandledAsGoverned
