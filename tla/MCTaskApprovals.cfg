SPECIFICATION FairSpec
CONSTANTS
  p1 = p1
  p2 = p2
  NoProc = NoProc
  Proc = {p1}
  MaxSteps = 3
  InitialSteps = 3
  Plan <- ApprovalPlan
  MaxRuns = 2
  MaxRecovery = 1
  ContextBound = FALSE
  LossyCheckpoints = TRUE
  MaxDisturbances = 1
INVARIANTS ApprovalPerEffect
PROPERTIES LoopTerminates
CHECK_DEADLOCK FALSE
