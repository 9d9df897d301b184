SPECIFICATION Spec
CONSTANTS
  p1 = p1
  p2 = p2
  NoProc = NoProc
  Proc = {p1}
  MaxSteps = 3
  InitialSteps = 2
  Plan <- RepairPlan
  MaxRuns = 1
  MaxRecovery = 1
  ContextBound = TRUE
  LossyCheckpoints = FALSE
  MaxDisturbances = 2
PROPERTIES UnknownUntilReconciled NoReplayBehindCompleted
CHECK_DEADLOCK FALSE
