SPECIFICATION Spec
CONSTANTS
  p1 = p1
  p2 = p2
  NoProc = NoProc
  Proc = {p1, p2}
  MaxSteps = 2
  InitialSteps = 2
  Plan <- PairPlan
  MaxRuns = 1
  MaxRecovery = 0
  ContextBound = FALSE
  LossyCheckpoints = FALSE
  MaxDisturbances = 2
INVARIANTS CompletedTaskResolved EveryEffectHasReceipt
PROPERTIES CancelledIsFinal
SYMMETRY Symmetry
CHECK_DEADLOCK FALSE
