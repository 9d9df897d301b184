SPECIFICATION FairSpec
CONSTANTS
  Op = {"first", "second"}
  Manifests = 2
  Present = {1}
  Job <- Jobs
  ExecEnabled = TRUE
  MaxWrites = 1
  MaxFaults = 1
CHECK_DEADLOCK FALSE
INVARIANTS InterruptedClaimsNothing StatusTellsTruth EffectHasSnapshot
PROPERTIES OperationEnds
