CONSTANTS
  Branches <- MCBranches
  Commits = {1, 2, 3}
  NewId = "s1"
  InitialRepos <- MCInitialRepos
  InitialRows <- MCInitialRows
  Declared <- MCDeclared
  MaxMoves = 3
  MaxAttempts = 2
  MaxFaults = 1
SPECIFICATION Spec
INVARIANTS
  ReferenceReachesItsSnapshot
  NoPlaceholderExecuted
PROPERTIES
  RoundTripRestores
  OneMoveDetected
CHECK_DEADLOCK FALSE
