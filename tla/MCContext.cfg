CONSTANTS
  Binding = {b1, b2}
  Worker = {w1}
  Console = {c1, c2}
  Intent = {i1, i2}
  Task = {t1}
  MaxEpoch = 3
  None = None
SPECIFICATION Spec
SYMMETRY Symmetry
INVARIANTS EpochNamesOneOwner
PROPERTIES FencedStaysFenced TransferFencesOldTasks
CHECK_DEADLOCK FALSE
