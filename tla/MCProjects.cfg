CONSTANTS
  a = a
  b = b
  p = p
  q = q
  c1 = c1
  c2 = c2
  c3 = c3
  NoRoot = NoRoot
  Root = {a, b}
  Principal = {p, q}
  Chat = {c1, c2, c3}
  Owner <- MCOwner
  Jail <- MCJail
  EnvRoots = {a}
  Fragile = {b}
  ContextCap = 1
  HandleCap = 1
  MaxHandles = 2
  MaxChanges = 1
  MaxTroubles = 2
SPECIFICATION PoolSpec
INVARIANTS
  
  ChatStaysOnItsProject
  
  PoolWithinStore
CHECK_DEADLOCK FALSE
SYMMETRY MCSymmetry
CONSTRAINT MCBound
