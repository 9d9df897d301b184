CONSTANTS
  Provider = {p1, p2}
  Code = {c1, c2}
  Family = {f1, f2}
  MaxGeneration = 1
  AccessTTL = 3
  RefreshTTLs = {1, 3}
  CodeTTL = 1
  Mode = {"OFF", "PER_CONNECTION"}
  MaxPendingCodes = 1
  MaxTime = 2
  None = None
SPECIFICATION Spec
SYMMETRY Symmetry
INVARIANTS KilledFamilyStaysDead OneLiveRefresh ReplayStaysDetectable NewConnectionNeverLegacy
CHECK_DEADLOCK FALSE
