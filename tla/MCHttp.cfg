CONSTANTS
  Conn = {r1, r2}
  Principal = {p1, p2}
  Sid = {s1, s2}
  MaxConcurrent = 1
  MaxSessions = 1
  None = None
SPECIFICATION FairSpec
INVARIANTS InflightExact
PROPERTIES SessionRemovedForCause SessionsExpire 
CHECK_DEADLOCK FALSE
