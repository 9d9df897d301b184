CONSTANTS
  Runner = {p1, p2, p3}
  Owner = {o1, o2}
  Token = {t1, t2, t3}
  NoToken = NoToken
  TTL = 2
  MaxVersion = 4
SPECIFICATION FairLeaseSpec
PROPERTIES FencedStaysFenced ImplementsPromise OrphanedLeaseLapses
