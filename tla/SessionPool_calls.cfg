\* Two GetSession calls and a close over two keys, room for one session; under fairness.
\* Every call is made once: when all have returned nothing is left to do.
SPECIFICATION FairSpec
CHECK_DEADLOCK FALSE
CONSTANTS
  Servers = {s1}
  Scopes = {u1, u2}
  Gets = {g1, g2}
  Closes = {c1}
  None = None
  Failed = Failed
  MaxSessions = 1
  MaxTimeouts = 1
INVARIANTS
  PoolIsExact
  LiveIsPooled
  PoolIsBounded
PROPERTIES
  CallsReturn
