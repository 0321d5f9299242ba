SPECIFICATION FairSpec
CONSTANTS
  r1 = r1  r2 = r2  w1 = w1  w2 = w2  u1 = u1  u2 = u2
  Readers = {r1, r2}
  Workers = {w1, w2}
  Updaters = {u1, u2}
  QueueSize = 2
  FirstVersion = 0
  MaxVersion = 3
  MaxFaults = 1
  Free = Free  Orphan = Orphan
INVARIANTS TypeOK StaleIsRaced
PROPERTIES NeverGoesBack Converges
\* Nobody has to query the shop, and the versions may be used up.
CHECK_DEADLOCK FALSE
