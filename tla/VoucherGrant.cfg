SPECIFICATION FairSpec
CONSTANTS
  u1 = u1  u2 = u2  r1 = r1  r2 = r2  r3 = r3  t1 = t1  t2 = t2  c1 = c1  c2 = c2
  Users = {u1, u2}
  Requests = {r1, r2, r3}
  Owner <- TwoAndOne
  Stock = 2
  OldOwners = {u2}
  Threads = {t1}
  Consumers = {c1}
  MaxRetries = 2
  MaxRecords = 3
  MaxFaults = 1
  NoRequest = NoRequest  OldRequest = OldRequest  Free = Free  Orphan = Orphan
INVARIANTS TypeOK
PROPERTIES UnitsKeepStep ImplementsGrant EveryGrantSettles
\* Every request may have its fate.
CHECK_DEADLOCK FALSE

