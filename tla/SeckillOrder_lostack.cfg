SPECIFICATION Spec
CONSTANTS
  u1 = u1  u2 = u2  i1 = i1  i2 = i2  c1 = c1
  Users = {u1}
  Instances = {i1}
  Consumers = {c1}
  ConsumerName <- SameName
  Free = Free  Orphan = Orphan  NoUser = NoUser
  InitialStock = 1
  MaxOrders = 2
  MaxRetries = 2
  ReadCount = 1
  PendingCount = 1
  JobBatch = 1
  DbFaults = 2
  RedisFaults = 1
  Crashes = 0
INVARIANTS ReleasedOnce
