SPECIFICATION Spec
CONSTANTS
  u1 = u1  u2 = u2  i1 = i1  i2 = i2  c1 = c1
  Users = {u1, u2}
  Instances = {i1}
  Consumers = {c1}
  ConsumerName <- SameName
  Free = Free  Orphan = Orphan  NoUser = NoUser
  InitialStock = 2
  MaxOrders = 4
  MaxRetries = 2
  ReadCount = 2
  PendingCount = 2
  JobBatch = 3
  DbFaults = 4
  RedisFaults = 0
  Crashes = 0
INVARIANTS ExactStock ReleasedOnce FailedIsTracked
PROPERTIES ImplementsSale
SYMMETRY UserSymmetry
