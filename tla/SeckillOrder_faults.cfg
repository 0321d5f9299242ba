SPECIFICATION FairSpec
CONSTANTS
  u1 = u1  u2 = u2  i1 = i1  i2 = i2  c1 = c1
  Users = {u1, u2}
  Instances = {i1}
  Consumers = {c1}
  ConsumerName <- SameName
  Free = Free  Orphan = Orphan  NoUser = NoUser
  InitialStock = 1
  MaxOrders = 2
  MaxRetries = 2
  ReadCount = 2
  PendingCount = 2
  JobBatch = 1
  DbFaults = 1
  RedisFaults = 1
  Crashes = 1
INVARIANTS TypeOK NoOversell TruthfulStatus NoLostReservation RedisLedger OneLiveReservation
PROPERTIES EveryOrderSettles PollingEnds
