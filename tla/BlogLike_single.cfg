SPECIFICATION FairSpec
CONSTANTS
  u1 = u1  u2 = u2  b1 = b1  b2 = b2  i1 = i1  i2 = i2  d1 = d1  d2 = d2  d3 = d3
  Users = {u1}
  Blogs = {b1, b2}
  Instances = {i1}
  Reconcilers = {i1}
  Batches = {d1, d2}
  NoBatch = NoBatch  Free = Free  Orphan = Orphan  NoRequest = NoRequest
  OldLikes <- SomeOldLikes
  OldCount <- SomeOldCount
  OldLiked <- OneOldLiked
  BatchSize = 1
  ReconcileBatch = 1
  DbFaults = 1
  RedisFaults = 1
  LeaseLosses = 0
  Crashes = 0
INVARIANTS TypeOK
PROPERTIES RepairsNothing EveryChangeIsFlushed EveryBlogIsReconciled
