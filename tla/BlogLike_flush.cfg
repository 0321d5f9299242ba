SPECIFICATION Spec
CONSTANTS
  u1 = u1  u2 = u2  b1 = b1  b2 = b2  i1 = i1  i2 = i2  d1 = d1  d2 = d2  d3 = d3
  Users = {u1, u2}
  Blogs = {b1}
  Instances = {i1, i2}
  Reconcilers = {}
  Batches = {d1, d2, d3}
  NoBatch = NoBatch  Free = Free  Orphan = Orphan  NoRequest = NoRequest
  OldLikes <- NoOldLikes
  OldCount <- NoOldCount
  OldLiked <- OneOldLiked
  BatchSize = 1
  ReconcileBatch = 1
  DbFaults = 1
  RedisFaults = 1
  LeaseLosses = 1
  Crashes = 1
INVARIANTS BacklogExact CountExact QueueExact
SYMMETRY InstanceSymmetry
