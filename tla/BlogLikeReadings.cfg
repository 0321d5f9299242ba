SPECIFICATION FairReadingSpec
CONSTANTS
  u1 = u1  u2 = u2  b1 = b1  b2 = b2  i1 = i1  i2 = i2  d1 = d1  d2 = d2  d3 = d3
  Users = {u1}
  Blogs = {b1}
  Instances = {i1, i2}
  Reconcilers = {i1, i2}
  Batches = {d1, d2}
  NoBatch = NoBatch  Free = Free  Orphan = Orphan  NoRequest = NoRequest
  OldLikes <- NoOldLikes
  OldCount <- NoOldCount
  OldLiked <- OneOldLiked
  BatchSize = 1
  ReconcileBatch = 1
  DbFaults = 0
  RedisFaults = 0
  LeaseLosses = 0
  Crashes = 0
PROPERTIES Converges OnlyOldReadingsSpoil
