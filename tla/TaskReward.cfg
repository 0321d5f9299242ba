SPECIFICATION Spec
CONSTANTS
  k1 = k1  k2 = k2  b1 = b1  b2 = b2  q1 = q1  q2 = q2 
  t1 = t1  t2 = t2  e1 = e1  e2 = e2  p1 = p1 
  PointTasks = {k1}
  VoucherTasks = {k2}
  DailyTasks = {k2}
  Target <- Targets
  Biz = {b1, b2}
  LastDay = 2
  Requests = {q1, q2}
  Stock = 1
  User = User  OldHolders = {}
  Threads = {t1, t2}
  EventThreads = {e1, e2}
  Pages = {p1}
  None = None
INVARIANTS TypeOK ProgressExact PointsPaidOnce ReceivedIsGranted
PROPERTIES DecisionSettlesRow
SYMMETRY Symmetry
\* Everything may be claimed.
CHECK_DEADLOCK FALSE
