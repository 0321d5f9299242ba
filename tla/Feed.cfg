SPECIFICATION MCSpec
CONSTANTS
  r1 = r1  a1 = a1  t1 = t1  t2 = t2  s1 = s1  s2 = s2
  Readers = {r1}
  Authors = {a1}
  Blogs = {1, 2, 3}
  AuthorOf <- OneAuthor
  Threads = {t1, t2}
  Slots = {s1, s2}
  OldRows <- OneRow
  PageSize = 2
  LastTick = 2
  MaxRows = 2
  MaxClears = 2
  None = None
INVARIANTS SetFollowsTable OnlyLateAnswersSkip
PROPERTIES ScrollEnds
