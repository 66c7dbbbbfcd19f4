SPECIFICATION LevelSpec
CONSTANTS
  w1 = w1
  w2 = w2
  r1 = r1
  c1 = c1
  c2 = c2
  NoProc = NoProc
  p1 = p1
  p2 = p2
  t1 = t1
  t2 = t2
  t3 = t3
  t4 = t4
  Processes = {p1, p2}
  Threads = {t1, t2, t3, t4}
  ProcessOf <- MCProcessOf
  NoOwner = NoOwner
  Writers = {w1, w2}
  Clients = {}
  Republishers = {}
  Collectors = {c1}
  Crashable = {w1, w2}
  Retain = 0
  MaxGen = 3
  MaxOps = 3
  MaxCrashes = 1
  MaxContention = 0
INVARIANTS TypeOK PublishedStoreOpens LoadedHandleConsistent WriterExclusion
PROPERTY RefusalKeepsHolder
CHECK_DEADLOCK FALSE
