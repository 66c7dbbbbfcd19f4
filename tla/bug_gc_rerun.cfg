SPECIFICATION Spec
CONSTANTS
  w1 = w1
  w2 = w2
  r1 = r1
  c1 = c1
  c2 = c2
  NoProc = NoProc
  Writers = {w1}
  Clients = {}
  Republishers = {}
  Collectors = {c1}
  Crashable = {c1}
  Retain = 0
  MaxGen = 3
  MaxOps = 4
  MaxCrashes = 1
  MaxContention = 0
INVARIANT InterruptedGcReconciled
CHECK_DEADLOCK FALSE
