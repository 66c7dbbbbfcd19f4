SPECIFICATION Spec
CONSTANTS
  w1 = w1
  w2 = w2
  r1 = r1
  c1 = c1
  c2 = c2
  NoProc = NoProc
  Writers = {w1}
  Clients = {r1}
  Republishers = {r1}
  Collectors = {}
  Crashable = {}
  Retain = 0
  MaxGen = 3
  MaxOps = 4
  MaxCrashes = 0
  MaxContention = 0
INVARIANT TablesConsistent
CHECK_DEADLOCK FALSE
