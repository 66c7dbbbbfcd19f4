SPECIFICATION Spec
CONSTANTS
  w1 = w1
  w2 = w2
  r1 = r1
  c1 = c1
  c2 = c2
  NoProc = NoProc
  Writers = {w1, w2}
  Clients = {}
  Republishers = {}
  Collectors = {}
  Crashable = {}
  Retain = 0
  MaxGen = 3
  MaxOps = 3
  MaxCrashes = 0
  MaxContention = 0
PROPERTY NoLostUpdate
CHECK_DEADLOCK FALSE
