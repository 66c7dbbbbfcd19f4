SPECIFICATION Spec
CONSTANTS
  w1 = w1
  w2 = w2
  r1 = r1
  c1 = c1
  c2 = c2
  NoProc = NoProc
  Writers = {w1}
  Clients = {}
  Republishers = {}
  Collectors = {c1, c2}
  Crashable = {c1, c2}
  Retain = 1
  MaxGen = 5
  MaxOps = 5
  MaxCrashes = 1
  MaxContention = 0
INVARIANTS TablesConsistent ActiveIsNewest RetentionHonoured
PROPERTIES OkSettlesLedger PinsSeenAreKept
SYMMETRY CollectorSymmetry
CHECK_DEADLOCK FALSE
