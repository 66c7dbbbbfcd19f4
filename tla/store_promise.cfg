SPECIFICATION FairSpec
CONSTANTS
  w1 = w1
  w2 = w2
  r1 = r1
  c1 = c1
  c2 = c2
  NoProc = NoProc
  Writers = {w1}
  Clients = {r1}
  Republishers = {r1}
  Collectors = {c1}
  Crashable = {w1, c1}
  Retain = 0
  MaxGen = 3
  MaxOps = 3
  MaxCrashes = 1
  MaxContention = 2
INVARIANTS LockDiscipline AuditComplete VerdictSound
PROPERTIES KeepsPromise LockReleased UntornSavesLoseNothing
CHECK_DEADLOCK FALSE
