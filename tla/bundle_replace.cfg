SPECIFICATION Spec
CONSTANTS
  w1 = w1
  w2 = w2
  r1 = r1
  Writers = {w1, w2}
  Readers = {r1}
  MaxBundles = 4
  MaxLoads = 2
  MaxErrors = 1
  MaxCrashes = 1
  RowsOf <- SomeRows
SYMMETRY Symmetry
CHECK_DEADLOCK FALSE
INVARIANTS TypeOK PathIntact CommittedSurvives LoadFresh
