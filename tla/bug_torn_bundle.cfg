SPECIFICATION Spec
CONSTANTS
  w1 = w1
  w2 = w2
  r1 = r1
  Writers = {w1}
  Readers = {r1}
  MaxBundles = 2
  MaxLoads = 1
  MaxErrors = 0
  MaxCrashes = 0
  RowsOf <- SomeRows
CHECK_DEADLOCK FALSE
INVARIANTS LoadUntorn
