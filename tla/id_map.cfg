SPECIFICATION RecordSpec
CONSTANTS
  v1 = v1
  v2 = v2
  nan = nan
  q1 = q1
  q2 = q2
  Err = Err
  None = None
  NonFinite = NonFinite
  NoVector = NoVector
  Ids = {1, 2, 3, 4}
  Vectors = {v1, v2}
  BadVectors = {nan}
  Dims = {3, 4, 64}
  GoodDims = {4, 64}
  SignDims = {64}
  MaxRows = 4
  MaxBatch = 2
  IdMapIds = {1, 2, 3}
  MaxIdMapRows = 3
  Names = {a, b}
  NoName = NoName
  a = a
  b = b
  Queries = {q1, q2}
  RankScore <- MCRankScore
  SignScore <- MCSignScore
  MaxK = 4
  MaxAllowed = 3
  TwoStage <- MCTwoStage
INVARIANTS TablesAgree SidecarAligned SavedLoads SearchKeepsPromise FilteredSearchKeepsPromise RecordsAgree RecordSearchFindsBest
PROPERTIES KeepsVectors RecordsKeepVectors
