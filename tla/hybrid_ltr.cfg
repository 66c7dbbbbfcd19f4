SPECIFICATION Spec
CONSTANTS
  Err = Err
  None = None
  NonFinite = NonFinite
  t1 = t1
  t2 = t2
  Trainers = {t1, t2}
  NameOf <- MCNameOf
  Dirs = {"a", "b"}
  Datasets = {"good", "unlabelled"}
  DataOf <- MCDataOf
  CacheFiles <- MCCacheFiles
  OtherNames <- MCOtherNames
  MaxRuns = 2
  MaxFaults = 1
  MaxPublications = 1
  BaseLen <- MCBaseLen
  Idf <- MCIdf
  MaxTf = 2
  Corpora <- MCCorpora
  FirstCorpus <- MCFirstCorpus
  IdLists <- MCIdLists
  QueryTexts <- MCQueryTexts
  Allowlists <- MCAllowlists
  DenseScore <- MCDenseScore
  FusionConfigs <- MCFusionConfigs
  LoadOptions <- MCLoadOptions
  ModelRecords <- MCModelRecords
  DeployedModels <- MCDeployedModels
  FeatureVectors <- MCFeatureVectors
  MaxTop = 3
INVARIANTS NamesUnique AttachedEntriesVerify OtherAuxiliariesKept SparseSearchIsSound WrittenFileOpens FusionIsSound AcceptedTreesScore RerankIsSound
PROPERTIES VerifiedCacheIsWhole AcceptedDataVerifies
CHECK_DEADLOCK FALSE
