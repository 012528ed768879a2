SPECIFICATION Spec
CONSTANTS
  id1 = id1
  id2 = id2
  id3 = id3
  WrongDim = WrongDim
  None = None
  Ids = {id1, id2, id3}
  Vectors <- MCVectors
  Points <- MCPoints
  SquaredL2 <- MCSquaredL2
  NClusters = 2
  TrainingSampleSize = 2
  UsePq = FALSE
  PqMinSample = 0
  QuantizeMayFail = FALSE
  RefineFactors = {0}
  Samples <- MCSamples
  MaxSeq = 4
  MaxLen = 4
  Picks <- MCPicks
  KMeans <- MCKMeans
  NoFilter = NoFilter
  BadFilter = BadFilter
  Queries <- MCVectors
  Compute <- MCEuclidean
  DotProduct = FALSE
  Reconstruct <- MCReconstruct
  Filters <- MCFilters
  Ks = {0, 1, 2}
INVARIANTS
  TypeOK
  DirectoryExact
  StampsDistinct
  ExhaustiveSearchIsExact
  StoredVectorIsFound
  FilterComesFirst
  MoreProbesNeverWorse
PROPERTIES
  RetrainIsIdempotent
  ImplementsVectorStore
SYMMETRY IdSymmetry
CHECK_DEADLOCK FALSE
