SPECIFICATION Spec
CONSTANTS
  id1 = id1
  id2 = id2
  id3 = id3
  WrongDim = WrongDim
  None = None
  Ids = {id1, id2, id3}
  Vectors <- MCVectors
  Points <- MCPoints
  SquaredL2 <- MCSquaredL2
  NClusters = 2
  TrainingSampleSize = 3
  UsePq = TRUE
  PqMinSample = 3
  QuantizeMayFail = TRUE
  RefineFactors = {0, 1, 2}
  Samples <- MCPqSamples
  MaxSeq = 3
  MaxLen = 4
  Picks <- MCPicks
  KMeans <- MCKMeans
  NoFilter = NoFilter
  BadFilter = BadFilter
  Queries <- MCDirections
  Compute <- MCDot
  DotProduct = TRUE
  Reconstruct <- MCReconstruct
  Filters <- MCFilters
  Ks = {1, 2}
INVARIANTS
  NearestPlacement
  CodesCurrent
  PqIffTrained
  AnswersAreSound
  ExhaustiveSearchIsExact
  BestInReachIsFound
  MoreRefineNeverWorse
PROPERTIES
  RetrainIsIdempotent
  TrainForgetsFailures
  ImplementsVectorStore
SYMMETRY IdSymmetry
CHECK_DEADLOCK FALSE
