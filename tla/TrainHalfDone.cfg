SPECIFICATION Spec
CONSTANTS
  id1 = id1
  id2 = id2
  id3 = id3
  WrongDim = WrongDim
  None = None
  Ids = {id1, id2, id3}
  Vectors <- MCVectors
  Points <- MCPoints
  SquaredL2 <- MCSquaredL2
  NClusters = 2
  TrainingSampleSize = 3
  UsePq = TRUE
  PqMinSample = 3
  QuantizeMayFail = TRUE
  RefineFactors = {0, 2}
  Samples <- MCSamples
  MaxSeq = 3
  MaxLen = 4
  Picks <- MCPicks
  KMeans <- MCKMeans
INVARIANT NoCentroidsBeforeTraining
CHECK_DEADLOCK FALSE
