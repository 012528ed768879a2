SPECIFICATION Spec
CONSTANTS
  id1 = id1
  id2 = id2
  id3 = id3
  WrongDim = WrongDim
  None = None
  Ids = {id1, id2, id3}
  Vectors <- MCVectors
  Points <- MCPoints
  SquaredL2 <- MCSquaredL2
  NClusters = 3
  TrainingSampleSize = 3
  UsePq = FALSE
  PqMinSample = 0
  QuantizeMayFail = FALSE
  RefineFactors = {0}
  Samples <- MCTuningSamples
  MaxSeq = 4
  MaxLen = 4
  Picks <- MCPicks
  KMeans <- MCKMeans
  Coverages <- MCCoverages
INVARIANTS
  SuggestionIsLeastCover
  SuggestionIsMonotone
  StatsAccountForEveryVector
SYMMETRY IdSymmetry
CHECK_DEADLOCK FALSE
