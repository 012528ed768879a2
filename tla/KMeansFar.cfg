SPECIFICATION Spec
CONSTANTS
  NClusters = 3
  Low = 1260
  High = 2460
  SquaredL2 <- MCSquaredL2
  Samples <- MCFarSamples
  TrainingSampleSize = 6
  MaxIters = 25
  One = 60
  ToleranceInverse = 10
  Resolution = 64
PROPERTY NoClusterIsGivenUp
CHECK_DEADLOCK FALSE
