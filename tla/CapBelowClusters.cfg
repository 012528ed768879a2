SPECIFICATION Spec
CONSTANTS
  NClusters = 3
  Low = 0
  High = 720
  SquaredL2 <- MCSquaredL2
  Samples <- MCLongSamples
  TrainingSampleSize = 2
  MaxIters = 25
  One = 60
  ToleranceInverse = 10000
  Resolution = 8
INVARIANT EnoughToSeed
CHECK_DEADLOCK FALSE
