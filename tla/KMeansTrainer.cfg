SPECIFICATION Spec
CONSTANTS
  NClusters = 3
  Low = 0
  High = 720
  SquaredL2 <- MCSquaredL2
  Samples <- MCSamples
  TrainingSampleSize = 6
  MaxIters = 25
  One = 60
  ToleranceInverse = 10000
  Resolution = 64
INVARIANTS
  TypeOK
  SeedsAreDistinct
  NoEmptyClusterOnceSettled
  SettlesBeforeTheCap
  CapTakesEachOnce
PROPERTY DistortionNeverGrows
CHECK_DEADLOCK FALSE
