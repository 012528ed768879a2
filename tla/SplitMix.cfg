SPECIFICATION Spec
CONSTANTS
  Width = 8
  Gamma <- MCGamma
  Multipliers <- MCMultipliers
  Shifts <- MCShifts
  MantissaDrop = 6
  Seeds <- MCSeeds
  Bounds <- MCBounds
  Unit = Unit
INVARIANTS
  TypeOK
  ExactOverAPeriod
  UnitIsPositive
PROPERTIES
  StreamHasFullPeriod
  DrawsEnd
