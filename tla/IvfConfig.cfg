SPECIFICATION Spec
CONSTANTS
  None = None
  Sizes <- MCSizes
  Dims <- MCDims
  PqMetrics = {Euclidean, DotProduct}
  Metrics = {Euclidean, DotProduct, Cosine}
INVARIANTS
  TypeOK
  SetterAgreesWithNew
  TrainersNeedsAreMet
