SPECIFICATION Spec
CONSTANTS
  Inputs <- MCInputs
  Limits = {0, 1, 2, 3, 4, 5}
INVARIANTS
  TypeOK
  HeapHoldsTheBest
  AnswerIsRanked
CHECK_DEADLOCK FALSE
