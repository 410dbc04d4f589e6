SPECIFICATION SagaSpec
CONSTANTS
  Item = {i1}
  Saga = {s1, s2}
  None = None
  Fault = {"command"}
INVARIANT OneConfirmation
INVARIANT NothingStranded
SYMMETRY Symmetry
CHECK_DEADLOCK FALSE
