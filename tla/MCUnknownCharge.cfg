SPECIFICATION SagaSpec
CONSTANTS
  Item = {i1}
  Saga = {s1}
  None = None
  Fault = {"lost"}
INVARIANT NoUnknownCharge
CHECK_DEADLOCK FALSE
