SPECIFICATION SagaSpec
CONSTANTS
  Item = {i1}
  Saga = {s1}
  None = None
  Fault = {}
INVARIANT NotedRefundIsMade
CHECK_DEADLOCK FALSE
