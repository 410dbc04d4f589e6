SPECIFICATION SagaSpec
CONSTANTS
  Item = {i1, i2}
  Saga = {s1}
  None = None
  Fault = {"command", "unwind", "refund", "release", "lost", "noid", "redirect", "crash"}
INVARIANT SagaTypeOK
INVARIANT CompensatedIsClean
PROPERTY RefundBeforeRelease
PROPERTY SagaEnds
CHECK_DEADLOCK FALSE
