SPECIFICATION PaymentSpec
CONSTANTS
  Request = {r1, r2, r3}
  Amount = 1
  Fault = {}
INVARIANT NeverOverRefunded
CHECK_DEADLOCK FALSE
