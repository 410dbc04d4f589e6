SPECIFICATION PaymentSpec
CONSTANTS
  Request = {r1, r2, r3, r4, r5}
  Amount = 2
  Fault = {"abort", "lost", "validation"}
INVARIANT PaymentTypeOK
INVARIANT OneChargePerKey
INVARIANT RefundsOnRecord
INVARIANT NeverOverstated
INVARIANT CalmIsBalanced
SYMMETRY Symmetry
CHECK_DEADLOCK FALSE
