SPECIFICATION ReadSpec
CONSTANTS
  Item = {i1}
  Payment = {p1}
  Reservation = {r1}
  None = None
  Handler = {h1}
  MaxEvents = 4
  Partition = {q1}
  Fault = {}
  MaxRebalances = 0
INVARIANT ReadAfterWrite
CHECK_DEADLOCK FALSE
