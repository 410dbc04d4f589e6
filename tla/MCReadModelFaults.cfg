SPECIFICATION ReadSpec
CONSTANTS
  Item = {i1}
  Payment = {}
  Reservation = {r1}
  None = None
  Handler = {h1, h2}
  MaxEvents = 2
  Partition = {q1, q2}
  Fault = {"crash", "lost", "projection", "consumer", "rebalance", "rebuild"}
  MaxRebalances = 1
INVARIANT NothingUncommittedShows
SYMMETRY Symmetry
CHECK_DEADLOCK FALSE
