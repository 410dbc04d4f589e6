SPECIFICATION FairReadSpec
CONSTANTS
  Item = {i1}
  Payment = {p1}
  Reservation = {r1}
  None = None
  Handler = {h1}
  MaxEvents = 4
  Partition = {q1}
  Fault = {"projection", "rebalance"}
  MaxRebalances = 1
INVARIANT SettledRowMatches
PROPERTY RowConverges
CHECK_DEADLOCK FALSE
