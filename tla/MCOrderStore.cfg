SPECIFICATION StoreSpec
CONSTANTS
  Item = {i1}
  Payment = {p1}
  Reservation = {r1}
  None = None
  Handler = {h1, h2}
  MaxEvents = 5
INVARIANT TypeOK
INVARIANT UnbrokenStream
INVARIANT VersionStandsForState
INVARIANT RefundNoteFollowsCancel
PROPERTY LegalLife
PROPERTY ImplementsLifecycle
SYMMETRY Symmetry
CHECK_DEADLOCK FALSE
