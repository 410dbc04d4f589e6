--------------------------- MODULE OrderLifecycle ---------------------------
(***************************************************************************)
(* What order-service promises of one order, whatever runs concurrently:   *)
(* the order changes by whole commands, one at a time, each taken in a     *)
(* state that permits it.  There is no stream, no version and no handler   *)
(* here.  OrderStore implements this specification.                        *)
(***************************************************************************)
CONSTANTS Item, Payment, Reservation, None

VARIABLES
  status,       \* where the order is in its life
  items,        \* the ids of the items it holds
  payment,      \* the last payment recorded on it, None if none was
  reservation,  \* the reservation recorded on it and not yet released
  refunds       \* the payments the audit trail calls refunded

vars == <<status, items, payment, reservation, refunds>>

Init ==
  /\ status = "absent"
  /\ items = {}
  /\ payment = None
  /\ reservation = None
  /\ refunds = {}

Create ==
  /\ status = "absent"
  /\ status' = "pending"
  /\ UNCHANGED <<items, payment, reservation, refunds>>

AddItem(i) ==
  /\ status = "pending"
  /\ items' = items \cup {i}
  /\ UNCHANGED <<status, payment, reservation, refunds>>

RemoveItem(i) ==
  /\ status = "pending"
  /\ i \in items
  /\ items' = items \ {i}
  /\ UNCHANGED <<status, payment, reservation, refunds>>

Confirm ==
  /\ status = "pending"
  /\ items # {}
  /\ status' = "confirmed"
  /\ UNCHANGED <<items, payment, reservation, refunds>>

Ship ==
  /\ status = "confirmed"
  /\ status' = "shipped"
  /\ UNCHANGED <<items, payment, reservation, refunds>>

Deliver ==
  /\ status = "shipped"
  /\ status' = "delivered"
  /\ UNCHANGED <<items, payment, reservation, refunds>>

\* Cancelling a paid order notes the refund of its payment in the same step.
Cancel ==
  /\ status \in {"pending", "confirmed", "shipped"}
  /\ status' = "cancelled"
  /\ refunds' = refunds \cup ({payment} \ {None})
  /\ UNCHANGED <<items, payment, reservation>>

RecordPayment(p) ==
  /\ status # "absent"
  /\ payment' = p
  /\ UNCHANGED <<status, items, reservation, refunds>>

RecordReservation(r) ==
  /\ status # "absent"
  /\ reservation' = r
  /\ UNCHANGED <<status, items, payment, refunds>>

Next ==
  \/ Create \/ Confirm \/ Ship \/ Deliver \/ Cancel
  \/ \E i \in Item : AddItem(i) \/ RemoveItem(i)
  \/ \E p \in Payment : RecordPayment(p)
  \/ \E r \in Reservation \cup {None} : RecordReservation(r)

Spec == Init /\ [][Next]_vars

=============================================================================
