--------------------------- MODULE OrderAggregate ---------------------------
(***************************************************************************)
(* The Order aggregate of order-service as data: its events, its commands, *)
(* the guard of every command and the state change of every event.  The    *)
(* module has no variables; OrderStore gives it a table of events.         *)
(*                                                                         *)
(* What is abstracted: an item is its id (quantity, price and name only    *)
(* feed the total, which apply() recomputes from the items), addresses,    *)
(* timestamps, tracking data and free texts are left out.  A command whose *)
(* quantity or price is not positive is rejected before any state is       *)
(* touched and is not offered as an input.                                 *)
(***************************************************************************)
EXTENDS Integers, Sequences

CONSTANTS
  Item,         \* item ids: productID, or productID-variantID
  Payment,      \* payment ids the payment service hands out
  Reservation,  \* reservation ids the inventory service hands out
  None          \* the empty string where an id is expected

ASSUME RefAssumption ==
  /\ None \notin Item /\ None \notin Payment /\ None \notin Reservation

(***************************************************************************)
(* Events.  Every event carries the version it gives the aggregate and the *)
(* id it is about, None where it is about no id.                           *)
(***************************************************************************)
Event ==
  [ type : { "OrderCreated", "OrderConfirmed", "OrderCancelled",
             "OrderShipped", "OrderDelivered" },
    version : Nat, ref : {None} ]
  \cup [ type : {"OrderItemAdded", "OrderItemRemoved"},
         version : Nat, ref : Item ]
  \cup [ type : {"PaymentProcessed", "PaymentFailed", "OrderRefunded"},
         version : Nat, ref : Payment ]
  \cup [ type : {"InventoryReserved"},
         version : Nat, ref : Reservation \cup {None} ]
  \cup [ type : {"InventoryReleased"}, version : Nat, ref : Reservation ]

(***************************************************************************)
(* The aggregate.  "absent" is an order whose stream is still empty.       *)
(***************************************************************************)
Statuses ==
  {"absent", "pending", "confirmed", "shipped", "delivered", "cancelled"}

Aggregate ==
  [ version     : Nat,
    status      : Statuses,
    items       : SUBSET Item,
    payment     : Payment \cup {None},
    reservation : Reservation \cup {None} ]

Blank ==
  [ version |-> 0, status |-> "absent", items |-> {},
    payment |-> None, reservation |-> None ]

\* The status an event sets; the other events leave the status alone.
StatusAfter ==
  [ OrderCreated   |-> "pending",   OrderConfirmed |-> "confirmed",
    OrderCancelled |-> "cancelled", OrderShipped   |-> "shipped",
    OrderDelivered |-> "delivered" ]

\* apply(): the state change of one event, with no guard of its own.
Apply(a, e) ==
  [ version |-> e.version,
    status  |-> IF e.type \in DOMAIN StatusAfter THEN StatusAfter[e.type]
                ELSE a.status,
    items   |-> (a.items \cup {i \in {e.ref} : e.type = "OrderItemAdded"})
                  \ {i \in {e.ref} : e.type = "OrderItemRemoved"},
    payment |-> IF e.type = "PaymentProcessed" THEN e.ref ELSE a.payment,
    reservation |-> IF e.type = "InventoryReserved" THEN e.ref
                    ELSE IF e.type = "InventoryReleased" THEN None
                    ELSE a.reservation ]

\* A batch is one event, or the two that cancelling a paid order raises.
ApplyBatch(a, es) ==
  IF Len(es) = 2 THEN Apply(Apply(a, es[1]), es[2]) ELSE Apply(a, es[1])

(***************************************************************************)
(* Commands.                                                               *)
(***************************************************************************)
EventOf ==
  [ Create  |-> "OrderCreated",   AddItem |-> "OrderItemAdded",
    RemoveItem |-> "OrderItemRemoved", Confirm |-> "OrderConfirmed",
    Cancel  |-> "OrderCancelled", Ship    |-> "OrderShipped",
    Deliver |-> "OrderDelivered", RecordPayment |-> "PaymentProcessed",
    RecordPaymentFailure |-> "PaymentFailed",
    RecordInventoryReservation |-> "InventoryReserved",
    RecordInventoryRelease |-> "InventoryReleased" ]

Plain(op) == [op |-> op, ref |-> None]

CreateCommand == Plain("Create")

\* The saga records the empty id when no reservation came back with one.
LoadingCommands ==
  [op: {"AddItem", "RemoveItem"}, ref: Item]
  \cup [op: {"Confirm", "Cancel", "Ship", "Deliver"}, ref: {None}]
  \cup [op: {"RecordPayment", "RecordPaymentFailure"}, ref: Payment]
  \cup [op: {"RecordInventoryReservation"}, ref: Reservation \cup {None}]
  \cup [op: {"RecordInventoryRelease"}, ref: Reservation]

Command == LoadingCommands \cup {CreateCommand}

Recordings ==
  { "RecordPayment", "RecordPaymentFailure", "RecordInventoryReservation",
    "RecordInventoryRelease" }

\* Mutant: Confirm without the check that the order has items.
AcceptsEmptyConfirm(a, c) ==
  \/ c.op = "Create"     /\ a = Blank
  \/ c.op = "AddItem"    /\ a.status = "pending"
  \/ c.op = "RemoveItem" /\ a.status = "pending" /\ c.ref \in a.items
  \/ c.op = "Confirm"    /\ a.status = "pending"
  \/ c.op = "Cancel"     /\ a.status \notin {"cancelled", "delivered"}
  \/ c.op = "Ship"       /\ a.status = "confirmed"
  \/ c.op = "Deliver"    /\ a.status = "shipped"
  \/ c.op \in Recordings

\* The guards of the aggregate's methods.  The Record commands have none.
Accepts(a, c) ==
  \/ c.op = "Create"     /\ a = Blank
  \/ c.op = "AddItem"    /\ a.status = "pending"
  \/ c.op = "RemoveItem" /\ a.status = "pending" /\ c.ref \in a.items
  \/ c.op = "Confirm"    /\ a.status = "pending" /\ a.items # {}
  \/ c.op = "Cancel"     /\ a.status \notin {"cancelled", "delivered"}
  \/ c.op = "Ship"       /\ a.status = "confirmed"
  \/ c.op = "Deliver"    /\ a.status = "shipped"
  \/ c.op \in Recordings

\* Mutants: Cancel notes a refund whether or not a payment was recorded;
\* Cancel raises the refund before the cancellation.
RaisedAlwaysRefunds(a, c) ==
  LET first  == [ type |-> EventOf[c.op], version |-> a.version + 1,
                  ref |-> c.ref ]
      refund == [ type |-> "OrderRefunded", version |-> a.version + 2,
                  ref |-> a.payment ]
  IN  IF c.op = "Cancel" THEN <<first, refund>> ELSE <<first>>

RaisedRefundFirst(a, c) ==
  LET refund == [ type |-> "OrderRefunded", version |-> a.version + 1,
                  ref |-> a.payment ]
      At(v)  == [ type |-> EventOf[c.op], version |-> v, ref |-> c.ref ]
  IN  IF c.op = "Cancel" /\ a.payment # None
      THEN <<refund, At(a.version + 2)>>
      ELSE <<At(a.version + 1)>>

\* The events an accepted command raises on the aggregate it was decided on.
Raised(a, c) ==
  LET first  == [ type |-> EventOf[c.op], version |-> a.version + 1,
                  ref |-> c.ref ]
      refund == [ type |-> "OrderRefunded", version |-> a.version + 2,
                  ref |-> a.payment ]
  IN  IF c.op = "Cancel" /\ a.payment # None
      THEN <<first, refund>>
      ELSE <<first>>

=============================================================================
