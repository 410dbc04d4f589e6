----------------------------- MODULE OrderSaga -----------------------------
(***************************************************************************)
(* POST /orders/:id/confirm: the saga that reserves stock, charges the     *)
(* customer and confirms the order, and its compensation, with the two     *)
(* services it calls and what else may happen to the order meanwhile: a    *)
(* second confirm request, the client's own commands, and the payment      *)
(* service's events, which the external consumer turns into commands.      *)
(*                                                                         *)
(* The order is that of OrderLifecycle, one atomic command at a time,      *)
(* which OrderStore implements.  A command may fail on a version conflict  *)
(* or a database error and is then never retried.                          *)
(*                                                                         *)
(* Saga s gets payment id s and, for item i, reservation id <<s, i>>.      *)
(***************************************************************************)
EXTENDS Integers, Sequences

CONSTANTS
  Item,   \* what an order may hold
  Saga,   \* confirm requests, each runs one saga
  None,   \* no id
  Fault   \* what may go wrong in this instance

Faults ==
  { "command",   \* a command of the forward steps fails
    "unwind",    \* a command of the compensation fails
    "refund",    \* a refund is refused or its answer is lost
    "release",   \* a release is refused or its answer is lost
    "lost",      \* the answer of a reservation or a charge is lost
    "noid",      \* a reservation or a charge answers without an id
    "redirect",  \* the gateway answers before the customer has paid
    "crash" }    \* the replica running a saga stops

ASSUME SagaAssumption ==
  /\ Fault \subseteq Faults
  /\ None \notin Saga /\ None \notin Saga \X Item

VARIABLES
  status, items, payment, reservation, refunds,  \* the order
  stock,   \* stock[s][i]: the hold the inventory service has for s and i
  charge,  \* charge[s]: the payment the payment service has for s
  mail,    \* payment events the external consumer has not handled
  saga     \* saga[s]: the progress of the saga

orderVars == <<status, items, payment, reservation, refunds>>
serviceVars == <<stock, charge, mail>>
sagaVars == <<orderVars, serviceVars, saga>>

Order == INSTANCE OrderLifecycle
           WITH Payment <- Saga, Reservation <- Saga \X Item

Steps ==
  { "idle", "reserve", "recordReservation", "pay", "recordPayment", "confirm",
    "refund", "recordFailure", "release", "recordRelease", "cancel",
    "done", "compensated", "abandoned", "crashed" }

Ended == {"done", "compensated", "abandoned", "crashed"}
Running == Steps \ (Ended \cup {"idle"})

(***************************************************************************)
(* The progress of a saga: its step, the items of its snapshot still to be *)
(* reserved, the reservations it knows in the order it made them, whether  *)
(* it knows a payment id; and, while it releases, how many reservations    *)
(* are left, how many releases it still has to record, and whether one of  *)
(* these failed (firstErr).                                                *)
(***************************************************************************)
Unstarted ==
  [ step |-> "idle", snapshot |-> {}, held |-> <<>>, paid |-> FALSE,
    left |-> 0, released |-> 0, failed |-> FALSE ]

SagaInit ==
  /\ status = "pending"
  /\ items \in SUBSET Item \ {{}}
  /\ payment = None /\ reservation = None /\ refunds = {}
  /\ stock = [s \in Saga |-> [i \in Item |-> "none"]]
  /\ charge = [s \in Saga |-> "none"]
  /\ mail = {}
  /\ saga = [s \in Saga |-> Unstarted]

At(s, step) == saga[s].step = step

Go(s, step) == saga' = [saga EXCEPT ![s].step = step]

\* Mutant: compensation runs in the order of the steps.
CompensateForward(s) ==
  saga' = [saga EXCEPT ![s].step = "release", ![s].left = Len(saga[s].held)]

\* Execute fails: compensation starts with the payment.
Compensate(s) == Go(s, "refund")

(***************************************************************************)
(* The forward steps.                                                      *)
(***************************************************************************)

\* The request loads the order, whatever its status, and snapshots its items.
Start(s) ==
  /\ At(s, "idle")
  /\ saga' = [saga EXCEPT ![s].step = "reserve", ![s].snapshot = items]
  /\ UNCHANGED <<orderVars, serviceVars>>

\* One reservation is made; its id is kept if the answer has one.
Reserved(s, i) ==
  /\ At(s, "reserve") /\ i \in saga[s].snapshot
  /\ stock' = [stock EXCEPT ![s][i] = "held"]
  /\ \/ saga' = [saga EXCEPT ![s].snapshot = @ \ {i}, ![s].held = Append(@, i)]
     \/ "noid" \in Fault /\ saga' = [saga EXCEPT ![s].snapshot = @ \ {i}]
  /\ UNCHANGED <<orderVars, charge, mail>>

\* A reservation fails, or its answer is lost or unreadable.  The step is
\* skipped, unless an earlier item was reserved.
ReservationFails(s, i) ==
  /\ At(s, "reserve") /\ i \in saga[s].snapshot
  /\ \/ UNCHANGED stock
     \/ "lost" \in Fault /\ stock' = [stock EXCEPT ![s][i] = "held"]
  /\ IF saga[s].held = <<>> THEN Go(s, "pay") ELSE Compensate(s)
  /\ UNCHANGED <<orderVars, charge, mail>>

AllReserved(s) ==
  /\ At(s, "reserve") /\ saga[s].snapshot = {}
  /\ Go(s, "recordReservation")
  /\ UNCHANGED <<orderVars, serviceVars>>

LastReservation(s) ==
  IF saga[s].held = <<>> THEN None
  ELSE <<s, saga[s].held[Len(saga[s].held)]>>

RecordReservation(s) ==
  /\ At(s, "recordReservation")
  /\ Order!RecordReservation(LastReservation(s))
  /\ Go(s, "pay")
  /\ UNCHANGED serviceVars

\* The charge is made, or with a redirect is still to be made.
Charged(s) ==
  /\ At(s, "pay")
  /\ \/ /\ charge' = [charge EXCEPT ![s] = "captured"]
        /\ mail' = mail \cup {[type |-> "PaymentCompleted", saga |-> s]}
     \/ /\ "redirect" \in Fault
        /\ charge' = [charge EXCEPT ![s] = "processing"]
        /\ UNCHANGED mail
  /\ saga' = [saga EXCEPT ![s].step = "recordPayment", ![s].paid = TRUE]
  /\ UNCHANGED <<orderVars, stock>>

\* 2xx without an id: the one unknown outcome that is not skipped.
ChargedWithoutId(s) ==
  /\ "noid" \in Fault
  /\ At(s, "pay")
  /\ charge' = [charge EXCEPT ![s] = "captured"]
  /\ mail' = mail \cup {[type |-> "PaymentCompleted", saga |-> s]}
  /\ Compensate(s)
  /\ UNCHANGED <<orderVars, stock>>

\* The charge is declined, the service is down, or the charge is made and its
\* answer is lost or unreadable: the step is skipped.
PaymentSkipped(s) ==
  /\ At(s, "pay")
  /\ \/ UNCHANGED <<charge, mail>>
     \/ /\ charge' = [charge EXCEPT ![s] = "failed"]
        /\ mail' = mail \cup {[type |-> "PaymentFailed", saga |-> s]}
     \/ /\ "lost" \in Fault
        /\ charge' = [charge EXCEPT ![s] = "captured"]
        /\ mail' = mail \cup {[type |-> "PaymentCompleted", saga |-> s]}
  /\ Go(s, "confirm")
  /\ UNCHANGED <<orderVars, stock>>

RecordPayment(s) ==
  /\ At(s, "recordPayment")
  /\ Order!RecordPayment(s)
  /\ Go(s, "confirm")
  /\ UNCHANGED serviceVars

\* Mutant: confirming a confirmed order again is accepted.
ConfirmAgain(s) ==
  /\ At(s, "confirm")
  /\ status \in {"pending", "confirmed"} /\ items # {}
  /\ status' = "confirmed"
  /\ Go(s, "done")
  /\ UNCHANGED <<items, payment, reservation, refunds, serviceVars>>

Confirm(s) ==
  /\ At(s, "confirm")
  /\ Order!Confirm
  /\ Go(s, "done")
  /\ UNCHANGED serviceVars

\* The order is not, or no longer, one that can be confirmed.
ConfirmRefused(s) ==
  /\ At(s, "confirm")
  /\ status # "pending" \/ items = {}
  /\ Compensate(s)
  /\ UNCHANGED <<orderVars, serviceVars>>

\* Mutant: only completed steps are compensated, so a payment that was made
\* but not recorded is left alone.
CommandFailsUntracked(s) ==
  /\ "command" \in Fault
  /\ \E step \in {"recordReservation", "recordPayment", "confirm"} : At(s, step)
  /\ IF At(s, "recordPayment")
     THEN saga' = [saga EXCEPT ![s].step = "release",
                               ![s].left = Len(saga[s].held)]
     ELSE Compensate(s)
  /\ UNCHANGED <<orderVars, serviceVars>>

\* A command of a forward step fails: never optional, always compensated.
CommandFails(s) ==
  /\ "command" \in Fault
  /\ \E step \in {"recordReservation", "recordPayment", "confirm"} : At(s, step)
  /\ Compensate(s)
  /\ UNCHANGED <<orderVars, serviceVars>>

(***************************************************************************)
(* Compensation: the payment, then the reservations, then the order.  The  *)
(* first step that reports an error ends it.                               *)
(***************************************************************************)
NothingToRefund(s) ==
  /\ At(s, "refund") /\ ~saga[s].paid
  /\ saga' = [saga EXCEPT ![s].step = "release",
                          ![s].left = Len(saga[s].held)]
  /\ UNCHANGED <<orderVars, serviceVars>>

Refund(s) ==
  /\ At(s, "refund") /\ saga[s].paid /\ charge[s] = "captured"
  /\ charge' = [charge EXCEPT ![s] = "refunded"]
  /\ Go(s, "recordFailure")
  /\ UNCHANGED <<orderVars, stock, mail>>

\* A payment still processing cannot be refunded; a captured one may be
\* refused by the gateway, or be refunded with the answer lost.
RefundFails(s) ==
  /\ At(s, "refund") /\ saga[s].paid
  /\ \/ charge[s] # "captured" /\ UNCHANGED charge
     \/ "refund" \in Fault /\ UNCHANGED charge
     \/ "refund" \in Fault /\ charge[s] = "captured"
                           /\ charge' = [charge EXCEPT ![s] = "refunded"]
  /\ Go(s, "abandoned")
  /\ UNCHANGED <<orderVars, stock, mail>>

\* RecordPaymentFailure leaves the order's own state as it is.
RecordFailure(s) ==
  /\ At(s, "recordFailure")
  /\ saga' = [saga EXCEPT ![s].step = "release",
                          ![s].left = Len(saga[s].held)]
  /\ UNCHANGED <<orderVars, serviceVars>>

\* The next reservation, newest first, is released.
Release(s) ==
  /\ At(s, "release") /\ saga[s].left > 0
  /\ stock' = [stock EXCEPT ![s][saga[s].held[saga[s].left]] = "released"]
  /\ saga' = [saga EXCEPT ![s].left = @ - 1, ![s].released = @ + 1]
  /\ UNCHANGED <<orderVars, charge, mail>>

\* Mutant: a failed release is not remembered as the first error.
ReleaseForgotten(s) ==
  /\ "release" \in Fault
  /\ At(s, "release") /\ saga[s].left > 0
  /\ \/ UNCHANGED stock
     \/ stock' = [stock EXCEPT ![s][saga[s].held[saga[s].left]] = "released"]
  /\ saga' = [saga EXCEPT ![s].left = @ - 1]
  /\ UNCHANGED <<orderVars, charge, mail>>

\* Its release is refused or the answer lost; the others are still tried.
ReleaseFails(s) ==
  /\ "release" \in Fault
  /\ At(s, "release") /\ saga[s].left > 0
  /\ \/ UNCHANGED stock
     \/ stock' = [stock EXCEPT ![s][saga[s].held[saga[s].left]] = "released"]
  /\ saga' = [saga EXCEPT ![s].left = @ - 1, ![s].failed = TRUE]
  /\ UNCHANGED <<orderVars, charge, mail>>

\* Mutant: the loop waits until every reservation is known to be released.
AwaitAllReleased(s) ==
  /\ At(s, "release") /\ saga[s].left = 0
  /\ saga[s].released = Len(saga[s].held)
  /\ Go(s, "recordRelease")
  /\ UNCHANGED <<orderVars, serviceVars>>

AllReleased(s) ==
  /\ At(s, "release") /\ saga[s].left = 0
  /\ Go(s, "recordRelease")
  /\ UNCHANGED <<orderVars, serviceVars>>

\* Mutant: the loop runs once too often.
RecordOneMore(s) ==
  /\ At(s, "recordRelease")
  /\ Order!RecordReservation(None)
  /\ saga' = [saga EXCEPT ![s].released = @ - 1]
  /\ UNCHANGED serviceVars

\* One release is recorded on the order, or the command fails.
RecordRelease(s) ==
  /\ At(s, "recordRelease") /\ saga[s].released > 0
  /\ \/ /\ Order!RecordReservation(None)
        /\ saga' = [saga EXCEPT ![s].released = @ - 1]
     \/ /\ "unwind" \in Fault
        /\ saga' = [saga EXCEPT ![s].released = @ - 1, ![s].failed = TRUE]
        /\ UNCHANGED orderVars
  /\ UNCHANGED serviceVars

Unwound(s) ==
  /\ At(s, "recordRelease") /\ saga[s].released = 0
  /\ Go(s, IF saga[s].failed THEN "abandoned" ELSE "cancel")
  /\ UNCHANGED <<orderVars, serviceVars>>

\* Whatever the order has become, unless the aggregate refuses.
CancelOrder(s) ==
  /\ At(s, "cancel")
  /\ Order!Cancel
  /\ Go(s, "compensated")
  /\ UNCHANGED serviceVars

CancelRefused(s) ==
  /\ At(s, "cancel")
  /\ status \in {"cancelled", "delivered"}
  /\ Go(s, "abandoned")
  /\ UNCHANGED <<orderVars, serviceVars>>

UnwindFails(s) ==
  /\ "unwind" \in Fault
  /\ At(s, "recordFailure") \/ At(s, "cancel")
  /\ Go(s, "abandoned")
  /\ UNCHANGED <<orderVars, serviceVars>>

\* The saga lives in the memory of the replica that runs it.
Crash(s) ==
  /\ "crash" \in Fault
  /\ saga[s].step \in Running
  /\ Go(s, "crashed")
  /\ UNCHANGED <<orderVars, serviceVars>>

SagaStep(s) ==
  \/ \E i \in Item : Reserved(s, i) \/ ReservationFails(s, i)
  \/ AllReserved(s)
  \/ RecordReservation(s)
  \/ Charged(s)
  \/ ChargedWithoutId(s)
  \/ PaymentSkipped(s)
  \/ RecordPayment(s)
  \/ Confirm(s)
  \/ ConfirmRefused(s)
  \/ CommandFails(s)
  \/ NothingToRefund(s)
  \/ Refund(s)
  \/ RefundFails(s)
  \/ RecordFailure(s)
  \/ Release(s)
  \/ ReleaseFails(s)
  \/ AllReleased(s)
  \/ RecordRelease(s)
  \/ Unwound(s)
  \/ CancelOrder(s)
  \/ CancelRefused(s)
  \/ UnwindFails(s)

(***************************************************************************)
(* What else happens to the order.                                         *)
(***************************************************************************)

\* Requests of clients, and the shipping service's events.
ClientCommand ==
  /\ \/ \E i \in Item : Order!AddItem(i) \/ Order!RemoveItem(i)
     \/ Order!Cancel
     \/ Order!Ship
     \/ Order!Deliver
  /\ UNCHANGED <<serviceVars, saga>>

\* The customer of a redirect gateway pays, or fails to.
CustomerPays(s) ==
  /\ charge[s] = "processing"
  /\ \/ /\ charge' = [charge EXCEPT ![s] = "captured"]
        /\ mail' = mail \cup {[type |-> "PaymentCompleted", saga |-> s]}
     \/ /\ charge' = [charge EXCEPT ![s] = "failed"]
        /\ mail' = mail \cup {[type |-> "PaymentFailed", saga |-> s]}
  /\ UNCHANGED <<orderVars, stock, saga>>

\* handlePaymentEvent: confirm or cancel; a command that fails or is refused
\* is logged and the event is gone.
PaymentEvent(m) ==
  /\ m \in mail
  /\ \/ m.type = "PaymentCompleted" /\ Order!Confirm
     \/ m.type = "PaymentFailed" /\ Order!Cancel
     \/ UNCHANGED orderVars
  /\ mail' = mail \ {m}
  /\ UNCHANGED <<stock, charge, saga>>

SagaNext ==
  \/ \E s \in Saga : Start(s) \/ SagaStep(s) \/ Crash(s) \/ CustomerPays(s)
  \/ ClientCommand
  \/ \E m \in mail : PaymentEvent(m)

\* Every call of a saga has a timeout, so a running saga takes its next step.
SagaSpec ==
  /\ SagaInit /\ [][SagaNext]_sagaVars
  /\ \A s \in Saga : WF_sagaVars(SagaStep(s))

(***************************************************************************)
(* Properties.                                                             *)
(***************************************************************************)

Known(s) == {saga[s].held[k] : k \in 1..Len(saga[s].held)}

\* Every variable has its type.
SagaTypeOK ==
  /\ status \in {"pending", "confirmed", "shipped", "delivered", "cancelled"}
  /\ items \subseteq Item
  /\ payment \in Saga \cup {None}
  /\ reservation \in (Saga \X Item) \cup {None}
  /\ refunds \subseteq Saga
  /\ stock \in [Saga -> [Item -> {"none", "held", "released"}]]
  /\ charge \in [Saga -> {"none", "processing", "captured", "refunded", "failed"}]
  /\ mail \subseteq [type : {"PaymentCompleted", "PaymentFailed"}, saga : Saga]
  /\ saga \in [Saga -> [ step : Steps, snapshot : SUBSET Item, held : Seq(Item),
                         paid : BOOLEAN, left : Nat, released : Nat,
                         failed : BOOLEAN ]]

\* A compensation that reports success has given everything back: the payment
\* the saga knows is refunded, the stock it knows is released and the order
\* is cancelled, whatever failed, was lost or raced on the way.
CompensatedIsClean ==
  \A s \in Saga :
    At(s, "compensated") =>
      /\ saga[s].paid => charge[s] = "refunded"
      /\ \A i \in Known(s) : stock[s][i] = "released"
      /\ status = "cancelled"

\* How far a compensation has got: a refund precedes every later step, the
\* reservations past the ones left are released unless an error is noted, and
\* only an unwinding without errors goes on to the cancellation.
Refunded(s) ==
  saga[s].step \in {"recordFailure", "release", "recordRelease", "cancel",
                    "compensated"} =>
    (saga[s].paid => charge[s] = "refunded")

ReleasedSoFar(s) ==
  /\ saga[s].left <= Len(saga[s].held)
  /\ saga[s].step \in {"release", "recordRelease", "cancel", "compensated"}
       /\ ~saga[s].failed =>
         \A k \in (saga[s].left + 1)..Len(saga[s].held) :
           stock[s][saga[s].held[k]] = "released"
  /\ saga[s].step \in {"recordRelease", "cancel", "compensated"} =>
       saga[s].left = 0
  /\ saga[s].step \in {"cancel", "compensated"} => ~saga[s].failed

Outcome(s) ==
  /\ At(s, "compensated") => status = "cancelled"
  /\ At(s, "done") => status # "pending"

\* Concurrent confirm requests and payment events confirm an order once.
OneConfirmation ==
  \A s, t \in Saga : At(s, "done") /\ At(t, "done") => s = t

\* Compensation is in reverse order: no stock of a saga is released while the
\* saga may still find that it cannot refund its payment.
RefundBeforeRelease ==
  [][\A s \in Saga, i \in Item :
       stock'[s][i] = "released" /\ stock[s][i] # "released" =>
         (saga[s].paid => charge[s] = "refunded")]_sagaVars

\* When answers are not lost and the compensation's own calls succeed, a saga
\* that ended without confirming the order holds no stock and no money,
\* whatever it raced with.
NothingStranded ==
  \A s \in Saga :
    saga[s].step \in Ended \ {"done"} =>
      /\ charge[s] # "captured"
      /\ \A i \in Item : stock[s][i] # "held"

\* What keeps money and stock from being stranded when nothing but a forward
\* command fails: a saga knows of every payment it made until it is refunded,
\* and of every hold it has until it is released.
MoneyAccounted(s) ==
  /\ saga[s].step \in {"idle", "reserve", "recordReservation", "pay"} =>
       ~saga[s].paid /\ charge[s] = "none"
  /\ saga[s].step \in {"recordPayment", "confirm", "refund"} /\ saga[s].paid =>
       charge[s] = "captured"
  /\ charge[s] = "captured" =>
       /\ saga[s].paid
       /\ saga[s].step \in {"recordPayment", "confirm", "refund", "done"}
  /\ charge[s] # "processing"

Owed(s) ==
  IF saga[s].step \in {"release", "recordRelease", "cancel"} \cup (Ended \ {"done"})
  THEN saga[s].left ELSE Len(saga[s].held)

StockAccounted(s) ==
  /\ ~saga[s].failed
  /\ \A i \in Item :
       stock[s][i] = "held" => \E k \in 1..Owed(s) : saga[s].held[k] = i
  /\ saga[s].step \in Ended \ {"done"} => saga[s].left = 0

Accounted == \A s \in Saga : MoneyAccounted(s) /\ StockAccounted(s)

\* The inductive invariant of the compensation.
SagaInv ==
  /\ SagaTypeOK
  /\ \A s \in Saga : Refunded(s) /\ ReleasedSoFar(s) /\ Outcome(s)
  /\ OneConfirmation

\* A saga that started ends.
SagaEnds ==
  \A s \in Saga : ~At(s, "idle") ~> saga[s].step \in Ended

\* "a sideEffectError always fails the saga": no saga succeeds with a charge
\* it made and does not know of.
NoUnknownCharge ==
  \A s \in Saga : At(s, "done") /\ charge[s] = "captured" => saga[s].paid

\* "The payment service still handles the actual money movement via the saga
\* compensation": when no saga is running, a refund the order notes was made.
NotedRefundIsMade ==
  (\A s \in Saga : saga[s].step \notin Running) =>
    \A s \in refunds : charge[s] # "captured"

=============================================================================
