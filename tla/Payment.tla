------------------------------ MODULE Payment ------------------------------
(***************************************************************************)
(* One payment of payment-service: its row, the rows of its refunds, and   *)
(* the requests that work on them.  A request loads the payment into a     *)
(* DbContext of its own, awaits the gateway, and writes the row back.      *)
(* There is no transaction around a request, no lock and no row version:   *)
(* UpdateAsync marks every column modified, so that the whole copy         *)
(* replaces the row, while another SaveChanges of the same context writes  *)
(* only the columns that changed since the load.                           *)
(*                                                                         *)
(* All requests to pay carry the same idempotency key.  The audit rows of  *)
(* payment_transactions are left out: nothing reads them back.             *)
(***************************************************************************)
EXTENDS Integers, FiniteSets

CONSTANTS
  Request,   \* the requests of a behaviour; each is served once
  Amount,    \* the amount of the payment, in the smallest unit
  Fault      \* what may go wrong in this instance

Faults ==
  { "abort",       \* the client goes away (its token is cancelled) or the
                   \* replica stops: the request ends at its next await
    "lost",        \* the gateway refunds, but its answer is an error
    "validation" } \* the validation API cannot be reached

ASSUME PaymentAssumption == Amount \in Nat \ {0} /\ Fault \subseteq Faults

VARIABLES
  gateway,    \* "direct" or "redirect": which gateway is configured
  session,    \* the charge as the gateway has it
  charges,    \* how many charges the gateway was asked for
  moved,      \* moved[r]: what the gateway gave back for refund request r
  row,        \* the payment's row
  refund,     \* refund[r]: the refund row of request r
  announced,  \* the payment events published
  req,        \* req[r]: the request in progress
  calm        \* no two requests overlapped and no fault happened so far

gatewayVars == <<gateway, session, charges, moved>>
paymentVars == <<gatewayVars, row, refund, announced, req, calm>>

Row ==
  [ status   : {"absent", "Processing", "Completed", "Failed", "Cancelled",
                "PartiallyRefunded", "Refunded"},
    refunded : Nat,
    txn      : BOOLEAN ]   \* whether the gateway's transaction id is stored

NoRow == [status |-> "absent", refunded |-> 0, txn |-> FALSE]

Steps ==
  { "new", "create", "charge", "saveCharge", "saveCancel", "saveCallback",
    "announce", "refund", "saveRefund", "savePayment", "done" }

Progress == [pc : Steps, seen : Row, copy : Row, amount : 0..Amount]

Paid == {"Completed", "PartiallyRefunded", "Refunded"}

PaymentInit ==
  /\ gateway \in {"direct", "redirect"}
  /\ session = "none"
  /\ charges = 0
  /\ moved = [r \in Request |-> 0]
  /\ row = NoRow
  /\ refund = [r \in Request |-> "none"]
  /\ announced = {}
  /\ req = [r \in Request |->
              [pc |-> "new", seen |-> NoRow, copy |-> NoRow, amount |-> 0]]
  /\ calm = TRUE

(***************************************************************************)
(* Building blocks.                                                        *)
(***************************************************************************)
At(r, step) == req[r].pc = step

Go(r, step) == req' = [req EXCEPT ![r].pc = step]

\* Request r arrives; calm ends when another one is in progress.
Arrives(r) ==
  /\ At(r, "new")
  /\ calm' = (calm /\ \A q \in Request : At(q, "new") \/ At(q, "done"))

\* r loads the row and goes on with an entity changed to c.
Load(r, c, step) ==
  req' = [req EXCEPT ![r].pc = step, ![r].seen = row, ![r].copy = c]

\* UpdateAsync: every column of the entity.
WriteAll(r) == row' = req[r].copy

\* SaveChanges without Update: the columns that changed since the load.
WriteChanged(r) ==
  row' = [f \in DOMAIN row |->
            IF req[r].copy[f] # req[r].seen[f] THEN req[r].copy[f] ELSE row[f]]

(***************************************************************************)
(* ProcessPaymentAsync.                                                    *)
(***************************************************************************)

\* The idempotency check: an existing payment is returned as it is.
LookUpKey(r) ==
  /\ Arrives(r)
  /\ Go(r, IF row = NoRow THEN "create" ELSE "done")
  /\ UNCHANGED <<gatewayVars, row, refund, announced>>

\* Mutant: the idempotency key has no unique index.
CreateAgain(r) ==
  /\ At(r, "create")
  /\ row' = [NoRow EXCEPT !.status = "Processing"]
  /\ req' = [req EXCEPT ![r].pc = "charge", ![r].seen = row', ![r].copy = row']
  /\ UNCHANGED <<gatewayVars, refund, announced, calm>>

\* Mutant: the entity keeps its default status, Pending, until it is charged.
CreatePending(r) ==
  /\ At(r, "create")
  /\ row = NoRow
  /\ row' = [NoRow EXCEPT !.status = "Pending"]
  /\ req' = [req EXCEPT ![r].pc = "charge", ![r].seen = row', ![r].copy = row']
  /\ UNCHANGED <<gatewayVars, refund, announced, calm>>

\* The row is Processing from the start; no payment is ever left Pending.
CreatePayment(r) ==
  /\ At(r, "create")
  /\ row = NoRow
  /\ row' = [NoRow EXCEPT !.status = "Processing"]
  /\ req' = [req EXCEPT ![r].pc = "charge", ![r].seen = row', ![r].copy = row']
  /\ UNCHANGED <<gatewayVars, refund, announced, calm>>

\* The unique index on the key refuses the insert and the request fails.
KeyTaken(r) ==
  /\ At(r, "create")
  /\ row # NoRow
  /\ Go(r, "done")
  /\ UNCHANGED <<gatewayVars, row, refund, announced, calm>>

\* The entity once the gateway has answered.
Charged(r, c) == req' = [req EXCEPT ![r].pc = "saveCharge", ![r].copy = c]

\* The gateway charges, opens a page for the customer, or declines, as any
\* IPaymentGateway may.
Charge(r) ==
  /\ At(r, "charge")
  /\ charges' = charges + 1
  /\ \/ /\ gateway = "direct" /\ session' = "captured"
        /\ Charged(r, [req[r].copy EXCEPT !.txn = TRUE, !.status = "Completed"])
     \/ /\ gateway = "redirect" /\ session' = "open"
        /\ Charged(r, [req[r].copy EXCEPT !.txn = TRUE])
     \/ /\ session' = "failed"
        /\ Charged(r, [req[r].copy EXCEPT !.status = "Failed"])
  /\ UNCHANGED <<gateway, moved, row, refund, announced, calm>>

SaveCharge(r) ==
  /\ At(r, "saveCharge")
  /\ WriteAll(r)
  /\ Go(r, IF req[r].copy.status = "Processing" THEN "done" ELSE "announce")
  /\ UNCHANGED <<gatewayVars, refund, announced, calm>>

Announce(r) ==
  /\ At(r, "announce")
  /\ announced' = announced \cup
       {IF req[r].copy.status = "Completed" THEN "PaymentCompleted"
        ELSE "PaymentFailed"}
  /\ Go(r, "done")
  /\ UNCHANGED <<gatewayVars, row, refund, calm>>

(***************************************************************************)
(* CancelPaymentAsync.  The simulated gateway has no transaction id that   *)
(* could be voided while the payment is Processing, and the redirect       *)
(* gateway does not support voiding: the call changes nothing.             *)
(***************************************************************************)
Cancel(r) ==
  /\ Arrives(r)
  /\ IF row.status = "Processing"
     THEN Load(r, [row EXCEPT !.status = "Cancelled"], "saveCancel")
     ELSE row # NoRow /\ Go(r, "done")
  /\ UNCHANGED <<gatewayVars, row, refund, announced>>

SaveCancel(r) ==
  /\ At(r, "saveCancel")
  /\ WriteAll(r)
  /\ Go(r, "done")
  /\ UNCHANGED <<gatewayVars, refund, announced, calm>>

(***************************************************************************)
(* The redirect gateway: the customer pays or not, and notifications of it *)
(* arrive, perhaps several times, perhaps before the id was stored.        *)
(***************************************************************************)
CustomerActs ==
  /\ session = "open"
  /\ session' \in {"captured", "failed"}
  /\ UNCHANGED <<gateway, charges, moved, row, refund, announced, req, calm>>

\* HandleIpn with CompleteGatewayPaymentAsync: the notification is valid.
Completed(r) ==
  /\ gateway = "redirect" /\ session = "captured"
  /\ Arrives(r)
  /\ IF row.txn /\ row.status = "Processing"
     THEN Load(r, [row EXCEPT !.status = "Completed"], "saveCallback")
     ELSE Go(r, "done")
  /\ UNCHANGED <<gatewayVars, row, refund, announced>>

\* ... with FailGatewayPaymentAsync: the customer failed or gave up.
NotCompleted(r) ==
  /\ gateway = "redirect" /\ session = "failed"
  /\ Arrives(r)
  /\ IF row.txn /\ row.status = "Processing"
     THEN Load(r, [row EXCEPT !.status = "Failed"], "saveCallback")
     ELSE Go(r, "done")
  /\ UNCHANGED <<gatewayVars, row, refund, announced>>

\* ... the same, because a valid notification could not be validated.
NotValidated(r) ==
  /\ "validation" \in Fault
  /\ gateway = "redirect" /\ session = "captured"
  /\ At(r, "new")
  /\ IF row.txn /\ row.status = "Processing"
     THEN Load(r, [row EXCEPT !.status = "Failed"], "saveCallback")
     ELSE Go(r, "done")
  /\ calm' = FALSE
  /\ UNCHANGED <<gatewayVars, row, refund, announced>>

SaveCallback(r) ==
  /\ At(r, "saveCallback")
  /\ WriteAll(r)
  /\ Go(r, "announce")
  /\ UNCHANGED <<gatewayVars, refund, announced, calm>>

(***************************************************************************)
(* RefundPaymentAsync.                                                     *)
(***************************************************************************)

\* Mutant: the refund row is only written with its outcome.
RefundUnrecorded(r, amount) ==
  /\ Arrives(r)
  /\ row.status \in {"Completed", "PartiallyRefunded"}
  /\ amount <= Amount - row.refunded
  /\ req' = [req EXCEPT ![r].pc = "refund", ![r].amount = amount,
                        ![r].seen = row, ![r].copy = row]
  /\ UNCHANGED <<gatewayVars, row, refund, announced>>

\* The checks pass and the refund row is created.
StartRefund(r, amount) ==
  /\ Arrives(r)
  /\ row.status \in {"Completed", "PartiallyRefunded"}
  /\ amount <= Amount - row.refunded
  /\ refund' = [refund EXCEPT ![r] = "Processing"]
  /\ req' = [req EXCEPT ![r].pc = "refund", ![r].amount = amount,
                        ![r].seen = row, ![r].copy = row]
  /\ UNCHANGED <<gatewayVars, row, announced>>

RefundRefused(r, amount) ==
  /\ Arrives(r)
  /\ \/ row.status \notin {"Completed", "PartiallyRefunded"}
     \/ amount > Amount - row.refunded
  /\ Go(r, "done")
  /\ UNCHANGED <<gatewayVars, row, refund, announced>>

\* Mutant: > for >=.
RefundedStrict(c, amount) ==
  [c EXCEPT !.refunded = @ + amount,
            !.status = IF c.refunded + amount > Amount THEN "Refunded"
                       ELSE "PartiallyRefunded"]

\* What the entity becomes when the gateway has refunded.
Refunded(c, amount) ==
  [c EXCEPT !.refunded = @ + amount,
            !.status = IF c.refunded + amount >= Amount THEN "Refunded"
                       ELSE "PartiallyRefunded"]

GatewayRefunds(r) ==
  /\ At(r, "refund")
  /\ moved' = [moved EXCEPT ![r] = req[r].amount]
  /\ req' = [req EXCEPT ![r].pc = "saveRefund",
                        ![r].copy = Refunded(@, req[r].amount)]
  /\ UNCHANGED <<gateway, session, charges, row, refund, announced, calm>>

\* Mutant: the payment is updated whatever the gateway answered.
CountedAnyway(r) ==
  /\ At(r, "refund")
  /\ moved' = moved
  /\ req' = [req EXCEPT ![r].pc = "saveRefund",
                        ![r].copy = Refunded(@, req[r].amount)]
  /\ calm' = calm
  /\ UNCHANGED <<gateway, session, charges, row, refund, announced>>

\* The gateway refuses, or refunds and its answer never arrives.
GatewayRefuses(r) ==
  /\ At(r, "refund")
  /\ \/ UNCHANGED <<moved, calm>>
     \/ /\ "lost" \in Fault
        /\ moved' = [moved EXCEPT ![r] = req[r].amount]
        /\ calm' = FALSE
  /\ Go(r, "saveRefund")
  /\ UNCHANGED <<gateway, session, charges, row, refund, announced>>

\* Updating the refund also saves what changed on the payment, which the same
\* context tracks.  The entity changed exactly when the gateway succeeded.
SaveRefund(r) ==
  /\ At(r, "saveRefund")
  /\ refund' = [refund EXCEPT ![r] =
                  IF req[r].copy # req[r].seen THEN "Completed" ELSE "Failed"]
  /\ WriteChanged(r)
  /\ Go(r, "savePayment")
  /\ UNCHANGED <<gatewayVars, announced, calm>>

\* Then the payment is written once more, all of it, even after a failure.
SavePayment(r) ==
  /\ At(r, "savePayment")
  /\ WriteAll(r)
  /\ Go(r, "done")
  /\ UNCHANGED <<gatewayVars, refund, announced, calm>>

\* A cancelled token or a stopped replica ends the request between two awaits.
Abort(r) ==
  /\ "abort" \in Fault
  /\ ~At(r, "new") /\ ~At(r, "done")
  /\ Go(r, "done")
  /\ calm' = FALSE
  /\ UNCHANGED <<gatewayVars, row, refund, announced>>

PaymentNext ==
  \/ \E r \in Request :
       \/ LookUpKey(r) \/ CreatePayment(r) \/ KeyTaken(r)
       \/ Charge(r) \/ SaveCharge(r) \/ Announce(r)
       \/ Cancel(r) \/ SaveCancel(r)
       \/ Completed(r) \/ NotCompleted(r) \/ NotValidated(r) \/ SaveCallback(r)
       \/ \E amount \in 1..Amount : StartRefund(r, amount) \/ RefundRefused(r, amount)
       \/ GatewayRefunds(r) \/ GatewayRefuses(r)
       \/ SaveRefund(r) \/ SavePayment(r)
       \/ Abort(r)
  \/ CustomerActs

PaymentSpec == PaymentInit /\ [][PaymentNext]_paymentVars

(***************************************************************************)
(* Properties.                                                             *)
(***************************************************************************)

\* Every variable has its type.
PaymentTypeOK ==
  /\ gateway \in {"direct", "redirect"}
  /\ session \in {"none", "open", "captured", "failed"}
  /\ charges \in Nat
  /\ moved \in [Request -> 0..Amount]
  /\ row \in Row
  /\ refund \in [Request -> {"none", "Processing", "Completed", "Failed"}]
  /\ announced \subseteq {"PaymentCompleted", "PaymentFailed"}
  /\ req \in [Request -> Progress]
  /\ calm \in BOOLEAN

\* The money the gateway gave back, unit by unit, and how much that is.
GivenUnits == {u \in Request \X (1..Amount) : u[2] <= moved[u[1]]}

GivenBack == Cardinality(GivenUnits)

\* However many requests with one idempotency key race, are repeated or are
\* cut off, the gateway is asked to charge once.
OneChargePerKey == charges <= 1

\* Whatever is aborted or lost, money the gateway gave back has a refund row,
\* and a refund row that says Completed has the money behind it.
RefundsOnRecord ==
  \A r \in Request :
    /\ moved[r] > 0 => refund[r] # "none"
    /\ refund[r] = "Completed" => moved[r] = req[r].amount

\* How far a charge has got: while there is no row nobody got past creating
\* it, only the request that did may charge, and no copy is of a missing row.
ChargeProgress ==
  /\ row.status = "absent" =>
       charges = 0 /\ \A r \in Request : req[r].pc \in {"new", "create", "done"}
  /\ \A r \in Request : At(r, "charge") => charges = 0
  /\ \A r, q \in Request : At(r, "charge") /\ At(q, "charge") => r = q
  /\ \A r \in Request :
       req[r].pc \notin {"new", "create", "done"} => req[r].copy.status # "absent"

\* How far a refund has got: its row is Processing until the gateway's answer
\* is saved, and the entity differs from the loaded row exactly if that was yes.
RefundProgress ==
  \A r \in Request :
    /\ At(r, "new") => refund[r] = "none" /\ moved[r] = 0
    /\ At(r, "refund") =>
         refund[r] = "Processing" /\ moved[r] = 0 /\ req[r].copy = req[r].seen
    /\ At(r, "saveRefund") =>
         /\ refund[r] = "Processing"
         /\ req[r].copy # req[r].seen => moved[r] = req[r].amount

\* The inductive invariant of a payment.
PaymentInv ==
  /\ PaymentTypeOK
  /\ ChargeProgress /\ OneChargePerKey
  /\ RefundProgress /\ RefundsOnRecord

\* The row never claims that more was given back than was, although requests
\* overwrite each other's columns with stale ones, and it is never paid, and
\* nothing is given back, unless the gateway captured the charge.
NeverOverstated ==
  /\ row.refunded <= GivenBack
  /\ row.status \in Paid \/ GivenBack > 0 => session = "captured"

\* Why: every copy claims no more than that either, and is of a captured
\* charge if it is paid; a copy that is written back is no worse than the row.
MoneyProgress ==
  /\ IsFiniteSet(GivenUnits)
  /\ charges = 0 => session = "none"
  /\ NeverOverstated
  /\ \A r \in Request :
       /\ req[r].copy.refunded <= GivenBack
       /\ req[r].copy.status \in Paid => session = "captured"
       /\ At(r, "refund") => req[r].copy.status \in Paid

\* As long as requests come one at a time and nothing fails, the row accounts
\* for the money: what was given back, at most what was paid, and the status
\* and the announcements that go with it.
CalmIsBalanced ==
  calm /\ (\A r \in Request : At(r, "new") \/ At(r, "done")) =>
    /\ row.refunded = GivenBack /\ GivenBack <= Amount
    /\ row.status = "Completed" => GivenBack = 0
    /\ row.status = "Refunded" <=> GivenBack = Amount
    /\ row.status = "PartiallyRefunded" <=> GivenBack \in 1..(Amount - 1)
    /\ row.status = "Failed" => session = "failed"
    /\ "PaymentCompleted" \in announced <=> row.status \in Paid
    /\ "PaymentFailed" \in announced => session = "failed"

\* The part of it that is about what the row w says of the money.
AccountsFor(w) ==
  /\ w.refunded = GivenBack /\ GivenBack <= Amount
  /\ w.status = "Completed" => GivenBack = 0
  /\ w.status = "Refunded" <=> GivenBack = Amount
  /\ w.status = "PartiallyRefunded" <=> GivenBack \in 1..(Amount - 1)
  /\ w.status = "Failed" => session = "failed"

Active(r) == ~At(r, "new") /\ ~At(r, "done")

\* Why: the one request in progress holds the row as it is, until it saves a
\* copy that accounts for what the gateway did meanwhile.
HoldsTheRow(p) ==
  /\ p.pc = "charge" => row.status = "Processing" /\ p.copy = row
  /\ p.pc \in {"saveCharge", "saveCancel", "saveCallback"} =>
       row.status = "Processing" /\ AccountsFor(p.copy)
  /\ p.pc = "saveCharge" => p.copy.status \in {"Processing", "Completed", "Failed"}
  /\ p.pc = "saveCancel" => p.copy.status = "Cancelled"
  /\ p.pc = "saveCallback" => p.copy.status \in {"Completed", "Failed"}
  /\ p.pc = "announce" =>
       /\ "PaymentCompleted" \notin announced
       /\ p.copy = row /\ row.status \in {"Completed", "Failed"}
  /\ p.pc = "refund" =>
       /\ p.copy = row /\ row.status \in {"Completed", "PartiallyRefunded"}
       /\ p.amount \in 1..(Amount - row.refunded)
  /\ p.pc = "saveRefund" =>
       /\ p.seen = row /\ row.status \in Paid
       /\ AccountsFor(p.copy) /\ p.copy.status \in Paid
  /\ p.pc = "savePayment" => p.copy = row

\* A payment that is settled is announced next.
CalmProgress ==
  calm =>
    /\ \A r, q \in Request : Active(r) /\ Active(q) => r = q
    /\ \A r \in Request : HoldsTheRow(req[r])
    /\ (\A r \in Request : ~At(r, "saveRefund")) => AccountsFor(row)
    /\ (\A r \in Request : ~At(r, "announce")) =>
         ("PaymentCompleted" \in announced <=> row.status \in Paid)
    /\ "PaymentFailed" \in announced => session = "failed"

\* A refund that "exceeds remaining" is refused, so that no more is given
\* back than was paid.
NeverOverRefunded == GivenBack <= Amount

=============================================================================
