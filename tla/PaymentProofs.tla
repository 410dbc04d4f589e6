--------------------------- MODULE PaymentProofs ---------------------------
(***************************************************************************)
(* Theorems about Payment, for any number of requests, any amount and any  *)
(* set of faults.  Each action keeps PaymentInv; its parts about one       *)
(* request are disturbed only by that request, and the request that moves  *)
(* on from creating the row is alone in doing so.                          *)
(***************************************************************************)
EXTENDS Payment, FiniteSetTheorems, TLAPS

\* A request of a step: what the step makes of it, the others untouched.
Becomes(r, p) == req' = [req EXCEPT ![r] = p]

\* In its initial state a payment satisfies the invariant.
LEMMA PaymentInitInv == PaymentInit => PaymentInv
<1> SUFFICES ASSUME PaymentInit PROVE PaymentInv
  OBVIOUS
<1>1. PaymentTypeOK
  BY PaymentAssumption DEF PaymentInit, PaymentTypeOK, Progress, Row, NoRow, Steps
<1>2. ChargeProgress /\ OneChargePerKey
  BY DEF PaymentInit, ChargeProgress, OneChargePerKey, NoRow, At
<1>3. RefundProgress /\ RefundsOnRecord
  BY DEF PaymentInit, RefundProgress, RefundsOnRecord, At
<1> QED
  BY <1>1, <1>2, <1>3 DEF PaymentInv

\* The invariant survives a step that only moves a request p on, if p is
\* well-typed, is not made to charge and owes nothing to the refund's row.
LEMMA MovesOn ==
  ASSUME PaymentInv, NEW r \in Request, NEW p \in Progress, Becomes(r, p),
         UNCHANGED <<gatewayVars, refund>>,
         announced' \subseteq {"PaymentCompleted", "PaymentFailed"},
         calm' \in BOOLEAN,
         row' \in Row, row'.status = "absent" => row.status = "absent",
         p.pc \notin {"new", "charge", "refund", "saveRefund"},
         p.pc \notin {"new", "create", "done"} =>
           p.copy.status # "absent" /\ row'.status # "absent",
         p.amount = req[r].amount
  PROVE  PaymentInv'
<1>1. /\ req' \in [Request -> Progress]
      /\ req'[r] = p
      /\ \A q \in Request : q # r => req'[q] = req[q]
  BY DEF PaymentInv, PaymentTypeOK, Becomes
<1>2. PaymentTypeOK'
  BY <1>1 DEF PaymentInv, PaymentTypeOK, gatewayVars
<1>3. ChargeProgress' /\ OneChargePerKey'
  BY <1>1 DEF PaymentInv, ChargeProgress, OneChargePerKey, At, gatewayVars
<1>4. RefundProgress' /\ RefundsOnRecord'
  BY <1>1 DEF PaymentInv, RefundProgress, RefundsOnRecord, At, gatewayVars
<1> QED
  BY <1>2, <1>3, <1>4 DEF PaymentInv

\* The requests of a payment are well-typed in every state of the invariant.
LEMMA Typed ==
  ASSUME PaymentInv, NEW r \in Request
  PROVE  /\ req \in [Request -> Progress]
         /\ req[r] \in Progress /\ req[r].copy \in Row /\ req[r].seen \in Row
         /\ req[r].pc \in Steps /\ req[r].amount \in 0..Amount /\ row \in Row
         /\ announced \subseteq {"PaymentCompleted", "PaymentFailed"}
         /\ calm \in BOOLEAN
BY DEF PaymentInv, PaymentTypeOK, Progress

\* A step after which request r is at another place, with the same data.
LEMMA Going ==
  ASSUME PaymentInv, NEW r \in Request, NEW step \in Steps, Go(r, step)
  PROVE  \E p \in Progress :
           /\ Becomes(r, p)
           /\ p.pc = step /\ p.copy = req[r].copy /\ p.amount = req[r].amount
<1> DEFINE p == [req[r] EXCEPT !.pc = step]
<1>1. /\ p \in Progress
      /\ p.pc = step /\ p.copy = req[r].copy /\ p.amount = req[r].amount
  BY Typed DEF Progress
<1>2. Becomes(r, p)
  BY DEF Go, Becomes
<1> QED
  BY <1>1, <1>2

\* A step in which request r loads the row, and changes the entity to c.
LEMMA Loading ==
  ASSUME PaymentInv, NEW r \in Request, NEW step \in Steps, NEW c \in Row,
         Load(r, c, step)
  PROVE  \E p \in Progress :
           /\ Becomes(r, p)
           /\ p.pc = step /\ p.copy = c /\ p.amount = req[r].amount
<1> DEFINE p == [req[r] EXCEPT !.pc = step, !.seen = row, !.copy = c]
<1>1. /\ p \in Progress
      /\ p.pc = step /\ p.copy = c /\ p.amount = req[r].amount
  BY Typed DEF Progress
<1>2. Becomes(r, p)
  BY Typed DEF Load, Becomes
<1> QED
  BY <1>1, <1>2

\* A request that ends, creates, announces or saves and leaves the row.
LEMMA StepsThatLeaveTheRow ==
  ASSUME PaymentInv, NEW r \in Request,
         LookUpKey(r) \/ KeyTaken(r) \/ Announce(r) \/ Abort(r)
         \/ \E amount \in 1..Amount : RefundRefused(r, amount)
  PROVE  PaymentInv'
<1>1. /\ UNCHANGED <<gatewayVars, refund, row>>
      /\ announced' \subseteq {"PaymentCompleted", "PaymentFailed"}
      /\ calm' \in BOOLEAN
  BY Typed DEF LookUpKey, KeyTaken, Announce, Abort, RefundRefused, Arrives
<1>2. Go(r, "create") \/ Go(r, "done")
  BY DEF LookUpKey, KeyTaken, Announce, Abort, RefundRefused
<1>3. PICK p \in Progress : /\ Becomes(r, p) /\ p.pc \in {"create", "done"}
                            /\ p.amount = req[r].amount
  BY <1>2, Going DEF Steps
<1> QED
  BY <1>1, <1>3, MovesOn, Typed

\* A request that loads the row to cancel or to settle the payment.
LEMMA StepsThatLoad ==
  ASSUME PaymentInv, NEW r \in Request,
         Cancel(r) \/ Completed(r) \/ NotCompleted(r) \/ NotValidated(r)
  PROVE  PaymentInv'
<1>1. /\ UNCHANGED <<gatewayVars, refund, row, announced>>
      /\ calm' \in BOOLEAN
  BY DEF Cancel, Completed, NotCompleted, NotValidated, Arrives
<1>2. CASE Go(r, "done")
  <2>1. PICK p \in Progress : /\ Becomes(r, p) /\ p.pc = "done"
                              /\ p.amount = req[r].amount
    BY <1>2, Going DEF Steps
  <2> QED
    BY <1>1, <2>1, MovesOn, Typed
<1>3. CASE /\ row.status = "Processing"
           /\ \E s \in {"Cancelled", "Completed", "Failed"},
                 step \in {"saveCancel", "saveCallback"} :
                Load(r, [row EXCEPT !.status = s], step)
  <2>1. PICK s \in {"Cancelled", "Completed", "Failed"},
             step \in {"saveCancel", "saveCallback"} :
               Load(r, [row EXCEPT !.status = s], step)
    BY <1>3
  <2> DEFINE c == [row EXCEPT !.status = s]
  <2>2. c \in Row /\ c.status = s
    BY Typed DEF Row
  <2> HIDE DEF c
  <2>3. PICK p \in Progress : /\ Becomes(r, p) /\ p.pc = step /\ p.copy = c
                              /\ p.amount = req[r].amount
    BY <2>1, <2>2, Loading DEF Steps, c
  <2> QED
    BY <1>1, <1>3, <2>2, <2>3, MovesOn, Typed
<1> QED
  BY <1>2, <1>3 DEF Cancel, Completed, NotCompleted, NotValidated

\* A request that writes the whole copy back.
LEMMA StepsThatSave ==
  ASSUME PaymentInv, NEW r \in Request,
         SaveCharge(r) \/ SaveCancel(r) \/ SaveCallback(r) \/ SavePayment(r)
  PROVE  PaymentInv'
<1>1. /\ UNCHANGED <<gatewayVars, refund, announced, calm>>
      /\ row' = req[r].copy
      /\ req[r].pc \in {"saveCharge", "saveCancel", "saveCallback", "savePayment"}
      /\ Go(r, "announce") \/ Go(r, "done")
  BY DEF SaveCharge, SaveCancel, SaveCallback, SavePayment, WriteAll, At
<1>2. req[r].copy \in Row /\ req[r].copy.status # "absent"
  BY <1>1, Typed DEF PaymentInv, ChargeProgress
<1>3. PICK p \in Progress : /\ Becomes(r, p) /\ p.pc \in {"announce", "done"}
                            /\ p.copy = req[r].copy /\ p.amount = req[r].amount
  BY <1>1, Going DEF Steps
<1> QED
  BY <1>1, <1>2, <1>3, MovesOn, Typed

\* The request whose insert creates the row is the only one that may charge.
LEMMA CreatingKeepsInv ==
  ASSUME PaymentInv, NEW r \in Request, CreatePayment(r)
  PROVE  PaymentInv'
<1> DEFINE c == [NoRow EXCEPT !.status = "Processing"]
           p == [req[r] EXCEPT !.pc = "charge", !.seen = c, !.copy = c]
<1>1. /\ c \in Row /\ c.status = "Processing"
      /\ p \in Progress /\ p.pc = "charge" /\ p.copy = c
      /\ p.amount = req[r].amount
  <2>1. c \in Row /\ c.status = "Processing"
    BY DEF Row, NoRow
  <2> HIDE DEF c
  <2> QED
    BY <2>1, Typed DEF Progress, Steps
<1>2. /\ row' = c /\ Becomes(r, p) /\ At(r, "create")
      /\ row.status = "absent"
      /\ UNCHANGED <<gatewayVars, refund, announced, calm>>
  BY DEF CreatePayment, Becomes, NoRow
<1> HIDE DEF c, p
<1>3. /\ req' \in [Request -> Progress] /\ req'[r] = p
      /\ \A q \in Request \ {r} : req'[q] = req[q]
  BY <1>1, <1>2, Typed DEF Becomes
<1>4. PaymentTypeOK'
  BY <1>1, <1>2, <1>3 DEF PaymentInv, PaymentTypeOK, gatewayVars
<1>5. ChargeProgress' /\ OneChargePerKey'
  BY <1>1, <1>2, <1>3
     DEF PaymentInv, ChargeProgress, OneChargePerKey, At, gatewayVars
<1>6. RefundProgress' /\ RefundsOnRecord'
  BY <1>1, <1>2, <1>3
     DEF PaymentInv, RefundProgress, RefundsOnRecord, At, gatewayVars
<1> QED
  BY <1>4, <1>5, <1>6 DEF PaymentInv

\* The one request that may charge does so, and no request may any more.
LEMMA ChargingKeepsInv ==
  ASSUME PaymentInv, NEW r \in Request, Charge(r)
  PROVE  PaymentInv'
<1>1. /\ At(r, "charge") /\ charges = 0 /\ charges' = charges + 1
      /\ session' \in {"captured", "open", "failed"}
      /\ UNCHANGED <<gateway, moved, row, refund, announced, calm>>
  BY DEF Charge, PaymentInv, ChargeProgress
<1>2. PICK p \in Progress : /\ Becomes(r, p) /\ p.pc = "saveCharge"
                            /\ p.copy.status # "absent"
                            /\ p.amount = req[r].amount
  <2>1. \E c \in Row :
          /\ c.status # "absent"
          /\ req' = [req EXCEPT ![r] = [req[r] EXCEPT !.pc = "saveCharge",
                                                      !.copy = c]]
    <3> DEFINE done     == [req[r].copy EXCEPT !.txn = TRUE, !.status = "Completed"]
               open     == [req[r].copy EXCEPT !.txn = TRUE]
               declined == [req[r].copy EXCEPT !.status = "Failed"]
    <3>1. /\ done \in Row /\ done.status = "Completed"
          /\ open \in Row /\ open.status = req[r].copy.status
          /\ declined \in Row /\ declined.status = "Failed"
      BY Typed DEF Row
    <3>2. req[r].copy.status # "absent"
      BY <1>1, Typed DEF PaymentInv, ChargeProgress, At
    <3>3. Charged(r, done) \/ Charged(r, open) \/ Charged(r, declined)
      BY DEF Charge
    <3> HIDE DEF done, open, declined
    <3>4. \A c \in Row : Charged(r, c) =>
            req' = [req EXCEPT ![r] = [req[r] EXCEPT !.pc = "saveCharge",
                                                     !.copy = c]]
      BY DEF Charged
    <3> QED
      BY <3>1, <3>2, <3>3, <3>4
  <2>2. PICK c \in Row :
          /\ c.status # "absent"
          /\ req' = [req EXCEPT ![r] = [req[r] EXCEPT !.pc = "saveCharge",
                                                      !.copy = c]]
    BY <2>1
  <2> DEFINE p == [req[r] EXCEPT !.pc = "saveCharge", !.copy = c]
  <2>3. /\ p \in Progress /\ p.pc = "saveCharge" /\ p.copy = c
        /\ p.amount = req[r].amount
    BY Typed DEF Progress, Steps
  <2> QED
    BY <2>2, <2>3 DEF Becomes
<1>3. /\ req' \in [Request -> Progress] /\ req'[r] = p
      /\ \A q \in Request \ {r} : req'[q] = req[q]
  BY <1>2, Typed DEF Becomes
<1>4. PaymentTypeOK'
  BY <1>1, <1>3 DEF PaymentInv, PaymentTypeOK
<1>5. ChargeProgress' /\ OneChargePerKey'
  BY <1>1, <1>2, <1>3 DEF PaymentInv, ChargeProgress, OneChargePerKey, At
<1>6. RefundProgress' /\ RefundsOnRecord'
  BY <1>1, <1>2, <1>3 DEF PaymentInv, RefundProgress, RefundsOnRecord, At
<1> QED
  BY <1>4, <1>5, <1>6 DEF PaymentInv

\* A refund starts with its row on record and nothing given back yet.
LEMMA StartingRefundKeepsInv ==
  ASSUME PaymentInv, NEW r \in Request, NEW amount \in 1..Amount,
         StartRefund(r, amount)
  PROVE  PaymentInv'
<1> DEFINE p == [req[r] EXCEPT !.pc = "refund", !.amount = amount,
                               !.seen = row, !.copy = row]
<1>1. /\ p \in Progress /\ p.pc = "refund" /\ p.copy = row /\ p.seen = row
      /\ p.amount = amount
  <2>1. amount \in 0..Amount
    BY PaymentAssumption
  <2> QED
    BY <2>1, Typed DEF Progress, Steps
<1>2. /\ Becomes(r, p) /\ At(r, "new") /\ calm' \in BOOLEAN
      /\ refund' = [refund EXCEPT ![r] = "Processing"]
      /\ row.status # "absent"
      /\ UNCHANGED <<gatewayVars, row, announced>>
  BY DEF StartRefund, Arrives, Becomes
<1> HIDE DEF p
<1>3. /\ req' \in [Request -> Progress] /\ req'[r] = p
      /\ \A q \in Request \ {r} : req'[q] = req[q]
  BY <1>1, <1>2, Typed DEF Becomes
<1>4. PaymentTypeOK'
  BY <1>1, <1>2, <1>3 DEF PaymentInv, PaymentTypeOK, gatewayVars
<1>5. ChargeProgress' /\ OneChargePerKey'
  BY <1>1, <1>2, <1>3
     DEF PaymentInv, ChargeProgress, OneChargePerKey, At, gatewayVars
<1>6. RefundProgress' /\ RefundsOnRecord'
  BY <1>1, <1>2, <1>3
     DEF PaymentInv, PaymentTypeOK, RefundProgress, RefundsOnRecord, At, gatewayVars
<1> QED
  BY <1>4, <1>5, <1>6 DEF PaymentInv

\* What the gateway does with a refund it is asked for is on record already.
LEMMA AnswerKeepsInv ==
  ASSUME PaymentInv, NEW r \in Request, GatewayRefunds(r) \/ GatewayRefuses(r)
  PROVE  PaymentInv'
<1> DEFINE done == Refunded(req[r].copy, req[r].amount)
<1>1. /\ At(r, "refund") /\ calm' \in BOOLEAN
      /\ moved' \in {moved, [moved EXCEPT ![r] = req[r].amount]}
      /\ UNCHANGED <<gateway, session, charges, row, refund, announced>>
  BY Typed DEF GatewayRefunds, GatewayRefuses
<1>2. done \in Row /\ done.status \in {"Refunded", "PartiallyRefunded"}
  <2> DEFINE sum == req[r].copy.refunded + req[r].amount
             s == IF sum >= Amount THEN "Refunded" ELSE "PartiallyRefunded"
  <2>1. sum \in Nat
    BY Typed, PaymentAssumption DEF Row
  <2>2. done = [req[r].copy EXCEPT !.refunded = sum, !.status = s]
    BY DEF Refunded
  <2>3. s \in {"Refunded", "PartiallyRefunded"}
    OBVIOUS
  <2> HIDE DEF sum, s, done
  <2> QED
    BY <2>1, <2>2, <2>3, Typed DEF Row
<1>3. PICK p \in Progress :
        /\ Becomes(r, p) /\ p.pc = "saveRefund" /\ p.amount = req[r].amount
        /\ p.copy.status # "absent"
        /\ p.copy # p.seen => moved' = [moved EXCEPT ![r] = req[r].amount]
  <2>1. CASE GatewayRefunds(r)
    <3> DEFINE p == [req[r] EXCEPT !.pc = "saveRefund", !.copy = done]
    <3>1. Becomes(r, p)
      BY <2>1 DEF GatewayRefunds, Becomes
    <3> HIDE DEF done
    <3>2. /\ p \in Progress /\ p.pc = "saveRefund" /\ p.copy = done
          /\ p.amount = req[r].amount
      BY <1>2, Typed DEF Progress, Steps
    <3> QED
      BY <1>2, <2>1, <3>1, <3>2 DEF GatewayRefunds
  <2>2. CASE GatewayRefuses(r)
    <3> DEFINE p == [req[r] EXCEPT !.pc = "saveRefund"]
    <3>1. Becomes(r, p)
      BY <2>2 DEF GatewayRefuses, Go, Becomes
    <3>2. /\ p \in Progress /\ p.pc = "saveRefund" /\ p.copy = req[r].copy
          /\ p.seen = req[r].seen /\ p.amount = req[r].amount
      BY Typed DEF Progress, Steps
    <3>3. req[r].copy = req[r].seen /\ req[r].copy.status # "absent"
      BY <1>1 DEF PaymentInv, RefundProgress, ChargeProgress, At
    <3> QED
      BY <3>1, <3>2, <3>3
  <2> QED
    BY <2>1, <2>2
<1>4. /\ req' \in [Request -> Progress] /\ req'[r] = p
      /\ \A q \in Request \ {r} : req'[q] = req[q]
  BY <1>3, Typed DEF Becomes
<1>5. /\ moved' \in [Request -> 0..Amount]
      /\ \A q \in Request \ {r} : moved'[q] = moved[q]
      /\ p.copy # p.seen => moved'[r] = req[r].amount
  BY <1>1, <1>3, Typed DEF PaymentInv, PaymentTypeOK
<1>6. PaymentTypeOK'
  BY <1>1, <1>4, <1>5 DEF PaymentInv, PaymentTypeOK
<1>7. ChargeProgress' /\ OneChargePerKey'
  BY <1>1, <1>3, <1>4 DEF PaymentInv, ChargeProgress, OneChargePerKey, At
<1>8. RefundProgress' /\ RefundsOnRecord'
  BY <1>1, <1>3, <1>4, <1>5 DEF PaymentInv, RefundProgress, RefundsOnRecord, At
<1> QED
  BY <1>6, <1>7, <1>8 DEF PaymentInv

\* The columns that changed since the load, on a row that exists.
LEMMA ChangedColumns ==
  ASSUME PaymentInv, NEW r \in Request, WriteChanged(r),
         row.status # "absent", req[r].copy.status # "absent"
  PROVE  row' \in Row /\ row'.status # "absent"
<1>1. DOMAIN row = {"status", "refunded", "txn"}
  BY Typed DEF Row
<1>2. row' = [f \in {"status", "refunded", "txn"} |->
                IF req[r].copy[f] # req[r].seen[f] THEN req[r].copy[f] ELSE row[f]]
  BY <1>1 DEF WriteChanged
<1>3. /\ row'.status \in {req[r].copy.status, row.status}
      /\ row'.refunded \in {req[r].copy.refunded, row.refunded}
      /\ row'.txn \in {req[r].copy.txn, row.txn}
  BY <1>2
<1>4. row' = [status |-> row'.status, refunded |-> row'.refunded, txn |-> row'.txn]
  BY <1>2
<1>5. /\ row'.status \in {"absent", "Processing", "Completed", "Failed",
                          "Cancelled", "PartiallyRefunded", "Refunded"}
      /\ row'.refunded \in Nat
      /\ row'.txn \in BOOLEAN
  BY <1>3, Typed DEF Row
<1> QED
  BY <1>3, <1>4, <1>5 DEF Row

\* Completed is written on a refund's row only if the gateway said so.
LEMMA SavingRefundKeepsInv ==
  ASSUME PaymentInv, NEW r \in Request, SaveRefund(r)
  PROVE  PaymentInv'
<1>1. /\ At(r, "saveRefund") /\ Go(r, "savePayment") /\ WriteChanged(r)
      /\ refund' = [refund EXCEPT ![r] =
                      IF req[r].copy # req[r].seen THEN "Completed" ELSE "Failed"]
      /\ UNCHANGED <<gatewayVars, announced, calm>>
  BY DEF SaveRefund
<1>2. row.status # "absent" /\ req[r].copy.status # "absent"
  BY <1>1 DEF PaymentInv, ChargeProgress, At
<1>3. row' \in Row /\ row'.status # "absent"
  BY <1>1, <1>2, ChangedColumns
<1>4. PICK p \in Progress : /\ Becomes(r, p) /\ p.pc = "savePayment"
                            /\ p.copy = req[r].copy /\ p.amount = req[r].amount
  BY <1>1, Going DEF Steps
<1>5. /\ req' \in [Request -> Progress] /\ req'[r] = p
      /\ \A q \in Request \ {r} : req'[q] = req[q]
  BY <1>4, Typed DEF Becomes
<1>6. /\ refund' \in [Request -> {"none", "Processing", "Completed", "Failed"}]
      /\ \A q \in Request \ {r} : refund'[q] = refund[q]
      /\ refund'[r] \in {"Completed", "Failed"}
      /\ refund'[r] = "Completed" => moved[r] = req[r].amount
  BY <1>1 DEF PaymentInv, PaymentTypeOK, RefundProgress
<1>7. PaymentTypeOK'
  BY <1>1, <1>3, <1>5, <1>6 DEF PaymentInv, PaymentTypeOK, gatewayVars
<1>8. ChargeProgress' /\ OneChargePerKey'
  BY <1>1, <1>2, <1>3, <1>4, <1>5
     DEF PaymentInv, ChargeProgress, OneChargePerKey, At, gatewayVars
<1>9. RefundProgress' /\ RefundsOnRecord'
  BY <1>1, <1>4, <1>5, <1>6
     DEF PaymentInv, RefundProgress, RefundsOnRecord, At, gatewayVars
<1> QED
  BY <1>7, <1>8, <1>9 DEF PaymentInv

\* What the customer does on the gateway's page touches nothing of ours.
LEMMA CustomerKeepsInv ==
  ASSUME PaymentInv, CustomerActs
  PROVE  PaymentInv'
<1>1. /\ session' \in {"captured", "failed"}
      /\ UNCHANGED <<gateway, charges, moved, row, refund, announced, req, calm>>
  BY DEF CustomerActs
<1> QED
  BY <1>1 DEF PaymentInv, PaymentTypeOK, ChargeProgress, OneChargePerKey,
     RefundProgress, RefundsOnRecord, At

\* Every step of a payment keeps the invariant.
LEMMA PaymentStep ==
  ASSUME PaymentInv, [PaymentNext]_paymentVars
  PROVE  PaymentInv'
<1>1. CASE CustomerActs
  BY <1>1, CustomerKeepsInv
<1>2. CASE UNCHANGED paymentVars
  BY <1>2 DEF paymentVars, gatewayVars, PaymentInv, PaymentTypeOK, ChargeProgress,
     OneChargePerKey, RefundProgress, RefundsOnRecord, At
<1>3. ASSUME NEW r \in Request,
             \/ LookUpKey(r) \/ KeyTaken(r) \/ Announce(r) \/ Abort(r)
             \/ \E amount \in 1..Amount : RefundRefused(r, amount)
      PROVE  PaymentInv'
  BY <1>3, StepsThatLeaveTheRow
<1>4. ASSUME NEW r \in Request,
             Cancel(r) \/ Completed(r) \/ NotCompleted(r) \/ NotValidated(r)
      PROVE  PaymentInv'
  BY <1>4, StepsThatLoad
<1>5. ASSUME NEW r \in Request,
             SaveCharge(r) \/ SaveCancel(r) \/ SaveCallback(r) \/ SavePayment(r)
      PROVE  PaymentInv'
  BY <1>5, StepsThatSave
<1>6. ASSUME NEW r \in Request, NEW amount \in 1..Amount, StartRefund(r, amount)
      PROVE  PaymentInv'
  BY <1>6, StartingRefundKeepsInv
<1>7. ASSUME NEW r \in Request,
             \/ CreatePayment(r) \/ Charge(r) \/ SaveRefund(r)
             \/ GatewayRefunds(r) \/ GatewayRefuses(r)
      PROVE  PaymentInv'
  BY <1>7, CreatingKeepsInv, ChargingKeepsInv, AnswerKeepsInv, SavingRefundKeepsInv
<1> QED
  BY <1>1, <1>2, <1>3, <1>4, <1>5, <1>6, <1>7 DEF PaymentNext

\* PaymentInv holds in every reachable state of ProcessPaymentAsync,
\* CancelPaymentAsync, the gateway's callbacks and RefundPaymentAsync.
THEOREM PaymentInvariant == PaymentSpec => []PaymentInv
<1>1. PaymentInv /\ [PaymentNext]_paymentVars => PaymentInv'
  BY PaymentStep
<1> QED
  BY <1>1, PaymentInitInv, PTL DEF PaymentSpec

\* Requests with one idempotency key charge once, however they race.
THEOREM KeyChargedOnce == PaymentSpec => []OneChargePerKey
<1>1. PaymentInv => OneChargePerKey
  BY DEF PaymentInv
<1> QED
  BY <1>1, PaymentInvariant, PTL

\* No refund is made off the record, and none is called Completed in vain.
THEOREM RefundsRecorded == PaymentSpec => []RefundsOnRecord
<1>1. PaymentInv => RefundsOnRecord
  BY DEF PaymentInv
<1> QED
  BY <1>1, PaymentInvariant, PTL

\* Type correctness of the payment: no payment is ever left Pending.
THEOREM PaymentTypes == PaymentSpec => []PaymentTypeOK
<1>1. PaymentInv => PaymentTypeOK
  BY DEF PaymentInv
<1> QED
  BY <1>1, PaymentInvariant, PTL

-----------------------------------------------------------------------------
\* The money: how much was given back is a number ...
LEMMA GivenIsCounted ==
  ASSUME IsFiniteSet(GivenUnits) PROVE GivenBack \in Nat
BY FS_CardinalityType DEF GivenBack

\* ... that a refund adds its amount to.
LEMMA GivingBack ==
  ASSUME IsFiniteSet(GivenUnits), moved \in [Request -> 0..Amount],
         NEW r \in Request, moved[r] = 0, NEW a \in 0..Amount,
         moved' = [moved EXCEPT ![r] = a]
  PROVE  IsFiniteSet(GivenUnits') /\ GivenBack' = GivenBack + a
<1> DEFINE new == {r} \X (1..a)
<1>1. GivenUnits' = GivenUnits \cup new
  <2>1. ASSUME NEW q \in Request, NEW k \in 1..Amount
        PROVE  k <= moved'[q] <=> k <= moved[q] \/ (q = r /\ k \in 1..a)
    BY PaymentAssumption
  <2>2. new \subseteq Request \X (1..Amount)
    BY PaymentAssumption
  <2> QED
    BY <2>1, <2>2 DEF GivenUnits
<1>2. GivenUnits \cap new = {}
  BY PaymentAssumption DEF GivenUnits
<1>3. IsFiniteSet(new) /\ Cardinality(new) = a
  <2>1. IsFiniteSet({r}) /\ Cardinality({r}) = 1
    BY FS_Singleton
  <2>2. IsFiniteSet(1..a) /\ Cardinality(1..a) = a
    BY FS_Interval, PaymentAssumption
  <2>3. IsFiniteSet(new) /\ Cardinality(new) = Cardinality({r}) * Cardinality(1..a)
    BY <2>1, <2>2, FS_Product
  <2> QED
    BY <2>1, <2>2, <2>3, PaymentAssumption
<1> HIDE DEF new
<1>4. /\ IsFiniteSet(GivenUnits \cup new)
      /\ Cardinality(GivenUnits \cup new) =
           Cardinality(GivenUnits) + Cardinality(new) - Cardinality(GivenUnits \cap new)
  BY <1>3, FS_Union
<1>5. Cardinality(GivenUnits \cap new) = 0
  BY <1>2, FS_EmptySet
<1> QED
  BY <1>1, <1>3, <1>4, <1>5, GivenIsCounted, PaymentAssumption DEF GivenBack

\* As long as nothing moves, what was given back stays.
LEMMA NothingGiven ==
  ASSUME UNCHANGED moved
  PROVE  GivenUnits' = GivenUnits /\ GivenBack' = GivenBack
BY DEF GivenUnits, GivenBack

LEMMA MoneyInit == PaymentInit => MoneyProgress
<1> SUFFICES ASSUME PaymentInit PROVE MoneyProgress
  OBVIOUS
<1>1. GivenUnits = {}
  BY PaymentAssumption DEF PaymentInit, GivenUnits
<1>2. IsFiniteSet(GivenUnits) /\ GivenBack = 0
  BY <1>1, FS_EmptySet DEF GivenBack
<1> QED
  BY <1>2 DEF PaymentInit, MoneyProgress, NeverOverstated, NoRow, Paid, At

\* A step of request r that makes p of it keeps the money straight, if what it
\* writes and holds claims no more than what is given back after it.
LEMMA MoneyMoves ==
  ASSUME PaymentInv, MoneyProgress, NEW r \in Request, NEW p \in Progress, Becomes(r, p),
         row' \in Row,
         IsFiniteSet(GivenUnits'), GivenBack' \in Nat, GivenBack <= GivenBack',
         row'.refunded <= GivenBack', p.copy.refunded <= GivenBack',
         session = "captured" => session' = "captured",
         charges' = 0 => session' = "none",
         row'.status \in Paid \/ p.copy.status \in Paid \/ GivenBack' > 0
           => session' = "captured",
         p.pc = "refund" => p.copy.status \in Paid
  PROVE  MoneyProgress'
<1>1. /\ req' \in [Request -> Progress] /\ req'[r] = p
      /\ \A q \in Request \ {r} : req'[q] = req[q]
  BY Typed DEF Becomes
<1>2. \A q \in Request : req'[q].copy.refunded <= GivenBack'
  <2>1. \A q \in Request \ {r} : req[q].copy.refunded \in Nat /\ req[q].copy.refunded <= GivenBack
    BY Typed DEF MoneyProgress, Row
  <2> QED
    BY <1>1, <2>1, GivenIsCounted DEF MoneyProgress
<1>3. \A q \in Request :
        /\ req'[q].copy.status \in Paid => session' = "captured"
        /\ req'[q].pc = "refund" => req'[q].copy.status \in Paid
  BY <1>1 DEF MoneyProgress, At
<1>4. NeverOverstated'
  BY DEF NeverOverstated, Paid
<1> QED
  BY <1>2, <1>3, <1>4 DEF MoneyProgress, At, Paid

\* The same for a step that does not touch the gateway.
LEMMA MoneyUntouched ==
  ASSUME PaymentInv, MoneyProgress, NEW r \in Request, NEW p \in Progress, Becomes(r, p),
         UNCHANGED gatewayVars,
         row' \in Row, row'.refunded <= GivenBack, p.copy.refunded <= GivenBack,
         row'.status \in Paid \/ p.copy.status \in Paid => session = "captured",
         p.pc = "refund" => p.copy.status \in Paid
  PROVE  MoneyProgress'
<1>1. /\ GivenUnits' = GivenUnits /\ GivenBack' = GivenBack
      /\ session' = session /\ charges' = charges
  BY NothingGiven DEF gatewayVars
<1>2. GivenBack \in Nat /\ GivenBack <= GivenBack'
  BY <1>1, GivenIsCounted DEF MoneyProgress
<1> QED
  BY <1>1, <1>2, MoneyMoves DEF MoneyProgress, NeverOverstated, Paid

\* A request that saves nothing: it goes on, or loads the row and changes it.
LEMMA MoneyWhileLoading ==
  ASSUME PaymentInv, MoneyProgress, NEW r \in Request,
         \/ LookUpKey(r) \/ KeyTaken(r) \/ Announce(r) \/ Abort(r)
         \/ \E amount \in 1..Amount : RefundRefused(r, amount)
         \/ Cancel(r) \/ Completed(r) \/ NotCompleted(r) \/ NotValidated(r)
  PROVE  MoneyProgress'
<1>1. UNCHANGED <<gatewayVars, row>>
  BY DEF LookUpKey, KeyTaken, Announce, Abort, RefundRefused,
         Cancel, Completed, NotCompleted, NotValidated
<1>2. CASE Go(r, "create") \/ Go(r, "done")
  <2>1. PICK p \in Progress : /\ Becomes(r, p) /\ p.pc \in {"create", "done"}
                              /\ p.copy = req[r].copy
    BY <1>2, Going DEF Steps
  <2> QED
    BY <1>1, <2>1, MoneyUntouched, Typed DEF MoneyProgress, NeverOverstated
<1>3. CASE /\ row.status = "Processing"
           /\ \E s \in {"Cancelled", "Completed", "Failed"},
                 step \in {"saveCancel", "saveCallback"} :
                /\ s = "Completed" => session = "captured"
                /\ Load(r, [row EXCEPT !.status = s], step)
  <2>1. PICK s \in {"Cancelled", "Completed", "Failed"},
             step \in {"saveCancel", "saveCallback"} :
               /\ s = "Completed" => session = "captured"
               /\ Load(r, [row EXCEPT !.status = s], step)
    BY <1>3
  <2> DEFINE c == [row EXCEPT !.status = s]
  <2>2. c \in Row /\ c.status = s /\ c.refunded = row.refunded
    BY Typed DEF Row
  <2> HIDE DEF c
  <2>3. PICK p \in Progress : Becomes(r, p) /\ p.pc = step /\ p.copy = c
    BY <2>1, <2>2, Loading DEF Steps, c
  <2> QED
    BY <1>1, <1>3, <2>1, <2>2, <2>3, MoneyUntouched, Typed
    DEF MoneyProgress, NeverOverstated, Paid
<1> QED
  BY <1>2, <1>3 DEF LookUpKey, KeyTaken, Announce, Abort, RefundRefused,
                    Cancel, Completed, NotCompleted, NotValidated

\* What a request writes to the row was there or is what it holds.
LEMMA MoneyWhileSaving ==
  ASSUME PaymentInv, MoneyProgress, NEW r \in Request,
         \/ SaveCharge(r) \/ SaveCancel(r) \/ SaveCallback(r) \/ SavePayment(r)
         \/ SaveRefund(r)
  PROVE  MoneyProgress'
<1>1. /\ UNCHANGED gatewayVars
      /\ Go(r, "announce") \/ Go(r, "done") \/ Go(r, "savePayment")
      /\ req[r].pc \in {"saveCharge", "saveCancel", "saveCallback", "savePayment",
                        "saveRefund"}
  BY DEF SaveCharge, SaveCancel, SaveCallback, SavePayment, SaveRefund, At
<1>2. /\ row' \in Row
      /\ row'.status \in {req[r].copy.status, row.status}
      /\ row'.refunded \in {req[r].copy.refunded, row.refunded}
  <2>1. CASE row' = req[r].copy
    BY <2>1, Typed
  <2>2. CASE SaveRefund(r)
    <3>1. row.status # "absent" /\ req[r].copy.status # "absent"
      BY <2>2 DEF PaymentInv, ChargeProgress, SaveRefund, At
    <3>2. WriteChanged(r)
      BY <2>2 DEF SaveRefund
    <3>3. row' = [f \in {"status", "refunded", "txn"} |->
                IF req[r].copy[f] # req[r].seen[f] THEN req[r].copy[f] ELSE row[f]]
      BY <3>2, Typed DEF WriteChanged, Row
    <3> QED
      BY <3>1, <3>2, <3>3, ChangedColumns
  <2> QED
    BY <2>1, <2>2 DEF SaveCharge, SaveCancel, SaveCallback, SavePayment, WriteAll
<1>3. PICK p \in Progress : /\ Becomes(r, p) /\ p.pc \in {"announce", "done", "savePayment"}
                            /\ p.copy = req[r].copy
  BY <1>1, Going DEF Steps
<1> QED
  BY <1>1, <1>2, <1>3, MoneyUntouched DEF MoneyProgress, NeverOverstated

\* The row that is created claims nothing, and nothing was given back.
LEMMA MoneyWhileCreating ==
  ASSUME PaymentInv, MoneyProgress, NEW r \in Request, CreatePayment(r)
  PROVE  MoneyProgress'
<1> DEFINE c == [NoRow EXCEPT !.status = "Processing"]
           p == [req[r] EXCEPT !.pc = "charge", !.seen = c, !.copy = c]
<1>1. c \in Row /\ c.status = "Processing" /\ c.refunded = 0
  BY DEF Row, NoRow
<1>2. row' = c /\ Becomes(r, p) /\ UNCHANGED gatewayVars
  BY DEF CreatePayment, Becomes
<1> HIDE DEF c
<1>3. p \in Progress /\ p.pc = "charge" /\ p.copy = c
  BY <1>1, Typed DEF Progress, Steps
<1> HIDE DEF p
<1> QED
  BY <1>1, <1>2, <1>3, MoneyUntouched, GivenIsCounted DEF MoneyProgress, Paid

\* The charge: a copy becomes Completed when the gateway captured it.
LEMMA MoneyWhileCharging ==
  ASSUME PaymentInv, MoneyProgress, NEW r \in Request, Charge(r)
  PROVE  MoneyProgress'
<1> DEFINE done     == [req[r].copy EXCEPT !.txn = TRUE, !.status = "Completed"]
           open     == [req[r].copy EXCEPT !.txn = TRUE]
           declined == [req[r].copy EXCEPT !.status = "Failed"]
<1>1. /\ done \in Row /\ done.refunded = req[r].copy.refunded /\ done.status = "Completed"
      /\ open \in Row /\ open.refunded = req[r].copy.refunded /\ open.status = req[r].copy.status
      /\ declined \in Row /\ declined.refunded = req[r].copy.refunded /\ declined.status = "Failed"
  BY Typed DEF Row
<1>2. charges = 0 /\ session = "none" /\ charges' = 1 /\ req[r].copy.status \notin Paid
  BY DEF Charge, At, PaymentInv, ChargeProgress, MoneyProgress
<1>3. \E c \in Row : /\ Charged(r, c) /\ c.refunded = req[r].copy.refunded
                     /\ c.status \in Paid => session' = "captured"
  <2>1. CASE session' = "captured" /\ Charged(r, done)
    BY <1>1, <2>1
  <2>2. CASE session' = "open" /\ Charged(r, open)
    BY <1>1, <1>2, <2>2
  <2>3. CASE session' = "failed" /\ Charged(r, declined)
    BY <1>1, <2>3 DEF Paid
  <2> HIDE DEF done, open, declined
  <2>4. \/ session' = "captured" /\ Charged(r, done)
        \/ session' = "open" /\ Charged(r, open)
        \/ session' = "failed" /\ Charged(r, declined)
    BY DEF Charge, done, open, declined
  <2> QED
    BY <2>1, <2>2, <2>3, <2>4
<1>4. PICK c \in Row : /\ Charged(r, c) /\ c.refunded = req[r].copy.refunded
                       /\ c.status \in Paid => session' = "captured"
  BY <1>3
<1> DEFINE p == [req[r] EXCEPT !.pc = "saveCharge", !.copy = c]
<1>5. p \in Progress /\ p.pc = "saveCharge" /\ p.copy = c /\ Becomes(r, p)
  BY <1>4, Typed DEF Progress, Steps, Charged, Becomes
<1> HIDE DEF p, done, open, declined
<1>6. row' = row /\ GivenUnits' = GivenUnits /\ GivenBack' = GivenBack
  BY NothingGiven DEF Charge
<1>7. GivenBack = 0 /\ row.status \notin Paid
  BY <1>2, GivenIsCounted DEF MoneyProgress, NeverOverstated
<1> QED
  BY <1>2, <1>4, <1>5, <1>6, <1>7, MoneyMoves, Typed DEF MoneyProgress, NeverOverstated

\* A refund: the copy claims the amount that the gateway gives back.
LEMMA MoneyWhileRefunding ==
  ASSUME PaymentInv, MoneyProgress, NEW r \in Request, GatewayRefunds(r) \/ GatewayRefuses(r)
  PROVE  MoneyProgress'
<1> DEFINE amount == req[r].amount
           done == Refunded(req[r].copy, amount)
<1>1. /\ At(r, "refund") /\ moved[r] = 0 /\ session = "captured"
      /\ UNCHANGED <<gateway, session, charges, row>>
  BY DEF GatewayRefunds, GatewayRefuses, PaymentInv, RefundProgress, MoneyProgress
<1>2. /\ moved \in [Request -> 0..Amount] /\ amount \in 0..Amount
      /\ IsFiniteSet(GivenUnits) /\ GivenBack \in Nat
  BY Typed, GivenIsCounted DEF PaymentInv, PaymentTypeOK, MoneyProgress
<1>3. /\ IsFiniteSet(GivenUnits') /\ GivenBack' \in Nat /\ GivenBack <= GivenBack'
      /\ GatewayRefunds(r) => GivenBack' = GivenBack + amount
  <2>1. CASE moved' = moved /\ ~GatewayRefunds(r)
    BY <1>2, <2>1, NothingGiven
  <2>2. CASE moved' = [moved EXCEPT ![r] = amount]
    <3>1. IsFiniteSet(GivenUnits') /\ GivenBack' = GivenBack + amount
      BY <1>1, <1>2, <2>2, GivingBack
    <3> QED
      BY <1>2, <3>1, PaymentAssumption
  <2> QED
    BY <2>1, <2>2 DEF GatewayRefunds, GatewayRefuses
<1>4. /\ done \in Row /\ done.status \in Paid
      /\ done.refunded = req[r].copy.refunded + amount
  <2> DEFINE sum == req[r].copy.refunded + amount
             s == IF sum >= Amount THEN "Refunded" ELSE "PartiallyRefunded"
  <2>1. sum \in Nat
    BY <1>2, Typed, PaymentAssumption DEF Row
  <2>2. done = [req[r].copy EXCEPT !.refunded = sum, !.status = s]
    BY DEF Refunded
  <2>3. s \in {"Refunded", "PartiallyRefunded"}
    OBVIOUS
  <2> HIDE DEF s, done
  <2> QED
    BY <2>1, <2>2, <2>3, Typed DEF Row, Paid
<1>5. \E p \in Progress :
        /\ Becomes(r, p) /\ p.pc = "saveRefund" /\ p.copy.refunded <= GivenBack'
  <2>1. CASE GatewayRefunds(r)
    <3> DEFINE p == [req[r] EXCEPT !.pc = "saveRefund", !.copy = done]
    <3>1. Becomes(r, p)
      BY <2>1 DEF GatewayRefunds, Becomes
    <3> HIDE DEF done
    <3>2. p \in Progress /\ p.pc = "saveRefund" /\ p.copy = done
      BY <1>4, Typed DEF Progress, Steps
    <3>3. done.refunded <= GivenBack'
      BY <1>2, <1>3, <1>4, <2>1, Typed, PaymentAssumption DEF MoneyProgress, Row
    <3> QED
      BY <3>1, <3>2, <3>3
  <2>2. CASE GatewayRefuses(r)
    <3>1. PICK p \in Progress : /\ Becomes(r, p) /\ p.pc = "saveRefund" /\ p.copy = req[r].copy
      BY <2>2, Going DEF GatewayRefuses, Steps
    <3>2. req[r].copy.refunded <= GivenBack'
      BY <1>2, <1>3, Typed DEF MoneyProgress, Row
    <3> QED
      BY <3>1, <3>2
  <2> QED
    BY <2>1, <2>2
<1>6. PICK p \in Progress :
        /\ Becomes(r, p) /\ p.pc = "saveRefund" /\ p.copy.refunded <= GivenBack'
  BY <1>5
<1>7. row.refunded <= GivenBack'
  BY <1>2, <1>3, Typed DEF MoneyProgress, NeverOverstated, Row
<1> QED
  BY <1>1, <1>3, <1>6, <1>7, MoneyMoves, Typed DEF MoneyProgress

\* A refund starts from a row that is paid; the customer pays or fails.
LEMMA MoneyWhileStarting ==
  ASSUME PaymentInv, MoneyProgress, NEW r \in Request, NEW amount \in 1..Amount,
         StartRefund(r, amount)
  PROVE  MoneyProgress'
<1> DEFINE p == [req[r] EXCEPT !.pc = "refund", !.amount = amount,
                               !.seen = row, !.copy = row]
<1>1. p \in Progress /\ p.pc = "refund" /\ p.copy = row
  <2>1. amount \in 0..Amount
    BY PaymentAssumption
  <2> QED
    BY <2>1, Typed DEF Progress, Steps
<1>2. Becomes(r, p) /\ row.status \in Paid /\ UNCHANGED <<gatewayVars, row>>
  BY DEF StartRefund, Becomes, Paid
<1> HIDE DEF p
<1> QED
  BY <1>1, <1>2, MoneyUntouched, Typed DEF MoneyProgress, NeverOverstated

LEMMA MoneyStep ==
  ASSUME PaymentInv, MoneyProgress, [PaymentNext]_paymentVars
  PROVE  MoneyProgress'
<1>1. CASE CustomerActs \/ UNCHANGED paymentVars
  <2>1. /\ GivenUnits' = GivenUnits /\ GivenBack' = GivenBack /\ UNCHANGED <<charges, row, req>>
        /\ session = "captured" => session' = "captured"
        /\ session = "none" => session' = "none"
    BY <1>1, NothingGiven DEF CustomerActs, paymentVars, gatewayVars
  <2> QED
    BY <2>1 DEF MoneyProgress, NeverOverstated, Paid, At
<1>2. ASSUME NEW r \in Request,
             \/ LookUpKey(r) \/ KeyTaken(r) \/ Announce(r) \/ Abort(r)
             \/ \E amount \in 1..Amount : RefundRefused(r, amount)
             \/ Cancel(r) \/ Completed(r) \/ NotCompleted(r) \/ NotValidated(r)
      PROVE  MoneyProgress'
  BY <1>2, MoneyWhileLoading
<1>3. ASSUME NEW r \in Request,
             \/ SaveCharge(r) \/ SaveCancel(r) \/ SaveCallback(r) \/ SavePayment(r)
             \/ SaveRefund(r)
      PROVE  MoneyProgress'
  BY <1>3, MoneyWhileSaving
<1>4. ASSUME NEW r \in Request, NEW amount \in 1..Amount, StartRefund(r, amount)
      PROVE  MoneyProgress'
  BY <1>4, MoneyWhileStarting
<1>5. ASSUME NEW r \in Request,
             CreatePayment(r) \/ Charge(r) \/ GatewayRefunds(r) \/ GatewayRefuses(r)
      PROVE  MoneyProgress'
  BY <1>5, MoneyWhileCreating, MoneyWhileCharging, MoneyWhileRefunding
<1> QED
  BY <1>1, <1>2, <1>3, <1>4, <1>5 DEF PaymentNext

\* However requests race, are cut off or overwrite one another with stale
\* copies, the row never claims a refund that was not made or a charge that was
\* not captured.
THEOREM RowNeverOverstates == PaymentSpec => []NeverOverstated
<1>1. PaymentInv /\ MoneyProgress /\ [PaymentNext]_paymentVars => PaymentInv' /\ MoneyProgress'
  BY PaymentStep, MoneyStep
<1>2. MoneyProgress => NeverOverstated
  BY DEF MoneyProgress
<1> QED
  BY <1>1, <1>2, PaymentInitInv, MoneyInit, PTL DEF PaymentSpec

-----------------------------------------------------------------------------
\* A calm payment: what a step from the invariant may use.
CalmInv == PaymentInv /\ MoneyProgress /\ CalmProgress

\* A row that accounts for the money and says nothing was paid: nothing was
\* given back, and another unpaid status, or a fresh one, is as good.
LEMMA NothingPaid ==
  ASSUME CalmInv, AccountsFor(row), row.status \notin Paid
  PROVE  /\ GivenBack = 0 /\ row.refunded = 0
         /\ \A w \in Row : /\ w.refunded = 0 /\ w.status \notin {"Refunded", "PartiallyRefunded"}
                           /\ w.status = "Failed" => session = "failed"
                           => AccountsFor(w)
<1>1. GivenBack \in Nat
  BY GivenIsCounted DEF CalmInv, MoneyProgress
<1> QED
  BY <1>1, PaymentAssumption DEF AccountsFor, Paid

\* The request of a calm step is the only one in progress.
LEMMA StepsAlone ==
  ASSUME CalmInv, calm, NEW r \in Request,
         Active(r) \/ (At(r, "new") /\ \A q \in Request : At(q, "new") \/ At(q, "done"))
  PROVE  /\ \A q \in Request \ {r} : req[q].pc \in {"new", "done"}
         /\ req[r].pc # "saveRefund" => AccountsFor(row)
         /\ req[r].pc # "announce" =>
              ("PaymentCompleted" \in announced <=> row.status \in Paid)
         /\ "PaymentFailed" \in announced => session = "failed"
         /\ HoldsTheRow(req[r])
<1>1. \A q \in Request \ {r} : req[q].pc \in {"new", "done"}
  BY DEF CalmInv, CalmProgress, Active, At
<1> QED
  BY <1>1 DEF CalmInv, CalmProgress, At

\* A step of request r that makes p of it.
LEMMA CalmMoves ==
  ASSUME CalmInv, NEW r \in Request, NEW p \in Progress, Becomes(r, p),
         calm' => /\ \A q \in Request \ {r} : req[q].pc \in {"new", "done"}
                  /\ HoldsTheRow(p)'
                  /\ p.pc # "saveRefund" => AccountsFor(row)'
                  /\ p.pc # "announce" =>
                       ("PaymentCompleted" \in announced' <=> row'.status \in Paid)
                  /\ "PaymentFailed" \in announced' => session' = "failed"
  PROVE  CalmProgress'
<1> SUFFICES ASSUME calm' PROVE CalmProgress'
  BY DEF CalmProgress
<1>1. /\ req'[r] = p
      /\ \A q \in Request \ {r} : req'[q] = req[q] /\ req'[q].pc \in {"new", "done"}
  BY Typed DEF Becomes, CalmInv
<1>2. \A q1, q2 \in Request : Active(q1)' /\ Active(q2)' => q1 = q2
  BY <1>1 DEF Active, At
<1>3. \A q \in Request : HoldsTheRow(req[q])'
  <2>1. HoldsTheRow(req[r])'
    BY <1>1 DEF HoldsTheRow, AccountsFor
  <2>2. ASSUME NEW q \in Request \ {r} PROVE HoldsTheRow(req[q])'
    BY <1>1, <2>2 DEF HoldsTheRow
  <2> QED
    BY <2>1, <2>2
<1>4. (\A q \in Request : ~At(q, "saveRefund")') => AccountsFor(row)'
  BY <1>1 DEF At
<1>5. (\A q \in Request : ~At(q, "announce")') =>
        ("PaymentCompleted" \in announced' <=> row'.status \in Paid)
  BY <1>1 DEF At
<1> QED
  BY <1>2, <1>3, <1>4, <1>5 DEF CalmProgress, Paid

LEMMA CalmInit == PaymentInit => CalmProgress
<1> SUFFICES ASSUME PaymentInit PROVE CalmProgress
  OBVIOUS
<1>1. GivenUnits = {}
  BY PaymentAssumption DEF PaymentInit, GivenUnits
<1>2. GivenBack = 0
  BY <1>1, FS_EmptySet DEF GivenBack
<1>3. AccountsFor(row)
  BY <1>2, PaymentAssumption DEF PaymentInit, AccountsFor, NoRow
<1> QED
  BY <1>3 DEF PaymentInit, CalmProgress, HoldsTheRow, NoRow, Paid, At, Active

\* Requests that find nothing to do, and the one that goes on to create a row.
LEMMA CalmWhileLooking ==
  ASSUME CalmInv, NEW r \in Request,
         LookUpKey(r) \/ KeyTaken(r)
         \/ (\E amount \in 1..Amount : RefundRefused(r, amount))
         \/ (Cancel(r) /\ Go(r, "done")) \/ (Completed(r) /\ Go(r, "done"))
         \/ (NotCompleted(r) /\ Go(r, "done"))
  PROVE  CalmProgress'
<1>1. /\ GivenBack' = GivenBack /\ UNCHANGED <<session, row, announced>>
      /\ Go(r, "create") \/ Go(r, "done")
      /\ At(r, "new") \/ At(r, "create")
  <2>1. Go(r, "create") \/ Go(r, "done")
    BY DEF LookUpKey, KeyTaken, RefundRefused
  <2>2. /\ UNCHANGED <<gatewayVars, row, announced>>
        /\ At(r, "new") \/ At(r, "create")
    BY DEF LookUpKey, KeyTaken, RefundRefused, Cancel, Completed, NotCompleted, Arrives
  <2> QED
    BY <2>1, <2>2, NothingGiven DEF gatewayVars
<1>2. calm' => /\ calm
               /\ Active(r) \/ (At(r, "new") /\ \A q \in Request : At(q, "new") \/ At(q, "done"))
  BY DEF LookUpKey, KeyTaken, RefundRefused, Cancel, Completed, NotCompleted, Arrives, Active, At
<1>3. PICK p \in Progress : Becomes(r, p) /\ p.pc \in {"create", "done"}
  BY <1>1, Going DEF Steps, CalmInv
<1>4. HoldsTheRow(p)'
  BY <1>3 DEF HoldsTheRow
<1> QED
  BY <1>1, <1>2, <1>3, <1>4, CalmMoves, StepsAlone DEF At, AccountsFor

\* A request that loads the row to cancel or to settle the payment.
LEMMA CalmWhileLoading ==
  ASSUME CalmInv, NEW r \in Request,
         Cancel(r) \/ Completed(r) \/ NotCompleted(r), ~Go(r, "done")
  PROVE  CalmProgress'
<1>1. /\ UNCHANGED <<gatewayVars, row, announced>>
      /\ calm' => calm /\ At(r, "new") /\ \A q \in Request : At(q, "new") \/ At(q, "done")
      /\ row.status = "Processing"
  BY DEF Cancel, Completed, NotCompleted, Arrives
<1>2. \E s \in {"Cancelled", "Completed", "Failed"}, step \in {"saveCancel", "saveCallback"} :
         /\ s = "Failed" => session = "failed"
         /\ s = "Cancelled" <=> step = "saveCancel"
         /\ Load(r, [row EXCEPT !.status = s], step)
  BY DEF Cancel, Completed, NotCompleted
<1>3. PICK s \in {"Cancelled", "Completed", "Failed"}, step \in {"saveCancel", "saveCallback"} :
         /\ s = "Failed" => session = "failed"
         /\ s = "Cancelled" <=> step = "saveCancel"
         /\ Load(r, [row EXCEPT !.status = s], step)
  BY <1>2
<1> DEFINE c == [row EXCEPT !.status = s]
<1>4. c \in Row /\ c.status = s /\ c.refunded = row.refunded
  BY Typed DEF Row, CalmInv
<1> HIDE DEF c
<1>5. PICK p \in Progress : Becomes(r, p) /\ p.pc = step /\ p.copy = c
  BY <1>3, <1>4, Loading DEF Steps, c, CalmInv
<1>6. ASSUME calm'
      PROVE  /\ HoldsTheRow(p)' /\ AccountsFor(row)'
             /\ \A q \in Request \ {r} : req[q].pc \in {"new", "done"}
             /\ "PaymentCompleted" \in announced' <=> row'.status \in Paid
             /\ "PaymentFailed" \in announced' => session' = "failed"
  <2>1. /\ AccountsFor(row)
        /\ \A q \in Request \ {r} : req[q].pc \in {"new", "done"}
        /\ "PaymentCompleted" \in announced <=> row.status \in Paid
        /\ "PaymentFailed" \in announced => session = "failed"
    BY <1>1, <1>6, StepsAlone DEF At
  <2>2. AccountsFor(p.copy)
    BY <1>1, <1>3, <1>4, <1>5, <2>1, NothingPaid DEF Paid
  <2>3. GivenBack' = GivenBack /\ UNCHANGED <<session, row>>
    BY <1>1, NothingGiven DEF gatewayVars
  <2>4. HoldsTheRow(p)' /\ AccountsFor(row)'
    BY <1>1, <1>3, <1>4, <1>5, <2>1, <2>2, <2>3 DEF HoldsTheRow, AccountsFor
  <2> QED
    BY <1>1, <2>1, <2>3, <2>4
<1> QED
  BY <1>5, <1>6, CalmMoves

\* Creating the row.
LEMMA CalmWhileCreating ==
  ASSUME CalmInv, NEW r \in Request, CreatePayment(r)
  PROVE  CalmProgress'
<1> DEFINE c == [NoRow EXCEPT !.status = "Processing"]
           p == [req[r] EXCEPT !.pc = "charge", !.seen = c, !.copy = c]
<1>1. c \in Row /\ c.status = "Processing" /\ c.refunded = 0
  BY DEF Row, NoRow
<1>2. /\ row' = c /\ Becomes(r, p) /\ row = NoRow
      /\ At(r, "create") /\ UNCHANGED <<gatewayVars, announced, calm>>
  BY DEF CreatePayment, Becomes
<1> HIDE DEF c
<1>3. p \in Progress /\ p.pc = "charge" /\ p.copy = c
  BY <1>1, Typed DEF Progress, Steps, CalmInv
<1> HIDE DEF p
<1>4. PICK p2 \in Progress : Becomes(r, p2) /\ p2.pc = "charge" /\ p2.copy = row'
  BY <1>2, <1>3
<1>5. ASSUME calm'
      PROVE  /\ \A q \in Request \ {r} : req[q].pc \in {"new", "done"}
             /\ HoldsTheRow(p2)' /\ AccountsFor(row)'
             /\ "PaymentCompleted" \in announced' <=> row'.status \in Paid
             /\ "PaymentFailed" \in announced' => session' = "failed"
  <2>1. calm /\ Active(r)
    BY <1>2, <1>5 DEF Active, At
  <2>2. /\ \A q \in Request \ {r} : req[q].pc \in {"new", "done"}
        /\ AccountsFor(row)
        /\ "PaymentCompleted" \in announced <=> row.status \in Paid
        /\ "PaymentFailed" \in announced => session = "failed"
    BY <1>2, <2>1, StepsAlone DEF At
  <2>3. AccountsFor(c)
    BY <1>1, <1>2, <2>2, NothingPaid DEF NoRow, Paid
  <2>4. GivenBack' = GivenBack /\ UNCHANGED session
    BY <1>2, NothingGiven DEF gatewayVars
  <2>5. AccountsFor(row)'
    BY <1>2, <2>3, <2>4 DEF AccountsFor
  <2>6. HoldsTheRow(p2)'
    BY <1>1, <1>2, <1>4 DEF HoldsTheRow
  <2> QED
    BY <1>1, <1>2, <2>2, <2>4, <2>5, <2>6 DEF NoRow, Paid
<1> QED
  BY <1>4, <1>5, CalmMoves

\* Charging: the first thing that happens to the session.
LEMMA CalmWhileCharging ==
  ASSUME CalmInv, NEW r \in Request, Charge(r)
  PROVE  CalmProgress'
<1> DEFINE done     == [req[r].copy EXCEPT !.txn = TRUE, !.status = "Completed"]
           open     == [req[r].copy EXCEPT !.txn = TRUE]
           declined == [req[r].copy EXCEPT !.status = "Failed"]
<1>1. /\ done \in Row /\ done.refunded = req[r].copy.refunded /\ done.status = "Completed"
      /\ open \in Row /\ open.refunded = req[r].copy.refunded /\ open.status = req[r].copy.status
      /\ declined \in Row /\ declined.refunded = req[r].copy.refunded /\ declined.status = "Failed"
  BY Typed DEF Row, CalmInv
<1>2. /\ At(r, "charge") /\ session = "none"
      /\ GivenBack' = GivenBack /\ UNCHANGED <<row, announced, calm>>
  BY NothingGiven DEF Charge, CalmInv, PaymentInv, ChargeProgress, MoneyProgress
<1>3. \E c \in Row : /\ Charged(r, c) /\ c.refunded = req[r].copy.refunded
                     /\ \/ c.status = "Completed"
                        \/ c.status = req[r].copy.status
                        \/ c.status = "Failed" /\ session' = "failed"
  <2> HIDE DEF done, open, declined
  <2>1. \/ Charged(r, done)
        \/ Charged(r, open)
        \/ session' = "failed" /\ Charged(r, declined)
    BY DEF Charge, done, open, declined
  <2> QED
    BY <1>1, <2>1
<1>4. PICK c \in Row : /\ Charged(r, c) /\ c.refunded = req[r].copy.refunded
                       /\ \/ c.status = "Completed"
                          \/ c.status = req[r].copy.status
                          \/ c.status = "Failed" /\ session' = "failed"
  BY <1>3
<1>5. PICK p \in Progress : Becomes(r, p) /\ p.pc = "saveCharge" /\ p.copy = c
  <2> DEFINE p == [req[r] EXCEPT !.pc = "saveCharge", !.copy = c]
  <2>1. p \in Progress /\ p.pc = "saveCharge" /\ p.copy = c /\ Becomes(r, p)
    BY <1>4, Typed DEF Progress, Steps, Charged, Becomes, CalmInv
  <2> QED
    BY <2>1
<1> HIDE DEF done, open, declined
<1>6. ASSUME calm'
      PROVE  /\ \A q \in Request \ {r} : req[q].pc \in {"new", "done"}
             /\ HoldsTheRow(p)' /\ AccountsFor(row)'
             /\ "PaymentCompleted" \in announced' <=> row'.status \in Paid
             /\ "PaymentFailed" \in announced' => session' = "failed"
  <2>1. calm /\ Active(r)
    BY <1>2, <1>6 DEF Active, At
  <2>2. /\ \A q \in Request \ {r} : req[q].pc \in {"new", "done"}
        /\ AccountsFor(row) /\ HoldsTheRow(req[r])
        /\ "PaymentCompleted" \in announced <=> row.status \in Paid
        /\ "PaymentFailed" \notin announced
    BY <1>2, <2>1, StepsAlone DEF At
  <2>3. row.status = "Processing" /\ req[r].copy = row
    BY <1>2, <2>2 DEF HoldsTheRow, At
  <2>4. GivenBack = 0 /\ row.refunded = 0
    BY <2>2, <2>3, NothingPaid DEF Paid
  <2>5. AccountsFor(p.copy)' /\ AccountsFor(row)'
    BY <1>2, <1>4, <1>5, <2>3, <2>4, PaymentAssumption DEF AccountsFor
  <2>6. HoldsTheRow(p)'
    BY <1>2, <1>4, <1>5, <2>3, <2>5 DEF HoldsTheRow, AccountsFor
  <2> QED
    BY <1>2, <2>2, <2>5, <2>6
<1> QED
  BY <1>5, <1>6, CalmMoves

\* Saving a copy that settles or cancels the payment.
LEMMA CalmWhileSaving ==
  ASSUME CalmInv, NEW r \in Request, SaveCharge(r) \/ SaveCancel(r) \/ SaveCallback(r)
  PROVE  CalmProgress'
<1>1. /\ req[r].pc \in {"saveCharge", "saveCancel", "saveCallback"}
      /\ row' = req[r].copy /\ GivenBack' = GivenBack /\ UNCHANGED <<session, announced, calm>>
      /\ Go(r, "announce") \/ Go(r, "done")
  <2>1. Go(r, "announce") \/ Go(r, "done")
    BY DEF SaveCharge, SaveCancel, SaveCallback
  <2> QED
    BY <2>1, NothingGiven DEF SaveCharge, SaveCancel, SaveCallback, WriteAll, At, gatewayVars
<1>2. Go(r, "done") => req[r].copy.status \in {"Processing", "Cancelled"} \/ ~calm
  <2>1. CASE SaveCancel(r)
    BY <2>1, StepsAlone DEF SaveCancel, HoldsTheRow, Active, At
  <2>2. CASE SaveCharge(r) /\ req[r].copy.status # "Processing"
    <3>1. req'[r].pc = "announce"
      BY <2>2, Typed DEF SaveCharge, Go, Progress, CalmInv
    <3> QED
      BY <3>1, Typed DEF Go, Progress, CalmInv
  <2>3. CASE SaveCallback(r)
    <3>1. req'[r].pc = "announce"
      BY <2>3, Typed DEF SaveCallback, Go, Progress, CalmInv
    <3> QED
      BY <3>1, Typed DEF Go, Progress, CalmInv
  <2> QED
    BY <2>1, <2>2, <2>3
<1>3. PICK p \in Progress : /\ Becomes(r, p) /\ p.copy = req[r].copy
                            /\ Go(r, p.pc) /\ p.pc \in {"announce", "done"}
  BY <1>1, Going DEF Steps, CalmInv
<1>4. ASSUME calm'
      PROVE  /\ \A q \in Request \ {r} : req[q].pc \in {"new", "done"}
             /\ HoldsTheRow(p)' /\ AccountsFor(row)'
             /\ p.pc # "announce" => ("PaymentCompleted" \in announced' <=> row'.status \in Paid)
             /\ "PaymentFailed" \in announced' => session' = "failed"
  <2>1. calm /\ Active(r)
    BY <1>1, <1>4 DEF Active, At
  <2>2. /\ \A q \in Request \ {r} : req[q].pc \in {"new", "done"}
        /\ HoldsTheRow(req[r])
        /\ "PaymentCompleted" \in announced <=> row.status \in Paid
        /\ "PaymentFailed" \in announced => session = "failed"
    BY <1>1, <2>1, StepsAlone
  <2>3. /\ row.status = "Processing" /\ AccountsFor(p.copy)
        /\ p.copy.status \in {"Processing", "Cancelled", "Completed", "Failed"}
        /\ "PaymentCompleted" \notin announced
    BY <1>1, <1>3, <2>2 DEF HoldsTheRow, Paid
  <2>4. AccountsFor(row)'
    BY <1>1, <1>3, <2>3 DEF AccountsFor
  <2>5. p.pc = "announce" => p.copy.status \in {"Completed", "Failed"}
    <3>1. CASE SaveCharge(r)
      <4>1. req'[r].pc = IF req[r].copy.status = "Processing" THEN "done" ELSE "announce"
        BY <3>1, Typed DEF SaveCharge, Go, Progress, CalmInv
      <4>2. req'[r].pc = p.pc
        BY <1>3, Typed DEF Becomes, Progress, CalmInv
      <4> QED
        BY <1>3, <2>2, <3>1, <4>1, <4>2 DEF HoldsTheRow, SaveCharge, At
    <3>2. CASE SaveCancel(r)
      <4>1. req'[r].pc = "done" /\ req'[r].pc = p.pc
        BY <1>3, <3>2, Typed DEF SaveCancel, Go, Becomes, Progress, CalmInv
      <4> QED
        BY <4>1
    <3>3. CASE SaveCallback(r)
      BY <1>3, <2>2, <3>3 DEF HoldsTheRow, SaveCallback, At
    <3> QED
      BY <3>1, <3>2, <3>3
  <2>6. HoldsTheRow(p)'
    BY <1>1, <1>3, <2>3, <2>5 DEF HoldsTheRow
  <2> QED
    BY <1>1, <1>2, <1>3, <2>1, <2>2, <2>3, <2>4, <2>6 DEF Paid
<1> QED
  BY <1>3, <1>4, CalmMoves

\* Announcing what the row says.
LEMMA CalmWhileAnnouncing ==
  ASSUME CalmInv, NEW r \in Request, Announce(r)
  PROVE  CalmProgress'
<1>1. /\ At(r, "announce") /\ Go(r, "done")
      /\ GivenBack' = GivenBack /\ UNCHANGED <<row, session, calm>>
  BY NothingGiven DEF Announce, gatewayVars
<1>2. PICK p \in Progress : Becomes(r, p) /\ p.pc = "done"
  BY <1>1, Going DEF Steps, CalmInv
<1>3. ASSUME calm'
      PROVE  /\ \A q \in Request \ {r} : req[q].pc \in {"new", "done"}
             /\ HoldsTheRow(p)' /\ AccountsFor(row)'
             /\ "PaymentCompleted" \in announced' <=> row'.status \in Paid
             /\ "PaymentFailed" \in announced' => session' = "failed"
  <2>1. /\ \A q \in Request \ {r} : req[q].pc \in {"new", "done"}
        /\ AccountsFor(row) /\ HoldsTheRow(req[r])
        /\ "PaymentFailed" \in announced => session = "failed"
    BY <1>1, <1>3, StepsAlone DEF Active, At
  <2>2. /\ req[r].copy = row /\ row.status \in {"Completed", "Failed"}
        /\ "PaymentCompleted" \notin announced
    BY <1>1, <2>1 DEF HoldsTheRow, At
  <2>3. announced' = announced \cup
          {IF row.status = "Completed" THEN "PaymentCompleted" ELSE "PaymentFailed"}
    BY <2>2 DEF Announce
  <2>4. row.status = "Failed" => session = "failed"
    BY <2>1 DEF AccountsFor
  <2>5. AccountsFor(row)' /\ HoldsTheRow(p)'
    BY <1>1, <1>2, <2>1 DEF AccountsFor, HoldsTheRow
  <2> QED
    BY <1>1, <2>1, <2>2, <2>3, <2>4, <2>5 DEF Paid
<1> QED
  BY <1>2, <1>3, CalmMoves

\* A refund starts from the row as it is, and asks for no more than is left.
LEMMA CalmWhileStarting ==
  ASSUME CalmInv, NEW r \in Request, NEW amount \in 1..Amount, StartRefund(r, amount)
  PROVE  CalmProgress'
<1>1. /\ row.status \in {"Completed", "PartiallyRefunded"} /\ amount <= Amount - row.refunded
      /\ GivenBack' = GivenBack /\ UNCHANGED <<session, row, announced>>
      /\ calm' => calm /\ At(r, "new") /\ \A q \in Request : At(q, "new") \/ At(q, "done")
  BY NothingGiven DEF StartRefund, Arrives, gatewayVars
<1>2. PICK p \in Progress : /\ Becomes(r, p) /\ p.pc = "refund" /\ p.copy = row
                            /\ p.amount = amount
  <2> DEFINE p == [req[r] EXCEPT !.pc = "refund", !.amount = amount,
                                 !.seen = row, !.copy = row]
  <2>1. Becomes(r, p)
    BY DEF StartRefund, Becomes
  <2>2. p \in Progress /\ p.pc = "refund" /\ p.copy = row /\ p.amount = amount
    <3>1. amount \in 0..Amount
      BY PaymentAssumption
    <3> QED
      BY <3>1, Typed DEF Progress, Steps, CalmInv
  <2> QED
    BY <2>1, <2>2
<1>3. ASSUME calm'
      PROVE  /\ \A q \in Request \ {r} : req[q].pc \in {"new", "done"}
             /\ HoldsTheRow(p)' /\ AccountsFor(row)'
             /\ "PaymentCompleted" \in announced' <=> row'.status \in Paid
             /\ "PaymentFailed" \in announced' => session' = "failed"
  <2>1. /\ \A q \in Request \ {r} : req[q].pc \in {"new", "done"}
        /\ AccountsFor(row)
        /\ "PaymentCompleted" \in announced <=> row.status \in Paid
        /\ "PaymentFailed" \in announced => session = "failed"
    BY <1>1, <1>3, StepsAlone DEF At
  <2>2. p.amount \in 1..(Amount - row.refunded)
    <3>1. row.refunded \in Nat
      BY Typed DEF Row, CalmInv
    <3> QED
      BY <1>1, <1>2, <3>1, PaymentAssumption
  <2>3. AccountsFor(row)' /\ HoldsTheRow(p)'
    BY <1>1, <1>2, <2>1, <2>2 DEF AccountsFor, HoldsTheRow
  <2> QED
    BY <1>1, <2>1, <2>3
<1> QED
  BY <1>2, <1>3, CalmMoves

\* The copy counts what the gateway gave back.
LEMMA CalmWhileRefunding ==
  ASSUME CalmInv, NEW r \in Request, GatewayRefunds(r)
  PROVE  CalmProgress'
<1> DEFINE amount == req[r].amount
           sum == req[r].copy.refunded + amount
           s == IF sum >= Amount THEN "Refunded" ELSE "PartiallyRefunded"
           done == Refunded(req[r].copy, amount)
<1>1. /\ At(r, "refund") /\ moved[r] = 0 /\ session = "captured" /\ req[r].seen = req[r].copy
      /\ moved' = [moved EXCEPT ![r] = amount]
      /\ UNCHANGED <<session, row, announced, calm>>
  BY DEF GatewayRefunds, CalmInv, PaymentInv, RefundProgress, MoneyProgress
<1>2. /\ amount \in 0..Amount /\ req[r].copy.refunded \in Nat /\ sum \in Nat
      /\ GivenBack \in Nat
  BY Typed, GivenIsCounted, PaymentAssumption DEF CalmInv, MoneyProgress, Row
<1>3. GivenBack' = GivenBack + amount
  BY <1>1, <1>2, GivingBack DEF CalmInv, PaymentInv, PaymentTypeOK, MoneyProgress
<1>4. done \in Row /\ done.status = s /\ done.refunded = sum
  <2>1. done = [req[r].copy EXCEPT !.refunded = sum, !.status = s]
    BY DEF Refunded
  <2>2. s \in {"Refunded", "PartiallyRefunded"}
    OBVIOUS
  <2> HIDE DEF s, sum, done
  <2> QED
    BY <1>2, <2>1, <2>2, Typed DEF Row, CalmInv
<1>5. PICK p \in Progress : /\ Becomes(r, p) /\ p.pc = "saveRefund" /\ p.copy = done
                            /\ p.seen = req[r].seen
  <2> DEFINE p == [req[r] EXCEPT !.pc = "saveRefund", !.copy = done]
  <2>1. Becomes(r, p)
    BY DEF GatewayRefunds, Becomes
  <2> HIDE DEF done
  <2>2. p \in Progress /\ p.pc = "saveRefund" /\ p.copy = done /\ p.seen = req[r].seen
    BY <1>4, Typed DEF Progress, Steps, CalmInv
  <2> QED
    BY <2>1, <2>2
<1>6. ASSUME calm'
      PROVE  /\ \A q \in Request \ {r} : req[q].pc \in {"new", "done"}
             /\ HoldsTheRow(p)'
             /\ "PaymentCompleted" \in announced' <=> row'.status \in Paid
             /\ "PaymentFailed" \in announced' => session' = "failed"
  <2>1. /\ \A q \in Request \ {r} : req[q].pc \in {"new", "done"}
        /\ AccountsFor(row) /\ HoldsTheRow(req[r])
        /\ "PaymentCompleted" \in announced <=> row.status \in Paid
        /\ "PaymentFailed" \in announced => session = "failed"
    BY <1>1, <1>6, StepsAlone DEF Active, At
  <2>2. /\ req[r].copy = row /\ row.status \in {"Completed", "PartiallyRefunded"}
        /\ amount \in 1..(Amount - row.refunded)
    BY <1>1, <2>1 DEF HoldsTheRow, At
  <2>3. /\ sum = GivenBack + amount /\ sum \in 1..Amount
    BY <1>2, <2>1, <2>2, PaymentAssumption DEF AccountsFor
  <2>4. AccountsFor(p.copy)'
    <3>1. p.copy.refunded = GivenBack' /\ GivenBack' \in 1..Amount
      BY <1>3, <1>4, <1>5, <2>3
    <3>2. p.copy.status = IF GivenBack' >= Amount THEN "Refunded" ELSE "PartiallyRefunded"
      BY <1>3, <1>4, <1>5, <2>3
    <3> QED
      BY <3>1, <3>2, PaymentAssumption DEF AccountsFor
  <2>5. HoldsTheRow(p)'
    <3>1. p.copy.status \in Paid
      BY <1>4, <1>5 DEF Paid
    <3>2. p.seen = row' /\ row'.status \in Paid
      BY <1>1, <1>5, <2>2 DEF Paid
    <3> QED
      BY <1>5, <2>4, <3>1, <3>2 DEF HoldsTheRow
  <2> QED
    BY <1>1, <2>1, <2>5
<1> QED
  BY <1>5, <1>6, CalmMoves

\* A gateway that refuses leaves the copy as it was loaded.
LEMMA CalmWhileRefusing ==
  ASSUME CalmInv, NEW r \in Request, GatewayRefuses(r)
  PROVE  CalmProgress'
<1>1. /\ At(r, "refund") /\ req[r].seen = req[r].copy
      /\ calm' => calm /\ UNCHANGED moved
      /\ UNCHANGED <<session, row, announced>>
  BY DEF GatewayRefuses, CalmInv, PaymentInv, RefundProgress
<1>2. PICK p \in Progress : /\ Becomes(r, p) /\ p.pc = "saveRefund"
                            /\ p.copy = req[r].copy /\ p.seen = req[r].seen
  <2> DEFINE p == [req[r] EXCEPT !.pc = "saveRefund"]
  <2>1. Becomes(r, p)
    BY DEF GatewayRefuses, Go, Becomes
  <2>2. /\ p \in Progress /\ p.pc = "saveRefund"
        /\ p.copy = req[r].copy /\ p.seen = req[r].seen
    BY Typed DEF Progress, Steps, CalmInv
  <2> QED
    BY <2>1, <2>2
<1>3. ASSUME calm'
      PROVE  /\ \A q \in Request \ {r} : req[q].pc \in {"new", "done"}
             /\ HoldsTheRow(p)' /\ AccountsFor(row)'
             /\ "PaymentCompleted" \in announced' <=> row'.status \in Paid
             /\ "PaymentFailed" \in announced' => session' = "failed"
  <2>1. /\ \A q \in Request \ {r} : req[q].pc \in {"new", "done"}
        /\ AccountsFor(row) /\ HoldsTheRow(req[r])
        /\ "PaymentCompleted" \in announced <=> row.status \in Paid
        /\ "PaymentFailed" \in announced => session = "failed"
    BY <1>1, <1>3, StepsAlone DEF Active, At
  <2>2. p.copy = row /\ p.seen = row /\ row.status \in Paid
    BY <1>1, <1>2, <2>1 DEF HoldsTheRow, At, Paid
  <2>3. GivenBack' = GivenBack
    BY <1>1, <1>3, NothingGiven
  <2>4. AccountsFor(row)' /\ AccountsFor(p.copy)'
    BY <1>1, <2>1, <2>2, <2>3 DEF AccountsFor
  <2>5. HoldsTheRow(p)'
    BY <1>1, <1>2, <2>2, <2>4 DEF HoldsTheRow
  <2> QED
    BY <1>1, <2>1, <2>4, <2>5
<1> QED
  BY <1>2, <1>3, CalmMoves

\* Nobody wrote in between: the changed columns make the row what the copy is.
LEMMA CalmWhileSavingRefund ==
  ASSUME CalmInv, NEW r \in Request, SaveRefund(r)
  PROVE  CalmProgress'
<1>1. /\ At(r, "saveRefund") /\ Go(r, "savePayment") /\ WriteChanged(r)
      /\ GivenBack' = GivenBack /\ UNCHANGED <<session, announced, calm>>
  BY NothingGiven DEF SaveRefund, gatewayVars
<1>2. PICK p \in Progress : Becomes(r, p) /\ p.pc = "savePayment" /\ p.copy = req[r].copy
  BY <1>1, Going DEF Steps, CalmInv
<1>3. ASSUME calm'
      PROVE  /\ \A q \in Request \ {r} : req[q].pc \in {"new", "done"}
             /\ HoldsTheRow(p)' /\ AccountsFor(row)'
             /\ "PaymentCompleted" \in announced' <=> row'.status \in Paid
             /\ "PaymentFailed" \in announced' => session' = "failed"
  <2>1. /\ \A q \in Request \ {r} : req[q].pc \in {"new", "done"}
        /\ HoldsTheRow(req[r])
        /\ "PaymentCompleted" \in announced <=> row.status \in Paid
        /\ "PaymentFailed" \in announced => session = "failed"
    BY <1>1, <1>3, StepsAlone DEF Active, At
  <2>2. /\ req[r].seen = row /\ row.status \in Paid
        /\ AccountsFor(req[r].copy) /\ req[r].copy.status \in Paid
    BY <1>1, <2>1 DEF HoldsTheRow, At
  <2>3. row' = req[r].copy
    <3>1. /\ DOMAIN row = {"status", "refunded", "txn"}
          /\ DOMAIN req[r].copy = {"status", "refunded", "txn"}
          /\ req[r].copy \in Row
      BY Typed DEF Row, CalmInv
    <3>2. row' = [f \in {"status", "refunded", "txn"} |-> req[r].copy[f]]
      BY <1>1, <2>2, <3>1 DEF WriteChanged
    <3>3. req[r].copy = [f \in {"status", "refunded", "txn"} |-> req[r].copy[f]]
      BY <3>1 DEF Row
    <3> QED
      BY <3>2, <3>3
  <2>4. AccountsFor(row)'
    BY <1>1, <2>2, <2>3 DEF AccountsFor
  <2>5. HoldsTheRow(p)'
    BY <1>2, <2>3 DEF HoldsTheRow
  <2> QED
    BY <1>1, <2>1, <2>2, <2>3, <2>4, <2>5
<1> QED
  BY <1>2, <1>3, CalmMoves

\* The second save of a refund writes what the row says already.
LEMMA CalmWhileSavingPayment ==
  ASSUME CalmInv, NEW r \in Request, SavePayment(r)
  PROVE  CalmProgress'
<1>1. /\ At(r, "savePayment") /\ Go(r, "done") /\ row' = req[r].copy
      /\ GivenBack' = GivenBack /\ UNCHANGED <<session, announced, calm>>
  BY NothingGiven DEF SavePayment, WriteAll, gatewayVars
<1>2. PICK p \in Progress : Becomes(r, p) /\ p.pc = "done"
  BY <1>1, Going DEF Steps, CalmInv
<1>3. ASSUME calm'
      PROVE  /\ \A q \in Request \ {r} : req[q].pc \in {"new", "done"}
             /\ HoldsTheRow(p)' /\ AccountsFor(row)'
             /\ "PaymentCompleted" \in announced' <=> row'.status \in Paid
             /\ "PaymentFailed" \in announced' => session' = "failed"
  <2>1. /\ \A q \in Request \ {r} : req[q].pc \in {"new", "done"}
        /\ AccountsFor(row) /\ HoldsTheRow(req[r])
        /\ "PaymentCompleted" \in announced <=> row.status \in Paid
        /\ "PaymentFailed" \in announced => session = "failed"
    BY <1>1, <1>3, StepsAlone DEF Active, At
  <2>2. row' = row
    BY <1>1, <2>1 DEF HoldsTheRow, At
  <2>3. AccountsFor(row)' /\ HoldsTheRow(p)'
    BY <1>1, <1>2, <2>1, <2>2 DEF AccountsFor, HoldsTheRow
  <2> QED
    BY <1>1, <2>1, <2>2, <2>3
<1> QED
  BY <1>2, <1>3, CalmMoves

\* What the customer does while the page is open contradicts nothing on record.
LEMMA CalmWhileOutside ==
  ASSUME CalmInv, CustomerActs \/ UNCHANGED paymentVars
  PROVE  CalmProgress'
<1>1. /\ GivenBack' = GivenBack /\ UNCHANGED <<row, announced, req, calm>>
      /\ session = "failed" => session' = "failed"
  BY NothingGiven DEF CustomerActs, paymentVars, gatewayVars
<1>2. \A w \in Row : AccountsFor(w) => AccountsFor(w)'
  BY <1>1 DEF AccountsFor
<1>3. AccountsFor(row) => AccountsFor(row)'
  BY <1>1 DEF AccountsFor
<1>4. ASSUME NEW r \in Request, HoldsTheRow(req[r]) PROVE HoldsTheRow(req[r])'
  <2>1. AccountsFor(req[r].copy) => AccountsFor(req[r].copy)'
    BY <1>1 DEF AccountsFor
  <2> QED
    BY <1>1, <1>4, <2>1 DEF HoldsTheRow
<1> QED
  BY <1>1, <1>3, <1>4 DEF CalmInv, CalmProgress, Active, At

LEMMA CalmStep ==
  ASSUME CalmInv, [PaymentNext]_paymentVars
  PROVE  CalmProgress'
<1>1. CASE CustomerActs \/ UNCHANGED paymentVars
  BY <1>1, CalmWhileOutside
<1>2. ASSUME NEW r \in Request, NotValidated(r) \/ Abort(r)
      PROVE  CalmProgress'
  BY <1>2 DEF NotValidated, Abort, CalmProgress
<1>3. ASSUME NEW r \in Request, Cancel(r) \/ Completed(r) \/ NotCompleted(r)
      PROVE  CalmProgress'
  BY <1>3, CalmWhileLooking, CalmWhileLoading
<1>4. ASSUME NEW r \in Request,
             LookUpKey(r) \/ KeyTaken(r) \/ \E amount \in 1..Amount : RefundRefused(r, amount)
      PROVE  CalmProgress'
  BY <1>4, CalmWhileLooking
<1>5. ASSUME NEW r \in Request,
             \/ CreatePayment(r) \/ Charge(r)
             \/ SaveCharge(r) \/ SaveCancel(r) \/ SaveCallback(r) \/ Announce(r)
      PROVE  CalmProgress'
  BY <1>5, CalmWhileCreating, CalmWhileCharging, CalmWhileSaving, CalmWhileAnnouncing
<1>6. ASSUME NEW r \in Request,
             \/ \E amount \in 1..Amount : StartRefund(r, amount)
             \/ GatewayRefunds(r) \/ GatewayRefuses(r) \/ SaveRefund(r) \/ SavePayment(r)
      PROVE  CalmProgress'
  BY <1>6, CalmWhileStarting, CalmWhileRefunding, CalmWhileRefusing,
     CalmWhileSavingRefund, CalmWhileSavingPayment
<1> QED
  BY <1>1, <1>2, <1>3, <1>4, <1>5, <1>6 DEF PaymentNext

\* As long as requests come one at a time and nothing fails, the row accounts
\* for the money between any two of them: what was given back, the status that
\* goes with it, and the announcements.
THEOREM CalmPaymentBalances == PaymentSpec => []CalmIsBalanced
<1>1. PaymentInit => CalmInv
  BY PaymentInitInv, MoneyInit, CalmInit DEF CalmInv
<1>2. CalmInv /\ [PaymentNext]_paymentVars => CalmInv'
  BY PaymentStep, MoneyStep, CalmStep DEF CalmInv
<1>3. CalmInv => CalmIsBalanced
  <2> SUFFICES ASSUME CalmInv, calm, \A r \in Request : At(r, "new") \/ At(r, "done")
               PROVE  CalmIsBalanced
    BY DEF CalmIsBalanced
  <2>1. /\ AccountsFor(row)
        /\ "PaymentCompleted" \in announced <=> row.status \in Paid
        /\ "PaymentFailed" \in announced => session = "failed"
    BY DEF CalmInv, CalmProgress, At
  <2> QED
    BY <2>1 DEF AccountsFor, CalmIsBalanced
<1> QED
  BY <1>1, <1>2, <1>3, PTL DEF PaymentSpec

=============================================================================
