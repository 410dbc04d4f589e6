--------------------------- MODULE OrderSagaProofs ---------------------------
(***************************************************************************)
(* What the compensation of OrderSaga guarantees for every number of       *)
(* sagas and items and every combination of faults.                        *)
(***************************************************************************)
EXTENDS OrderSaga, TLAPS

\* The order's part of the type invariant.
OrderTypeOK ==
  /\ status \in {"pending", "confirmed", "shipped", "delivered", "cancelled"}
  /\ items \subseteq Item
  /\ payment \in Saga \cup {None}
  /\ reservation \in (Saga \X Item) \cup {None}
  /\ refunds \subseteq Saga

\* An order leaves "pending" for good and is cancelled for good.
OrderMovesOn ==
  /\ status = "cancelled" => status' = "cancelled"
  /\ status # "pending" => status' # "pending"

\* Whatever happens to the order, it stays well-typed and only moves on.
LEMMA OrderStep ==
  ASSUME OrderTypeOK,
         \/ Order!Confirm \/ Order!Ship \/ Order!Deliver \/ Order!Cancel
         \/ \E i \in Item : Order!AddItem(i) \/ Order!RemoveItem(i)
         \/ \E s \in Saga : Order!RecordPayment(s)
         \/ \E r \in (Saga \X Item) \cup {None} : Order!RecordReservation(r)
         \/ UNCHANGED orderVars
  PROVE  OrderTypeOK' /\ OrderMovesOn
BY DEF OrderTypeOK, OrderMovesOn, orderVars, Order!Confirm, Order!Ship,
       Order!Deliver, Order!Cancel, Order!AddItem, Order!RemoveItem,
       Order!RecordPayment, Order!RecordReservation

Progress ==
  [ step : Steps, snapshot : SUBSET Item, held : Seq(Item),
    paid : BOOLEAN, left : Nat, released : Nat, failed : BOOLEAN ]

ServiceTypeOK ==
  /\ stock \in [Saga -> [Item -> {"none", "held", "released"}]]
  /\ charge \in [Saga -> {"none", "processing", "captured", "refunded", "failed"}]
  /\ mail \subseteq [type : {"PaymentCompleted", "PaymentFailed"}, saga : Saga]

\* The type invariant by parts, now and in the next state.
LEMMA TypeParts ==
  SagaTypeOK <=> OrderTypeOK /\ ServiceTypeOK /\ saga \in [Saga -> Progress]
BY DEF SagaTypeOK, OrderTypeOK, ServiceTypeOK, Progress

LEMMA TypePartsNext ==
  SagaTypeOK' <=> OrderTypeOK' /\ ServiceTypeOK' /\ saga' \in [Saga -> Progress]
BY DEF SagaTypeOK, OrderTypeOK, ServiceTypeOK, Progress

\* A step of one saga preserves the invariant when it preserves the types, the
\* order only moves on, the other sagas are left alone and the saga itself is
\* where the invariant wants it.
LEMMA OneSagaMoves ==
  ASSUME SagaInv, SagaTypeOK', OrderMovesOn, NEW s \in Saga,
         \A t \in Saga \ {s} : saga'[t] = saga[t] /\ charge'[t] = charge[t],
         \A t \in Saga \ {s} : stock'[t] = stock[t],
         Refunded(s)', ReleasedSoFar(s)', Outcome(s)',
         At(s, "done")' => At(s, "done") \/ status = "pending"
  PROVE  SagaInv'
<1>1. ASSUME NEW t \in Saga \ {s}
      PROVE  Refunded(t)' /\ ReleasedSoFar(t)' /\ Outcome(t)'
  <2>1. Refunded(t) /\ ReleasedSoFar(t) /\ Outcome(t) /\ t \in Saga
    BY <1>1 DEF SagaInv
  <2>2. saga'[t] = saga[t] /\ charge'[t] = charge[t]
    BY <1>1
  <2>3. Refunded(t)'
    BY <2>1, <2>2 DEF Refunded
  <2>4. Outcome(t)'
    BY <2>1, <2>2 DEF Outcome, OrderMovesOn, At
  <2>a. saga[t] \in Progress
    BY <2>1, TypeParts DEF SagaInv
  <2>5. \A k \in 1..Len(saga[t].held) : saga[t].held[k] \in Item
    BY <2>a DEF Progress
  <2>6. saga[t].left \in Nat /\ Len(saga[t].held) \in Nat
    BY <2>a DEF Progress
  <2>7. \A k \in (saga[t].left + 1)..Len(saga[t].held) :
          stock'[t][saga[t].held[k]] = stock[t][saga[t].held[k]]
    BY <1>1, <2>5, <2>6
  <2>8. ReleasedSoFar(t)'
    BY <2>1, <2>2, <2>7 DEF ReleasedSoFar
  <2> QED
    BY <2>3, <2>4, <2>8
<1>2. OneConfirmation'
  <2>1. \A t \in Saga : At(t, "done") => status # "pending"
    BY DEF SagaInv, Outcome
  <2>2. \A t \in Saga \ {s} : At(t, "done")' => At(t, "done")
    BY DEF At
  <2> QED
    BY <2>1, <2>2 DEF SagaInv, OneConfirmation
<1> QED
  BY <1>1, <1>2 DEF SagaInv

\* The forward steps that only move the saga on.
LEMMA GoKeepsInv ==
  ASSUME SagaInv, NEW s \in Saga, NEW step \in Steps, Go(s, step),
         UNCHANGED <<orderVars, serviceVars>>,
         step \in {"recordReservation", "pay", "confirm", "refund", "abandoned",
                   "crashed"}
  PROVE  SagaInv'
<1>1. SagaTypeOK /\ saga \in [Saga -> Progress] /\ OrderTypeOK /\ ServiceTypeOK
  BY TypeParts DEF SagaInv
<1>2. /\ saga' \in [Saga -> Progress]
      /\ \A t \in Saga \ {s} : saga'[t] = saga[t]
      /\ saga'[s] = [saga[s] EXCEPT !.step = step]
  BY <1>1 DEF Go, Progress
<1>3. SagaTypeOK'
  BY <1>1, <1>2, TypePartsNext DEF OrderTypeOK, ServiceTypeOK, orderVars, serviceVars
<1>4. OrderMovesOn
  BY DEF OrderMovesOn, orderVars
<1>5. Refunded(s)' /\ Outcome(s)' /\ ~At(s, "done")'
  BY <1>1, <1>2 DEF Refunded, Outcome, At, Progress
<1>6. ReleasedSoFar(s)'
  BY <1>1, <1>2 DEF ReleasedSoFar, SagaInv, Progress
<1> QED
  BY <1>2, <1>3, <1>4, <1>5, <1>6, OneSagaMoves DEF serviceVars

\* What the lemmas below know of the saga that moves.
LEMMA Typed ==
  ASSUME SagaInv, NEW s \in Saga
  PROVE  /\ SagaTypeOK /\ OrderTypeOK /\ ServiceTypeOK
         /\ saga \in [Saga -> Progress] /\ saga[s] \in Progress
         /\ Refunded(s) /\ ReleasedSoFar(s) /\ Outcome(s)
BY TypeParts DEF SagaInv

\* The order's commands as the saga issues them.
LEMMA SagaCommand ==
  ASSUME OrderTypeOK,
         \/ Order!Confirm \/ Order!Cancel
         \/ \E t \in Saga : Order!RecordPayment(t)
         \/ \E r \in (Saga \X Item) \cup {None} : Order!RecordReservation(r)
  PROVE  OrderTypeOK' /\ OrderMovesOn
BY OrderStep

\* A request snapshots the order's items.
LEMMA StartKeepsInv ==
  ASSUME SagaInv, NEW s \in Saga, Start(s)
  PROVE  SagaInv'
<1>1. /\ OrderTypeOK /\ ServiceTypeOK /\ saga \in [Saga -> Progress]
      /\ saga[s] \in Progress /\ ReleasedSoFar(s)
  BY Typed
<1>2. saga'[s] = [saga[s] EXCEPT !.step = "reserve", !.snapshot = items]
  BY <1>1 DEF Start
<1>3. saga' \in [Saga -> Progress]
  BY <1>1 DEF Start, Progress, OrderTypeOK, Steps
<1>4. SagaTypeOK' /\ OrderMovesOn
  BY <1>1, <1>3, TypePartsNext DEF Start, OrderTypeOK, ServiceTypeOK, orderVars,
     serviceVars, OrderMovesOn
<1>5. Refunded(s)' /\ Outcome(s)' /\ ~At(s, "done")' /\ ReleasedSoFar(s)'
  BY <1>1, <1>2 DEF Refunded, Outcome, At, Progress, ReleasedSoFar
<1> QED
  BY <1>1, <1>4, <1>5, OneSagaMoves DEF Start, serviceVars

\* One reservation is made, with or without an id.
LEMMA ReservedKeepsInv ==
  ASSUME SagaInv, NEW s \in Saga, NEW i \in Item, Reserved(s, i)
  PROVE  SagaInv'
<1>1. /\ OrderTypeOK /\ ServiceTypeOK /\ saga \in [Saga -> Progress]
      /\ saga[s] \in Progress /\ ReleasedSoFar(s)
  BY Typed
<1>2. /\ saga' \in [Saga -> Progress] /\ saga'[s].step = "reserve"
      /\ saga'[s].left = saga[s].left
      /\ Len(saga[s].held) <= Len(saga'[s].held)
      /\ \A t \in Saga \ {s} : saga'[t] = saga[t]
  <2>1. /\ saga[s].held \in Seq(Item) /\ Append(saga[s].held, i) \in Seq(Item)
        /\ Len(Append(saga[s].held, i)) = Len(saga[s].held) + 1
        /\ Len(saga[s].held) \in Nat /\ saga[s].step = "reserve"
    BY <1>1 DEF Reserved, At, Progress
  <2>2. CASE saga' = [saga EXCEPT ![s].snapshot = @ \ {i},
                                  ![s].held = Append(@, i)]
    <3> DEFINE p == [saga[s] EXCEPT !.snapshot = @ \ {i},
                                    !.held = Append(@, i)]
    <3>1. /\ p \in Progress /\ p.step = "reserve" /\ p.left = saga[s].left
          /\ p.held = Append(saga[s].held, i)
      BY <1>1, <2>1 DEF Progress
    <3>2. saga' = [saga EXCEPT ![s] = p]
      BY <1>1, <2>2
    <3> HIDE DEF p
    <3> QED
      BY <1>1, <2>1, <3>1, <3>2
  <2>3. CASE saga' = [saga EXCEPT ![s].snapshot = @ \ {i}]
    <3> DEFINE p == [saga[s] EXCEPT !.snapshot = @ \ {i}]
    <3>1. /\ p \in Progress /\ p.step = saga[s].step /\ p.left = saga[s].left
          /\ p.held = saga[s].held
      BY <1>1 DEF Progress
    <3>2. saga' = [saga EXCEPT ![s] = p]
      BY <1>1, <2>3
    <3> HIDE DEF p
    <3> QED
      BY <1>1, <2>1, <3>1, <3>2
  <2> QED
    BY <2>2, <2>3 DEF Reserved
<1>3. /\ stock' \in [Saga -> [Item -> {"none", "held", "released"}]]
      /\ \A t \in Saga \ {s} : stock'[t] = stock[t]
  BY <1>1 DEF Reserved, ServiceTypeOK
<1>4. SagaTypeOK' /\ OrderMovesOn
  BY <1>1, <1>2, <1>3, TypePartsNext DEF Reserved, OrderTypeOK, ServiceTypeOK,
     orderVars, OrderMovesOn
<1>5. ReleasedSoFar(s)'
  BY <1>1, <1>2 DEF ReleasedSoFar, Progress
<1>6. Refunded(s)' /\ Outcome(s)' /\ ~At(s, "done")'
  BY <1>2 DEF Refunded, Outcome, At
<1> QED
  BY <1>2, <1>3, <1>4, <1>5, <1>6, OneSagaMoves DEF Reserved

\* A reservation fails, whether or not the stock is held.
LEMMA ReservationFailsKeepsInv ==
  ASSUME SagaInv, NEW s \in Saga, NEW i \in Item, ReservationFails(s, i)
  PROVE  SagaInv'
<1>1. /\ OrderTypeOK /\ ServiceTypeOK /\ saga \in [Saga -> Progress]
      /\ saga[s] \in Progress /\ ReleasedSoFar(s)
  BY Typed
<1>2. /\ saga' \in [Saga -> Progress] /\ saga'[s].step \in {"pay", "refund"}
      /\ saga'[s].left = saga[s].left /\ saga'[s].held = saga[s].held
      /\ \A t \in Saga \ {s} : saga'[t] = saga[t]
  <2>1. PICK step \in {"pay", "refund"} : Go(s, step)
    BY DEF ReservationFails, Compensate
  <2> QED
    BY <1>1, <2>1 DEF Go, Progress, Steps
<1>3. /\ stock' \in [Saga -> [Item -> {"none", "held", "released"}]]
      /\ \A t \in Saga \ {s} : stock'[t] = stock[t]
  BY <1>1 DEF ReservationFails, ServiceTypeOK
<1>4. SagaTypeOK' /\ OrderMovesOn
  BY <1>1, <1>2, <1>3, TypePartsNext DEF ReservationFails, OrderTypeOK,
     ServiceTypeOK, orderVars, OrderMovesOn
<1>5. ReleasedSoFar(s)'
  BY <1>1, <1>2 DEF ReleasedSoFar, Progress
<1>6. Refunded(s)' /\ Outcome(s)' /\ ~At(s, "done")'
  BY <1>2 DEF Refunded, Outcome, At
<1> QED
  BY <1>2, <1>3, <1>4, <1>5, <1>6, OneSagaMoves DEF ReservationFails

\* The payment service is called, with every outcome.
LEMMA PayKeepsInv ==
  ASSUME SagaInv, NEW s \in Saga,
         Charged(s) \/ ChargedWithoutId(s) \/ PaymentSkipped(s)
  PROVE  SagaInv'
<1>1. /\ OrderTypeOK /\ ServiceTypeOK /\ saga \in [Saga -> Progress]
      /\ saga[s] \in Progress /\ ReleasedSoFar(s)
  BY Typed
<1>2. /\ saga' \in [Saga -> Progress]
      /\ saga'[s].step \in {"recordPayment", "refund", "confirm"}
      /\ saga'[s].left = saga[s].left /\ saga'[s].held = saga[s].held
      /\ \A t \in Saga \ {s} : saga'[t] = saga[t]
  <2>1. CASE Charged(s)
    BY <1>1, <2>1 DEF Charged, Progress, Steps
  <2>2. CASE ChargedWithoutId(s)
    BY <1>1, <2>2 DEF ChargedWithoutId, Compensate, Go, Progress, Steps
  <2>3. CASE PaymentSkipped(s)
    BY <1>1, <2>3 DEF PaymentSkipped, Go, Progress, Steps
  <2> QED
    BY <2>1, <2>2, <2>3
<1>3. /\ charge' \in
           [Saga -> {"none", "processing", "captured", "refunded", "failed"}]
      /\ \A t \in Saga \ {s} : charge'[t] = charge[t]
      /\ UNCHANGED <<orderVars, stock>>
  BY <1>1 DEF Charged, ChargedWithoutId, PaymentSkipped, ServiceTypeOK
<1>4. mail' \subseteq
        [type : {"PaymentCompleted", "PaymentFailed"}, saga : Saga]
  BY <1>1 DEF Charged, ChargedWithoutId, PaymentSkipped, ServiceTypeOK
<1>5. SagaTypeOK' /\ OrderMovesOn
  BY <1>1, <1>2, <1>3, <1>4, TypePartsNext DEF OrderTypeOK, ServiceTypeOK,
     orderVars, OrderMovesOn
<1>6. ReleasedSoFar(s)'
  BY <1>1, <1>2 DEF ReleasedSoFar, Progress
<1>7. Refunded(s)' /\ Outcome(s)' /\ ~At(s, "done")'
  BY <1>2 DEF Refunded, Outcome, At
<1> QED
  BY <1>2, <1>3, <1>5, <1>6, <1>7, OneSagaMoves

\* The saga's commands on the order: RecordReservation, RecordPayment and
\* Confirm.
LEMMA CommandKeepsInv ==
  ASSUME SagaInv, NEW s \in Saga,
         RecordReservation(s) \/ RecordPayment(s) \/ Confirm(s)
  PROVE  SagaInv'
<1>1. /\ OrderTypeOK /\ ServiceTypeOK /\ saga \in [Saga -> Progress]
      /\ saga[s] \in Progress /\ ReleasedSoFar(s)
  BY Typed
<1>2. LastReservation(s) \in (Saga \X Item) \cup {None}
  BY <1>1 DEF LastReservation, Progress
<1>3. /\ \/ Order!RecordReservation(LastReservation(s))
         \/ Order!RecordPayment(s) \/ Order!Confirm
      /\ UNCHANGED serviceVars
  BY DEF RecordReservation, RecordPayment, Confirm
<1>4. OrderTypeOK' /\ OrderMovesOn
  BY <1>1, <1>2, <1>3, SagaCommand
<1>5. PICK step \in {"pay", "confirm", "done"} :
        /\ Go(s, step)
        /\ step = "done" => Order!Confirm
  BY DEF RecordReservation, RecordPayment, Confirm
<1>6. /\ saga' \in [Saga -> Progress] /\ saga'[s].step = step
      /\ saga'[s].left = saga[s].left /\ saga'[s].held = saga[s].held
      /\ \A t \in Saga \ {s} : saga'[t] = saga[t]
  BY <1>1, <1>5 DEF Go, Progress, Steps
<1>7. SagaTypeOK'
  BY <1>1, <1>3, <1>4, <1>6, TypePartsNext DEF ServiceTypeOK, serviceVars
<1>8. Refunded(s)' /\ ReleasedSoFar(s)'
  BY <1>1, <1>3, <1>6 DEF Refunded, ReleasedSoFar, Progress
<1>9. step = "done" => status = "pending" /\ status' = "confirmed"
  BY <1>5 DEF Order!Confirm
<1>10. Outcome(s)' /\ (At(s, "done")' => status = "pending")
  BY <1>6, <1>9 DEF Outcome, At
<1> QED
  BY <1>3, <1>4, <1>6, <1>7, <1>8, <1>10, OneSagaMoves DEF serviceVars

\* The steps that start the release loop.
LEMMA UnpaidKeepsInv ==
  ASSUME SagaInv, NEW s \in Saga, NothingToRefund(s) \/ RecordFailure(s)
  PROVE  SagaInv'
<1>1. /\ OrderTypeOK /\ ServiceTypeOK /\ saga \in [Saga -> Progress]
      /\ saga[s] \in Progress /\ ReleasedSoFar(s) /\ Refunded(s)
  BY Typed
<1>2. /\ saga' = [saga EXCEPT ![s].step = "release",
                              ![s].left = Len(saga[s].held)]
      /\ UNCHANGED <<orderVars, serviceVars>>
      /\ saga[s].paid => charge[s] = "refunded"
  BY <1>1 DEF NothingToRefund, RecordFailure, Refunded, At
<1>3. /\ saga' \in [Saga -> Progress] /\ saga'[s].step = "release"
      /\ saga'[s].left = Len(saga[s].held) /\ saga'[s].held = saga[s].held
      /\ saga'[s].paid = saga[s].paid
      /\ \A t \in Saga \ {s} : saga'[t] = saga[t]
  <2> DEFINE p == [saga[s] EXCEPT !.step = "release",
                                  !.left = Len(saga[s].held)]
  <2>1. /\ p \in Progress /\ p.step = "release" /\ p.left = Len(saga[s].held)
        /\ p.held = saga[s].held /\ p.paid = saga[s].paid
    <3>1. saga[s].held \in Seq(Item) /\ Len(saga[s].held) \in Nat
      BY <1>1 DEF Progress
    <3> QED
      BY <1>1, <3>1 DEF Progress, Steps
  <2>2. saga' = [saga EXCEPT ![s] = p]
    BY <1>1, <1>2
  <2> HIDE DEF p
  <2> QED
    BY <1>1, <2>1, <2>2
<1>4. SagaTypeOK' /\ OrderMovesOn
  BY <1>1, <1>2, <1>3, TypePartsNext DEF OrderTypeOK, ServiceTypeOK, orderVars,
     serviceVars, OrderMovesOn
<1>5. ReleasedSoFar(s)'
  BY <1>1, <1>3 DEF ReleasedSoFar, Progress
<1>6. Refunded(s)' /\ Outcome(s)' /\ ~At(s, "done")'
  BY <1>2, <1>3 DEF Refunded, Outcome, At, serviceVars
<1> QED
  BY <1>2, <1>3, <1>4, <1>5, <1>6, OneSagaMoves DEF serviceVars

\* The payment service is asked for a refund.
LEMMA RefundKeepsInv ==
  ASSUME SagaInv, NEW s \in Saga, Refund(s) \/ RefundFails(s)
  PROVE  SagaInv'
<1>1. /\ OrderTypeOK /\ ServiceTypeOK /\ saga \in [Saga -> Progress]
      /\ saga[s] \in Progress /\ ReleasedSoFar(s)
  BY Typed
<1>2. PICK step \in {"recordFailure", "abandoned"} :
        /\ Go(s, step)
        /\ step = "recordFailure" => charge'[s] = "refunded"
  BY <1>1 DEF Refund, RefundFails, ServiceTypeOK
<1>3. /\ saga' \in [Saga -> Progress] /\ saga'[s].step = step
      /\ saga'[s].left = saga[s].left /\ saga'[s].held = saga[s].held
      /\ \A t \in Saga \ {s} : saga'[t] = saga[t]
  BY <1>1, <1>2 DEF Go, Progress, Steps
<1>4. /\ charge' \in
           [Saga -> {"none", "processing", "captured", "refunded", "failed"}]
      /\ \A t \in Saga \ {s} : charge'[t] = charge[t]
      /\ UNCHANGED <<orderVars, stock, mail>>
  BY <1>1 DEF Refund, RefundFails, ServiceTypeOK
<1>5. SagaTypeOK' /\ OrderMovesOn
  BY <1>1, <1>3, <1>4, TypePartsNext DEF OrderTypeOK, ServiceTypeOK, orderVars,
     OrderMovesOn
<1>6. ReleasedSoFar(s)'
  BY <1>1, <1>3 DEF ReleasedSoFar, Progress
<1>7. Refunded(s)' /\ Outcome(s)' /\ ~At(s, "done")'
  BY <1>2, <1>3 DEF Refunded, Outcome, At
<1> QED
  BY <1>3, <1>4, <1>5, <1>6, <1>7, OneSagaMoves

\* The next reservation is released, or its release fails.
LEMMA ReleaseKeepsInv ==
  ASSUME SagaInv, NEW s \in Saga, Release(s) \/ ReleaseFails(s)
  PROVE  SagaInv'
<1>1. /\ OrderTypeOK /\ ServiceTypeOK /\ saga \in [Saga -> Progress]
      /\ saga[s] \in Progress /\ ReleasedSoFar(s) /\ Refunded(s)
  BY Typed
<1>2. /\ saga[s].step = "release" /\ saga[s].left \in Nat \ {0}
      /\ saga[s].held \in Seq(Item) /\ Len(saga[s].held) \in Nat
      /\ saga[s].left <= Len(saga[s].held)
      /\ saga[s].left - 1 \in Nat /\ saga[s].released + 1 \in Nat
  BY <1>1 DEF Release, ReleaseFails, At, Progress, ReleasedSoFar
<1> DEFINE i == saga[s].held[saga[s].left]
<1>3. i \in Item /\ \A k \in 1..Len(saga[s].held) : saga[s].held[k] \in Item
  BY <1>2
<1>4. /\ saga' \in [Saga -> Progress] /\ saga'[s].step = "release"
      /\ saga'[s].left = saga[s].left - 1 /\ saga'[s].held = saga[s].held
      /\ saga'[s].paid = saga[s].paid
      /\ Release(s) \/ saga'[s].failed
      /\ ~saga'[s].failed => ~saga[s].failed
      /\ \A t \in Saga \ {s} : saga'[t] = saga[t]
  <2>1. CASE Release(s)
    <3> DEFINE p == [saga[s] EXCEPT !.left = @ - 1, !.released = @ + 1]
    <3>1. /\ p \in Progress /\ p.step = "release" /\ p.left = saga[s].left - 1
          /\ p.held = saga[s].held /\ p.paid = saga[s].paid
          /\ p.failed = saga[s].failed
      <4> DEFINE l == saga[s].left - 1
                 r == saga[s].released + 1
      <4>1. p = [saga[s] EXCEPT !.left = l, !.released = r]
        BY <1>1 DEF Progress
      <4>2. l \in Nat /\ r \in Nat
        BY <1>2
      <4> HIDE DEF l, r
      <4>3. /\ p \in Progress /\ p.step = "release" /\ p.left = l
            /\ p.held = saga[s].held /\ p.paid = saga[s].paid
            /\ p.failed = saga[s].failed
        BY <1>1, <1>2, <4>1, <4>2 DEF Progress
      <4> QED
        BY <4>3 DEF l
    <3>2. saga' = [saga EXCEPT ![s] = p]
      BY <1>1, <2>1 DEF Release
    <3> HIDE DEF p
    <3> QED
      BY <1>1, <2>1, <3>1, <3>2
  <2>2. CASE ReleaseFails(s)
    <3> DEFINE p == [saga[s] EXCEPT !.left = @ - 1, !.failed = TRUE]
    <3>1. /\ p \in Progress /\ p.step = "release" /\ p.left = saga[s].left - 1
          /\ p.held = saga[s].held /\ p.paid = saga[s].paid
          /\ p.failed = TRUE
      <4> DEFINE l == saga[s].left - 1
      <4>1. p = [saga[s] EXCEPT !.left = l, !.failed = TRUE]
        BY <1>1 DEF Progress
      <4>2. l \in Nat
        BY <1>2
      <4> HIDE DEF l
      <4>3. /\ p \in Progress /\ p.step = "release" /\ p.left = l
            /\ p.held = saga[s].held /\ p.paid = saga[s].paid
            /\ p.failed = TRUE
        BY <1>1, <1>2, <4>1, <4>2 DEF Progress
      <4> QED
        BY <4>3 DEF l
    <3>2. saga' = [saga EXCEPT ![s] = p]
      BY <1>1, <2>2 DEF ReleaseFails
    <3> HIDE DEF p
    <3> QED
      BY <1>1, <3>1, <3>2
  <2> QED
    BY <2>1, <2>2
<1>5. /\ stock' \in [Saga -> [Item -> {"none", "held", "released"}]]
      /\ \A t \in Saga \ {s} : stock'[t] = stock[t]
      /\ \A j \in Item \ {i} : stock'[s][j] = stock[s][j]
      /\ stock'[s][i] \in {stock[s][i], "released"}
      /\ Release(s) => stock'[s][i] = "released"
      /\ UNCHANGED <<orderVars, charge, mail>>
  <2> DEFINE freed == [stock EXCEPT ![s][i] = "released"]
  <2>1. /\ stock' \in {stock, freed}
        /\ Release(s) => stock' = freed
        /\ UNCHANGED <<orderVars, charge, mail>>
    <3>1. CASE Release(s)
      BY <3>1 DEF Release
    <3>2. CASE ReleaseFails(s)
      <4>1. /\ stock' \in {stock, freed}
            /\ UNCHANGED <<orderVars, charge, mail>>
        BY <3>2 DEF ReleaseFails
      <4>2. Release(s) => stock' = freed
        BY DEF Release
      <4> QED
        BY <4>1, <4>2
    <3> QED
      BY <3>1, <3>2
  <2> HIDE DEF i
  <2>2. /\ stock \in [Saga -> [Item -> {"none", "held", "released"}]]
        /\ i \in Item
    BY <1>1, <1>3 DEF ServiceTypeOK
  <2>3. /\ freed \in [Saga -> [Item -> {"none", "held", "released"}]]
        /\ \A t \in Saga \ {s} : freed[t] = stock[t]
        /\ \A j \in Item \ {i} : freed[s][j] = stock[s][j]
        /\ freed[s][i] = "released"
    BY <2>2
  <2> HIDE DEF freed
  <2> QED
    BY <2>1, <2>2, <2>3
<1>6. SagaTypeOK' /\ OrderMovesOn
  BY <1>1, <1>4, <1>5, TypePartsNext DEF OrderTypeOK, ServiceTypeOK, orderVars,
     OrderMovesOn
<1>7. ReleasedSoFar(s)'
  <2>1. /\ saga'[s].left <= Len(saga'[s].held)
        /\ saga'[s].step = "release"
    BY <1>2, <1>4
  <2>2. ASSUME ~saga'[s].failed,
               NEW k \in (saga'[s].left + 1)..Len(saga'[s].held)
        PROVE  stock'[s][saga'[s].held[k]] = "released"
    <3>1. k \in saga[s].left..Len(saga[s].held) /\ k \in 1..Len(saga[s].held)
      BY <1>2, <1>4
    <3>2. k # saga[s].left => stock[s][saga[s].held[k]] = "released"
      BY <1>1, <1>2, <1>4, <2>2, <3>1 DEF ReleasedSoFar
    <3>3. stock'[s][i] = "released"
      BY <1>4, <1>5, <2>2
    <3> HIDE DEF i
    <3>4. CASE saga[s].held[k] = i
      BY <1>4, <3>3, <3>4
    <3>5. CASE saga[s].held[k] # i
      BY <1>3, <1>4, <1>5, <3>1, <3>2, <3>5 DEF i
    <3> QED
      BY <3>4, <3>5
  <2> QED
    BY <2>1, <2>2 DEF ReleasedSoFar
<1>8. Refunded(s)' /\ Outcome(s)' /\ ~At(s, "done")'
  BY <1>1, <1>2, <1>4, <1>5 DEF Refunded, Outcome, At
<1> QED
  BY <1>4, <1>5, <1>6, <1>7, <1>8, OneSagaMoves

\* All reservations have been tried: the releases are recorded.
LEMMA AllReleasedKeepsInv ==
  ASSUME SagaInv, NEW s \in Saga, AllReleased(s)
  PROVE  SagaInv'
<1>1. /\ OrderTypeOK /\ ServiceTypeOK /\ saga \in [Saga -> Progress]
      /\ saga[s] \in Progress /\ ReleasedSoFar(s) /\ Refunded(s)
  BY Typed
<1>2. /\ saga' \in [Saga -> Progress]
      /\ saga'[s] = [saga[s] EXCEPT !.step = "recordRelease"]
      /\ \A t \in Saga \ {s} : saga'[t] = saga[t]
  BY <1>1 DEF AllReleased, Go, Progress, Steps
<1>3. SagaTypeOK' /\ OrderMovesOn
  BY <1>1, <1>2, TypePartsNext DEF AllReleased, OrderTypeOK, ServiceTypeOK,
     orderVars, serviceVars, OrderMovesOn
<1>4. Refunded(s)' /\ Outcome(s)' /\ ~At(s, "done")' /\ ReleasedSoFar(s)'
  BY <1>1, <1>2 DEF AllReleased, Refunded, Outcome, ReleasedSoFar, At,
     Progress, serviceVars
<1> QED
  BY <1>2, <1>3, <1>4, OneSagaMoves DEF AllReleased, serviceVars

\* One release is recorded on the order, or the command fails.
LEMMA RecordReleaseKeepsInv ==
  ASSUME SagaInv, NEW s \in Saga, RecordRelease(s)
  PROVE  SagaInv'
<1>1. /\ OrderTypeOK /\ ServiceTypeOK /\ saga \in [Saga -> Progress]
      /\ saga[s] \in Progress /\ ReleasedSoFar(s) /\ Refunded(s)
  BY Typed
<1>2. /\ saga[s].step = "recordRelease" /\ saga[s].released \in Nat \ {0}
      /\ UNCHANGED serviceVars
  BY <1>1 DEF RecordRelease, At, Progress
<1>3. OrderTypeOK' /\ OrderMovesOn
  BY <1>1, OrderStep DEF RecordRelease
<1>4. PICK b \in BOOLEAN :
        saga' = [saga EXCEPT ![s] = [saga[s] EXCEPT !.released = @ - 1,
                                                    !.failed = b]]
        /\ (~b => ~saga[s].failed)
  <2>1. saga[s] = [saga[s] EXCEPT !.failed = saga[s].failed]
                  /\ saga[s].failed \in BOOLEAN
    BY <1>1 DEF Progress
  <2>2. [saga[s] EXCEPT !.released = @ - 1] =
          [saga[s] EXCEPT !.released = @ - 1, !.failed = saga[s].failed]
    BY <1>1 DEF Progress
  <2>3. CASE saga' = [saga EXCEPT ![s].released = @ - 1]
    BY <1>1, <2>1, <2>2, <2>3
  <2>4. CASE saga' = [saga EXCEPT ![s].released = @ - 1, ![s].failed = TRUE]
    BY <1>1, <2>4
  <2> QED
    BY <2>3, <2>4 DEF RecordRelease
<1>5. /\ saga' \in [Saga -> Progress] /\ saga'[s].step = "recordRelease"
      /\ saga'[s].left = saga[s].left /\ saga'[s].held = saga[s].held
      /\ saga'[s].paid = saga[s].paid
      /\ ~saga'[s].failed => ~saga[s].failed
      /\ \A t \in Saga \ {s} : saga'[t] = saga[t]
  <2> DEFINE p == [saga[s] EXCEPT !.released = @ - 1, !.failed = b]
  <2>1. /\ p \in Progress /\ p.step = "recordRelease" /\ p.left = saga[s].left
        /\ p.held = saga[s].held /\ p.paid = saga[s].paid /\ p.failed = b
    <3> DEFINE r == saga[s].released - 1
    <3>1. p = [saga[s] EXCEPT !.released = r, !.failed = b]
      BY <1>1 DEF Progress
    <3>2. r \in Nat
      BY <1>2
    <3> HIDE DEF r
    <3> QED
      BY <1>1, <1>2, <3>1, <3>2 DEF Progress
  <2>2. saga' = [saga EXCEPT ![s] = p]
    BY <1>4
  <2> HIDE DEF p
  <2> QED
    BY <1>1, <1>4, <2>1, <2>2
<1>6. SagaTypeOK'
  BY <1>1, <1>2, <1>3, <1>5, TypePartsNext DEF ServiceTypeOK, serviceVars
<1>7. Refunded(s)' /\ Outcome(s)' /\ ~At(s, "done")' /\ ReleasedSoFar(s)'
  BY <1>1, <1>2, <1>5 DEF Refunded, Outcome, ReleasedSoFar, At,
     Progress, serviceVars
<1> QED
  BY <1>2, <1>3, <1>5, <1>6, <1>7, OneSagaMoves DEF serviceVars

\* Unwinding without errors goes on to the cancellation.
LEMMA UnwoundKeepsInv ==
  ASSUME SagaInv, NEW s \in Saga, Unwound(s)
  PROVE  SagaInv'
<1>1. /\ OrderTypeOK /\ ServiceTypeOK /\ saga \in [Saga -> Progress]
      /\ saga[s] \in Progress /\ ReleasedSoFar(s) /\ Refunded(s)
  BY Typed
<1>2. CASE saga[s].failed
  <2>1. Go(s, "abandoned") /\ UNCHANGED <<orderVars, serviceVars>>
    BY <1>2 DEF Unwound
  <2> QED
    BY <2>1, GoKeepsInv DEF Steps
<1>3. CASE ~saga[s].failed
  <2>1. Go(s, "cancel") /\ UNCHANGED <<orderVars, serviceVars>>
        /\ saga[s].step = "recordRelease"
    BY <1>3 DEF Unwound, At
  <2>2. /\ saga' \in [Saga -> Progress]
        /\ saga'[s] = [saga[s] EXCEPT !.step = "cancel"]
        /\ \A t \in Saga \ {s} : saga'[t] = saga[t]
    BY <1>1, <2>1 DEF Go, Progress, Steps
  <2>3. SagaTypeOK' /\ OrderMovesOn
    BY <1>1, <2>1, <2>2, TypePartsNext DEF OrderTypeOK, ServiceTypeOK,
       orderVars, serviceVars, OrderMovesOn
  <2>4. Refunded(s)' /\ Outcome(s)' /\ ~At(s, "done")' /\ ReleasedSoFar(s)'
    BY <1>1, <1>3, <2>1, <2>2 DEF Refunded, Outcome, ReleasedSoFar, At,
       Progress, serviceVars
  <2> QED
    BY <2>1, <2>2, <2>3, <2>4, OneSagaMoves DEF serviceVars
<1> QED
  BY <1>2, <1>3

\* The order is cancelled, and the saga compensated.
LEMMA CancelKeepsInv ==
  ASSUME SagaInv, NEW s \in Saga, CancelOrder(s)
  PROVE  SagaInv'
<1>1. /\ OrderTypeOK /\ ServiceTypeOK /\ saga \in [Saga -> Progress]
      /\ saga[s] \in Progress /\ ReleasedSoFar(s) /\ Refunded(s)
  BY Typed
<1>2. /\ Order!Cancel /\ UNCHANGED serviceVars
      /\ Go(s, "compensated") /\ saga[s].step = "cancel"
  BY DEF CancelOrder, At
<1>3. OrderTypeOK' /\ OrderMovesOn
  BY <1>1, <1>2, SagaCommand
<1>4. status' = "cancelled"
  BY <1>2 DEF Order!Cancel
<1>5. /\ saga' \in [Saga -> Progress]
      /\ saga'[s] = [saga[s] EXCEPT !.step = "compensated"]
      /\ \A t \in Saga \ {s} : saga'[t] = saga[t]
  BY <1>1, <1>2 DEF Go, Progress, Steps
<1>6. SagaTypeOK'
  BY <1>1, <1>2, <1>3, <1>5, TypePartsNext DEF ServiceTypeOK, serviceVars
<1>7. Refunded(s)' /\ Outcome(s)' /\ ~At(s, "done")' /\ ReleasedSoFar(s)'
  BY <1>1, <1>2, <1>4, <1>5 DEF Refunded, Outcome, ReleasedSoFar, At,
     Progress, serviceVars
<1> QED
  BY <1>2, <1>3, <1>5, <1>6, <1>7, OneSagaMoves DEF serviceVars

\* Every step of a saga preserves the invariant.
LEMMA SagaStepKeepsInv ==
  ASSUME SagaInv, NEW s \in Saga, SagaStep(s)
  PROVE  SagaInv'
<1>1. ASSUME AllReserved(s) \/ ConfirmRefused(s) \/ CommandFails(s)
             \/ CancelRefused(s) \/ UnwindFails(s)
      PROVE  SagaInv'
  <2>1. PICK step \in {"recordReservation", "refund", "abandoned"} :
          Go(s, step) /\ UNCHANGED <<orderVars, serviceVars>>
    BY <1>1 DEF AllReserved, ConfirmRefused, CommandFails, CancelRefused,
       UnwindFails, Compensate
  <2> QED
    BY <2>1, GoKeepsInv DEF Steps
<1> QED
  BY <1>1, ReservedKeepsInv, ReservationFailsKeepsInv, PayKeepsInv,
     CommandKeepsInv, UnpaidKeepsInv, RefundKeepsInv, ReleaseKeepsInv,
     AllReleasedKeepsInv, RecordReleaseKeepsInv, UnwoundKeepsInv,
     CancelKeepsInv DEF SagaStep

\* What clients, customers and payment events do preserves the invariant.
LEMMA OthersKeepInv ==
  ASSUME SagaInv,
         \/ ClientCommand
         \/ \E s \in Saga : CustomerPays(s)
         \/ \E m \in mail : PaymentEvent(m)
         \/ UNCHANGED sagaVars
  PROVE  SagaInv'
<1>1. SagaTypeOK /\ OrderTypeOK /\ ServiceTypeOK /\ saga \in [Saga -> Progress]
  BY TypeParts DEF SagaInv
<1>2. saga' = saga /\ stock' = stock
  BY DEF ClientCommand, CustomerPays, PaymentEvent, sagaVars, serviceVars
<1>3. OrderTypeOK' /\ OrderMovesOn
  <2>1. CASE ClientCommand
    BY <1>1, <2>1, OrderStep DEF ClientCommand
  <2>2. CASE \E s \in Saga : CustomerPays(s)
    BY <1>1, <2>2, OrderStep DEF CustomerPays
  <2>3. CASE \E m \in mail : PaymentEvent(m)
    BY <1>1, <2>3, OrderStep DEF PaymentEvent
  <2>4. CASE UNCHANGED sagaVars
    BY <1>1, <2>4, OrderStep DEF sagaVars
  <2> QED
    BY <2>1, <2>2, <2>3, <2>4
<1>4. ServiceTypeOK' /\ \A s \in Saga : charge[s] = "refunded" => charge'[s] = "refunded"
  <2>1. CASE UNCHANGED serviceVars
    BY <1>1, <2>1 DEF serviceVars, ServiceTypeOK
  <2>2. CASE \E s \in Saga : CustomerPays(s)
    BY <1>1, <2>2 DEF CustomerPays, ServiceTypeOK
  <2>3. CASE \E m \in mail : PaymentEvent(m)
    BY <1>1, <2>3 DEF PaymentEvent, ServiceTypeOK
  <2> QED
    BY <2>1, <2>2, <2>3 DEF ClientCommand, sagaVars
<1>5. SagaTypeOK'
  BY <1>1, <1>2, <1>3, <1>4, TypePartsNext
<1>6. ASSUME NEW s \in Saga
      PROVE  Refunded(s)' /\ ReleasedSoFar(s)' /\ Outcome(s)'
  <2>1. Refunded(s) /\ ReleasedSoFar(s) /\ Outcome(s)
    BY DEF SagaInv
  <2>2. Refunded(s)'
    BY <1>2, <1>4, <2>1 DEF Refunded
  <2>3. ReleasedSoFar(s)'
    BY <1>2, <2>1 DEF ReleasedSoFar
  <2>4. Outcome(s)'
    BY <1>2, <1>3, <2>1 DEF Outcome, OrderMovesOn, At
  <2> QED
    BY <2>2, <2>3, <2>4
<1>7. OneConfirmation'
  BY <1>2 DEF SagaInv, OneConfirmation, At
<1> QED
  BY <1>5, <1>6, <1>7 DEF SagaInv

\* Every step of the system preserves the invariant.
LEMMA NextKeepsInv ==
  ASSUME SagaInv, [SagaNext]_sagaVars
  PROVE  SagaInv'
<1>1. ASSUME NEW s \in Saga, Crash(s) PROVE SagaInv'
  BY <1>1, GoKeepsInv DEF Crash, Steps
<1> QED
  BY <1>1, StartKeepsInv, SagaStepKeepsInv, OthersKeepInv DEF SagaNext

\* The invariant of the compensation holds in every behaviour.
THEOREM SagaInvariant == SagaSpec => []SagaInv
<1>1. SagaInit => SagaInv
  <2> SUFFICES ASSUME SagaInit PROVE SagaInv
    OBVIOUS
  <2>1. SagaTypeOK
    BY DEF SagaInit, SagaTypeOK, Unstarted, Steps
  <2>2. \A s \in Saga : saga[s] = Unstarted
    BY DEF SagaInit
  <2> QED
    BY <2>1, <2>2 DEF SagaInv, Refunded, ReleasedSoFar, Outcome,
       OneConfirmation, At, Unstarted
<1>2. SagaInv /\ [SagaNext]_sagaVars => SagaInv'
  BY NextKeepsInv
<1> QED
  BY <1>1, <1>2, PTL DEF SagaSpec

\* Every variable of the saga's model keeps its type (SagaTypeOK).
THEOREM SagaTypes == SagaSpec => []SagaTypeOK
<1>1. SagaInv => SagaTypeOK
  BY DEF SagaInv
<1> QED
  BY <1>1, SagaInvariant, PTL

\* OrderSaga.compensate: whatever fails, is lost or races, a compensation that
\* reports success has refunded the payment it knows, released the stock it
\* knows and left the order cancelled.
THEOREM CompensationIsClean == SagaSpec => []CompensatedIsClean
<1>1. SagaInv => CompensatedIsClean
  <2> SUFFICES ASSUME SagaInv, NEW s \in Saga, At(s, "compensated")
               PROVE  /\ saga[s].paid => charge[s] = "refunded"
                      /\ \A i \in Known(s) : stock[s][i] = "released"
                      /\ status = "cancelled"
    BY DEF CompensatedIsClean
  <2>1. Refunded(s) /\ ReleasedSoFar(s) /\ Outcome(s) /\ saga[s] \in Progress
    BY Typed
  <2>2. saga[s].left = 0 /\ ~saga[s].failed
    BY <2>1 DEF ReleasedSoFar, At
  <2>3. \A k \in 1..Len(saga[s].held) : stock[s][saga[s].held[k]] = "released"
    BY <2>1, <2>2 DEF ReleasedSoFar, At
  <2> QED
    BY <2>1, <2>3 DEF Refunded, Outcome, Known, At
<1> QED
  BY <1>1, SagaInvariant, PTL

\* Concurrent confirm requests, and payment events racing with them, confirm an
\* order at most once: the aggregate refuses the second.
THEOREM ConfirmedOnce == SagaSpec => []OneConfirmation
<1>1. SagaInv => OneConfirmation
  BY DEF SagaInv
<1> QED
  BY <1>1, SagaInvariant, PTL

\* A step that releases stock of a saga is a step of that saga's release loop.
LEMMA OnlyTheLoopReleases ==
  ASSUME SagaInv, SagaNext, NEW s \in Saga, NEW i \in Item,
         stock'[s][i] = "released", stock[s][i] # "released"
  PROVE  At(s, "release")
<1>1. stock' # stock
  OBVIOUS
<1>2. PICK t \in Saga : \/ \E j \in Item : Reserved(t, j) \/ ReservationFails(t, j)
                        \/ Release(t) \/ ReleaseFails(t)
  <2>1. PICK t \in Saga : Start(t) \/ SagaStep(t) \/ Crash(t) \/ CustomerPays(t)
    BY <1>1 DEF SagaNext, ClientCommand, PaymentEvent, serviceVars
  <2>2. SagaStep(t)
    BY <1>1, <2>1 DEF Start, Crash, CustomerPays, serviceVars
  <2>3. \/ \E j \in Item : Reserved(t, j) \/ ReservationFails(t, j)
        \/ Release(t) \/ ReleaseFails(t)
    BY <1>1, <2>2
       DEF SagaStep, AllReserved, RecordReservation, Charged, ChargedWithoutId,
       PaymentSkipped, RecordPayment, Confirm, ConfirmRefused, CommandFails,
       NothingToRefund, Refund, RefundFails, RecordFailure, AllReleased,
       RecordRelease, Unwound, CancelOrder, CancelRefused, UnwindFails,
       serviceVars
  <2> QED
    BY <2>3
<1>3. stock \in [Saga -> [Item -> {"none", "held", "released"}]]
  BY DEF SagaInv, SagaTypeOK
<1>4. CASE \E j \in Item : Reserved(t, j) \/ ReservationFails(t, j)
  <2>1. PICK j \in Item : stock' \in {stock, [stock EXCEPT ![t][j] = "held"]}
    BY <1>4 DEF Reserved, ReservationFails
  <2> QED
    BY <1>3, <2>1
<1>5. CASE Release(t) \/ ReleaseFails(t)
  <2>1. PICK j : stock' \in {stock, [stock EXCEPT ![t][j] = "released"]}
    BY <1>5 DEF Release, ReleaseFails
  <2>2. t = s
    BY <1>3, <2>1
  <2> QED
    BY <1>5, <2>2 DEF Release, ReleaseFails
<1> QED
  BY <1>2, <1>4, <1>5

\* Compensation is in reverse order: stock of a saga is released only once the
\* payment it knows of is refunded.
THEOREM RefundsComeFirst == SagaSpec => RefundBeforeRelease
<1>1. ASSUME SagaInv, [SagaNext]_sagaVars,
             NEW s \in Saga, NEW i \in Item,
             stock'[s][i] = "released", stock[s][i] # "released", saga[s].paid
      PROVE  charge[s] = "refunded"
  <2>1. SagaNext
    BY <1>1 DEF sagaVars, serviceVars
  <2>2. At(s, "release")
    BY <1>1, <2>1, OnlyTheLoopReleases
  <2> QED
    BY <1>1, <2>2 DEF SagaInv, Refunded, At
<1>2. SagaInv /\ [SagaNext]_sagaVars =>
        [\A s \in Saga, i \in Item :
           stock'[s][i] = "released" /\ stock[s][i] # "released" =>
             (saga[s].paid => charge[s] = "refunded")]_sagaVars
  BY <1>1
<1> QED
  BY <1>2, SagaInvariant, PTL DEF SagaSpec, RefundBeforeRelease

(***************************************************************************)
(* Nothing is stranded.  From here on only a forward command may fail: an  *)
(* answer that is lost, a gateway that answers early, a call of the        *)
(* compensation that fails or a crash does strand money or stock.          *)
(***************************************************************************)

OnlyCommandsFail == Fault \subseteq {"command"}

\* A step of one saga keeps everything accounted for when it leaves the other
\* sagas alone and accounts for its own.
LEMMA OneSagaAccounts ==
  ASSUME SagaInv, Accounted, NEW s \in Saga,
         \A t \in Saga \ {s} : saga'[t] = saga[t] /\ charge'[t] = charge[t],
         \A t \in Saga \ {s} : stock'[t] = stock[t],
         MoneyAccounted(s)', StockAccounted(s)'
  PROVE  Accounted'
<1>1. ASSUME NEW t \in Saga \ {s}
      PROVE  MoneyAccounted(t)' /\ StockAccounted(t)'
  <2>1. /\ MoneyAccounted(t) /\ StockAccounted(t)
        /\ saga'[t] = saga[t] /\ charge'[t] = charge[t] /\ stock'[t] = stock[t]
    BY <1>1 DEF Accounted
  <2>2. Owed(t)' = Owed(t)
    BY <2>1 DEF Owed
  <2>3. MoneyAccounted(t)'
    BY <2>1 DEF MoneyAccounted
  <2>4. StockAccounted(t)'
    BY <2>1, <2>2 DEF StockAccounted
  <2> QED
    BY <2>3, <2>4
<1> QED
  BY <1>1 DEF Accounted

\* A saga that keeps its holds, and still owes the same ones, accounts for them.
LEMMA SameHolds ==
  ASSUME NEW s \in Saga, StockAccounted(s),
         stock'[s] = stock[s], saga'[s].held = saga[s].held,
         Owed(s)' = Owed(s), ~saga'[s].failed,
         saga'[s].step \in Ended \ {"done"} => saga'[s].left = 0
  PROVE  StockAccounted(s)'
BY DEF StockAccounted

\* What the lemmas below know of the saga that moves.
LEMMA AccountedSaga ==
  ASSUME SagaInv, Accounted, NEW s \in Saga
  PROVE  /\ ServiceTypeOK /\ saga \in [Saga -> Progress] /\ saga[s] \in Progress
         /\ saga[s].held \in Seq(Item) /\ Len(saga[s].held) \in Nat
         /\ ReleasedSoFar(s) /\ MoneyAccounted(s) /\ StockAccounted(s)
         /\ ~saga[s].failed /\ charge[s] # "processing"
<1>1. ServiceTypeOK /\ saga \in [Saga -> Progress] /\ saga[s] \in Progress
      /\ ReleasedSoFar(s)
  BY Typed
<1>2. saga[s].held \in Seq(Item) /\ Len(saga[s].held) \in Nat
  BY <1>1 DEF Progress
<1>3. MoneyAccounted(s) /\ StockAccounted(s)
  BY DEF Accounted
<1> QED
  BY <1>1, <1>2, <1>3 DEF MoneyAccounted, StockAccounted

\* The forward steps, and the ones that start or end the compensation: only the
\* step changes.
LEMMA MovingOnAccounts ==
  ASSUME OnlyCommandsFail, SagaInv, Accounted, NEW s \in Saga,
         \/ AllReserved(s) \/ RecordReservation(s) \/ RecordPayment(s)
         \/ Confirm(s) \/ ConfirmRefused(s) \/ CommandFails(s)
         \/ AllReleased(s) \/ Unwound(s) \/ CancelOrder(s) \/ CancelRefused(s)
  PROVE  Accounted'
<1>1. /\ ServiceTypeOK /\ saga \in [Saga -> Progress] /\ saga[s] \in Progress
      /\ ReleasedSoFar(s) /\ MoneyAccounted(s) /\ StockAccounted(s)
      /\ ~saga[s].failed
  BY AccountedSaga
<1>2. PICK step \in Steps :
        /\ Go(s, step) /\ UNCHANGED serviceVars
        /\ \/ /\ At(s, "reserve") \/ At(s, "recordReservation")
              /\ step \in {"recordReservation", "pay", "refund"}
           \/ At(s, "recordPayment") /\ step \in {"confirm", "refund"}
           \/ At(s, "confirm") /\ step \in {"done", "refund"}
           \/ At(s, "release") /\ step = "recordRelease"
           \/ At(s, "recordRelease") /\ step = "cancel"
           \/ At(s, "cancel") /\ step \in {"compensated", "abandoned"}
  BY <1>1 DEF AllReserved, RecordReservation, RecordPayment, Confirm,
     ConfirmRefused, CommandFails, AllReleased, Unwound, CancelOrder,
     CancelRefused, Compensate, At, Steps
<1>3. /\ saga'[s] = [saga[s] EXCEPT !.step = step]
      /\ \A t \in Saga \ {s} : saga'[t] = saga[t]
  BY <1>1, <1>2 DEF Go
<1>4. /\ saga'[s].step = step /\ saga'[s].held = saga[s].held
      /\ saga'[s].left = saga[s].left /\ saga'[s].paid = saga[s].paid
      /\ saga'[s].failed = saga[s].failed
  BY <1>1, <1>3 DEF Progress
<1>5. MoneyAccounted(s)'
  BY <1>1, <1>2, <1>4 DEF MoneyAccounted, At, serviceVars
<1>6. Owed(s)' = Owed(s)
  BY <1>2, <1>4 DEF Owed, At, Ended
<1>7. step \in Ended \ {"done"} => saga[s].left = 0
  BY <1>1, <1>2 DEF ReleasedSoFar, At, Ended
<1>8. StockAccounted(s)'
  BY <1>1, <1>2, <1>4, <1>6, <1>7, SameHolds DEF serviceVars
<1> QED
  BY <1>2, <1>3, <1>5, <1>8, OneSagaAccounts DEF serviceVars

\* A saga starts, owing nothing.
LEMMA StartAccounts ==
  ASSUME SagaInv, Accounted, NEW s \in Saga, Start(s)
  PROVE  Accounted'
<1>1. /\ saga \in [Saga -> Progress] /\ saga[s] \in Progress
      /\ MoneyAccounted(s) /\ StockAccounted(s) /\ ~saga[s].failed
  BY AccountedSaga
<1>2. /\ saga'[s] = [saga[s] EXCEPT !.step = "reserve", !.snapshot = items]
      /\ \A t \in Saga \ {s} : saga'[t] = saga[t]
      /\ saga[s].step = "idle" /\ UNCHANGED serviceVars
  BY <1>1 DEF Start, At
<1>3. /\ saga'[s].step = "reserve" /\ saga'[s].held = saga[s].held
      /\ saga'[s].paid = saga[s].paid /\ saga'[s].failed = saga[s].failed
  BY <1>1, <1>2 DEF Progress
<1>4. MoneyAccounted(s)'
  BY <1>1, <1>2, <1>3 DEF MoneyAccounted, serviceVars
<1>5. Owed(s)' = Owed(s)
  BY <1>2, <1>3 DEF Owed, Ended
<1>6. StockAccounted(s)'
  BY <1>1, <1>2, <1>3, <1>5, SameHolds DEF serviceVars, Ended
<1> QED
  BY <1>2, <1>4, <1>6, OneSagaAccounts DEF serviceVars

\* A hold is made and its id kept: it is the last one the saga owes.
LEMMA ReservedAccounts ==
  ASSUME OnlyCommandsFail, SagaInv, Accounted, NEW s \in Saga, NEW i \in Item,
         Reserved(s, i)
  PROVE  Accounted'
<1>1. /\ ServiceTypeOK /\ saga \in [Saga -> Progress] /\ saga[s] \in Progress
      /\ saga[s].held \in Seq(Item) /\ Len(saga[s].held) \in Nat
      /\ MoneyAccounted(s) /\ StockAccounted(s) /\ ~saga[s].failed
  BY AccountedSaga
<1>2. /\ saga[s].step = "reserve" /\ UNCHANGED charge
      /\ stock' = [stock EXCEPT ![s][i] = "held"]
      /\ saga' = [saga EXCEPT ![s] = [saga[s] EXCEPT !.snapshot = @ \ {i},
                                                     !.held = Append(@, i)]]
  BY <1>1 DEF Reserved, At, OnlyCommandsFail
<1>3. /\ saga'[s].step = "reserve" /\ saga'[s].held = Append(saga[s].held, i)
      /\ saga'[s].paid = saga[s].paid /\ saga'[s].failed = saga[s].failed
      /\ \A t \in Saga \ {s} : saga'[t] = saga[t]
  <2> DEFINE p == [saga[s] EXCEPT !.snapshot = @ \ {i}, !.held = Append(@, i)]
  <2>1. /\ p.step = saga[s].step /\ p.held = Append(saga[s].held, i)
        /\ p.paid = saga[s].paid /\ p.failed = saga[s].failed
    BY <1>1 DEF Progress
  <2>2. saga' = [saga EXCEPT ![s] = p]
    BY <1>2
  <2> HIDE DEF p
  <2> QED
    BY <1>1, <1>2, <2>1, <2>2
<1>4. /\ \A t \in Saga \ {s} : stock'[t] = stock[t]
      /\ \A j \in Item \ {i} : stock'[s][j] = stock[s][j]
  BY <1>1, <1>2 DEF ServiceTypeOK
<1>5. MoneyAccounted(s)'
  BY <1>1, <1>2, <1>3 DEF MoneyAccounted
<1>6. /\ Owed(s) = Len(saga[s].held) /\ Owed(s)' = Len(saga[s].held) + 1
      /\ \A k \in 1..Len(saga[s].held) : saga'[s].held[k] = saga[s].held[k]
      /\ saga'[s].held[Len(saga[s].held) + 1] = i
  <2>1. /\ Len(Append(saga[s].held, i)) = Len(saga[s].held) + 1
        /\ \A k \in 1..Len(saga[s].held) :
             Append(saga[s].held, i)[k] = saga[s].held[k]
        /\ Append(saga[s].held, i)[Len(saga[s].held) + 1] = i
    BY <1>1
  <2> QED
    BY <1>2, <1>3, <2>1 DEF Owed, Ended
<1>7. ASSUME NEW j \in Item, stock'[s][j] = "held"
      PROVE  \E k \in 1..Owed(s)' : saga'[s].held[k] = j
  <2>1. CASE j = i
    BY <1>1, <1>6, <2>1
  <2>2. CASE j # i
    <3>1. PICK k \in 1..Len(saga[s].held) : saga[s].held[k] = j
      BY <1>1, <1>4, <1>6, <1>7, <2>2 DEF StockAccounted
    <3> QED
      BY <1>1, <1>6, <3>1
  <2> QED
    BY <2>1, <2>2
<1>8. StockAccounted(s)'
  BY <1>1, <1>3, <1>7 DEF StockAccounted, Ended
<1> QED
  BY <1>2, <1>3, <1>4, <1>5, <1>8, OneSagaAccounts

\* A reservation fails, and nothing is held for it.
LEMMA ReservationFailsAccounts ==
  ASSUME OnlyCommandsFail, SagaInv, Accounted, NEW s \in Saga, NEW i \in Item,
         ReservationFails(s, i)
  PROVE  Accounted'
<1>1. /\ saga \in [Saga -> Progress] /\ saga[s] \in Progress
      /\ MoneyAccounted(s) /\ StockAccounted(s) /\ ~saga[s].failed
  BY AccountedSaga
<1>2. PICK step \in {"pay", "refund"} :
        /\ Go(s, step) /\ saga[s].step = "reserve"
        /\ UNCHANGED <<stock, charge>>
  BY DEF ReservationFails, Compensate, At, OnlyCommandsFail
<1>3. /\ saga'[s].step = step /\ saga'[s].held = saga[s].held
      /\ saga'[s].paid = saga[s].paid /\ saga'[s].failed = saga[s].failed
      /\ \A t \in Saga \ {s} : saga'[t] = saga[t]
  BY <1>1, <1>2 DEF Go, Progress
<1>4. MoneyAccounted(s)'
  BY <1>1, <1>2, <1>3 DEF MoneyAccounted
<1>5. Owed(s)' = Owed(s)
  BY <1>2, <1>3 DEF Owed, Ended
<1>6. StockAccounted(s)'
  BY <1>1, <1>2, <1>3, <1>5, SameHolds DEF Ended
<1> QED
  BY <1>2, <1>3, <1>4, <1>6, OneSagaAccounts

\* The charge is made and known, or is not made.
LEMMA PayAccounts ==
  ASSUME OnlyCommandsFail, SagaInv, Accounted, NEW s \in Saga,
         Charged(s) \/ ChargedWithoutId(s) \/ PaymentSkipped(s)
  PROVE  Accounted'
<1>1. /\ ServiceTypeOK /\ saga \in [Saga -> Progress] /\ saga[s] \in Progress
      /\ MoneyAccounted(s) /\ StockAccounted(s) /\ ~saga[s].failed
  BY AccountedSaga
<1>2. ~saga[s].paid /\ charge[s] = "none" /\ saga[s].step = "pay"
  <2>1. saga[s].step = "pay"
    BY DEF Charged, ChargedWithoutId, PaymentSkipped, At
  <2> QED
    BY ONLY <1>1, <2>1 DEF MoneyAccounted
<1>3. PICK b \in BOOLEAN, step \in {"recordPayment", "confirm"} :
        /\ saga' = [saga EXCEPT ![s] = [saga[s] EXCEPT !.step = step, !.paid = b]]
        /\ IF b THEN charge'[s] = "captured"
                ELSE charge'[s] \in {"none", "failed"} /\ step = "confirm"
  <2>1. CASE Charged(s)
    BY <1>1, <2>1 DEF Charged, ServiceTypeOK, OnlyCommandsFail
  <2>2. CASE ChargedWithoutId(s)
    BY <2>2 DEF ChargedWithoutId, OnlyCommandsFail
  <2>3. CASE PaymentSkipped(s)
    <3>1. [saga[s] EXCEPT !.step = "confirm"] =
            [saga[s] EXCEPT !.step = "confirm", !.paid = FALSE]
      BY <1>1, <1>2 DEF Progress
    <3>2. charge'[s] \in {"none", "failed"}
      BY <1>1, <1>2, <2>3 DEF PaymentSkipped, ServiceTypeOK, OnlyCommandsFail
    <3>3. saga' = [saga EXCEPT ![s] = [saga[s] EXCEPT !.step = "confirm"]]
      BY <1>1, <2>3 DEF PaymentSkipped, Go
    <3> QED
      BY <3>1, <3>2, <3>3
  <2> QED
    BY <2>1, <2>2, <2>3
<1>4. /\ UNCHANGED stock
      /\ \A t \in Saga \ {s} : charge'[t] = charge[t]
  BY <1>1 DEF Charged, ChargedWithoutId, PaymentSkipped, ServiceTypeOK
<1>5. /\ saga'[s].step = step /\ saga'[s].held = saga[s].held
      /\ saga'[s].paid = b /\ saga'[s].failed = saga[s].failed
      /\ \A t \in Saga \ {s} : saga'[t] = saga[t]
  BY <1>1, <1>3 DEF Progress
<1>6. MoneyAccounted(s)'
  BY <1>3, <1>5 DEF MoneyAccounted
<1>7. Owed(s)' = Owed(s)
  BY <1>2, <1>3, <1>5 DEF Owed, Ended
<1>8. StockAccounted(s)'
  BY <1>1, <1>3, <1>4, <1>5, <1>7, SameHolds DEF Ended
<1> QED
  BY <1>4, <1>5, <1>6, <1>8, OneSagaAccounts

\* A payment the saga knows of was captured, so its refund succeeds.
LEMMA RefundAccounts ==
  ASSUME OnlyCommandsFail, SagaInv, Accounted, NEW s \in Saga,
         Refund(s) \/ RefundFails(s)
  PROVE  Accounted'
<1>1. /\ ServiceTypeOK /\ saga \in [Saga -> Progress] /\ saga[s] \in Progress
      /\ MoneyAccounted(s) /\ StockAccounted(s) /\ ~saga[s].failed
  BY AccountedSaga
<1>2. charge[s] = "captured" /\ saga[s].step = "refund"
  BY <1>1 DEF MoneyAccounted, Refund, RefundFails, At
<1>3. Refund(s)
  BY <1>2 DEF RefundFails, OnlyCommandsFail
<1>4. /\ charge'[s] = "refunded" /\ UNCHANGED stock
      /\ \A t \in Saga \ {s} : charge'[t] = charge[t]
      /\ Go(s, "recordFailure")
  BY <1>1, <1>3 DEF Refund, ServiceTypeOK
<1>5. /\ saga'[s].step = "recordFailure" /\ saga'[s].held = saga[s].held
      /\ saga'[s].failed = saga[s].failed
      /\ \A t \in Saga \ {s} : saga'[t] = saga[t]
  BY <1>1, <1>4 DEF Go, Progress
<1>6. MoneyAccounted(s)'
  BY <1>4, <1>5 DEF MoneyAccounted
<1>7. Owed(s)' = Owed(s)
  BY <1>2, <1>5 DEF Owed, Ended
<1>8. StockAccounted(s)'
  BY <1>1, <1>4, <1>5, <1>7, SameHolds DEF Ended
<1> QED
  BY <1>4, <1>5, <1>6, <1>8, OneSagaAccounts

\* The release loop starts with everything the saga holds.
LEMMA UnpaidAccounts ==
  ASSUME SagaInv, Accounted, NEW s \in Saga,
         NothingToRefund(s) \/ RecordFailure(s)
  PROVE  Accounted'
<1>1. /\ saga \in [Saga -> Progress] /\ saga[s] \in Progress
      /\ MoneyAccounted(s) /\ StockAccounted(s) /\ ~saga[s].failed
  BY AccountedSaga
<1>2. /\ saga' = [saga EXCEPT ![s] = [saga[s] EXCEPT !.step = "release",
                                                     !.left = Len(saga[s].held)]]
      /\ saga[s].step \in {"refund", "recordFailure"}
      /\ saga[s].step = "refund" => ~saga[s].paid
      /\ UNCHANGED serviceVars
  BY <1>1 DEF NothingToRefund, RecordFailure, At
<1>3. /\ saga'[s].step = "release" /\ saga'[s].held = saga[s].held
      /\ saga'[s].left = Len(saga[s].held) /\ saga'[s].failed = saga[s].failed
      /\ \A t \in Saga \ {s} : saga'[t] = saga[t]
  BY <1>1, <1>2 DEF Progress
<1>4. MoneyAccounted(s)'
  BY <1>1, <1>2, <1>3 DEF MoneyAccounted, serviceVars
<1>5. Owed(s)' = Owed(s)
  BY <1>2, <1>3 DEF Owed, Ended
<1>6. StockAccounted(s)'
  BY <1>1, <1>2, <1>3, <1>5, SameHolds DEF serviceVars, Ended
<1> QED
  BY <1>2, <1>3, <1>4, <1>6, OneSagaAccounts DEF serviceVars

\* The newest hold is given back, and one less is owed.
LEMMA ReleaseAccounts ==
  ASSUME OnlyCommandsFail, SagaInv, Accounted, NEW s \in Saga,
         Release(s) \/ ReleaseFails(s)
  PROVE  Accounted'
<1>1. /\ ServiceTypeOK /\ saga \in [Saga -> Progress] /\ saga[s] \in Progress
      /\ saga[s].held \in Seq(Item) /\ Len(saga[s].held) \in Nat
      /\ ReleasedSoFar(s) /\ MoneyAccounted(s) /\ StockAccounted(s)
      /\ ~saga[s].failed
  BY AccountedSaga
<1> DEFINE n == saga[s].left
           i == saga[s].held[n]
<1>2. /\ saga[s].step = "release" /\ n \in Nat \ {0} /\ n <= Len(saga[s].held)
      /\ UNCHANGED charge /\ i \in Item
      /\ stock' = [stock EXCEPT ![s][i] = "released"]
      /\ saga' = [saga EXCEPT ![s] = [saga[s] EXCEPT !.left = @ - 1,
                                                     !.released = @ + 1]]
  <2>1. Release(s)
    BY DEF ReleaseFails, OnlyCommandsFail
  <2>2. n \in Nat /\ n <= Len(saga[s].held)
    BY <1>1 DEF ReleasedSoFar, Progress
  <2>3. saga[s].step = "release" /\ n > 0 /\ UNCHANGED charge
    BY <2>1 DEF Release, At
  <2>4. i \in Item
    BY <1>1, <2>2, <2>3
  <2>5. stock' = [stock EXCEPT ![s][i] = "released"]
    BY <2>1 DEF Release
  <2>6. saga' = [saga EXCEPT ![s].left = @ - 1, ![s].released = @ + 1]
    BY <2>1 DEF Release
  <2>7. saga' = [saga EXCEPT ![s] = [saga[s] EXCEPT !.left = @ - 1,
                                                    !.released = @ + 1]]
    BY <1>1, <2>6
  <2> QED
    BY <2>2, <2>3, <2>4, <2>5, <2>7
<1>3. /\ saga'[s].step = "release" /\ saga'[s].held = saga[s].held
      /\ saga'[s].left = n - 1 /\ saga'[s].paid = saga[s].paid
      /\ saga'[s].failed = saga[s].failed
      /\ \A t \in Saga \ {s} : saga'[t] = saga[t]
  <2> DEFINE p == [saga[s] EXCEPT !.left = @ - 1, !.released = @ + 1]
  <2>1. /\ p.step = saga[s].step /\ p.held = saga[s].held /\ p.left = n - 1
        /\ p.paid = saga[s].paid /\ p.failed = saga[s].failed
    BY <1>1 DEF Progress
  <2>2. saga' = [saga EXCEPT ![s] = p]
    BY <1>2
  <2> HIDE DEF p
  <2> QED
    BY <1>1, <1>2, <2>1, <2>2
<1>4. /\ stock'[s][i] = "released"
      /\ \A j \in Item \ {i} : stock'[s][j] = stock[s][j]
      /\ \A t \in Saga \ {s} : stock'[t] = stock[t]
  BY <1>1, <1>2 DEF ServiceTypeOK
<1>5. MoneyAccounted(s)'
  BY <1>1, <1>2, <1>3 DEF MoneyAccounted
<1>6. Owed(s) = n /\ Owed(s)' = n - 1
  BY <1>2, <1>3 DEF Owed
<1>7. ASSUME NEW j \in Item, stock'[s][j] = "held"
      PROVE  \E k \in 1..Owed(s)' : saga'[s].held[k] = j
  <2>1. j # i /\ stock[s][j] = "held"
    BY <1>4, <1>7
  <2>2. PICK k \in 1..n : saga[s].held[k] = j
    BY <1>1, <1>6, <2>1 DEF StockAccounted
  <2>3. k \in 1..(n - 1)
    BY <1>2, <2>1, <2>2
  <2> QED
    BY <1>3, <1>6, <2>2, <2>3
<1>8. StockAccounted(s)'
  BY <1>1, <1>3, <1>7 DEF StockAccounted, Ended
<1> QED
  BY <1>2, <1>3, <1>4, <1>5, <1>8, OneSagaAccounts

\* A release is recorded on the order: the services are left alone.
LEMMA RecordReleaseAccounts ==
  ASSUME OnlyCommandsFail, SagaInv, Accounted, NEW s \in Saga, RecordRelease(s)
  PROVE  Accounted'
<1>1. /\ saga \in [Saga -> Progress] /\ saga[s] \in Progress
      /\ MoneyAccounted(s) /\ StockAccounted(s) /\ ~saga[s].failed
  BY AccountedSaga
<1>2. /\ saga' = [saga EXCEPT ![s] = [saga[s] EXCEPT !.released = @ - 1]]
      /\ saga[s].step = "recordRelease" /\ UNCHANGED serviceVars
  BY <1>1 DEF RecordRelease, At, OnlyCommandsFail
<1>3. /\ saga'[s].step = saga[s].step /\ saga'[s].held = saga[s].held
      /\ saga'[s].left = saga[s].left /\ saga'[s].failed = saga[s].failed
      /\ saga'[s].paid = saga[s].paid
      /\ \A t \in Saga \ {s} : saga'[t] = saga[t]
  BY <1>1, <1>2 DEF Progress
<1>4. MoneyAccounted(s)'
  BY <1>1, <1>2, <1>3 DEF MoneyAccounted, serviceVars
<1>5. Owed(s)' = Owed(s)
  BY <1>2, <1>3 DEF Owed
<1>6. StockAccounted(s)'
  BY <1>1, <1>2, <1>3, <1>5, SameHolds DEF serviceVars, Ended
<1> QED
  BY <1>2, <1>3, <1>4, <1>6, OneSagaAccounts DEF serviceVars

\* Every step of the system keeps everything accounted for.
LEMMA NextAccounts ==
  ASSUME OnlyCommandsFail, SagaInv, Accounted, [SagaNext]_sagaVars
  PROVE  Accounted'
<1>1. ASSUME NEW s \in Saga, SagaStep(s)
      PROVE  Accounted'
  <2>1. ~UnwindFails(s)
    BY DEF UnwindFails, OnlyCommandsFail
  <2> QED
    BY <1>1, <2>1, MovingOnAccounts, ReservedAccounts, ReservationFailsAccounts,
       PayAccounts, RefundAccounts, UnpaidAccounts, ReleaseAccounts,
       RecordReleaseAccounts DEF SagaStep
<1>2. ASSUME NEW s \in Saga, Crash(s) \/ CustomerPays(s)
      PROVE  Accounted'
  <2>1. charge[s] # "processing"
    BY AccountedSaga
  <2> QED
    BY <1>2, <2>1 DEF Crash, CustomerPays, OnlyCommandsFail
<1>3. ASSUME UNCHANGED <<saga, stock, charge>>
      PROVE  Accounted'
  <2> SUFFICES ASSUME NEW s \in Saga
               PROVE  MoneyAccounted(s)' /\ StockAccounted(s)'
    BY DEF Accounted
  <2>1. MoneyAccounted(s) /\ StockAccounted(s) /\ Owed(s)' = Owed(s)
    BY <1>3 DEF Accounted, Owed
  <2>2. MoneyAccounted(s)'
    BY <1>3, <2>1 DEF MoneyAccounted
  <2>3. StockAccounted(s)'
    BY <1>3, <2>1 DEF StockAccounted
  <2> QED
    BY <2>2, <2>3
<1>4. ClientCommand \/ (\E m \in mail : PaymentEvent(m)) \/ UNCHANGED sagaVars
        => UNCHANGED <<saga, stock, charge>>
  BY DEF ClientCommand, PaymentEvent, sagaVars, serviceVars
<1> QED
  BY <1>1, <1>2, <1>3, <1>4, StartAccounts DEF SagaNext

\* OrderSaga.Execute and compensate: when answers are not lost and the calls of
\* the compensation succeed, a saga that ends without confirming the order has
\* left neither money nor stock behind, whatever it raced with.
THEOREM NothingIsStranded ==
  ASSUME OnlyCommandsFail
  PROVE  SagaSpec => []NothingStranded
<1>1. SagaInit => Accounted
  <2> SUFFICES ASSUME SagaInit, NEW s \in Saga
               PROVE  MoneyAccounted(s) /\ StockAccounted(s)
    BY DEF Accounted
  <2>1. /\ saga[s] = Unstarted /\ charge[s] = "none"
        /\ \A i \in Item : stock[s][i] = "none"
    BY DEF SagaInit
  <2> QED
    BY <2>1 DEF MoneyAccounted, StockAccounted, Unstarted, Ended
<1>2. SagaInv /\ Accounted /\ [SagaNext]_sagaVars => Accounted'
  BY NextAccounts
<1>3. SagaInv /\ Accounted => NothingStranded
  <2> SUFFICES ASSUME SagaInv, Accounted, NEW s \in Saga,
                      saga[s].step \in Ended \ {"done"}
               PROVE  /\ charge[s] # "captured"
                      /\ \A i \in Item : stock[s][i] # "held"
    BY DEF NothingStranded
  <2>1. MoneyAccounted(s) /\ StockAccounted(s)
    BY DEF Accounted
  <2>2. Owed(s) = 0
    BY <2>1 DEF StockAccounted, Owed
  <2> QED
    BY <2>1, <2>2 DEF MoneyAccounted, StockAccounted, Ended
<1> QED
  BY <1>1, <1>2, <1>3, SagaInvariant, PTL DEF SagaSpec

=============================================================================
