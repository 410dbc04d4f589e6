----------------------------- MODULE PointOfSale -----------------------------
(***************************************************************************)
(* The counter of the admin area (admin/sales/new): the cashier builds a   *)
(* list of lines, takes the money and "Create sale" drives the order       *)
(* service with one request after the other.  The service answers, refuses *)
(* or does the work and loses the answer; the cashier may go on editing    *)
(* the screen while the requests run.                                      *)
(***************************************************************************)
EXTENDS Integers, Sequences, FiniteSets

CONSTANTS PosKeys,      \* product-variant keys that can be rung up
          PosStock,       \* [PosKeys -> quantity in stock, or NoLimit]
          NoLimit,        \* no stock is known
          PosListPrice,   \* [PosKeys -> price in the catalogue]
          PosPrices,      \* unit prices the cashier can type
          PosDiscounts,   \* discounts: [mode : {"fixed","percent"}, value : Nat]
          PosReceived,    \* amounts of cash that can be typed
          MaxQty,         \* bound: quantity of a line
          MaxPosOrders    \* bound: orders created at the service

ASSUME PosAssumption ==
    /\ PosStock \in [PosKeys -> Nat \cup {NoLimit}]
    /\ PosListPrice \in [PosKeys -> Nat] /\ PosPrices \subseteq Nat
    /\ PosReceived \subseteq Nat /\ 0 \in PosReceived
    /\ MaxQty \in Nat /\ MaxPosOrders \in Nat

VARIABLES items,     \* the lines on the screen, in the order they were added
          till,      \* [discount, method, received] as typed
          job,       \* the running handleCreate: its step and what it closed over
          receipt,   \* the completed sale on the screen, or NoReceipt
          posOrders  \* the order service's orders: [lines, confirmed]

posVars == <<items, till, job, receipt, posOrders>>

NoReceipt == [order |-> 0]
NoJob == [step |-> "none"]

SaleLine(k, p, q) == [key |-> k, price |-> p, qty |-> q]
SaleLines == [key : PosKeys, price : Nat, qty : Nat]

(* Prices are summed the way useMemo does: over the lines, price by qty.   *)
SaleSubtotal[s \in Seq(SaleLines)] ==
    IF s = <<>> THEN 0 ELSE Head(s).price * Head(s).qty + SaleSubtotal[Tail(s)]

Lesser(a, b) == IF a < b THEN a ELSE b

(* A discount never exceeds what it is taken from.                         *)
SaleDiscount(d, sub) ==
    Lesser(sub, IF d.mode = "percent" THEN (sub * d.value) \div 100 ELSE d.value)

SaleTotal(s, d) == SaleSubtotal[s] - SaleDiscount(d, SaleSubtotal[s])

FreshTill(d) == [discount |-> [d EXCEPT !.value = 0], method |-> "cash",
                 received |-> 0]

PosInit ==
    /\ items = <<>>
    /\ till = FreshTill([mode |-> "fixed", value |-> 0])
    /\ job = NoJob /\ receipt = NoReceipt
    /\ posOrders = <<>>

-----------------------------------------------------------------------------
(* The sale form is on the screen until a receipt replaces it.             *)
Selling == receipt = NoReceipt

(* Bound: while the requests of a sale run, the screen is edited once.     *)
SaleEdited == job # NoJob /\ <<items, till>> # <<job.lines, job.till>>
SaleEditable == Selling /\ ~SaleEdited

RungUp(s) == {s[i].key : i \in DOMAIN s}

(* A key is rung up once, so filtering it out takes one line away.         *)
WithoutLine(k) ==
    LET at == CHOOSE i \in DOMAIN items : items[i].key = k
    IN  [i \in 1 .. Len(items) - 1 |-> items[IF i < at THEN i ELSE i + 1]]

AddProduct(k) ==
    /\ SaleEditable
    /\ IF k \notin RungUp(items)
       THEN items' = Append(items, SaleLine(k, PosListPrice[k], 1))
       ELSE items' = [i \in DOMAIN items |->
              IF items[i].key = k
                 /\ ~(PosStock[k] # NoLimit /\ items[i].qty >= PosStock[k])
                 /\ items[i].qty < MaxQty
              THEN [items[i] EXCEPT !.qty = @ + 1] ELSE items[i]]
    /\ UNCHANGED <<till, job, receipt, posOrders>>

UpdateQty(k, q) ==
    /\ SaleEditable /\ k \in RungUp(items)
    /\ items' = IF q <= 0 THEN WithoutLine(k)
                ELSE [i \in DOMAIN items |->
                       IF items[i].key # k THEN items[i]
                       ELSE [items[i] EXCEPT !.qty =
                              IF PosStock[k] # NoLimit THEN Lesser(q, PosStock[k]) ELSE q]]
    /\ UNCHANGED <<till, job, receipt, posOrders>>

UpdatePrice(k, p) ==
    /\ SaleEditable /\ k \in RungUp(items)
    /\ items' = [i \in DOMAIN items |->
          IF items[i].key = k THEN [items[i] EXCEPT !.price = p] ELSE items[i]]
    /\ UNCHANGED <<till, job, receipt, posOrders>>

RemoveLine(k) ==
    /\ SaleEditable /\ k \in RungUp(items)
    /\ items' = WithoutLine(k)
    /\ UNCHANGED <<till, job, receipt, posOrders>>

(* Discount, payment method and cash are plain inputs.                     *)
TypeDiscount(d) == SaleEditable /\ till' = [till EXCEPT !.discount = d]
PickMethod(m) == SaleEditable /\ till' = [till EXCEPT !.method = m]
TypeReceived(a) ==
    SaleEditable /\ till.method = "cash" /\ till' = [till EXCEPT !.received = a]

TypeInTill ==
    /\ \/ \E d \in PosDiscounts : TypeDiscount(d)
       \/ \E m \in {"cash", "card"} : PickMethod(m)
       \/ \E a \in PosReceived : TypeReceived(a)
    /\ UNCHANGED <<items, job, receipt, posOrders>>

-----------------------------------------------------------------------------
CanSell ==
    /\ items # <<>>
    /\ job = NoJob
    /\ till.method = "cash" => till.received >= SaleTotal(items, till.discount)

(* handleCreate works on the lines and the till of the render it was       *)
(* clicked in; what is typed afterwards is not seen by it.                 *)
StartSale ==
    /\ Selling /\ CanSell
    /\ job' = [step |-> "create", lines |-> items, till |-> till, order |-> 0, sent |-> 0]
    /\ UNCHANGED <<items, till, receipt, posOrders>>

SaleFails == job' = NoJob /\ UNCHANGED receipt

(* orderApi.create: an error, or an answer that is lost after the service  *)
(* did its work, ends in the catch block, which leaves the form as it is.  *)
CreateSale(answered) ==
    /\ job.step = "create" /\ Len(posOrders) < MaxPosOrders
    /\ posOrders' = Append(posOrders, [lines |-> <<>>, confirmed |-> FALSE])
    /\ IF answered
       THEN job' = [job EXCEPT !.step = "add", !.order = Len(posOrders) + 1]
            /\ UNCHANGED receipt
       ELSE SaleFails
    /\ UNCHANGED <<items, till>>

(* One addItem after the other, each awaited before the next.              *)
SendLine(answered) ==
    /\ job.step = "add" /\ job.sent < Len(job.lines)
    /\ posOrders' = [posOrders EXCEPT ![job.order].lines =
                       Append(@, job.lines[job.sent + 1])]
    /\ IF answered
       THEN job' = [job EXCEPT !.sent = @ + 1] /\ UNCHANGED receipt
       ELSE SaleFails
    /\ UNCHANGED <<items, till>>

SaleRefused ==
    /\ job.step = "create" \/ (job.step = "add" /\ job.sent < Len(job.lines))
    /\ SaleFails
    /\ UNCHANGED <<items, till, posOrders>>

(* Mutant: the receipt is built from what the screen shows by then.        *)
ReceiptOfTheScreen ==
    /\ receipt' = [order |-> job.order, lines |-> items,
                   total |-> SaleTotal(items, till.discount),
                   method |-> till.method, received |-> till.received]
    /\ job' = NoJob

(* confirm's failure is swallowed: the receipt is shown either way, built  *)
(* from the closed-over lines and not from the service's order.            *)
ShowReceipt ==
    /\ receipt' = [order |-> job.order, lines |-> job.lines,
                   total |-> SaleTotal(job.lines, job.till.discount),
                   method |-> job.till.method, received |-> job.till.received]
    /\ job' = NoJob

ConfirmSale(reached) ==
    /\ job.step = "add" /\ job.sent = Len(job.lines)
    /\ posOrders' = IF reached THEN [posOrders EXCEPT ![job.order].confirmed = TRUE]
                    ELSE posOrders
    /\ ShowReceipt
    /\ UNCHANGED <<items, till>>

-----------------------------------------------------------------------------
(* "New sale" empties the form but keeps the discount's mode.              *)
ResetForNextSale ==
    /\ ~Selling
    /\ items' = <<>> /\ till' = FreshTill(till.discount)
    /\ receipt' = NoReceipt
    /\ UNCHANGED <<job, posOrders>>

PosNext ==
    \/ \E k \in PosKeys : AddProduct(k) \/ RemoveLine(k)
    \/ \E k \in PosKeys, q \in 0 .. MaxQty : UpdateQty(k, q)
    \/ \E k \in PosKeys, p \in PosPrices : UpdatePrice(k, p)
    \/ TypeInTill
    \/ StartSale
    \/ \E answered \in BOOLEAN : CreateSale(answered) \/ SendLine(answered)
    \/ SaleRefused
    \/ \E reached \in BOOLEAN : ConfirmSale(reached)
    \/ ResetForNextSale

-----------------------------------------------------------------------------
(* The printed receipt lists exactly the lines the order service holds for *)
(* the order it names, although it is built from the screen's state and    *)
(* the cashier may edit the screen while handleCreate runs.                *)
ReceiptIsTheOrder ==
    receipt # NoReceipt => posOrders[receipt.order].lines = receipt.lines

(* An order of the counter that is confirmed holds every line of a sale    *)
(* whose receipt was shown: no attempt that failed half way is confirmed,  *)
(* so the order a retry leaves behind is never fulfilled as well.          *)
OnlyWholeSalesConfirmed ==
    /\ \A o \in DOMAIN posOrders : posOrders[o].confirmed => posOrders[o].lines # <<>>
    /\ job.step = "add" => ~posOrders[job.order].confirmed

(* Receipts and orders tell the same story of every sale.                  *)
SalesAreWhole == ReceiptIsTheOrder /\ OnlyWholeSalesConfirmed
=============================================================================
