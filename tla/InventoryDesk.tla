----------------------------- MODULE InventoryDesk -----------------------------
(***************************************************************************)
(* Stock in the admin area (admin/inventory): the table of items, the      *)
(* dialog that adjusts one, the dialogs that add a warehouse and an item.  *)
(* The inventory service reads a quantity, adds to it and writes the       *)
(* result, with nothing between two requests to keep them apart.           *)
(* Items are told apart by their product: all are in one warehouse.        *)
(***************************************************************************)
EXTENDS Integers, Sequences, FiniteSets

CONSTANTS Goods,        \* products that may be stocked
          StartStock,   \* the quantity of those that are stocked at first
          Adjustments,  \* quantities typed into the dialog
          ReorderPoint, \* at and below it an item is low on stock
          MaxSkCalls,   \* bound: calls in flight
          MaxSkUses     \* bound: what administrators and customers do

ASSUME StockAssumption ==
    /\ DOMAIN StartStock \subseteq Goods /\ IsFiniteSet(DOMAIN StartStock)
    /\ StartStock \in [DOMAIN StartStock -> Nat]
    /\ Adjustments \subseteq Nat \ {0} /\ ReorderPoint \in Nat
    /\ MaxSkCalls \in Nat /\ MaxSkUses \in Nat

VARIABLES stock,     \* the service: [onHand, movements, depots, serial]
          stockPage, \* the page, from the moment it opens
          stockCalls,\* calls in flight: [op, of, by, step, found]
          stockUses  \* counts towards MaxSkUses

stockVars == <<stock, stockPage, stockCalls, stockUses>>

NoGood == "none"
StockDepots == {"old", "new"}

(* The page asks for items, warehouses and products at once and shows      *)
(* nothing until all three answered.                                       *)
StockCall(op, of, by) == [op |-> op, of |-> of, by |-> by, step |-> "sent", found |-> <<>>]
LoadInventory == {StockCall("items", NoGood, 0), StockCall("depots", NoGood, 0)}

StockInit ==
    /\ stock = [onHand |-> StartStock, movements |-> StartStock,
                depots |-> {"old"}, serial |-> TRUE]
    /\ stockPage = [loading |-> TRUE, rows |-> <<>>, depots |-> <<>>, products |-> FALSE,
                    arrived |-> {}, filter |-> "", adjust |-> NoGood, quantity |-> 0, busy |-> {},
                    dialog |-> "none", pick |-> NoGood]
    /\ stockCalls = LoadInventory /\ stockUses = 0

SkUsed == stockUses < MaxSkUses /\ stockUses' = stockUses + 1
AtStockPage == SkUsed /\ UNCHANGED <<stock, stockCalls>>

(* allSettled: the answers are taken together, when the last one is there; *)
(* those that failed leave what the page has.                              *)
Settle(page) ==
    IF {a.op : a \in page.arrived} # {"items", "depots"} THEN page
    ELSE LET ok(op) == {a \in page.arrived : a.op = op /\ a.step = "served"}
         IN  [page EXCEPT !.loading = FALSE, !.arrived = {}, !.products = TRUE,
                !.rows = IF ok("items") = {} THEN @ ELSE (CHOOSE a \in ok("items") : TRUE).found,
                !.depots = IF ok("depots") = {} THEN @ ELSE (CHOOSE a \in ok("depots") : TRUE).found]

-----------------------------------------------------------------------------
(* The table: one row per item and its status.                             *)
StockStatus(row) ==
    CASE row.onHand <= 0 -> "out_of_stock"
      [] row.onHand > 0 /\ row.onHand <= ReorderPoint -> "low_stock"
      [] OTHER -> "in_stock"

StockRows ==
    IF stockPage.loading THEN {}
    ELSE {i \in DOMAIN stockPage.rows : stockPage.filter \in {"", StockStatus(stockPage.rows[i])}}

FilterStock(status) ==
    /\ AtStockPage /\ stockPage.filter # status
    /\ stockPage' = [stockPage EXCEPT !.filter = status]

OpenAdjust(i) ==
    /\ i \in StockRows /\ stockPage.adjust = NoGood /\ AtStockPage
    /\ stockPage' = [stockPage EXCEPT !.adjust = stockPage.rows[i].good, !.quantity = 0]

CloseAdjust ==
    /\ stockPage.adjust # NoGood /\ stockPage' = [stockPage EXCEPT !.adjust = NoGood]
    /\ UNCHANGED <<stock, stockCalls, stockUses>>

TypeQuantity(n) ==
    /\ stockPage.adjust # NoGood /\ stockPage.quantity # n /\ AtStockPage
    /\ stockPage' = [stockPage EXCEPT !.quantity = n]

SkCalling(call) ==
    /\ Cardinality(stockCalls) < MaxSkCalls /\ call \notin stockCalls
    /\ stockCalls' = stockCalls \cup {call}

(* handleAdjust: the buttons wait for the answer, the dialog need not.     *)
HandleAdjust(sign) ==
    /\ stockPage.adjust # NoGood /\ stockPage.quantity > 0 /\ "adjust" \notin stockPage.busy
    /\ SkUsed /\ SkCalling(StockCall("adjust", stockPage.adjust, sign * stockPage.quantity))
    /\ stockPage' = [stockPage EXCEPT !.busy = @ \cup {"adjust"}]
    /\ UNCHANGED stock

-----------------------------------------------------------------------------
(* Adding a warehouse is possible from the start, adding an item once the  *)
(* page knows a warehouse; the products to pick from come with the items.  *)
(* A product list that failed offers nothing, which is picking nothing.    *)
OpenAddWarehouse ==
    /\ stockPage.dialog = "none" /\ AtStockPage
    /\ stockPage' = [stockPage EXCEPT !.dialog = "depot"]

OpenAddItem ==
    /\ stockPage.dialog = "none" /\ stockPage.depots # <<>> /\ AtStockPage
    /\ stockPage' = [stockPage EXCEPT !.dialog = "item"]

CloseStockDialog ==
    /\ stockPage.dialog # "none" /\ stockPage' = [stockPage EXCEPT !.dialog = "none"]
    /\ UNCHANGED <<stock, stockCalls, stockUses>>

ProductOptions == IF stockPage.products THEN Goods ELSE {}
OnProductSelect(g) ==
    /\ stockPage.dialog = "item" /\ g \in ProductOptions /\ AtStockPage
    /\ stockPage' = [stockPage EXCEPT !.pick = g]

WarehouseForm == stockPage.dialog = "depot"
HandleAddWarehouse ==
    /\ WarehouseForm /\ "depot" \notin stockPage.busy
    /\ SkUsed /\ SkCalling(StockCall("add depot", "new", 0))
    /\ stockPage' = [stockPage EXCEPT !.busy = @ \cup {"depot"}]
    /\ UNCHANGED stock

HandleAddItem ==
    /\ stockPage.dialog = "item" /\ stockPage.pick # NoGood /\ "item" \notin stockPage.busy
    /\ SkUsed /\ SkCalling(StockCall("add item", stockPage.pick, 1))
    /\ stockPage' = [stockPage EXCEPT !.busy = @ \cup {"item"}]
    /\ UNCHANGED stock

(* An order that reserved one, when there were more than were reserved, is *)
(* fulfilled meanwhile: one is taken off the shelf.                        *)
SaleElsewhere(g) ==
    /\ SkUsed /\ g \in DOMAIN stock.onHand /\ SkCalling(StockCall("sale", g, -1))
    /\ Cardinality({d \in stockCalls : d.op = "sale" /\ d.of = g}) < stock.onHand[g]
    /\ UNCHANGED <<stock, stockPage>>

-----------------------------------------------------------------------------
StepTo(c, step, found) ==
    /\ stockCalls' = (stockCalls \ {c}) \cup {[c EXCEPT !.step = step, !.found = found]}
    /\ UNCHANGED <<stockPage, stockUses>>

InSomeOrder(S) == {s \in [1..Cardinality(S) -> S] : \A x \in S : \E i \in DOMAIN s : s[i] = x}
RowsOf(onHand) == {[good |-> g, onHand |-> onHand[g]] : g \in DOMAIN onHand}

ServeLists(c) ==
    /\ c.step = "sent" /\ UNCHANGED stock
    /\ \/ c.op = "items" /\ StepTo(c, "served", CHOOSE s \in InSomeOrder(RowsOf(stock.onHand)) : TRUE)
       \/ c.op = "depots" /\ StepTo(c, "served", CHOOSE s \in InSomeOrder(stock.depots) : TRUE)

(* Mutant: a product can be added to a warehouse again.                    *)
ServeAdditionsTwice(c) ==
    /\ c.step = "sent" /\ c.op = "add item"
    /\ stock' = [stock EXCEPT
          !.onHand = [g \in DOMAIN @ \cup {c.of} |-> IF g = c.of THEN c.by ELSE @[g]],
          !.movements = [g \in DOMAIN @ \cup {c.of} |-> IF g = c.of THEN c.by ELSE @[g]]]
    /\ StepTo(c, "served", <<[good |-> c.of, onHand |-> c.by]>>)

(* A warehouse code is used once, and a product once in a warehouse.       *)
ServeAdditions(c) ==
    /\ c.step = "sent"
    /\ \/ /\ c.op = "add depot" /\ c.of \notin stock.depots
          /\ stock' = [stock EXCEPT !.depots = @ \cup {c.of}]
          /\ StepTo(c, "served", <<>>)
       \/ /\ c.op = "add item" /\ c.of \notin DOMAIN stock.onHand
          /\ stock' = [stock EXCEPT
                !.onHand = [g \in DOMAIN @ \cup {c.of} |-> IF g = c.of THEN c.by ELSE @[g]],
                !.movements = [g \in DOMAIN @ \cup {c.of} |-> IF g = c.of THEN c.by ELSE @[g]]]
          /\ StepTo(c, "served", <<[good |-> c.of, onHand |-> c.by]>>)

(* An adjustment and a sale read the row ...                               *)
Reading(g) == {d \in stockCalls : d.of = g /\ d.step = "read"}
ReadStock(c) ==
    /\ c.op \in {"adjust", "sale"} /\ c.step = "sent" /\ c.of \in DOMAIN stock.onHand
    /\ stock' = [stock EXCEPT !.serial = @ /\ Reading(c.of) = {}]
    /\ StepTo(c, "read", <<[good |-> c.of, onHand |-> stock.onHand[c.of]]>>)

(* Mutant: the quantity typed is taken for the new quantity.               *)
TypedTotal(c) == c.by

(* ... and write it with the sum, and then the movement; the service may   *)
(* stop between the two.  An adjustment asks whether the sum is negative,  *)
(* a sale does not: what it reserved may have been adjusted away.          *)
Total(c) == c.found[1].onHand + c.by
WriteStock(c, noted) ==
    /\ c.step = "read" /\ (c.op = "adjust" => Total(c) >= 0)
    /\ stock' = [stock EXCEPT !.onHand[c.of] = Total(c),
                              !.movements[c.of] = IF noted THEN @ + c.by ELSE @,
                              !.serial = @ /\ noted]
    /\ StepTo(c, IF noted THEN "served" ELSE "failed", <<[good |-> c.of, onHand |-> Total(c)]>>)

-----------------------------------------------------------------------------
ReplaceRow(rows, new) == [i \in DOMAIN rows |-> IF rows[i].good = new.good THEN new ELSE rows[i]]

(* What each answer does to the page; an answered adjustment closes        *)
(* whatever dialog is open by then and empties its quantity.               *)
StockAnswered(c) ==
    /\ c.step = "served" /\ stockCalls' = stockCalls \ {c} /\ UNCHANGED <<stock, stockUses>>
    /\ stockPage' =
          CASE c.op \in {"items", "depots"} -> Settle([stockPage EXCEPT !.arrived = @ \cup {c}])
            [] c.op = "adjust" -> [stockPage EXCEPT !.rows = ReplaceRow(@, c.found[1]), !.busy = @ \ {"adjust"},
                                                    !.adjust = NoGood, !.quantity = 0]
            [] c.op = "add depot" -> [stockPage EXCEPT !.depots = Append(@, c.of), !.busy = @ \ {"depot"},
                                                       !.dialog = IF @ = "depot" THEN "none" ELSE @]
            [] c.op = "add item" -> [stockPage EXCEPT !.rows = Append(@, c.found[1]), !.busy = @ \ {"item"},
                                                      !.pick = NoGood, !.dialog = IF @ = "item" THEN "none" ELSE @]
            [] OTHER -> stockPage

(* A call fails at any point.  A failed adjustment is not even reported:   *)
(* its dialog stays as it was, ready to send the same again.               *)
StockFails(c) ==
    /\ stockCalls' = stockCalls \ {c} /\ UNCHANGED <<stock, stockUses>>
    /\ stockPage' =
          CASE c.op \in {"items", "depots"} ->
                    Settle([stockPage EXCEPT !.arrived = @ \cup {[c EXCEPT !.step = "failed", !.found = <<>>]}])
            [] c.op = "sale" -> stockPage
            [] OTHER -> [stockPage EXCEPT !.busy = @ \ {IF c.op = "adjust" THEN "adjust"
                                                        ELSE IF c.op = "add depot" THEN "depot" ELSE "item"}]

StockNext ==
    \/ CloseAdjust \/ OpenAddWarehouse \/ OpenAddItem \/ CloseStockDialog
    \/ HandleAddWarehouse \/ HandleAddItem
    \/ \E s \in {"", "out_of_stock", "low_stock", "in_stock"} : FilterStock(s)
    \/ \E i \in DOMAIN stockPage.rows : OpenAdjust(i)
    \/ \E n \in Adjustments : TypeQuantity(n)
    \/ \E sign \in {-1, 1} : HandleAdjust(sign)
    \/ \E g \in Goods : OnProductSelect(g) \/ SaleElsewhere(g)
    \/ \E c \in stockCalls :
          \/ ServeLists(c) \/ ServeAdditions(c) \/ ReadStock(c)
          \/ \E noted \in BOOLEAN : WriteStock(c, noted)
          \/ StockAnswered(c) \/ StockFails(c)

-----------------------------------------------------------------------------
(* An item has one row in the table, whichever of the first lists and the  *)
(* answers to additions comes first.                                       *)
OneRowPerItem ==
    \A i, j \in DOMAIN stockPage.rows : stockPage.rows[i].good = stockPage.rows[j].good => i = j

(* As long as no two requests were inside the service with the same item   *)
(* at once and none stopped half-way, what is on hand is what the recorded *)
(* movements add up to.                                                    *)
SerialStockAddsUp == stock.serial => stock.onHand = stock.movements
=============================================================================
