---------------------------- MODULE ShoppingCart ----------------------------
(***************************************************************************)
(* The shop's cart (stores/cart.ts) against the cart service.  The store   *)
(* changes its items at once and sends the change; requests are served in  *)
(* any order, and every answer replaces the items by the cart it carries.  *)
(* Only the answer of a fetch is dropped when the items changed meanwhile. *)
(***************************************************************************)
EXTENDS Integers, Sequences, FiniteSets

CONSTANTS Products,  \* product ids
          Variants,  \* [Products -> set of variants that can be put in the cart]
          NoVariant, \* variantId undefined
          NoId,      \* backendId undefined
          MaxCartQty,    \* bound: quantity of a line
          MaxMutations,  \* bound: changes the shopper makes
          MaxCalls       \* bound: requests sent

ASSUME CartAssumption ==
    /\ IsFiniteSet(Products)
    /\ \A p \in Products : NoVariant \in Variants[p]
    /\ NoId \notin 1 .. MaxCalls
    /\ MaxCartQty \in Nat /\ MaxMutations \in Nat /\ MaxCalls \in Nat

VARIABLES cart,      \* the items on the screen: [product, variant, qty, backendId]
          mutationVersion, \* _mutationVersion
          signedIn,  \* there is a user and a session marker
          server,    \* the user's cart at the service: [id, product, qty]
          calls,     \* every request made, in order, with its stage and answer
          wanted,    \* history: units of each product a calm shopper asked for
          calm       \* history: no request overlapped another change or failed

cartVars == <<cart, mutationVersion, signedIn, server, calls, wanted, calm>>

CartLines == UNION {{[product |-> p, variant |-> v] : v \in Variants[p]} : p \in Products}

NoneWanted == [p \in Products |-> 0]

CartInit ==
    /\ cart = {} /\ mutationVersion = 0 /\ signedIn = FALSE
    /\ server = {} /\ calls = <<>>
    /\ wanted = NoneWanted /\ calm = TRUE

Over == [stage |-> "done"]
CallsRunning == {c \in DOMAIN calls : calls[c].stage # "done"}
CartQuiet == CallsRunning = {}

LinesAt(l) == {i \in cart : i.product = l.product /\ i.variant = l.variant}

(* Mutant: the id that the service gave a line is dropped.                 *)
FromBackendWithoutId(items) ==
    {[product |-> i.product, variant |-> NoVariant, qty |-> i.qty, backendId |-> NoId] : i \in items}

(* fromBackendItem: the variant is not part of the service's answer.       *)
FromBackend(items) ==
    {[product |-> i.product, variant |-> NoVariant, qty |-> i.qty, backendId |-> i.id] : i \in items}

(* The sum of the quantities, counted unit by unit.                        *)
UnitsOf(items) == UNION {{i} \X (1 .. i.qty) : i \in items}
Units(items) == Cardinality(UnitsOf(items))
UnitsIn(items, p) == Units({i \in items : i.product = p})

(* A request is made only by a signed-in shopper.                          *)
SendCall(kind, args) ==
    /\ Len(calls) < MaxCalls
    /\ calls' = Append(calls, [kind |-> kind, args |-> args, version |-> mutationVersion,
                               stage |-> "sent", answer |-> {}])

SendCallIf(cond, kind, args) ==
    IF cond THEN SendCall(kind, args) ELSE UNCHANGED calls

Mutation ==
    /\ mutationVersion < MaxMutations
    /\ mutationVersion' = mutationVersion + 1

(* History: what the shopper asked for, for as long as they wait for every *)
(* answer.                                                                 *)
Recall(wants, waits) ==
    /\ calm' = (calm /\ waits)
    /\ wanted' = IF calm /\ waits THEN wants ELSE NoneWanted
Asked(p, n) == Recall([wanted EXCEPT ![p] = @ + n], CartQuiet /\ signedIn)

-----------------------------------------------------------------------------
(* addItem from the product pages, the cards, the search and the home page *)
AddItem(l) ==
    /\ Mutation
    /\ \A i \in LinesAt(l) : i.qty < MaxCartQty
    /\ cart' = IF LinesAt(l) = {}
               THEN cart \cup {[product |-> l.product, variant |-> l.variant,
                                qty |-> 1, backendId |-> NoId]}
               ELSE (cart \ LinesAt(l)) \cup {[i EXCEPT !.qty = @ + 1] : i \in LinesAt(l)}
    /\ SendCallIf(signedIn, "add", [product |-> l.product])
    /\ Asked(l.product, 1)
    /\ UNCHANGED <<signedIn, server>>

(* Mutant: a line is removed on the screen only.                           *)
RemoveLocally(i) ==
    /\ Mutation
    /\ cart' = cart \ {i} /\ Asked(i.product, -i.qty)
    /\ UNCHANGED <<signedIn, server, calls>>

(* removeItem, and updateQuantity down to nothing.                         *)
RemoveItem(i) ==
    /\ Mutation
    /\ cart' = cart \ {i}
    /\ SendCallIf(signedIn /\ i.backendId # NoId, "remove", [id |-> i.backendId])
    /\ Asked(i.product, -i.qty)
    /\ UNCHANGED <<signedIn, server>>

(* The cart page's + and -.                                                *)
UpdateQuantity(i, q) ==
    /\ q > 0 /\ Mutation
    /\ cart' = (cart \ {i}) \cup {[i EXCEPT !.qty = q]}
    /\ SendCallIf(signedIn /\ i.backendId # NoId, "update", [id |-> i.backendId, qty |-> q])
    /\ Asked(i.product, q - i.qty)
    /\ UNCHANGED <<signedIn, server>>

(* The store's own part of clearCart; the checkout calls it.               *)
ClearCart ==
    /\ Mutation
    /\ cart' = {}
    /\ SendCallIf(signedIn, "clear", <<>>)
    /\ Recall(NoneWanted, CartQuiet)

(* The cart page is opened (or reloaded) while signed in.                  *)
FetchFromBackend ==
    /\ signedIn /\ SendCall("fetch", <<>>) /\ Recall(wanted, CartQuiet)
    /\ UNCHANGED <<cart, mutationVersion, signedIn, server>>

(* Signing in or out leaves the items in the browser as they are.          *)
ToggleSession ==
    /\ signedIn' = ~signedIn
    /\ Recall(wanted, CartQuiet /\ cart = {} /\ server = {})
    /\ UNCHANGED <<cart, mutationVersion, server, calls>>

-----------------------------------------------------------------------------
(* The cart service: one line per product, and an error for an unknown id. *)
AtServer(id) == {i \in server : i.id = id}
OfProduct(p) == {i \in server : i.product = p}

ServedAdd(c) ==
    LET p == calls[c].args.product
    IN  IF OfProduct(p) = {}
        THEN server \cup {[id |-> c, product |-> p, qty |-> 1]}
        ELSE (server \ OfProduct(p)) \cup {[i EXCEPT !.qty = @ + 1] : i \in OfProduct(p)}

ServedUpdate(c) ==
    LET old == AtServer(calls[c].args.id)
    IN  (server \ old) \cup {[i EXCEPT !.qty = calls[c].args.qty] : i \in old}

ServedCart(c) ==
    CASE calls[c].kind = "add" -> ServedAdd(c)
      [] calls[c].kind = "update" -> ServedUpdate(c)
      [] calls[c].kind = "remove" -> server \ AtServer(calls[c].args.id)
      [] calls[c].kind = "clear" -> {}
      [] calls[c].kind = "fetch" -> server

KnownItem(c) == calls[c].kind \in {"update", "remove"} => AtServer(calls[c].args.id) # {}

ServeCall(c) ==
    /\ calls[c].stage = "sent" /\ KnownItem(c)
    /\ server' = ServedCart(c)
    /\ calls' = [calls EXCEPT ![c].stage = "served", ![c].answer = ServedCart(c)]
    /\ UNCHANGED <<cart, mutationVersion, signedIn, wanted, calm>>

(* The request fails on the way, is refused, or its answer is lost.        *)
FailCall(c) ==
    /\ calls[c].stage \in {"sent", "served"}
    /\ calls' = [calls EXCEPT ![c] = Over]
    /\ Recall(wanted, FALSE)
    /\ UNCHANGED <<cart, mutationVersion, signedIn, server>>

(* Its answer arrives: that of a clear is ignored, a fetch's is applied if *)
(* nothing changed since, any other replaces the items.                    *)
AnswerApplies(c) ==
    /\ calls[c].kind # "clear"
    /\ calls[c].kind = "fetch" => calls[c].version = mutationVersion

AnswerCall(c) ==
    /\ calls[c].stage = "served"
    /\ cart' = IF AnswerApplies(c) THEN FromBackend(calls[c].answer) ELSE cart
    /\ calls' = [calls EXCEPT ![c] = Over]
    /\ UNCHANGED <<mutationVersion, signedIn, server, wanted, calm>>

ShopperActs ==
    \/ \E l \in CartLines : AddItem(l)
    \/ \E i \in cart : RemoveItem(i)
    \/ \E i \in cart : \E q \in {i.qty - 1, i.qty + 1} : q <= MaxCartQty /\ UpdateQuantity(i, q)
    \/ FetchFromBackend

CartTraffic == \E c \in CallsRunning : ServeCall(c) \/ FailCall(c) \/ AnswerCall(c)

CartNext == ShopperActs \/ ToggleSession \/ CartTraffic
CartSpec == CartInit /\ [][CartNext]_cartVars

-----------------------------------------------------------------------------
CartItem == [product : Products, variant : UNION {Variants[p] : p \in Products},
             qty : Nat \ {0}, backendId : (1 .. MaxCalls) \cup {NoId}]
ServerItem == [id : 1 .. MaxCalls, product : Products, qty : Nat \ {0}]
CallOf(kind, args) ==
    [kind : {kind}, args : args, version : Nat, stage : {"sent", "served"},
     answer : SUBSET ServerItem]
CallMade ==
    CallOf("add", [product : Products])
    \cup CallOf("update", [id : 1 .. MaxCalls, qty : Nat \ {0}])
    \cup CallOf("remove", [id : 1 .. MaxCalls])
    \cup CallOf("clear", {<<>>}) \cup CallOf("fetch", {<<>>}) \cup {Over}

(* Every variable has its type.                                            *)
CartTypeOK ==
    /\ cart \subseteq CartItem /\ server \subseteq ServerItem
    /\ mutationVersion \in Nat /\ signedIn \in BOOLEAN
    /\ calls \in Seq(CallMade) /\ Len(calls) <= MaxCalls
    /\ wanted \in [Products -> Int] /\ calm \in BOOLEAN

(* There are finitely many lines anywhere.                                 *)
CartFinite ==
    /\ IsFiniteSet(cart) /\ IsFiniteSet(server)
    /\ \A c \in CallsRunning : IsFiniteSet(calls[c].answer)

(* What keeps a calm cart shared: the service has one line per product,    *)
(* with an id of its own, one request runs at most, and when it has been   *)
(* served the lines of the service are what the shopper asked for.         *)
OneLineEach(lines) ==
    \A i, j \in lines : i.product = j.product \/ i.id = j.id => i = j

Tally(lines, wants) ==
    /\ \A i \in lines : i.qty = wants[i.product]
    /\ \A p \in Products : wants[p] # 0 => \E i \in lines : i.product = p

CallInStep(c) ==
    /\ OneLineEach(IF calls[c].stage = "sent" THEN ServedCart(c) ELSE server)
    /\ Tally(IF calls[c].stage = "sent" THEN ServedCart(c) ELSE server, wanted)
    /\ calls[c].stage = "served" => calls[c].answer = server
    /\ calls[c].kind = "clear" => cart = {} /\ wanted = NoneWanted
    /\ calls[c].kind = "fetch" => calls[c].version = mutationVersion

CartInStep ==
    calm =>
        /\ wanted \in [Products -> Nat]
        /\ \A c, d \in CallsRunning : c = d
        /\ \A c \in CallsRunning : CallInStep(c)
        /\ CartQuiet => /\ OneLineEach(server) /\ Tally(server, wanted)
                        /\ cart = FromBackend(server)
        /\ ~signedIn => CartQuiet /\ cart = {} /\ server = {}
        /\ \A i \in server : i.id \in DOMAIN calls /\ calls[i.id].stage # "sent"

(* A shopper who waits for every answer, and meets no failure, sees the    *)
(* units asked for, and the service holds the same.                        *)
CalmCartIsShared ==
    calm /\ CartQuiet =>
        \A p \in Products : /\ UnitsIn(cart, p) = wanted[p]
                            /\ signedIn => UnitsIn(server, p) = wanted[p]
=============================================================================
