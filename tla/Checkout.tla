------------------------------ MODULE Checkout ------------------------------
(***************************************************************************)
(* The checkout page on top of the cart: the delivery quote, the coupon,   *)
(* and handlePlaceOrder, which creates the order from the items of the     *)
(* click, records the payment and empties the cart.  It goes on after the  *)
(* shopper has left the page, and a page opened again knows nothing of it. *)
(***************************************************************************)
EXTENDS ShoppingCart

CONSTANTS Bulky,       \* products whose delivery profile is the dearer one
          MaxVisits,   \* bound: times the page is opened
          MaxOrders    \* bound: orders placed

ASSUME CheckoutAssumption ==
    Bulky \subseteq Products /\ MaxVisits \in Nat /\ MaxOrders \in Nat

VARIABLES visit,    \* the open page: [n, view, quote, coupon, validating]
          placing   \* every handlePlaceOrder so far, in order

checkoutVars == <<visit, placing>>

ThisVisit == visit.n

NoQuote == 0
NoCoupon == [for |-> 0]

(* The rate of the dearest profile among the items.                        *)
CartDeliveryProfile(items) == IF \E i \in items : i.product \in Bulky THEN 2 ELSE 1

(* The discount the service grants on an order total: half of it here.     *)
DiscountFor(total) == total \div 2

GrandTotal(items, v) ==
    LET t == Units(items) + v.quote - DiscountFor(v.coupon.for)
    IN  IF t < 0 THEN 0 ELSE t

Away(n) == [n |-> n, view |-> "away", quote |-> NoQuote, coupon |-> NoCoupon, validating |-> 0]

CheckoutInit == CartInit /\ visit = Away(0) /\ placing = <<>>

OnForm == visit.view = "form" /\ cart # {}

(* Mutant: the button is on again while the payment is recorded.           *)
SubmittingUntilCreated == \E o \in DOMAIN placing :
    placing[o].visit = visit.n /\ placing[o].stage = "creating"

Submitting == \E o \in DOMAIN placing :
    placing[o].visit = visit.n /\ placing[o].stage \in {"creating", "paying"}

KeepCart == UNCHANGED cartVars

-----------------------------------------------------------------------------
(* The page's state is its component's: opening it starts afresh.          *)
OpenCheckout ==
    /\ visit.view = "away" /\ visit.n < MaxVisits
    /\ visit' = [Away(visit.n + 1) EXCEPT !.view = "form"]
    /\ UNCHANGED placing /\ KeepCart

(* Leaving while the order is being placed is not waiting for it.          *)
LeaveCheckout ==
    /\ visit.view # "away"
    /\ visit' = Away(visit.n)
    /\ Recall(wanted, ~Submitting)
    /\ UNCHANGED <<placing, cart, mutationVersion, signedIn, server, calls>>

(* fetchShippingRates: only choosing a city or typing the postal code      *)
(* computes the quote.                                                     *)
FetchShippingRates ==
    /\ OnForm
    /\ visit' = [visit EXCEPT !.quote = CartDeliveryProfile(cart)]
    /\ UNCHANGED placing /\ KeepCart

(* Mutant: the coupon is validated against the total with the delivery.    *)
ApplyCouponToTotal ==
    /\ OnForm /\ visit.validating = 0 /\ visit.coupon = NoCoupon
    /\ visit' = [visit EXCEPT !.validating = Units(cart) + visit.quote]
    /\ UNCHANGED placing /\ KeepCart

(* handleApplyCoupon sends the subtotal of the click.                      *)
ApplyCoupon ==
    /\ OnForm /\ visit.validating = 0 /\ visit.coupon = NoCoupon
    /\ visit' = [visit EXCEPT !.validating = Units(cart)]
    /\ UNCHANGED placing /\ KeepCart

CouponAnswered(valid) ==
    /\ visit.validating # 0
    /\ visit' = [visit EXCEPT !.validating = 0,
                   !.coupon = IF valid THEN [for |-> visit.validating] ELSE NoCoupon]
    /\ UNCHANGED placing /\ KeepCart

RemoveCoupon ==
    /\ OnForm /\ visit.coupon # NoCoupon
    /\ visit' = [visit EXCEPT !.coupon = NoCoupon]
    /\ UNCHANGED placing /\ KeepCart

-----------------------------------------------------------------------------
(* validate() wants the address complete, so a quote has been made.        *)
PlaceOrder(method) ==
    /\ OnForm /\ visit.quote # NoQuote /\ ~Submitting
    /\ Len(placing) < MaxOrders
    /\ placing' = Append(placing,
          [visit |-> visit.n, stage |-> "creating", lines |-> cart,
           pays |-> method # "cod" /\ signedIn, paid |-> 0,
           amount |-> GrandTotal(cart, visit), coupon |-> visit.coupon # NoCoupon,
           asked |-> NoneWanted])
    /\ Recall(wanted, CartQuiet)
    /\ UNCHANGED <<visit, cart, mutationVersion, signedIn, server, calls>>

CreateAnswered(o) ==
    /\ placing[o].stage = "creating"
    /\ placing' = [placing EXCEPT ![o].stage = "paying"]
    /\ UNCHANGED visit /\ KeepCart

(* An error, or an answer that is lost after the order was made: the form  *)
(* is shown again, and its lines are not needed any more.                  *)
CreateFailed(o) ==
    /\ placing[o].stage = "creating"
    /\ placing' = [placing EXCEPT ![o] = [visit |-> placing[o].visit, stage |-> "failed"]]
    /\ UNCHANGED visit /\ KeepCart

(* The end: the payment, whose failure is swallowed and which is skipped   *)
(* for cash on delivery and for guests; then the cart is emptied.          *)
FinishOrder(o, paid) ==
    /\ placing[o].stage = "paying"
    /\ paid => placing[o].pays
    /\ placing' = [placing EXCEPT ![o].stage = "done", ![o].asked = wanted,
                     ![o].paid = IF paid THEN placing[o].amount ELSE 0]
    /\ visit' = IF placing[o].visit = visit.n /\ visit.view = "form"
                THEN [visit EXCEPT !.view = "placed"] ELSE visit
    /\ ClearCart
    /\ UNCHANGED <<signedIn, server>>

CheckoutActs ==
    \/ OpenCheckout \/ LeaveCheckout \/ FetchShippingRates
    \/ ApplyCoupon \/ RemoveCoupon
    \/ \E valid \in BOOLEAN : CouponAnswered(valid)
    \/ \E m \in {"cod", "bkash"} : PlaceOrder(m)

PlacingGoesOn == \E o \in DOMAIN placing :
    \/ CreateAnswered(o)
    \/ CreateFailed(o)
    \/ \E paid \in BOOLEAN : FinishOrder(o, paid)

(* While the checkout is open its page has no way to change the cart.      *)
(* Bound: the session does not change any more once it has been opened.    *)
CheckoutNext ==
    \/ visit.view = "away" /\ ShopperActs /\ UNCHANGED checkoutVars
    \/ visit.n = 0 /\ ToggleSession /\ UNCHANGED checkoutVars
    \/ CartTraffic /\ UNCHANGED checkoutVars
    \/ CheckoutActs
    \/ PlacingGoesOn

CheckoutSpec == CheckoutInit /\ [][CheckoutNext]_<<cartVars, checkoutVars>>

-----------------------------------------------------------------------------
StandingOrder ==
    [visit : Nat, stage : {"creating", "paying", "done"}, lines : SUBSET CartItem,
     pays : BOOLEAN, paid : Int, amount : Int, coupon : BOOLEAN,
     asked : [Products -> Int]]

(* Every variable has its type.                                            *)
CheckoutTypeOK ==
    /\ CartTypeOK /\ CartFinite
    /\ visit \in [n : Nat, view : {"away", "form", "placed"}, quote : Nat,
                  coupon : [for : Nat], validating : Nat]
    /\ placing \in Seq(StandingOrder \cup [visit : Nat, stage : {"failed"}])

(* No order of a visit is done while its form is shown.                    *)
VisitsInOrder ==
    \A o \in DOMAIN placing :
        /\ placing[o].visit <= visit.n
        /\ placing[o].visit = visit.n /\ placing[o].stage = "done" => visit.view # "form"

(* What a calm shopper asked for, as lines; the lines on the screen have   *)
(* the same products and the same number of units at any time.             *)
WantedLines == {[product |-> p, qty |-> wanted[p]] : p \in Products}

CalmScreen ==
    calm => /\ Units(cart) = Units(WantedLines)
            /\ {i.product : i \in cart} = {p \in Products : wanted[p] # 0}

Price(lines, discounted) ==
    Units(lines) + CartDeliveryProfile(lines)
      - (IF discounted THEN DiscountFor(Units(lines)) ELSE 0)

(* The form's quote and coupon are for the lines on the screen.            *)
CalmForm ==
    calm /\ visit.view = "form" =>
        /\ visit.quote \in {NoQuote, CartDeliveryProfile(cart)}
        /\ {visit.coupon.for, visit.validating} \subseteq {0, Units(cart)}

CalmPlacing ==
    calm => \A o \in DOMAIN placing :
        /\ placing[o].stage \in {"creating", "paying"} =>
              /\ placing[o].visit = visit.n /\ visit.view = "form"
              /\ \A p \in Products : UnitsIn(placing[o].lines, p) = wanted[p]
        /\ placing[o].stage # "failed" =>
              /\ placing[o].amount = Price(placing[o].lines, placing[o].coupon)
              /\ placing[o].paid \in {0, placing[o].amount}

(* A shopper who waits for every answer orders exactly the units asked     *)
(* for: none is left out, and none emptied from the cart unordered.        *)
CalmOrderIsWanted ==
    calm => \A o \in DOMAIN placing : placing[o].stage = "done" =>
        \A p \in Products : UnitsIn(placing[o].lines, p) = placing[o].asked[p]

(* What is paid for an order is the price of its lines, their delivery and *)
(* the discount on them, for a shopper who waits.                          *)
CalmPaymentFitsOrder ==
    calm => \A o \in DOMAIN placing : placing[o].stage = "done" /\ placing[o].paid # 0 =>
        LET n == Units(placing[o].lines)
        IN  placing[o].paid = n + CartDeliveryProfile(placing[o].lines)
                                - (IF placing[o].coupon THEN DiscountFor(n) ELSE 0)

(* Two orders of one visit to the checkout never both stand, unless the    *)
(* answer to the first was lost: the button is off while one is placed,    *)
(* and the cart is empty afterwards.                                       *)
OneOrderPerVisit ==
    \A a, b \in DOMAIN placing :
        a < b /\ placing[a].visit = placing[b].visit => placing[a].stage = "failed"
=============================================================================
