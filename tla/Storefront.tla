------------------------------ MODULE Storefront ------------------------------
(***************************************************************************)
(* The shop that customers see, with its sign-in and the guards of every   *)
(* area.  The components share nothing but the browser they run in, so     *)
(* what one of them reaches is what it reaches alone: a behaviour keeps to *)
(* one part of the shop, and every part is some behaviour's.  The cart is  *)
(* a part of the checkout; it is also run without it, with more changes.   *)
(***************************************************************************)
EXTENDS Checkout, Session, ShopSearch, ShopShelf, AccountDesk

CONSTANTS MaxCheckoutChanges, \* bound: changes of the cart around a checkout
          MaxCheckoutCalls    \* bound: cart requests that run at once around one

ASSUME StorefrontAssumption == MaxCheckoutChanges \in Nat /\ MaxCheckoutCalls \in Nat

VARIABLE part \* the part of the shop this behaviour is about

ShopParts == {"cart", "checkout", "session", "search", "shelf", "account"}

allCartVars == <<cartVars, checkoutVars>>
storefrontVars ==
    <<part, allCartVars, sessionVars, shopSearchVars, shelfVars, accountVars>>

(* Parts that are not used start in one of their initial states.           *)
StorefrontInit ==
    /\ part \in ShopParts
    /\ CheckoutInit /\ SessionInit /\ ShopSearchInit /\ ShelfInit /\ AccountInit
    /\ part # "session" => production
    /\ part # "shelf" => signed /\ \A n \in BannerCounts : n <= sfStore.banners

UseCart ==
    /\ part = "cart" /\ CartNext
    /\ UNCHANGED <<part, checkoutVars, sessionVars, shopSearchVars, shelfVars, accountVars>>

UseCheckout ==
    /\ part = "checkout" /\ CheckoutNext
    /\ mutationVersion' <= MaxCheckoutChanges /\ Cardinality(CallsRunning') <= MaxCheckoutCalls
    /\ UNCHANGED <<part, sessionVars, shopSearchVars, shelfVars, accountVars>>

UseSession ==
    /\ part = "session" /\ SessionNext
    /\ UNCHANGED <<part, allCartVars, shopSearchVars, shelfVars, accountVars>>

UseSearch ==
    /\ part = "search" /\ ShopSearchNext
    /\ UNCHANGED <<part, allCartVars, sessionVars, shelfVars, accountVars>>

UseShelf ==
    /\ part = "shelf" /\ ShelfNext
    /\ UNCHANGED <<part, allCartVars, sessionVars, shopSearchVars, accountVars>>

UseAccount ==
    /\ part = "account" /\ AccountNext
    /\ UNCHANGED <<part, allCartVars, sessionVars, shopSearchVars, shelfVars>>

StorefrontNext == UseCart \/ UseCheckout \/ UseSession \/ UseSearch \/ UseShelf \/ UseAccount

StorefrontSpec == StorefrontInit /\ [][StorefrontNext]_storefrontVars
=============================================================================
