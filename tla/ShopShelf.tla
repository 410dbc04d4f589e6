------------------------------ MODULE ShopShelf ------------------------------
(***************************************************************************)
(* Browsing the shop: the home page and its carousel, the product list     *)
(* with its hearts, the product page with its reviews, and the wishlist.   *)
(* Products, storefront, hearts and reviews live in stores that the        *)
(* browser keeps across reloads; calls to the services overtake freely.    *)
(***************************************************************************)
EXTENDS Integers, FiniteSets

CONSTANTS ShelfProducts, \* products the catalogue lists (its first 100)
          FarProducts,   \* products only reached by their id
          FirstHearts,   \* what the user service has at first
          BannerCounts,  \* numbers of banners a storefront may have
          MaxReviews,    \* bound: reviews written
          MaxShelfCalls, \* bound: calls in flight
          MaxSfUses      \* bound: what the shopper does

ShelfAssumption ==
    /\ ShelfProducts \cap FarProducts = {} /\ FirstHearts \subseteq ShelfProducts
    /\ BannerCounts \subseteq Nat
    /\ MaxReviews \in Nat /\ MaxShelfCalls \in Nat /\ MaxSfUses \in Nat
ASSUME ShelfAssumption

VARIABLES sfPage,   \* the page the browser shows
          sfStore,  \* products and storefront of the browser
          hearts,   \* the wishlist: [local, server]
          reviews,  \* [shown, server, written]: of one product, "shown" by the store
          sfCalls,  \* calls in flight: [op, of, served, found]
          signed,   \* whether the shopper is signed in
          sfUses    \* counts towards MaxSfUses

shelfVars == <<sfPage, sfStore, hearts, reviews, sfCalls, signed, sfUses>>

AnyProduct == ShelfProducts \cup FarProducts
HomeShelf == [at |-> "home", banner |-> 0]
OnShelf(at) == sfPage.at = at

ShelfInit ==
    /\ sfPage = [at |-> "list"] /\ signed \in BOOLEAN /\ sfUses = 0
    /\ \E n \in BannerCounts : sfStore = [products |-> {}, loading |-> FALSE, banners |-> n, loaded |-> FALSE]
    /\ hearts = [local |-> {}, server |-> FirstHearts, calm |-> TRUE]
    /\ reviews = [shown |-> {}, server |-> {}, written |-> 0]
    /\ sfCalls = {}

SfUsed == sfUses < MaxSfUses /\ sfUses' = sfUses + 1

-----------------------------------------------------------------------------
(* Calls: asked, then served or lost, then answered or failed.             *)
ShelfCall(op, of) == [op |-> op, of |-> of, served |-> FALSE, found |-> {}]
Calling(calls) == Cardinality(sfCalls \cup calls) <= MaxShelfCalls /\ sfCalls' = sfCalls \cup calls
Pending(op) == \E c \in sfCalls : c.op = op
HeartOps == {"get hearts", "remove heart", "clear hearts"}

ReviewsOf(server) == {[id |-> n, saved |-> TRUE] : n \in server}

ServeShelfCall(c, found) ==
    /\ c \in sfCalls /\ ~c.served
    /\ sfCalls' = (sfCalls \ {c}) \cup {[c EXCEPT !.served = TRUE, !.found = found]}
    /\ UNCHANGED <<sfPage, sfStore, signed, sfUses>>

ServeHearts(c) ==
    /\ c.op \in HeartOps /\ ServeShelfCall(c, IF c.op = "get hearts" THEN hearts.server ELSE {})
    /\ hearts' = [hearts EXCEPT !.server = CASE c.op = "remove heart" -> @ \ {c.of}
                                             [] c.op = "clear hearts" -> {}
                                             [] OTHER -> @]
    /\ UNCHANGED reviews

ServeReviews(c) ==
    /\ c.op \in {"get reviews", "write review"}
    /\ ServeShelfCall(c, IF c.op = "get reviews" THEN ReviewsOf(reviews.server) ELSE {})
    /\ reviews' = [reviews EXCEPT !.server = IF c.op = "write review" THEN @ \cup {c.of} ELSE @]
    /\ UNCHANGED hearts

ServeCatalogue(c) ==
    /\ \/ c.op = "list" /\ \E ps \in {ShelfProducts, {}} : ServeShelfCall(c, ps)
       \/ c.op = "get product" /\ ServeShelfCall(c, {c.of})
       \/ c.op = "config" /\ \E n \in BannerCounts : ServeShelfCall(c, {[banners |-> n]})
    /\ UNCHANGED <<hearts, reviews>>

-----------------------------------------------------------------------------
(* The product page calls its last hooks below its early returns: React    *)
(* stops the page when a later render comes to another number of hooks.    *)
Complete(page, store) ==
    /\ ~(store.loading /\ store.products = {}) /\ ~page.asking
    /\ page.slug \in store.products \cup page.direct
Crashed == [at |-> "crashed"]

(* The home page reads the banner it has counted to, which is gone when    *)
(* the storefront that arrives has fewer of them.                          *)
Rerender(page, store) ==
    IF \/ page.at = "product" /\ Complete(page, store) # page.full
       \/ page.at = "home" /\ store.banners > 0 /\ page.banner >= store.banners
    THEN Crashed ELSE page

FirstRender(slug, store) ==
    LET page == [at |-> "product", slug |-> slug, direct |-> {}, asking |-> FALSE, full |-> FALSE]
    IN  [page EXCEPT !.full = Complete(page, store)]

AskList == IF Pending("list") THEN {} ELSE {ShelfCall("list", 0)}
AskConfig == IF sfStore.loaded \/ Pending("config") THEN {} ELSE {ShelfCall("config", 0)}
AskReviews(slug) == IF Pending("get reviews") THEN {} ELSE {ShelfCall("get reviews", slug)}

Browsing == SfUsed /\ ~OnShelf("crashed") /\ UNCHANGED signed

OpenHome ==
    /\ Browsing /\ ~OnShelf("home") /\ Calling(AskList \cup AskConfig)
    /\ sfStore' = [sfStore EXCEPT !.loading = TRUE]
    /\ sfPage' = Rerender(HomeShelf, sfStore)
    /\ UNCHANGED <<hearts, reviews>>

Turned(d) == (sfPage.banner + d + sfStore.banners) % sfStore.banners
TurnBanner(d) ==
    /\ OnShelf("home") /\ sfStore.banners > 1 /\ SfUsed
    /\ sfPage' = Rerender([sfPage EXCEPT !.banner = Turned(d)], sfStore)
    /\ UNCHANGED <<sfStore, hearts, reviews, sfCalls, signed>>

OpenShelf ==
    /\ Browsing /\ ~OnShelf("list") /\ Calling(AskList)
    /\ sfStore' = [sfStore EXCEPT !.loading = TRUE] /\ sfPage' = [at |-> "list"]
    /\ UNCHANGED <<hearts, reviews>>

(* The page asks for the list when the store has no products, and for the  *)
(* product itself when the store has not got it and no list is awaited.    *)
OpenProductPage(slug) ==
    LET page == FirstRender(slug, sfStore)
        lists == sfStore.products = {}
        direct == slug \notin sfStore.products /\ ~sfStore.loading
    IN  /\ Browsing /\ ~OnShelf("product")
        /\ Calling((IF lists THEN AskList ELSE {}) \cup (IF page.full THEN AskReviews(slug) ELSE {})
                   \cup (IF direct THEN {ShelfCall("get product", slug)} ELSE {}))
        /\ sfStore' = [sfStore EXCEPT !.loading = @ \/ lists]
        /\ sfPage' = Rerender([page EXCEPT !.asking = direct], sfStore')
        /\ UNCHANGED <<hearts, reviews>>

OpenWishlist ==
    /\ Browsing /\ ~OnShelf("wishlist") /\ sfPage' = [at |-> "wishlist"]
    /\ IF signed THEN Calling({ShelfCall("get hearts", 0)}) ELSE UNCHANGED sfCalls
    /\ hearts' = [hearts EXCEPT !.calm = \A c \in sfCalls : c.op \notin HeartOps]
    /\ UNCHANGED <<sfStore, reviews>>

-----------------------------------------------------------------------------
(* Hearts.  The two product lists toggle them without saying who the       *)
(* shopper is, so nothing is sent; the wishlist itself sends removals.     *)
ToggleHeart(p) ==
    /\ OnShelf("list") /\ p \in sfStore.products /\ SfUsed
    /\ hearts' = [hearts EXCEPT !.local = IF p \in @ THEN @ \ {p} ELSE @ \cup {p}]
    /\ UNCHANGED <<sfPage, sfStore, reviews, sfCalls, signed>>

SendHeart(op, p) == IF signed THEN Calling({ShelfCall(op, p)}) ELSE UNCHANGED sfCalls
(* Still calm when no list that the service may have read before is due.   *)
HeartSent == hearts.calm /\ ~Pending("get hearts")

RemoveHeart(p) ==
    /\ OnShelf("wishlist") /\ p \in hearts.local /\ SfUsed /\ SendHeart("remove heart", p)
    /\ hearts' = [hearts EXCEPT !.local = @ \ {p}, !.calm = HeartSent]
    /\ UNCHANGED <<sfPage, sfStore, reviews, signed>>
ClearHearts ==
    /\ OnShelf("wishlist") /\ hearts.local # {} /\ SfUsed /\ SendHeart("clear hearts", 0)
    /\ hearts' = [hearts EXCEPT !.local = {}, !.calm = HeartSent]
    /\ UNCHANGED <<sfPage, sfStore, reviews, signed>>

HeartsAnswered(c) ==
    /\ c.op \in HeartOps /\ c.served
    /\ hearts' = [hearts EXCEPT !.local = IF c.op = "get hearts" THEN c.found ELSE @]
    /\ UNCHANGED <<sfPage, sfStore, reviews>>

-----------------------------------------------------------------------------
(* Reviews.  A new one is shown at once under an id of its own, which its  *)
(* answer replaces; a list replaces all reviews of the product.            *)
WriteReview ==
    LET n == reviews.written + 1
    IN  /\ OnShelf("product") /\ sfPage.full /\ signed /\ n <= MaxReviews /\ SfUsed
        /\ Calling({ShelfCall("write review", n)})
        /\ reviews' = [reviews EXCEPT !.written = n, !.shown = @ \cup {[id |-> n, saved |-> FALSE]}]
        /\ UNCHANGED <<sfPage, sfStore, hearts, signed>>

(* Mutant: a list keeps the reviews that await their answer.               *)
ReviewsJoin(shown, c) == {r \in shown : ~r.saved} \cup c.found

ReviewsArrive(shown, c) == c.found
ReviewsAnswered(c) ==
    /\ c.op \in {"get reviews", "write review"} /\ c.served
    /\ reviews' = [reviews EXCEPT !.shown =
          IF c.op = "get reviews" THEN ReviewsArrive(@, c)
          ELSE {IF r = [id |-> c.of, saved |-> FALSE] THEN [r EXCEPT !.saved = TRUE] ELSE r : r \in @}]
    /\ UNCHANGED <<sfPage, sfStore, hearts>>

-----------------------------------------------------------------------------
(* A list is merged into the store; an empty one leaves it alone.          *)
ListAnswered(c) ==
    /\ c.op = "list" /\ c.served
    /\ sfStore' = [sfStore EXCEPT !.loading = FALSE, !.products = @ \cup c.found]
    /\ sfPage' = Rerender(sfPage, sfStore') /\ UNCHANGED <<hearts, reviews>>

ConfigAnswered(c) ==
    /\ c.op = "config" /\ c.served
    /\ sfStore' = [sfStore EXCEPT !.loaded = TRUE, !.banners = (CHOOSE s \in c.found : TRUE).banners]
    /\ sfPage' = Rerender(sfPage, sfStore') /\ UNCHANGED <<hearts, reviews>>

Awaits(c) == sfPage.at = "product" /\ sfPage.slug = c.of
ProductAnswered(c) ==
    /\ c.op = "get product" /\ c.served
    /\ sfPage' = IF Awaits(c) THEN Rerender([sfPage EXCEPT !.asking = FALSE, !.direct = c.found], sfStore)
                 ELSE sfPage
    /\ UNCHANGED <<sfStore, hearts, reviews>>

ShelfAnswered(c) ==
    /\ c \in sfCalls /\ sfCalls' = sfCalls \ {c} /\ UNCHANGED <<signed, sfUses>>
    /\ HeartsAnswered(c) \/ ReviewsAnswered(c) \/ ListAnswered(c) \/ ConfigAnswered(c) \/ ProductAnswered(c)

(* A call fails before or after the service has acted: every store keeps   *)
(* what it has, and a page that waits stops waiting.                       *)
ShelfFails(c) ==
    /\ c \in sfCalls /\ sfCalls' = sfCalls \ {c}
    /\ sfStore' = [sfStore EXCEPT !.loading = @ /\ c.op # "list", !.loaded = @ \/ c.op = "config"]
    /\ sfPage' = IF c.op = "get product" /\ Awaits(c) THEN Rerender([sfPage EXCEPT !.asking = FALSE], sfStore)
                 ELSE Rerender(sfPage, sfStore')
    /\ hearts' = [hearts EXCEPT !.calm = @ /\ c.op \notin HeartOps]
    /\ UNCHANGED <<reviews, signed, sfUses>>

(* Reloading ends every call; the stores keep products, storefront, hearts *)
(* and reviews, which the first render does not have yet.                  *)
ReloadShelf ==
    /\ SfUsed /\ sfPage' = [at |-> "list"] /\ sfCalls' = {}
    /\ sfStore' = [sfStore EXCEPT !.loading = FALSE, !.loaded = FALSE]
    /\ hearts' = [hearts EXCEPT !.calm = \A c \in sfCalls : c.op \notin HeartOps]
    /\ UNCHANGED <<reviews, signed>>

ShelfNext ==
    \/ OpenHome \/ OpenShelf \/ OpenWishlist \/ ClearHearts \/ WriteReview \/ ReloadShelf
    \/ \E d \in {-1, 1} : TurnBanner(d)
    \/ \E p \in AnyProduct : OpenProductPage(p) \/ ToggleHeart(p) \/ RemoveHeart(p)
    \/ \E c \in sfCalls :
          ServeHearts(c) \/ ServeReviews(c) \/ ServeCatalogue(c) \/ ShelfAnswered(c) \/ ShelfFails(c)

ShelfSpec == ShelfInit /\ [][ShelfNext]_shelfVars

-----------------------------------------------------------------------------
(* However lists and answers overtake each other, a review is never shown  *)
(* twice, once as typed and once as stored.                                *)
NoReviewTwice == \A a, b \in reviews.shown : a.id = b.id => a = b

(* A signed-in shopper's wishlist page shows what the user service has,    *)
(* once its calls are answered, when none failed and none was sent while   *)
(* the list was on its way.                                                *)
CalmWishlistIsServed ==
    signed /\ OnShelf("wishlist") /\ hearts.calm /\ (\A c \in sfCalls : c.op \notin HeartOps)
        => hearts.local = hearts.server

(* What the shelf shows of reviews and hearts is what was written and kept.*)
ShelfShowsAnswers == NoReviewTwice /\ CalmWishlistIsServed
=============================================================================
