---------------------------- MODULE ShopShelfProofs ----------------------------
(***************************************************************************)
(* Theorems about ShopShelf, for any products, banners and numbers of      *)
(* calls in flight: what the shelf shows of reviews and of the wishlist.   *)
(***************************************************************************)
EXTENDS ShopShelf, TLAPS

HeartCalls == {c \in sfCalls : c.op \in HeartOps}

\* What the services will have of the wishlist once every call is served.
Cleared == \E c \in HeartCalls : c.op = "clear hearts" /\ ~c.served
Removed == {c.of : c \in {d \in HeartCalls : d.op = "remove heart" /\ ~d.served}}
HeartsToBe == IF Cleared THEN {} ELSE hearts.server \ Removed

\* On a calm wishlist page either its list is on its way and nothing else
\* is, or what it shows is what the service comes to.
HeartsKnown ==
    signed /\ OnShelf("wishlist") /\ hearts.calm =>
        \/ \E g : HeartCalls = {g} /\ g.op = "get hearts" /\ (g.served => g.found = hearts.server)
        \/ (\A c \in HeartCalls : c.op # "get hearts") /\ hearts.local = HeartsToBe

\* A call has the fields of one; a list of reviews holds stored ones only.
Review(saved) == [id : 1 .. reviews.written, saved : saved]
CallKnown(c) ==
    /\ c \in [op : {c.op}, of : {c.of}, served : BOOLEAN, found : {c.found}]
    /\ c.op = "write review" => c.of \in 1 .. reviews.written
    /\ c.op = "get reviews" => c.found \subseteq Review({TRUE})

ReviewsKnown ==
    /\ reviews \in [shown : SUBSET Review(BOOLEAN), server : SUBSET (1 .. reviews.written), written : Nat]
    /\ NoReviewTwice

ShelfShaped ==
    /\ "at" \in DOMAIN sfPage
    /\ hearts \in [local : {hearts.local}, server : {hearts.server}, calm : BOOLEAN]

ShelfInv == ShelfShaped /\ ReviewsKnown /\ HeartsKnown /\ \A c \in sfCalls : CallKnown(c)

LEMMA ShelfInitInv == ShelfInit => ShelfInv
BY DEF ShelfInit, ShelfInv, ShelfShaped, ReviewsKnown, HeartsKnown, HeartCalls, NoReviewTwice, OnShelf, Review

-----------------------------------------------------------------------------
\* A page that is drawn again is the same page or has crashed.
LEMMA Redrawn ==
  ASSUME NEW p, NEW s, "at" \in DOMAIN p
  PROVE  /\ "at" \in DOMAIN Rerender(p, s)
         /\ Rerender(p, s).at \in {p.at, "crashed"}
BY DEF Rerender, Crashed

\* A call that was just made.
LEMMA MadeCall ==
  ASSUME NEW op, NEW of, op = "write review" => of \in 1 .. reviews.written
  PROVE  /\ CallKnown(ShelfCall(op, of))
         /\ ShelfCall(op, of).op = op /\ ShelfCall(op, of).of = of /\ ~ShelfCall(op, of).served
BY DEF CallKnown, ShelfCall

\* The wishlist stays known when its calls and its page do.
LEMMA HeartsStay ==
  ASSUME HeartsKnown, UNCHANGED <<hearts, signed>>, HeartCalls' = HeartCalls,
         sfPage'.at = "wishlist" => sfPage.at = "wishlist"
  PROVE  HeartsKnown'
BY DEF HeartsKnown, HeartsToBe, Cleared, Removed, OnShelf

\* Pages other than the wishlist make calls that have nothing to do with it.
LEMMA OthersCall ==
  ASSUME ShelfInv, UNCHANGED <<hearts, reviews, signed>>, "at" \in DOMAIN sfPage',
         sfPage'.at # "wishlist",
         \A c \in sfCalls' : c \in sfCalls \/ \E op, of : op # "write review" /\ c = ShelfCall(op, of)
  PROVE  ShelfInv'
<1>1. ShelfShaped' /\ ReviewsKnown' /\ HeartsKnown'
  BY DEF ShelfInv, ShelfShaped, ReviewsKnown, HeartsKnown, NoReviewTwice, OnShelf, Review
<1>2. ASSUME NEW c \in sfCalls' PROVE CallKnown(c)
  <2>1. CASE c \in sfCalls
    BY <2>1 DEF ShelfInv
  <2>2. ASSUME NEW op, NEW of, op # "write review", c = ShelfCall(op, of) PROVE CallKnown(c)
    BY <2>2, MadeCall
  <2> QED
    BY <2>1, <2>2
<1> QED
  BY <1>1, <1>2 DEF ShelfInv, CallKnown, Review

LEMMA OpeningsKeepInv ==
  ASSUME ShelfInv,
         OpenHome \/ OpenShelf \/ (\E slug : OpenProductPage(slug)) \/ (\E d : TurnBanner(d)) \/ ReloadShelf
  PROVE  ShelfInv'
<1>1. CASE OpenHome
  <2>1. "at" \in DOMAIN sfPage' /\ sfPage'.at # "wishlist"
    BY <1>1, Redrawn DEF OpenHome, HomeShelf
  <2>2. \A c \in sfCalls' : c \in sfCalls \/ \E op, of : op # "write review" /\ c = ShelfCall(op, of)
    <3>1. \A c \in AskList \cup AskConfig : \E op, of : op # "write review" /\ c = ShelfCall(op, of)
      BY DEF AskList, AskConfig
    <3> QED
      BY <1>1, <3>1 DEF OpenHome, Calling
  <2> QED
    BY <1>1, <2>1, <2>2, OthersCall DEF OpenHome, Browsing
<1>2. CASE OpenShelf
  <2>1. \A c \in sfCalls' : c \in sfCalls \/ \E op, of : op # "write review" /\ c = ShelfCall(op, of)
    <3>1. \A c \in AskList : \E op, of : op # "write review" /\ c = ShelfCall(op, of)
      BY DEF AskList
    <3> QED
      BY <1>2, <3>1 DEF OpenShelf, Calling
  <2> QED
    BY <1>2, <2>1, OthersCall DEF OpenShelf, Browsing
<1>3. ASSUME NEW slug, OpenProductPage(slug) PROVE ShelfInv'
  <2>1. "at" \in DOMAIN sfPage' /\ sfPage'.at # "wishlist"
    <3> DEFINE direct == slug \notin sfStore.products /\ ~sfStore.loading
               page == [FirstRender(slug, sfStore) EXCEPT !.asking = direct]
    <3>1. "at" \in DOMAIN page /\ page.at = "product"
      BY DEF FirstRender
    <3>2. sfPage' = Rerender(page, sfStore')
      BY <1>3 DEF OpenProductPage
    <3> HIDE DEF page
    <3> QED
      BY <3>1, <3>2, Redrawn
  <2>2. \A c \in sfCalls' : c \in sfCalls \/ \E op, of : op # "write review" /\ c = ShelfCall(op, of)
    <3>1. \A c \in AskList \cup AskReviews(slug) \cup {ShelfCall("get product", slug)} :
              \E op, of : op # "write review" /\ c = ShelfCall(op, of)
      BY DEF AskList, AskReviews
    <3>2. sfCalls' \subseteq sfCalls \cup AskList \cup AskReviews(slug) \cup {ShelfCall("get product", slug)}
      BY <1>3 DEF OpenProductPage, Calling
    <3> QED
      BY <3>1, <3>2
  <2> QED
    BY <1>3, <2>1, <2>2, OthersCall DEF OpenProductPage, Browsing
<1>4. ASSUME NEW d, TurnBanner(d) PROVE ShelfInv'
  <2>1. "at" \in DOMAIN sfPage' /\ sfPage'.at # "wishlist"
    <3> DEFINE page == [sfPage EXCEPT !.banner = Turned(d)]
    <3>1. "at" \in DOMAIN page /\ page.at = "home"
      BY <1>4 DEF TurnBanner, OnShelf, ShelfInv, ShelfShaped
    <3>2. sfPage' = Rerender(page, sfStore)
      BY <1>4 DEF TurnBanner
    <3> HIDE DEF page
    <3> QED
      BY <3>1, <3>2, Redrawn
  <2> QED
    BY <1>4, <2>1, OthersCall DEF TurnBanner
<1>5. CASE ReloadShelf
  <2>1. ShelfShaped' /\ HeartsKnown'
    BY <1>5 DEF ReloadShelf, ShelfInv, ShelfShaped, HeartsKnown, OnShelf
  <2>2. ReviewsKnown'
    BY <1>5 DEF ReloadShelf, ShelfInv, ReviewsKnown, NoReviewTwice, Review
  <2> QED
    BY <1>5, <2>1, <2>2 DEF ReloadShelf, ShelfInv
<1> QED
  BY <1>1, <1>2, <1>3, <1>4, <1>5

-----------------------------------------------------------------------------
\* The wishlist page opens: its list is the only call about hearts, or the
\* page is not calm.
LEMMA OpenWishlistKeepsInv == ShelfInv /\ OpenWishlist => ShelfInv'
<1> SUFFICES ASSUME ShelfInv, OpenWishlist PROVE ShelfInv'
  OBVIOUS
<1> DEFINE g == ShelfCall("get hearts", 0)
<1>1. UNCHANGED <<reviews, signed>> /\ sfPage' = [at |-> "wishlist"]
  BY DEF OpenWishlist, Browsing
<1>2. hearts' = [hearts EXCEPT !.calm = \A c \in sfCalls : c.op \notin HeartOps]
  BY DEF OpenWishlist
<1>3. ShelfShaped' /\ (hearts'.calm <=> HeartCalls = {})
  BY <1>1, <1>2 DEF ShelfInv, ShelfShaped, HeartCalls
<1>4. CallKnown(g) /\ g.op = "get hearts" /\ ~g.served
  BY MadeCall
<1> HIDE DEF g
<1>5. IF signed THEN sfCalls' = sfCalls \cup {g} ELSE sfCalls' = sfCalls
  BY DEF OpenWishlist, Calling, g
<1>6. ReviewsKnown' /\ \A c \in sfCalls' : CallKnown(c)'
  BY <1>1, <1>4, <1>5 DEF ShelfInv, ReviewsKnown, NoReviewTwice, CallKnown, Review
<1>7. HeartsKnown'
  <2> SUFFICES ASSUME signed', hearts'.calm PROVE HeartCalls' = {g}
    BY <1>4 DEF HeartsKnown
  <2> QED
    BY <1>1, <1>3, <1>4, <1>5 DEF HeartCalls, HeartOps
<1> QED
  BY <1>3, <1>6, <1>7 DEF ShelfInv

\* A heart is toggled on a list, which is no wishlist page.
LEMMA ToggleKeepsInv == ASSUME ShelfInv, NEW p, ToggleHeart(p) PROVE ShelfInv'
<1>1. ShelfShaped' /\ HeartsKnown'
  BY DEF ToggleHeart, ShelfInv, ShelfShaped, HeartsKnown, OnShelf
<1>2. ReviewsKnown' /\ \A c \in sfCalls' : CallKnown(c)'
  BY DEF ToggleHeart, ShelfInv, ReviewsKnown, NoReviewTwice, CallKnown, Review
<1> QED
  BY <1>1, <1>2 DEF ShelfInv

\* The wishlist page takes one heart away, or all of them.
LEMMA WishlistKeepsInv ==
  ASSUME ShelfInv, (\E p : RemoveHeart(p)) \/ ClearHearts PROVE ShelfInv'
<1>1. PICK op, p, local :
         /\ \/ op = "remove heart" /\ p \in hearts.local /\ local = hearts.local \ {p}
            \/ op = "clear hearts" /\ local = {}
         /\ SendHeart(op, p) /\ hearts' = [hearts EXCEPT !.local = local, !.calm = HeartSent]
  <2>1. CASE \E p : RemoveHeart(p)
    BY <2>1 DEF RemoveHeart
  <2>2. CASE ClearHearts
    BY <2>2 DEF ClearHearts
  <2> QED
    BY <2>1, <2>2
<1>2. UNCHANGED <<sfPage, reviews, signed>>
  BY DEF RemoveHeart, ClearHearts
<1> DEFINE h == ShelfCall(op, p)
<1>3. CallKnown(h) /\ h.op = op /\ h.of = p /\ ~h.served
  <2>1. op # "write review"
    BY <1>1
  <2> QED
    BY ONLY <2>1, MadeCall
<1> HIDE DEF h
<1>4. IF signed THEN sfCalls' = sfCalls \cup {h} ELSE sfCalls' = sfCalls
  BY <1>1 DEF SendHeart, Calling, h
<1>5. ReviewsKnown' /\ \A c \in sfCalls' : CallKnown(c)'
  BY <1>2, <1>3, <1>4 DEF ShelfInv, ReviewsKnown, NoReviewTwice, CallKnown, Review
<1>6. HeartSent \in BOOLEAN
  BY DEF HeartSent, Pending, ShelfInv, ShelfShaped
<1>7. ShelfShaped' /\ hearts'.local = local /\ hearts'.server = hearts.server /\ hearts'.calm = HeartSent
  BY <1>1, <1>2, <1>6 DEF ShelfInv, ShelfShaped
<1>8. HeartsKnown'
  <2> SUFFICES ASSUME signed, sfPage.at = "wishlist", HeartSent
               PROVE  (\A c \in HeartCalls' : c.op # "get hearts") /\ local = HeartsToBe'
    BY <1>2, <1>7 DEF HeartsKnown, OnShelf
  <2>1. HeartCalls' = HeartCalls \cup {h}
    BY <1>1, <1>3, <1>4 DEF HeartCalls, HeartOps
  <2>2. (\A c \in HeartCalls : c.op # "get hearts") /\ hearts.local = HeartsToBe
    BY DEF ShelfInv, HeartsKnown, OnShelf, HeartSent, Pending, HeartCalls
  <2>3. CASE op = "clear hearts"
    BY <1>1, <1>3, <2>1, <2>2, <2>3 DEF HeartsToBe, Cleared
  <2>4. CASE op = "remove heart"
    <3>1. Cleared' = Cleared /\ ~Cleared
      BY <1>1, <1>3, <2>1, <2>2, <2>4 DEF HeartsToBe, Cleared
    <3>2. Removed' = Removed \cup {p}
      BY <1>3, <2>1, <2>4 DEF Removed
    <3> QED
      BY <1>1, <1>7, <2>1, <2>2, <2>4, <1>3, <3>1, <3>2 DEF HeartsToBe
  <2> QED
    BY <1>1, <2>3, <2>4
<1> QED
  BY <1>5, <1>7, <1>8 DEF ShelfInv

\* A review is written: its number is a new one.
LEMMA WriteReviewKeepsInv == ShelfInv /\ WriteReview => ShelfInv'
<1> SUFFICES ASSUME ShelfInv, WriteReview PROVE ShelfInv'
  OBVIOUS
<1> DEFINE n == reviews.written + 1
           w == ShelfCall("write review", n)
<1>1. /\ reviews' = [reviews EXCEPT !.written = n, !.shown = @ \cup {[id |-> n, saved |-> FALSE]}]
      /\ UNCHANGED <<sfPage, hearts, signed>> /\ sfCalls' = sfCalls \cup {w}
  BY DEF WriteReview, Calling
<1>2. reviews.written \in Nat /\ n \in Nat
  BY DEF ShelfInv, ReviewsKnown
<1>3. /\ reviews'.written = n /\ reviews'.server = reviews.server
      /\ reviews'.shown = reviews.shown \cup {[id |-> n, saved |-> FALSE]}
      /\ reviews' \in [shown : {reviews'.shown}, server : {reviews'.server}, written : {n}]
  BY <1>1 DEF ShelfInv, ReviewsKnown
<1>4. /\ \A saved : Review(saved) \subseteq Review(saved)'
      /\ 1 .. reviews.written \subseteq 1 .. n /\ n \in 1 .. n /\ n \notin 1 .. reviews.written
  BY <1>2, <1>3 DEF Review
<1>5. ReviewsKnown'
  <2>1. reviews.shown \subseteq Review(BOOLEAN) /\ reviews.server \subseteq 1 .. reviews.written /\ NoReviewTwice
    BY DEF ShelfInv, ReviewsKnown
  <2>2. [id |-> n, saved |-> FALSE] \in Review(BOOLEAN)'
    BY <1>3, <1>4 DEF Review
  <2>3. reviews'.shown \subseteq Review(BOOLEAN)' /\ reviews'.server \subseteq 1 .. n
    <3>1. reviews.shown \subseteq Review(BOOLEAN)'
      BY <1>4, <2>1
    <3> QED
      BY <1>3, <1>4, <2>1, <2>2, <3>1
  <2>4. NoReviewTwice'
    <3>1. \A r \in reviews.shown : r.id # n
      BY <1>4, <2>1 DEF Review
    <3>2. PICK new : new = [id |-> n, saved |-> FALSE]
      OBVIOUS
    <3>3. new.id = n /\ reviews'.shown = reviews.shown \cup {new}
      BY <1>3, <3>2
    <3>4. \A a, b \in reviews.shown \cup {new} : a.id = b.id => a = b
      BY <2>1, <3>1, <3>3 DEF NoReviewTwice
    <3> QED
      BY <3>3, <3>4 DEF NoReviewTwice
  <2> QED
    BY <1>2, <1>3, <2>3, <2>4 DEF ReviewsKnown
<1>6. w \in [op : {w.op}, of : {w.of}, served : BOOLEAN, found : {w.found}]
      /\ w.op = "write review" /\ w.of = n
  BY DEF ShelfCall
<1> HIDE DEF w
<1>7. ASSUME NEW c \in sfCalls' PROVE CallKnown(c)'
  <2>1. CASE c = w
    <3>1. c.op = "write review" /\ c.of \in 1 .. reviews'.written
      BY <1>3, <1>4, <1>6, <2>1
    <3> QED
      BY <1>6, <2>1, <3>1 DEF CallKnown
  <2>2. CASE c \in sfCalls
    <3>1. CallKnown(c)
      BY <2>2 DEF ShelfInv
    <3>2. Review({TRUE}) \subseteq Review({TRUE})'
      BY <1>4
    <3> QED
      BY <1>3, <1>4, <3>1, <3>2 DEF CallKnown
  <2> QED
    BY <1>1, <2>1, <2>2
<1>8. HeartCalls' = HeartCalls
  BY <1>1, <1>6 DEF HeartCalls, HeartOps
<1>9. ShelfShaped' /\ HeartsKnown'
  BY <1>1, <1>8, HeartsStay DEF ShelfInv, ShelfShaped
<1> QED
  BY <1>5, <1>7, <1>9 DEF ShelfInv

-----------------------------------------------------------------------------
\* A call is served: it is the same call with what was found.
LEMMA CallServed ==
  ASSUME ShelfInv, NEW c, NEW found, ServeShelfCall(c, found)
  PROVE  /\ UNCHANGED <<sfPage, signed>> /\ c \in sfCalls /\ ~c.served
         /\ \E d : /\ sfCalls' = (sfCalls \ {c}) \cup {d} /\ d.served /\ d.found = found
                   /\ d.op = c.op /\ d.of = c.of
                   /\ d \in [op : {d.op}, of : {d.of}, served : BOOLEAN, found : {d.found}]
<1>1. PICK moved : moved = [c EXCEPT !.served = TRUE, !.found = found]
  OBVIOUS
<1>2. c \in [op : {c.op}, of : {c.of}, served : BOOLEAN, found : {c.found}] /\ c \in sfCalls /\ ~c.served
  BY DEF ServeShelfCall, ShelfInv, CallKnown
<1>3. moved \in [op : {c.op}, of : {c.of}, served : {TRUE}, found : {found}]
  BY <1>1, <1>2
<1>4. /\ moved.served /\ moved.found = found /\ moved.op = c.op /\ moved.of = c.of
      /\ moved \in [op : {moved.op}, of : {moved.of}, served : BOOLEAN, found : {moved.found}]
  BY <1>3
<1>5. sfCalls' = (sfCalls \ {c}) \cup {moved} /\ UNCHANGED <<sfPage, signed>>
  BY <1>1 DEF ServeShelfCall
<1>6. \E d : /\ sfCalls' = (sfCalls \ {c}) \cup {d} /\ d.served /\ d.found = found
              /\ d.op = c.op /\ d.of = c.of
              /\ d \in [op : {d.op}, of : {d.of}, served : BOOLEAN, found : {d.found}]
  <2> WITNESS moved
  <2> QED
    BY <1>4, <1>5
<1> QED
  BY <1>2, <1>5, <1>6

\* Serving a call of the catalogue or of the reviews.
LEMMA ServeOthersKeepsInv ==
  ASSUME ShelfInv, NEW c, ServeReviews(c) \/ ServeCatalogue(c) PROVE ShelfInv'
<1>1. PICK found : /\ ServeShelfCall(c, found) /\ UNCHANGED hearts /\ c.op \notin HeartOps
                   /\ c.op = "get reviews" => found = ReviewsOf(reviews.server)
                   /\ reviews' = IF c.op = "write review"
                                 THEN [reviews EXCEPT !.server = @ \cup {c.of}] ELSE reviews
  <2>1. CASE ServeReviews(c)
    <3>1. reviews \in [shown : {reviews.shown}, server : {reviews.server}, written : {reviews.written}]
      BY DEF ShelfInv, ReviewsKnown
    <3>2. [reviews EXCEPT !.server = @] = reviews
      BY <3>1
    <3> QED
      BY <2>1, <3>2 DEF ServeReviews, HeartOps
  <2>2. CASE ServeCatalogue(c)
    BY <2>2 DEF ServeCatalogue, HeartOps
  <2> QED
    BY <2>1, <2>2
<1>2. PICK d : /\ sfCalls' = (sfCalls \ {c}) \cup {d} /\ d.served /\ d.found = found
               /\ d.op = c.op /\ d.of = c.of
               /\ d \in [op : {d.op}, of : {d.of}, served : BOOLEAN, found : {d.found}]
  <2>1. ServeShelfCall(c, found)
    BY <1>1
  <2> QED
    BY <2>1, CallServed
<1>3. UNCHANGED <<sfPage, signed>> /\ CallKnown(c)
  BY <1>1, CallServed DEF ShelfInv
<1>4. HeartCalls' = HeartCalls
  BY <1>1, <1>2 DEF HeartCalls
<1>5. ShelfShaped' /\ HeartsKnown'
  BY <1>1, <1>3, <1>4, HeartsStay DEF ShelfInv, ShelfShaped
<1>6. reviews'.written = reviews.written /\ ReviewsKnown'
  <2>1. CASE c.op = "write review"
    <3>1. reviews' = [reviews EXCEPT !.server = @ \cup {c.of}] /\ c.of \in 1 .. reviews.written
      BY <1>1, <1>3, <2>1 DEF CallKnown
    <3>2. reviews'.written = reviews.written /\ reviews'.shown = reviews.shown
      BY <3>1 DEF ShelfInv, ReviewsKnown
    <3> QED
      BY <3>1, <3>2 DEF ShelfInv, ReviewsKnown, NoReviewTwice, Review
  <2>2. CASE c.op # "write review"
    BY <1>1, <2>2 DEF ShelfInv, ReviewsKnown, NoReviewTwice, Review
  <2> QED
    BY <2>1, <2>2
<1>7. CallKnown(d)'
  <2>1. c.op = "get reviews" => found \subseteq Review({TRUE})
    <3>1. reviews.server \subseteq 1 .. reviews.written
      BY DEF ShelfInv, ReviewsKnown
    <3>2. \A n \in reviews.server : [id |-> n, saved |-> TRUE] \in Review({TRUE})
      BY <3>1 DEF Review
    <3> QED
      BY <1>1, <3>2 DEF ReviewsOf
  <2> QED
    BY <1>2, <1>3, <1>6, <2>1 DEF CallKnown, Review
<1>8. \A x \in sfCalls : CallKnown(x)'
  BY <1>6 DEF ShelfInv, CallKnown, Review
<1> QED
  BY <1>2, <1>5, <1>6, <1>7, <1>8 DEF ShelfInv

\* Serving a call about hearts.
LEMMA ServeHeartsKeepsInv ==
  ASSUME ShelfInv, NEW c, ServeHearts(c) PROVE ShelfInv'
<1> DEFINE found == IF c.op = "get hearts" THEN hearts.server ELSE {}
           left == CASE c.op = "remove heart" -> hearts.server \ {c.of}
                     [] c.op = "clear hearts" -> {}
                     [] OTHER -> hearts.server
<1>1. /\ c.op \in HeartOps /\ ServeShelfCall(c, found) /\ UNCHANGED reviews
      /\ hearts' = [hearts EXCEPT !.server = left]
  BY DEF ServeHearts
<1>2. PICK d : /\ sfCalls' = (sfCalls \ {c}) \cup {d} /\ d.served /\ d.found = found
               /\ d.op = c.op /\ d.of = c.of
               /\ d \in [op : {d.op}, of : {d.of}, served : BOOLEAN, found : {d.found}]
  BY <1>1, CallServed
<1>3. UNCHANGED <<sfPage, signed>> /\ c \in sfCalls /\ ~c.served
  BY <1>1, CallServed
<1>4. ShelfShaped' /\ hearts'.local = hearts.local /\ hearts'.calm = hearts.calm /\ hearts'.server = left
  BY <1>1, <1>3 DEF ShelfInv, ShelfShaped
<1>5. ReviewsKnown' /\ \A x \in sfCalls' : CallKnown(x)'
  BY <1>1, <1>2 DEF ShelfInv, ReviewsKnown, NoReviewTwice, CallKnown, Review, HeartOps
<1>6. HeartCalls' = (HeartCalls \ {c}) \cup {d} /\ c \in HeartCalls
  BY <1>1, <1>2, <1>3 DEF HeartCalls
<1>7. HeartsKnown'
  <2> SUFFICES ASSUME signed, sfPage.at = "wishlist", hearts.calm
               PROVE  \/ \E g : HeartCalls' = {g} /\ g.op = "get hearts" /\ (g.served => g.found = left)
                      \/ (\A x \in HeartCalls' : x.op # "get hearts") /\ hearts.local = HeartsToBe'
    BY <1>3, <1>4 DEF HeartsKnown, OnShelf
  <2>1. CASE \E g : HeartCalls = {g} /\ g.op = "get hearts"
    BY <1>2, <1>6, <2>1
  <2>2. CASE (\A x \in HeartCalls : x.op # "get hearts") /\ hearts.local = HeartsToBe
    <3>1. c.op \in {"remove heart", "clear hearts"} /\ \A x \in HeartCalls' : x.op # "get hearts"
      BY <1>1, <1>2, <1>6, <2>2 DEF HeartOps
    <3>2. CASE c.op = "clear hearts"
      <4>1. left = {} /\ Cleared
        BY <1>3, <1>6, <3>2 DEF Cleared
      <4> QED
        BY <1>4, <2>2, <3>1, <4>1 DEF HeartsToBe
    <3>3. CASE c.op = "remove heart"
      <4>1. left = hearts.server \ {c.of} /\ Cleared' = Cleared
        BY <1>2, <1>6, <3>3 DEF Cleared
      <4>2. Removed = Removed' \cup {c.of}
        BY <1>2, <1>3, <1>6, <3>3 DEF Removed
      <4> QED
        BY <1>4, <2>2, <3>1, <4>1, <4>2 DEF HeartsToBe
    <3> QED
      BY <3>1, <3>2, <3>3
  <2> QED
    BY <2>1, <2>2 DEF ShelfInv, HeartsKnown, OnShelf
<1> QED
  BY <1>4, <1>5, <1>7 DEF ShelfInv

-----------------------------------------------------------------------------
\* Two reviews with the same id and mark are the same.
LEMMA SameReview ==
  ASSUME NEW S, NEW a \in Review(S), NEW b \in Review(S), a.id = b.id, a.saved = b.saved PROVE a = b
<1>1. a = [id |-> a.id, saved |-> a.saved] /\ b = [id |-> b.id, saved |-> b.saved]
  BY DEF Review
<1> QED
  BY <1>1

\* An answer that brings reviews: a list of stored ones, or the number of
\* one that is shown already.
LEMMA ReviewsAnsweredKeepsInv ==
  ASSUME ShelfInv, NEW c \in sfCalls, ReviewsAnswered(c) PROVE ReviewsKnown' /\ reviews'.written = reviews.written
<1> DEFINE typed == [id |-> c.of, saved |-> FALSE]
           Answered(r) == IF r = typed THEN [r EXCEPT !.saved = TRUE] ELSE r
<1>1. PICK shown : /\ reviews' = [reviews EXCEPT !.shown = shown]
                   /\ IF c.op = "get reviews" THEN shown = c.found
                      ELSE shown = {Answered(r) : r \in reviews.shown}
  BY DEF ReviewsAnswered, ReviewsArrive
<1>2. CallKnown(c) /\ reviews.shown \subseteq Review(BOOLEAN) /\ NoReviewTwice
  BY DEF ShelfInv, ReviewsKnown
<1>3. reviews'.shown = shown /\ reviews'.written = reviews.written /\ reviews'.server = reviews.server
      /\ reviews' \in [shown : {shown}, server : {reviews.server}, written : {reviews.written}]
  BY <1>1 DEF ShelfInv, ReviewsKnown
<1>4. shown \subseteq Review(BOOLEAN) /\ \A a, b \in shown : a.id = b.id => a = b
  <2>1. CASE c.op = "get reviews"
    <3>1. shown \subseteq Review({TRUE})
      BY <1>1, <1>2, <2>1 DEF CallKnown
    <3>2. ASSUME NEW a \in shown, NEW b \in shown, a.id = b.id PROVE a = b
      <4>1. a \in Review({TRUE}) /\ b \in Review({TRUE})
        BY <3>1
      <4>2. a.saved = b.saved
        BY <4>1 DEF Review
      <4> QED
        BY <4>1, <4>2, <3>2, SameReview DEF Review
    <3>3. Review({TRUE}) \subseteq Review(BOOLEAN)
      BY DEF Review
    <3> QED
      BY <3>1, <3>2, <3>3
  <2>2. CASE c.op # "get reviews"
    <3>1. ASSUME NEW r \in reviews.shown PROVE Answered(r) \in Review(BOOLEAN) /\ Answered(r).id = r.id
      BY <1>2 DEF Review
    <3> HIDE DEF Answered
    <3>2. shown = {Answered(r) : r \in reviews.shown}
      BY <1>1, <2>2
    <3>3. \A a, b \in reviews.shown : a.id = b.id => a = b
      BY <1>2 DEF NoReviewTwice
    <3>4. shown \subseteq Review(BOOLEAN)
      BY <3>1, <3>2
    <3>5. ASSUME NEW a \in shown, NEW b \in shown, a.id = b.id PROVE a = b
      <4>1. PICK x \in reviews.shown : a = Answered(x)
        BY <3>2
      <4>2. PICK y \in reviews.shown : b = Answered(y)
        BY <3>2
      <4>3. x.id = y.id
        BY <3>1, <3>5, <4>1, <4>2
      <4>4. x = y
        BY <3>3, <4>3
      <4> QED
        BY <4>1, <4>2, <4>4
    <3> QED
      BY <3>4, <3>5
  <2> QED
    BY <2>1, <2>2
<1> QED
  BY <1>3, <1>4 DEF ShelfInv, ReviewsKnown, NoReviewTwice, Review

\* A call is over: the answer to the wishlist's list is what it shows.
LEMMA HeartsAnsweredKeepsInv ==
  ASSUME ShelfInv, NEW c \in sfCalls, HeartsAnswered(c), sfCalls' = sfCalls \ {c}, UNCHANGED signed
  PROVE  ShelfShaped' /\ HeartsKnown'
<1>1. PICK local : /\ hearts' = [hearts EXCEPT !.local = local]
                   /\ local = IF c.op = "get hearts" THEN c.found ELSE hearts.local
  BY DEF HeartsAnswered
<1>2. ShelfShaped' /\ hearts'.local = local /\ hearts'.server = hearts.server /\ hearts'.calm = hearts.calm
  BY <1>1 DEF HeartsAnswered, ShelfInv, ShelfShaped
<1>3. HeartCalls' = HeartCalls \ {c} /\ c \in HeartCalls /\ c.served /\ c.op \in HeartOps
  BY DEF HeartsAnswered, HeartCalls
<1>4. Cleared' = Cleared /\ Removed' = Removed
  BY <1>3 DEF Cleared, Removed
<1> SUFFICES ASSUME signed, sfPage.at = "wishlist", hearts.calm
             PROVE  (\A x \in HeartCalls' : x.op # "get hearts") /\ local = HeartsToBe'
  BY <1>2 DEF HeartsAnswered, HeartsKnown, OnShelf
<1>5. CASE \E g : HeartCalls = {g} /\ g.op = "get hearts" /\ (g.served => g.found = hearts.server)
  <2>1. HeartCalls' = {} /\ local = hearts.server
    BY <1>1, <1>3, <1>5
  <2> QED
    BY <1>2, <2>1 DEF HeartsToBe, Cleared, Removed
<1>6. CASE (\A x \in HeartCalls : x.op # "get hearts") /\ hearts.local = HeartsToBe
  BY <1>1, <1>2, <1>3, <1>4, <1>6 DEF HeartsToBe
<1> QED
  BY <1>5, <1>6 DEF ShelfInv, HeartsKnown, OnShelf

\* A page that gets an answer is the same page, or has crashed.
LEMMA PageAnswered ==
  ASSUME ShelfInv, NEW c, ListAnswered(c) \/ ConfigAnswered(c) \/ ProductAnswered(c) \/ ShelfFails(c)
  PROVE  "at" \in DOMAIN sfPage' /\ sfPage'.at \in {sfPage.at, "crashed"}
<1>0. "at" \in DOMAIN sfPage
  BY DEF ShelfInv, ShelfShaped
<1>1. CASE sfPage' = sfPage
  BY <1>0, <1>1
<1>2. ASSUME NEW s, sfPage' = Rerender(sfPage, s)
      PROVE  "at" \in DOMAIN sfPage' /\ sfPage'.at \in {sfPage.at, "crashed"}
  BY <1>0, <1>2, Redrawn
<1>3. ASSUME NEW p, NEW s, sfPage' = Rerender(p, s), "at" \in DOMAIN p, p.at = sfPage.at
      PROVE  "at" \in DOMAIN sfPage' /\ sfPage'.at \in {sfPage.at, "crashed"}
  BY <1>3, Redrawn
<1>4. \A v, w : /\ "at" \in DOMAIN [sfPage EXCEPT !.asking = v] /\ [sfPage EXCEPT !.asking = v].at = sfPage.at
                /\ "at" \in DOMAIN [sfPage EXCEPT !.asking = v, !.direct = w]
                /\ [sfPage EXCEPT !.asking = v, !.direct = w].at = sfPage.at
  BY <1>0
<1>5. CASE ListAnswered(c) \/ ConfigAnswered(c)
  BY <1>2, <1>5 DEF ListAnswered, ConfigAnswered
<1>6. CASE ProductAnswered(c)
  <2> DEFINE p == [sfPage EXCEPT !.asking = FALSE, !.direct = c.found]
  <2>1. "at" \in DOMAIN p /\ p.at = sfPage.at
    BY <1>4
  <2>2. sfPage' = Rerender(p, sfStore) \/ sfPage' = sfPage
    BY <1>6 DEF ProductAnswered
  <2> HIDE DEF p
  <2> QED
    BY <1>1, <1>3, <2>1, <2>2
<1>7. CASE ShelfFails(c)
  <2> DEFINE p == [sfPage EXCEPT !.asking = FALSE]
  <2>1. "at" \in DOMAIN p /\ p.at = sfPage.at
    BY <1>4
  <2>2. sfPage' = Rerender(p, sfStore) \/ sfPage' = Rerender(sfPage, sfStore')
    BY <1>7 DEF ShelfFails
  <2> HIDE DEF p
  <2> QED
    BY <1>2, <1>3, <2>1, <2>2
<1> QED
  BY <1>5, <1>6, <1>7

LEMMA AnswersKeepInv ==
  ASSUME ShelfInv, NEW c \in sfCalls, ShelfAnswered(c) PROVE ShelfInv'
<1>0. sfCalls' = sfCalls \ {c} /\ UNCHANGED signed
  BY DEF ShelfAnswered
<1>1. CASE HeartsAnswered(c)
  <2>1. ShelfShaped' /\ HeartsKnown'
    BY <1>0, <1>1, HeartsAnsweredKeepsInv
  <2> QED
    BY <1>0, <1>1, <2>1 DEF HeartsAnswered, ShelfInv, ReviewsKnown, NoReviewTwice, CallKnown, Review
<1>2. CASE ReviewsAnswered(c)
  <2>1. HeartCalls' = HeartCalls /\ UNCHANGED <<sfPage, hearts>>
    BY <1>0, <1>2 DEF ReviewsAnswered, HeartCalls, HeartOps
  <2>2. ShelfShaped' /\ HeartsKnown'
    BY <1>0, <2>1, HeartsStay DEF ShelfInv, ShelfShaped
  <2>3. ReviewsKnown' /\ reviews'.written = reviews.written
    BY <1>2, ReviewsAnsweredKeepsInv
  <2> QED
    BY <1>0, <2>2, <2>3 DEF ShelfInv, CallKnown, Review
<1>3. CASE ListAnswered(c) \/ ConfigAnswered(c) \/ ProductAnswered(c)
  <2>1. c.op \notin HeartOps /\ UNCHANGED <<hearts, reviews>>
    BY <1>3 DEF ListAnswered, ConfigAnswered, ProductAnswered, HeartOps
  <2>2. HeartCalls' = HeartCalls
    BY <1>0, <2>1 DEF HeartCalls
  <2>3. ShelfShaped' /\ HeartsKnown'
    BY <1>0, <1>3, <2>1, <2>2, PageAnswered, HeartsStay DEF ShelfInv, ShelfShaped
  <2> QED
    BY <1>0, <2>1, <2>3 DEF ShelfInv, ReviewsKnown, NoReviewTwice, CallKnown, Review
<1> QED
  BY <1>1, <1>2, <1>3 DEF ShelfAnswered

LEMMA FailuresKeepInv ==
  ASSUME ShelfInv, NEW c \in sfCalls, ShelfFails(c) PROVE ShelfInv'
<1>0. /\ sfCalls' = sfCalls \ {c} /\ UNCHANGED <<reviews, signed>>
      /\ hearts' = [hearts EXCEPT !.calm = @ /\ c.op \notin HeartOps]
  BY DEF ShelfFails
<1>1. /\ hearts'.local = hearts.local /\ hearts'.server = hearts.server
      /\ hearts'.calm = (hearts.calm /\ c.op \notin HeartOps) /\ ShelfShaped'
  BY <1>0, PageAnswered DEF ShelfInv, ShelfShaped
<1>2. HeartsKnown'
  <2>1. c.op \notin HeartOps => HeartCalls' = HeartCalls
    BY <1>0 DEF HeartCalls
  <2> QED
    BY <1>0, <1>1, <2>1, PageAnswered DEF ShelfInv, HeartsKnown, HeartsToBe, Cleared, Removed, OnShelf
<1> QED
  BY <1>0, <1>1, <1>2 DEF ShelfInv, ReviewsKnown, NoReviewTwice, CallKnown, Review

LEMMA ShelfStepInv == ShelfInv /\ [ShelfNext]_shelfVars => ShelfInv'
<1> SUFFICES ASSUME ShelfInv, [ShelfNext]_shelfVars PROVE ShelfInv'
  OBVIOUS
<1>1. CASE UNCHANGED shelfVars
  BY <1>1 DEF shelfVars, ShelfInv, ShelfShaped, ReviewsKnown, HeartsKnown, NoReviewTwice, HeartCalls,
              HeartsToBe, Cleared, Removed, CallKnown, Review, OnShelf
<1> QED
  BY <1>1, OpeningsKeepInv, OpenWishlistKeepsInv, ToggleKeepsInv, WishlistKeepsInv, WriteReviewKeepsInv,
     ServeHeartsKeepsInv, ServeOthersKeepsInv, AnswersKeepInv, FailuresKeepInv DEF ShelfNext

\* However calls overtake each other or fail: no review is shown twice, and a
\* wishlist page whose calls are answered shows what the user service has.
THEOREM ShelfIsWhatWasWritten == ShelfSpec => []ShelfShowsAnswers
<1>1. ShelfInv => ShelfShowsAnswers
  <2> SUFFICES ASSUME ShelfInv PROVE ShelfShowsAnswers
    OBVIOUS
  <2>1. NoReviewTwice
    BY DEF ShelfInv, ReviewsKnown
  <2>2. CalmWishlistIsServed
    <3> SUFFICES ASSUME signed, OnShelf("wishlist"), hearts.calm, HeartCalls = {}
                 PROVE  hearts.local = hearts.server
      BY DEF CalmWishlistIsServed, HeartCalls
    <3> QED
      BY DEF ShelfInv, HeartsKnown, HeartsToBe, Cleared, Removed
  <2> QED
    BY <2>1, <2>2 DEF ShelfShowsAnswers
<1> QED
  BY <1>1, ShelfInitInv, ShelfStepInv, PTL DEF ShelfSpec
=============================================================================
