----------------------------- MODULE PromotionDesk -----------------------------
(***************************************************************************)
(* Promotions and coupons in the admin area: the list (admin/promotions)   *)
(* and the form that creates one (admin/promotions/new).  The promotion    *)
(* service can only list the promotions that are active now, and no        *)
(* coupons at all: the coupons on the list are those that this browser     *)
(* session noted when it created them.  A call outlives the page that      *)
(* made it.                                                                *)
(***************************************************************************)
EXTENDS Naturals, Sequences, FiniteSets

CONSTANTS CouponCodes,    \* codes an administrator may type or generate
          PromoWindows,   \* [starts, ends] typed into a promotion's form
          LastMoment,     \* bound: the clock
          MaxPromotions,  \* bound: promotions created
          MaxPromoCalls,  \* bound: calls in flight
          NotedLimit,     \* how many created coupons the session notes
          MaxPrUses       \* bound: what the administrators do

ASSUME PromotionAssumption ==
    /\ PromoWindows \subseteq [starts : Nat, ends : Nat]
    /\ LastMoment \in Nat /\ MaxPromotions \in Nat /\ MaxPromoCalls \in Nat
    /\ NotedLimit \in Nat /\ MaxPrUses \in Nat

VARIABLES promoServer, \* [promotions, coupons] of the promotion service
          promoPage,   \* the page the browser shows
          promoNotes,  \* the coupons noted in the session, newest first
          promoCalls,  \* calls in flight: [op, visit, body, served, found]
          promoClock,  \* the time: n is the moments from n up to n + 1
          promoUses    \* counts towards MaxPrUses

promotionVars == <<promoServer, promoPage, promoNotes, promoCalls, promoClock, promoUses>>

Discounts == {"fair", "over"} \* "over": a percentage above a hundred
NoPromotion == 0
NoCode == ""
PromoAway(visit) == [at |-> "away", visit |-> visit]
AskActive == [op |-> "active", visit |-> 0, body |-> NoPromotion, served |-> FALSE, found |-> {}]

(* What opening a page starts from: the list reads the notes once.         *)
PromotionList(visit) ==
    [at |-> "list", visit |-> visit, tab |-> "promotions", filter |-> "",
     listed |-> {}, coupons |-> promoNotes]
PromotionForm(visit, kind) ==
    [at |-> "new", visit |-> visit, kind |-> kind, saving |-> FALSE, options |-> {},
     window |-> [starts |-> promoClock, ends |-> LastMoment], discount |-> "none",
     code |-> NoCode, promotion |-> NoPromotion]

PromotionInit ==
    /\ promoServer = [promotions |-> {}, coupons |-> {}]
    /\ promoNotes = <<>> /\ promoClock = 0 /\ promoUses = 0
    /\ promoPage = PromotionList(0) /\ promoCalls = {AskActive}

PrUsed == promoUses < MaxPrUses /\ promoUses' = promoUses + 1

-----------------------------------------------------------------------------
(* effectiveStatus: what a row says of a promotion, from its dates first.  *)
EffectiveStatus(p) ==
    IF p.ends <= promoClock THEN "expired"
    ELSE IF p.starts > promoClock THEN "scheduled" ELSE p.status

PromotionsList == {p \in promoPage.listed : promoPage.filter \in {"", EffectiveStatus(p)}}

(* Every noted coupon says it is active; "scheduled" filters no coupon.    *)
CouponsList == IF promoPage.filter = "expired" THEN <<>> ELSE promoPage.coupons

PickPromotionTab(tab) ==
    /\ promoPage.at = "list" /\ promoPage.tab # tab /\ PrUsed
    /\ promoPage' = [promoPage EXCEPT !.tab = tab]
    /\ UNCHANGED <<promoServer, promoNotes, promoCalls, promoClock>>

PickPromotionFilter(status) ==
    /\ promoPage.at = "list" /\ promoPage.filter # status /\ PrUsed
    /\ promoPage' = [promoPage EXCEPT !.filter = status]
    /\ UNCHANGED <<promoServer, promoNotes, promoCalls, promoClock>>

-----------------------------------------------------------------------------
(* Both pages ask for the active promotions when they open; the answer is  *)
(* for the visit that asked, while that visit lasts.                       *)
PromoCalling(op, body) ==
    /\ Cardinality(promoCalls) < MaxPromoCalls
    /\ promoCalls' = promoCalls \cup {[AskActive EXCEPT !.op = op, !.visit = promoPage'.visit, !.body = body]}

OpenPromotionPage(page) ==
    /\ PrUsed /\ promoPage' = page
    /\ PromoCalling("active", NoPromotion)
    /\ UNCHANGED <<promoServer, promoNotes, promoClock>>

OpenPromotions == promoPage.at # "list" /\ OpenPromotionPage(PromotionList(promoPage.visit + 1))

OpenNewPromotion(kind) ==
    /\ promoPage.at = "list"
    /\ OpenPromotionPage(PromotionForm(promoPage.visit + 1, kind))

LeavePromotions ==
    /\ promoPage.at # "away" /\ promoPage' = PromoAway(promoPage.visit)
    /\ UNCHANGED <<promoServer, promoNotes, promoCalls, promoClock, promoUses>>

(* Mutant: the dates alone decide.                                         *)
WithinItsDates ==
    {p \in promoServer.promotions : p.starts <= promoClock /\ promoClock < p.ends}

ActiveAtService ==
    {p \in promoServer.promotions :
        p.status = "active" /\ p.starts <= promoClock /\ promoClock < p.ends}

ServeActive(c) ==
    /\ c \in promoCalls /\ ~c.served /\ c.op = "active"
    /\ promoCalls' = (promoCalls \ {c}) \cup {[c EXCEPT !.served = TRUE, !.found = ActiveAtService]}
    /\ UNCHANGED <<promoServer, promoPage, promoNotes, promoClock, promoUses>>

Answers(c) == promoPage.visit = c.visit /\ promoPage.at # "away"

PromotionsLoaded(found) ==
    IF promoPage.at = "list" THEN [promoPage EXCEPT !.listed = found]
    ELSE [promoPage EXCEPT !.options = found]

ActiveAnswered(c) ==
    /\ c \in promoCalls /\ c.served /\ c.op = "active"
    /\ promoCalls' = promoCalls \ {c}
    /\ promoPage' = IF Answers(c) THEN PromotionsLoaded(c.found) ELSE promoPage
    /\ UNCHANGED <<promoServer, promoNotes, promoClock, promoUses>>

-----------------------------------------------------------------------------
(* The form: one set of fields for a promotion, one for a coupon, and a    *)
(* switch between them that keeps both.                                    *)
OnPromotionForm == promoPage.at = "new" /\ PrUsed
                   /\ UNCHANGED <<promoServer, promoNotes, promoCalls, promoClock>>

SwitchKind ==
    /\ OnPromotionForm
    /\ promoPage' = [promoPage EXCEPT !.kind = IF @ = "coupon" THEN "promotion" ELSE "coupon"]

PromotionFields(window, discount) ==
    /\ OnPromotionForm /\ promoPage.kind = "promotion"
    /\ promoPage' = [promoPage EXCEPT !.window = window, !.discount = discount]

CouponFields(code, promotion) ==
    /\ OnPromotionForm /\ promoPage.kind = "coupon"
    /\ promotion \in {p.id : p \in promoPage.options}
    /\ promoPage' = [promoPage EXCEPT !.code = code, !.promotion = promotion]

(* handleSubmit sends a promotion without what it applies to, its list and *)
(* its status, and a coupon without who may use it and when.               *)
PromotionReady == promoPage.discount # "none" /\ promoPage.window.starts < promoPage.window.ends
CouponReady == promoPage.code # NoCode /\ promoPage.promotion # NoPromotion

PromotionPayload == [starts |-> promoPage.window.starts, ends |-> promoPage.window.ends,
                     discount |-> promoPage.discount]
CouponPayload == [code |-> promoPage.code, promotion |-> promoPage.promotion]

SubmitPromotion ==
    /\ promoPage.at = "new" /\ ~promoPage.saving
    /\ promoPage' = [promoPage EXCEPT !.saving = TRUE]
    /\ \/ /\ promoPage.kind = "promotion" /\ PromotionReady
          /\ PromoCalling("promotion", PromotionPayload)
       \/ /\ promoPage.kind = "coupon" /\ CouponReady
          /\ PromoCalling("coupon", CouponPayload)
    /\ UNCHANGED <<promoServer, promoNotes, promoClock, promoUses>>

-----------------------------------------------------------------------------
(* The service decides the status of a promotion when it is created, and   *)
(* nothing changes it afterwards.                                          *)
Created(window) ==
    [id |-> Cardinality(promoServer.promotions) + 1,
     starts |-> window.starts, ends |-> window.ends,
     status |-> IF window.starts <= promoClock /\ promoClock < window.ends THEN "active" ELSE "draft"]

ServePromotion(c) ==
    /\ c \in promoCalls /\ ~c.served /\ c.op = "promotion"
    /\ Cardinality(promoServer.promotions) < MaxPromotions /\ c.body.discount # "over"
    /\ promoServer' = [promoServer EXCEPT !.promotions = @ \cup {Created(c.body)}]
    /\ promoCalls' = (promoCalls \ {c}) \cup {[c EXCEPT !.served = TRUE]}
    /\ UNCHANGED <<promoPage, promoNotes, promoClock, promoUses>>

(* A coupon needs a promotion of the tenant and a code nobody has.         *)
TakenCodes == {k.code : k \in promoServer.coupons}
ServeCoupon(c) ==
    /\ c \in promoCalls /\ ~c.served /\ c.op = "coupon"
    /\ c.body.promotion \in {p.id : p \in promoServer.promotions}
    /\ c.body.code \notin TakenCodes
    /\ promoServer' = [promoServer EXCEPT !.coupons = @ \cup {c.body}]
    /\ promoCalls' = (promoCalls \ {c}) \cup {[c EXCEPT !.served = TRUE]}
    /\ UNCHANGED <<promoPage, promoNotes, promoClock, promoUses>>

CouponElsewhere(code, promotion) ==
    /\ PrUsed /\ code \notin TakenCodes
    /\ promotion \in {p.id : p \in promoServer.promotions}
    /\ promoServer' = [promoServer EXCEPT !.coupons = @ \cup {[code |-> code, promotion |-> promotion]}]
    /\ UNCHANGED <<promoPage, promoNotes, promoCalls, promoClock>>

(* An answer notes the coupon and goes to the list from whatever page is   *)
(* open by then; it asks again unless the list is what is open.            *)
NoteCoupon(k) == SubSeq(<<k>> \o promoNotes, 1, IF Len(promoNotes) < NotedLimit THEN Len(promoNotes) + 1
                                                ELSE NotedLimit)

BackToPromotions(c) ==
    LET open == promoPage.at = "list"
    IN  /\ promoPage' = IF open THEN promoPage ELSE [PromotionList(promoPage.visit + 1) EXCEPT !.coupons = promoNotes']
        /\ promoCalls' = (promoCalls \ {c}) \cup (IF open THEN {} ELSE {[AskActive EXCEPT !.visit = promoPage'.visit]})

CreationAnswered(c) ==
    /\ c \in promoCalls /\ c.served /\ c.op \in {"promotion", "coupon"}
    /\ promoNotes' = IF c.op = "coupon" THEN NoteCoupon(c.body) ELSE promoNotes
    /\ BackToPromotions(c)
    /\ UNCHANGED <<promoServer, promoClock, promoUses>>

(* A call refused, lost, or served and lost on the way back: the list      *)
(* shows nothing, the select offers nothing, the form may be sent again.   *)
PromotionCallFails(c) ==
    /\ c \in promoCalls /\ promoCalls' = promoCalls \ {c}
    /\ promoPage' = IF ~Answers(c) THEN promoPage
                    ELSE IF c.op = "active" THEN PromotionsLoaded({})
                    ELSE [promoPage EXCEPT !.saving = FALSE]
    /\ UNCHANGED <<promoServer, promoNotes, promoClock, promoUses>>

PromoTick ==
    /\ promoClock < LastMoment /\ promoClock' = promoClock + 1
    /\ UNCHANGED <<promoServer, promoPage, promoNotes, promoCalls, promoUses>>

PromotionNext ==
    \/ OpenPromotions \/ LeavePromotions \/ SwitchKind \/ SubmitPromotion \/ PromoTick
    \/ \E kind \in {"promotion", "coupon"} : OpenNewPromotion(kind)
    \/ \E tab \in {"promotions", "coupons"} : PickPromotionTab(tab)
    \/ \E s \in {"", "active", "scheduled", "expired"} : PickPromotionFilter(s)
    \/ \E w \in PromoWindows, d \in Discounts : PromotionFields(w, d)
    \/ \E code \in CouponCodes, p \in 1..MaxPromotions : CouponFields(code, p) \/ CouponElsewhere(code, p)
    \/ \E c \in promoCalls :
          \/ ServeActive(c) \/ ServePromotion(c) \/ ServeCoupon(c)
          \/ ActiveAnswered(c) \/ CreationAnswered(c) \/ PromotionCallFails(c)

-----------------------------------------------------------------------------
(* Every coupon the session has noted, whichever page its answer found, is *)
(* one of the service's; it is noted once, and the promotion it hangs on   *)
(* was active when the service took it in, never a draft.                  *)
NotedCouponsAreStored ==
    /\ \A i \in DOMAIN promoNotes :
          /\ promoNotes[i] \in promoServer.coupons
          /\ \A j \in DOMAIN promoNotes : promoNotes[i].code = promoNotes[j].code => i = j
    /\ \A i \in DOMAIN promoNotes, p \in promoServer.promotions :
          p.id = promoNotes[i].promotion => p.status = "active"
=============================================================================
