---------------------------- MODULE PlatformPlans ----------------------------
(***************************************************************************)
(* Plans and billing of the platform (super-admin/plans).  The plans, the  *)
(* gateways and the billing settings live in the page and nowhere else:    *)
(* opening it again starts over.  Only the tenants come from a service; a  *)
(* tenant belongs to the plan whose tier it names.                         *)
(***************************************************************************)
EXTENDS Integers, FiniteSets, FiniteSetsExt

CONSTANTS PlanNames,  \* names that can be typed; a tier is made from a name
          PlanPrices, \* monthly prices that can be typed
          PlanTenants, \* tenants of the platform
          TierOf,     \* [PlanTenants -> tier]
          MaxPlans,   \* bound: plans at a time
          MaxPpUses   \* bound: what the administrator does

Untyped == "" \* what an empty input, and the tier of a new plan, holds

ASSUME PlatformPlansAssumption ==
    /\ PlanNames # {} /\ Untyped \notin PlanNames
    /\ TierOf \in [PlanTenants -> PlanNames] /\ PlanPrices \subseteq Nat
    /\ MaxPlans \in Nat /\ MaxPpUses \in Nat

VARIABLES ppPage, \* the page
          ppUses  \* counts towards MaxPpUses

platformPlansVars == <<ppPage, ppUses>>

Unlimited == -1
NoPlan == [id |-> 0, name |-> "none", tier |-> "none", price |-> 0, perks |-> FALSE, limit |-> 0]
DefaultPlan(id, name) == [NoPlan EXCEPT !.id = id, !.name = name, !.tier = name, !.limit = 100]
Invoices == {[id |-> 1, status |-> "paid", amount |-> 2], [id |-> 2, status |-> "pending", amount |-> 1],
             [id |-> 3, status |-> "overdue", amount |-> 2], [id |-> 4, status |-> "cancelled", amount |-> 1]}
Gateways == [sslcommerz |-> "on", nagad |-> "disconnected"]
BillingDefaults == [day |-> 1, suspend |-> TRUE]

PpFresh ==
    [tab |-> "plans", plans |-> {DefaultPlan(1, CHOOSE n \in PlanNames : TRUE)},
     modal |-> "closed", form |-> NoPlan, asking |-> 0, yearly |-> FALSE,
     filter |-> "all", gateways |-> Gateways, billing |-> BillingDefaults,
     tenants |-> {}]

PlatformPlansInit == ppPage = PpFresh /\ ppUses = 0

PpUsed == ppUses < MaxPpUses /\ ppUses' = ppUses + 1
OnTab(tab) == ppPage.tab = tab /\ ppPage.modal = "closed" /\ PpUsed

-----------------------------------------------------------------------------
(* What the page works out.                                                *)
Subscribers(p) == Cardinality({t \in ppPage.tenants : TierOf[t] = p.tier})
TotalMRR == MapThenSumSet(LAMBDA p : p.price * Subscribers(p), ppPage.plans)
FilteredInvoices == {i \in Invoices : ppPage.filter \in {"all", i.status}}
Outstanding == MapThenSumSet(LAMBDA i : i.amount, {i \in Invoices : i.status \in {"pending", "overdue"}})

(* fetchTenants, once, when the page opens; a failure leaves none.         *)
TenantsArrive ==
    /\ ppPage.tenants = {} /\ PlanTenants # {}
    /\ ppPage' = [ppPage EXCEPT !.tenants = PlanTenants]
    /\ UNCHANGED ppUses

ShowPlansTab(tab) ==
    /\ ppPage.modal = "closed" /\ ppPage.tab # tab /\ PpUsed
    /\ ppPage' = [ppPage EXCEPT !.tab = tab]

ToggleYearly == OnTab("plans") /\ ppPage' = [ppPage EXCEPT !.yearly = ~@]

OpenCreateModal ==
    /\ OnTab("plans") /\ Cardinality(ppPage.plans) < MaxPlans
    /\ LET fresh == CHOOSE n \in 2 .. MaxPlans + 2 : \A p \in ppPage.plans : p.id # n
       IN  ppPage' = [ppPage EXCEPT !.modal = "create",
                        !.form = [NoPlan EXCEPT !.id = fresh, !.name = Untyped, !.tier = Untyped, !.limit = 100]]

OpenEditModal(p) ==
    /\ OnTab("plans") /\ ppPage' = [ppPage EXCEPT !.modal = "edit", !.form = p]

ClosePlanModal ==
    /\ ppPage.modal # "closed" /\ PpUsed
    /\ ppPage' = [ppPage EXCEPT !.modal = "closed"]

(* Every input of the form writes to it; a number that cannot be read is 0 *)
(* and -1 stands for no limit.                                             *)
TypePlanName(n) ==
    /\ ppPage.modal # "closed" /\ PpUsed /\ ppPage' = [ppPage EXCEPT !.form.name = n]
TypePlanPrice(n) ==
    /\ ppPage.modal # "closed" /\ PpUsed /\ ppPage' = [ppPage EXCEPT !.form.price = n]
TogglePlanFeature ==
    /\ ppPage.modal # "closed" /\ PpUsed /\ ppPage' = [ppPage EXCEPT !.form.perks = ~@]
TypePlanLimit(n) ==
    /\ ppPage.modal # "closed" /\ PpUsed /\ ppPage' = [ppPage EXCEPT !.form.limit = n]

(* Mutant: the tier follows the name.                                      *)
PlanOfItsName == [ppPage.form EXCEPT !.tier = ppPage.form.name]

(* A plan that has a tier keeps it when it is renamed.                     *)
PlanToSave ==
    [ppPage.form EXCEPT !.tier = IF @ = Untyped THEN ppPage.form.name ELSE @]

SavePlan ==
    /\ ppPage.modal # "closed" /\ ppPage.form.name # Untyped /\ PpUsed
    /\ ppPage' = [ppPage EXCEPT !.modal = "closed",
                    !.plans = {p \in @ : p.id # ppPage.form.id} \cup {PlanToSave}]

(* The second click deletes, whoever subscribes.                           *)
AskDeletePlan(p) == OnTab("plans") /\ ppPage' = [ppPage EXCEPT !.asking = p.id]
KeepPlan == OnTab("plans") /\ ppPage.asking # 0 /\ ppPage' = [ppPage EXCEPT !.asking = 0]
DeletePlan(p) ==
    /\ OnTab("plans") /\ ppPage.asking = p.id
    /\ ppPage' = [ppPage EXCEPT !.plans = @ \ {p}, !.asking = 0]

-----------------------------------------------------------------------------
(* The billing tab.                                                        *)
FilterInvoices(status) ==
    OnTab("billing") /\ ppPage.filter # status /\ ppPage' = [ppPage EXCEPT !.filter = status]

ToggleGateway(g) ==
    /\ OnTab("billing") /\ ppPage.gateways[g] # "disconnected"
    /\ ppPage' = [ppPage EXCEPT !.gateways[g] = IF @ = "on" THEN "off" ELSE "on"]

TypeBilling(day) ==
    OnTab("billing") /\ ppPage' = [ppPage EXCEPT !.billing.day = IF day = 0 THEN 1 ELSE day]
ToggleSuspend == OnTab("billing") /\ ppPage' = [ppPage EXCEPT !.billing.suspend = ~@]

ReopenPlans == PpUsed /\ ppPage' = PpFresh

PlatformPlansNext ==
    \/ TenantsArrive \/ ToggleYearly \/ OpenCreateModal \/ ClosePlanModal \/ SavePlan
    \/ \E tab \in {"plans", "billing"} : ShowPlansTab(tab)
    \/ \E p \in ppPage.plans : OpenEditModal(p) \/ AskDeletePlan(p) \/ DeletePlan(p)
    \/ \E n \in PlanNames \cup {Untyped} : TypePlanName(n)
    \/ \E n \in PlanPrices : TypePlanPrice(n)
    \/ \E n \in {Unlimited, 0} : TypePlanLimit(n)
    \/ TogglePlanFeature \/ KeepPlan
    \/ \E s \in {"all", "paid", "overdue"} : FilterInvoices(s)
    \/ \E g \in DOMAIN Gateways : ToggleGateway(g)
    \/ \E d \in {0, 28} : TypeBilling(d)
    \/ ToggleSuspend \/ ReopenPlans

-----------------------------------------------------------------------------
(* A plan keeps its subscribers, and its share of the revenue, when it is  *)
(* edited: they are found by the tier, which a new name leaves alone.      *)
PlanKeepsSubscribers ==
    [][\A p \in ppPage.plans, q \in ppPage'.plans : p.id = q.id => p.tier = q.tier]_platformPlansVars
=============================================================================
