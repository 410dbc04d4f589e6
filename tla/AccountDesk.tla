----------------------------- MODULE AccountDesk -----------------------------
(***************************************************************************)
(* The pages of a signed-in shopper: the profile and the password, which   *)
(* the user service keeps, the addresses, which only the browser keeps,    *)
(* and the list of orders.  A profile's answer is written over whoever is  *)
(* in the store when it arrives.                                           *)
(***************************************************************************)
EXTENDS Integers, Sequences, FiniteSets

CONSTANTS Shoppers, NoShopper,
          ProfileNames, FirstName, \* what a profile may say, and says at first
          MaxAddresses,            \* bound: addresses
          MaxAcUses                \* bound: what the shoppers do

AccountAssumption ==
    /\ NoShopper \notin Shoppers /\ FirstName \in ProfileNames
    /\ MaxAddresses \in Nat /\ MaxAcUses \in Nat
ASSUME AccountAssumption

VARIABLES acPage,    \* the page and its forms
          acStore,   \* the auth store: [user, name]
          acCookie,  \* whose session the browser's cookie carries
          acServer,  \* the profiles of the user service: shopper -> name
          acFlights, \* profile, password and order calls
          addresses, \* the address store
          acUses     \* counts towards MaxAcUses

accountVars == <<acPage, acStore, acCookie, acServer, acFlights, addresses, acUses>>

SignedOut == [user |-> NoShopper, name |-> FirstName]
AcAway == [at |-> "away"]
ProfilePage ==
    [at |-> "account", edit |-> FALSE, name |-> FirstName, saving |-> FALSE, success |-> FALSE,
     error |-> FALSE, pw |-> "shut", calm |-> TRUE]

AccountInit ==
    /\ acPage = AcAway /\ acStore = SignedOut /\ acCookie = NoShopper
    /\ acServer = [s \in Shoppers |-> FirstName] /\ acFlights = {}
    /\ addresses = <<>> /\ acUses = 0

AcUsed == acUses < MaxAcUses /\ acUses' = acUses + 1
AcAt(at) == acPage.at = at /\ acStore.user # NoShopper
Kept == UNCHANGED <<acStore, acCookie, acServer>>

-----------------------------------------------------------------------------
(* Signing in and out; both leave the pages, neither stops a call.         *)
EnterAccount(s) ==
    /\ acStore.user = NoShopper /\ AcUsed
    /\ acStore' = [user |-> s, name |-> acServer[s]] /\ acCookie' = s
    /\ acPage' = AcAway /\ UNCHANGED <<acServer, acFlights, addresses>>
QuitAccount ==
    /\ acStore.user # NoShopper /\ AcUsed
    /\ acStore' = SignedOut /\ acCookie' = NoShopper
    /\ acPage' = AcAway /\ UNCHANGED <<acServer, acFlights, addresses>>

(* History: a page, and a save, is calm when it starts with no save running*)
(* that an earlier page left behind.                                       *)
Saves == \E f \in acFlights : f.kind = "profile"

OpenProfile ==
    /\ acStore.user # NoShopper /\ acPage.at # "account" /\ AcUsed
    /\ acPage' = [ProfilePage EXCEPT !.name = acStore.name, !.calm = ~Saves]
    /\ UNCHANGED <<acFlights, addresses>> /\ Kept

EditProfile ==
    /\ AcAt("account") /\ ~acPage.edit /\ AcUsed
    /\ acPage' = [acPage EXCEPT !.edit = TRUE, !.name = acStore.name]
    /\ UNCHANGED <<acFlights, addresses>> /\ Kept
TypeProfile(n) ==
    /\ AcAt("account") /\ acPage.edit /\ n # acPage.name /\ AcUsed
    /\ acPage' = [acPage EXCEPT !.name = n] /\ UNCHANGED <<acFlights, addresses>> /\ Kept
CancelProfile ==
    /\ AcAt("account") /\ acPage.edit /\ AcUsed
    /\ acPage' = [acPage EXCEPT !.edit = FALSE, !.error = FALSE]
    /\ UNCHANGED <<acFlights, addresses>> /\ Kept

(* The call works on the user and the token of the click.                  *)
HandleSaveProfile ==
    /\ AcAt("account") /\ acPage.edit /\ ~acPage.saving /\ AcUsed
    /\ acPage' = [acPage EXCEPT !.saving = TRUE, !.error = FALSE, !.calm = ~Saves]
    /\ acFlights' = acFlights \cup
          {[kind |-> "profile", user |-> acStore.user, name |-> acPage.name, served |-> FALSE]}
    /\ UNCHANGED addresses /\ Kept

HandleChangePassword ==
    /\ AcAt("account") /\ acPage.pw = "open" /\ ~acPage.edit /\ AcUsed
    /\ acPage' = [acPage EXCEPT !.pw = "saving"]
    /\ acFlights' = acFlights \cup
          {[kind |-> "password", user |-> acStore.user, name |-> FirstName, served |-> FALSE]}
    /\ UNCHANGED addresses /\ Kept
TogglePasswordForm ==
    /\ AcAt("account") /\ ~acPage.edit /\ AcUsed /\ acPage.pw \in {"open", "shut"}
    /\ acPage' = [acPage EXCEPT !.pw = IF @ = "open" THEN "shut" ELSE "open"]
    /\ UNCHANGED <<acFlights, addresses>> /\ Kept

(* The page opens its list of orders with the user of that moment.         *)
OpenOrders ==
    /\ acStore.user # NoShopper /\ acPage.at # "orders" /\ AcUsed
    /\ acPage' = [at |-> "orders", of |-> NoShopper, loading |-> TRUE, error |-> FALSE]
    /\ acFlights' = {f \in acFlights : f.kind # "orders"} \cup
          {[kind |-> "orders", user |-> acStore.user, name |-> FirstName, served |-> FALSE]}
    /\ UNCHANGED addresses /\ Kept

-----------------------------------------------------------------------------
(* A call carries the cookie of its click, whoever is signed in later.     *)
ServeAccountCall(f) ==
    /\ f \in acFlights /\ ~f.served
    /\ acFlights' = (acFlights \ {f}) \cup {[f EXCEPT !.served = TRUE]}
    /\ acServer' = IF f.kind = "profile" THEN [acServer EXCEPT ![f.user] = f.name] ELSE acServer
    /\ UNCHANGED <<acPage, acStore, acCookie, addresses, acUses>>

MyPage(f) == acPage.at = "account" /\ acStore.user = f.user
(* setAuth with the user of the click and the profile of the answer.       *)
SetAuth(f) == acStore' = [user |-> f.user, name |-> f.name]
ProfileAnswered(f) ==
    /\ f.kind = "profile" /\ f.served /\ SetAuth(f)
    /\ acPage' = IF MyPage(f) THEN [acPage EXCEPT !.success = TRUE, !.edit = FALSE, !.saving = FALSE]
                 ELSE acPage
PasswordAnswered(f) ==
    /\ f.kind = "password" /\ f.served /\ UNCHANGED acStore
    /\ acPage' = IF MyPage(f) THEN [acPage EXCEPT !.pw = "shut"] ELSE acPage
OrdersAnswered(f) ==
    /\ f.kind = "orders" /\ f.served /\ UNCHANGED acStore
    /\ acPage' = IF acPage.at = "orders" THEN [acPage EXCEPT !.of = f.user, !.loading = FALSE] ELSE acPage
AccountAnswered(f) ==
    /\ f \in acFlights /\ acFlights' = acFlights \ {f}
    /\ ProfileAnswered(f) \/ PasswordAnswered(f) \/ OrdersAnswered(f)
    /\ UNCHANGED <<acCookie, acServer, addresses, acUses>>

AccountRefused(f) ==
    /\ f \in acFlights /\ acFlights' = acFlights \ {f}
    /\ acPage' = CASE f.kind = "profile" /\ MyPage(f) -> [acPage EXCEPT !.saving = FALSE, !.error = TRUE, !.calm = FALSE]
                   [] f.kind = "password" /\ MyPage(f) -> [acPage EXCEPT !.pw = "open", !.error = TRUE]
                   [] f.kind = "orders" /\ acPage.at = "orders" -> [acPage EXCEPT !.loading = FALSE, !.error = TRUE]
                   [] OTHER -> acPage
    /\ UNCHANGED <<acStore, acCookie, acServer, addresses, acUses>>

ProfileSuccessFades ==
    /\ acPage.at = "account" /\ acPage.success /\ acPage' = [acPage EXCEPT !.success = FALSE]
    /\ UNCHANGED <<acFlights, addresses, acUses>> /\ Kept

-----------------------------------------------------------------------------
(* The address book.  A form is shown for a new address, for one that is   *)
(* edited, or for both.                                                    *)
OpenAddresses ==
    /\ acStore.user # NoShopper /\ acPage.at # "addresses" /\ AcUsed
    /\ acPage' = [at |-> "addresses", adding |-> FALSE, editing |-> 0, unticked |-> FALSE]
    /\ UNCHANGED <<acFlights, addresses>> /\ Kept

OnAddresses == AcAt("addresses") /\ AcUsed /\ UNCHANGED acFlights /\ Kept
HasAddress(id) == \E k \in DOMAIN addresses : addresses[k].id = id
(* Mutant: a new default address leaves the old one marked.                *)
AllAsTheyWere(as) == as

NoneDefault(as) == [k \in DOMAIN as |-> [as[k] EXCEPT !.default = FALSE]]

ShowAddressForm ==
    /\ OnAddresses /\ ~acPage.adding /\ (acPage.editing = 0 \/ addresses = <<>>)
    /\ acPage' = [acPage EXCEPT !.adding = TRUE] /\ UNCHANGED addresses
EditAddress(id) ==
    /\ OnAddresses /\ HasAddress(id)
    /\ acPage' = [acPage EXCEPT !.editing = id] /\ UNCHANGED addresses
CancelAddress ==
    /\ OnAddresses /\ (acPage.adding \/ HasAddress(acPage.editing))
    /\ acPage' = IF acPage.adding THEN [acPage EXCEPT !.adding = FALSE] ELSE [acPage EXCEPT !.editing = 0]
    /\ UNCHANGED addresses

Defaulted(as, id) == [k \in DOMAIN as |-> [as[k] EXCEPT !.default = as[k].id = id]]

AddAddress(default) ==
    LET id == CHOOSE n \in 1 .. MaxAddresses + 1 : ~HasAddress(n)
    IN  /\ OnAddresses /\ acPage.adding /\ Len(addresses) < MaxAddresses
        /\ addresses' = IF default \/ addresses = <<>>
                        THEN Append(NoneDefault(addresses), [id |-> id, default |-> TRUE])
                        ELSE Append(addresses, [id |-> id, default |-> FALSE])
        /\ acPage' = [acPage EXCEPT !.adding = FALSE]

(* An update writes the tick as it is; only a ticked one moves the default.*)
UpdateAddress(default) ==
    LET id == acPage.editing
    IN  /\ OnAddresses /\ HasAddress(id)
        /\ addresses' = IF default THEN Defaulted(addresses, id)
                        ELSE [k \in DOMAIN addresses |->
                                 IF addresses[k].id = id THEN [addresses[k] EXCEPT !.default = FALSE]
                                 ELSE addresses[k]]
        /\ acPage' = [acPage EXCEPT !.editing = 0]

(* An id is given once, so filtering it out takes one address away.        *)
WithoutAddress(id) ==
    LET at == CHOOSE k \in DOMAIN addresses : addresses[k].id = id
    IN  [k \in 1 .. Len(addresses) - 1 |-> addresses[IF k < at THEN k ELSE k + 1]]

(* Removing the default makes the first of the others the default.         *)
RemoveAddress(id) ==
    LET rest == WithoutAddress(id)
        lost == \E k \in DOMAIN addresses : addresses[k].id = id /\ addresses[k].default
    IN  /\ OnAddresses /\ HasAddress(id) /\ UNCHANGED acPage
        /\ addresses' = IF lost /\ rest # <<>> THEN [rest EXCEPT ![1].default = TRUE] ELSE rest

SetDefaultAddress(id) ==
    /\ OnAddresses /\ HasAddress(id) /\ UNCHANGED acPage
    /\ addresses' = Defaulted(addresses, id)

AccountNext ==
    \/ \E s \in Shoppers : EnterAccount(s)
    \/ QuitAccount \/ OpenProfile \/ EditProfile \/ CancelProfile \/ HandleSaveProfile
    \/ \E n \in ProfileNames : TypeProfile(n)
    \/ HandleChangePassword \/ TogglePasswordForm \/ OpenOrders \/ ProfileSuccessFades
    \/ \E f \in acFlights : ServeAccountCall(f) \/ AccountAnswered(f) \/ AccountRefused(f)
    \/ OpenAddresses \/ ShowAddressForm \/ CancelAddress
    \/ \E b \in BOOLEAN : AddAddress(b) \/ UpdateAddress(b)
    \/ \E id \in 1 .. MaxAddresses : EditAddress(id) \/ RemoveAddress(id) \/ SetDefaultAddress(id)

-----------------------------------------------------------------------------
DefaultAddresses == {k \in DOMAIN addresses : addresses[k].default}

(* No sequence of adding, editing, removing and choosing leaves two default*)
(* addresses.                                                              *)
OneDefaultAddressAtMost == Cardinality(DefaultAddresses) <= 1

(* "Profile updated" means that the store and the user service agree on    *)
(* the profile, when the last save met no other one and did not fail.      *)
CalmProfileIsServed ==
    AcAt("account") /\ acPage.success /\ acPage.calm /\ ~Saves
        => acStore.name = acServer[acStore.user]

(* What the account pages show: a profile that was saved is the stored     *)
(* one, and the address book marks one address as the default at most.     *)
AccountShowsAnswers == CalmProfileIsServed /\ OneDefaultAddressAtMost
=============================================================================
