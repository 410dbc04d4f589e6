------------------------------- MODULE Session -------------------------------
(***************************************************************************)
(* Who the browser is signed in as.  The credential is a cookie that only  *)
(* the server routes set and clear (api/auth); the auth store keeps a      *)
(* marker and the user, and every page trusts it; the proxy trusts the     *)
(* cookie.  The answers of login, second factor and logout arrive in any   *)
(* order, and each changes the cookie when it arrives.                     *)
(***************************************************************************)
EXTENDS Naturals, Sequences

CONSTANTS Accounts,   \* accounts people sign in with
          RoleOf,     \* [Accounts -> role]
          Enrolled,   \* accounts with a second factor
          DemoUsers,  \* accounts of the built-in demo list
          NoUser,     \* nobody
          Offline,    \* the user register() makes up when the service is unreachable
          MaxFlights  \* bound: requests to the auth routes at a time

Roles == <<"guest", "customer", "moderator", "admin", "super_admin">>
RoleLevel(r) == CHOOSE i \in DOMAIN Roles : Roles[i] = r

ASSUME SessionAssumption ==
    /\ RoleOf \in [Accounts -> {Roles[i] : i \in DOMAIN Roles}]
    /\ Enrolled \subseteq Accounts /\ DemoUsers \subseteq Accounts
    /\ NoUser \notin Accounts /\ Offline \notin Accounts /\ NoUser # Offline
    /\ MaxFlights \in Nat

VARIABLES production, \* NODE_ENV: the demo route exists only outside production
          cookie,     \* the account of the auth cookie, or NoUser
          challenge,  \* the account of the challenge cookie, or NoUser
          me,         \* the auth store's user; the marker is set iff there is one
          flights,    \* slot -> the request to an auth route that holds it
          page,       \* the page shown: its guard has yet to decide, or it asks
                      \* for a second factor, or neither
          smooth      \* history: no overlap, failure, expiry or made-up user

sessionVars == <<production, cookie, challenge, me, flights, page, smooth>>

(* The areas behind an AuthGuard with the role each layout requires; every *)
(* other page is public.                                                   *)
Areas == {"account", "admin_dashboard", "platform_dashboard", "super_dashboard"}
RequiredRole == [account |-> "customer", admin_dashboard |-> "moderator",
                 platform_dashboard |-> "super_admin", super_dashboard |-> "super_admin"]
LoginSitePages == {"login", "admin_login", "platform_login", "super_login"}
SitePages == Areas \cup LoginSitePages \cup {"register", "products"}

Landed == [stage |-> "done"]

SessionInit ==
    /\ production \in BOOLEAN
    /\ cookie = NoUser /\ challenge = NoUser /\ me = NoUser
    /\ flights = [f \in 1 .. MaxFlights |-> Landed]
    /\ page = [at |-> "products", guard |-> "ok"] /\ smooth = TRUE

Role(u) == IF u \in Accounts THEN RoleOf[u] ELSE IF u = Offline THEN "customer" ELSE "guest"
HasRole(u, r) == u # NoUser /\ RoleLevel(Role(u)) >= RoleLevel(r)

InFlight == {f \in DOMAIN flights : flights[f] # Landed}
Alone == InFlight = {}

Go(p) == page' = [at |-> p, guard |-> IF p \in Areas THEN "checking" ELSE "ok"]

(* A request takes a free slot and gives it back when it is over.          *)
Fly(kind, who, from) ==
    /\ \E f \in DOMAIN flights : flights[f] = Landed
    /\ flights' = [flights EXCEPT ![CHOOSE f \in DOMAIN flights : flights[f] = Landed] =
                      [kind |-> kind, who |-> who, from |-> from, stage |-> "sent", ok |-> FALSE]]

Settle(f) == flights' = [flights EXCEPT ![f] = Landed]

-----------------------------------------------------------------------------
(* The proxy drops what credential a page sends and puts the cookie's in   *)
(* its place: whatever a page asks for, the services see this account.     *)
ProxyActsFor == cookie

(* A page is opened.  The effect of a guard runs in the render that shows  *)
(* its page, so nothing is opened before it has decided.                   *)
Visit(p) ==
    /\ page.guard # "checking" /\ Go(p)
    /\ smooth' = (smooth /\ Alone)
    /\ UNCHANGED <<production, cookie, challenge, me, flights>>

GetLoginPath(r) ==
    IF r = "super_admin" THEN "platform_login"
    ELSE IF r \in {"admin", "moderator"} THEN "admin_login" ELSE "login"

(* Mutant: a moderator's home is the platform's.                           *)
HomeOnThePlatform(u) ==
    IF Role(u) \in {"moderator", "super_admin"} THEN "platform_dashboard"
    ELSE IF Role(u) = "admin" THEN "admin_dashboard" ELSE "products"

HomeOf(u) ==
    IF Role(u) = "super_admin" THEN "platform_dashboard"
    ELSE IF Role(u) \in {"admin", "moderator"} THEN "admin_dashboard" ELSE "products"

(* AuthGuard's effect runs when the page is opened and when the user       *)
(* changes.                                                                *)
AuthGuard ==
    /\ page.guard = "checking"
    /\ LET required == RequiredRole[page.at]
       IN  IF me = NoUser THEN Go(GetLoginPath(required))
           ELSE IF ~HasRole(me, required) THEN Go(HomeOf(me))
           ELSE page' = [page EXCEPT !.guard = "ok"]
    /\ UNCHANGED <<production, cookie, challenge, me, flights, smooth>>

Recheck == page' = [page EXCEPT !.guard = IF page.at \in Areas THEN "checking" ELSE @]

-----------------------------------------------------------------------------
Waiting(p) == \E f \in InFlight : flights[f].from = p /\ flights[f].kind # "logout"

(* The login form.  The platform's passes no tenant, which the route       *)
(* refuses; the super admin's goes to the demo route at once.              *)
SubmitLogin(who) ==
    /\ page.at \in LoginSitePages /\ ~Waiting(page.at)
    /\ page.at = "super_login" => who \in DemoUsers
    /\ Fly(IF page.at = "super_login" THEN "demo" ELSE "login", who, page.at)
    /\ smooth' = (smooth /\ Alone)
    /\ UNCHANGED <<production, cookie, challenge, me, page>>

(* /api/auth/login and the user service's verdict on the credentials.      *)
LoginRoute(f, accepted) ==
    /\ flights[f].kind = "login" /\ flights[f].stage = "sent"
    /\ accepted => flights[f].from # "platform_login"
    /\ flights' = [flights EXCEPT ![f].stage = "answered", ![f].ok = accepted]
    /\ smooth' = (smooth /\ accepted)
    /\ UNCHANGED <<production, cookie, challenge, me, page>>

AfterLogin(u, from) ==
    CASE from = "login" /\ Role(u) = "customer" -> Go("products")
      [] from = "admin_login" /\ Role(u) \in {"admin", "moderator"} -> Go("admin_dashboard")
      [] from \in {"admin_login", "platform_login"} /\ Role(u) = "super_admin" -> Go("platform_dashboard")
      [] from = "super_login" /\ Role(u) = "super_admin" -> Go("super_dashboard")
      [] OTHER -> Recheck

SignIn(u, from) == cookie' = u /\ me' = u /\ AfterLogin(u, from)

(* Mutant: the cookie is set before the second factor is asked for.        *)
AcceptedBeforeCode(f) ==
    /\ flights[f].kind = "login" /\ flights[f].stage = "answered" /\ flights[f].ok
    /\ Settle(f) /\ cookie' = flights[f].who
    /\ IF flights[f].who \in Enrolled
       THEN challenge' = flights[f].who /\ UNCHANGED <<me, page>>
       ELSE me' = flights[f].who /\ AfterLogin(me', flights[f].from) /\ UNCHANGED challenge
    /\ UNCHANGED <<production, smooth>>

LoginAccepted(f) ==
    /\ flights[f].kind = "login" /\ flights[f].stage = "answered" /\ flights[f].ok
    /\ Settle(f)
    /\ IF flights[f].who \in Enrolled
       THEN /\ challenge' = flights[f].who
            /\ page' = IF page.at = flights[f].from THEN [page EXCEPT !.guard = "code"] ELSE page
            /\ UNCHANGED <<cookie, me>>
       ELSE SignIn(flights[f].who, flights[f].from) /\ UNCHANGED challenge
    /\ UNCHANGED <<production, smooth>>

(* Any failure, a wrong password included, falls back to the demo login.   *)
LoginRefused(f) ==
    /\ flights[f].kind = "login" /\ flights[f].stage = "answered" /\ ~flights[f].ok
    /\ flights' = [flights EXCEPT ![f] =
          IF flights[f].who \in DemoUsers
          THEN [@ EXCEPT !.kind = "demo", !.stage = "sent"] ELSE Landed]
    /\ UNCHANGED <<production, cookie, challenge, me, page, smooth>>

(* /api/auth/demo-token sets the cookie for whoever it is; the super       *)
(* admin's page then keeps the store's user unless the role is right.      *)
DemoAnswered(f) ==
    /\ flights[f].kind = "demo" /\ flights[f].stage = "sent"
    /\ Settle(f)
    /\ LET u == flights[f].who
       IN  IF production THEN UNCHANGED <<cookie, me, page, smooth>>
           ELSE IF flights[f].from = "super_login" /\ Role(u) # "super_admin"
           THEN cookie' = u /\ smooth' = FALSE /\ UNCHANGED <<me, page>>
           ELSE SignIn(u, flights[f].from) /\ UNCHANGED smooth
    /\ UNCHANGED <<production, challenge>>

(* The second factor: the cookie sent along names the account.             *)
SubmitCode ==
    /\ challenge # NoUser /\ page.at \in LoginSitePages /\ ~Waiting(page.at)
    /\ Fly("2fa", challenge, page.at)
    /\ smooth' = (smooth /\ Alone)
    /\ UNCHANGED <<production, cookie, challenge, me, page>>

CodeAnswered(f, right) ==
    /\ flights[f].kind = "2fa" /\ flights[f].stage = "sent"
    /\ right => flights[f].who # NoUser
    /\ Settle(f)
    /\ IF right THEN SignIn(flights[f].who, flights[f].from) /\ challenge' = NoUser
       ELSE UNCHANGED <<cookie, challenge, me, page>>
    /\ UNCHANGED <<production, smooth>>

(* The registration form makes a customer and signs in at once; register() *)
(* takes a service it cannot reach for a success: a user and a marker, and *)
(* a cookie only when it was the answer of the login that got lost.        *)
SubmitRegister(who) ==
    /\ page.at = "register" /\ ~Waiting(page.at)
    /\ Role(who) = "customer" /\ who \notin Enrolled
    /\ Fly("register", who, page.at)
    /\ smooth' = (smooth /\ Alone)
    /\ UNCHANGED <<production, cookie, challenge, me, page>>

Registered(f) ==
    /\ flights[f].kind = "register" /\ Settle(f)
    /\ cookie' = flights[f].who /\ me' = flights[f].who /\ Go("products")
    /\ UNCHANGED <<production, challenge, smooth>>

RegisterRefused(f) ==
    /\ flights[f].kind = "register" /\ Settle(f) /\ smooth' = FALSE
    /\ UNCHANGED <<production, cookie, challenge, me, page>>

RegisterOffline(f) ==
    /\ flights[f].kind = "register" /\ Settle(f)
    /\ cookie' \in {cookie, flights[f].who}
    /\ me' = Offline /\ smooth' = FALSE
    /\ Go("products")
    /\ UNCHANGED <<production, challenge>>

-----------------------------------------------------------------------------
(* logout clears the store at once and does not wait for the route.        *)
Logout ==
    /\ me # NoUser
    /\ Fly("logout", NoUser, "products")
    /\ me' = NoUser /\ Recheck
    /\ smooth' = (smooth /\ Alone)
    /\ UNCHANGED <<production, cookie, challenge>>

LogoutAnswered(f, reached) ==
    /\ flights[f].kind = "logout" /\ flights[f].stage = "sent"
    /\ Settle(f)
    /\ cookie' = IF reached THEN NoUser ELSE cookie
    /\ smooth' = (smooth /\ reached)
    /\ UNCHANGED <<production, challenge, me, page>>

(* Both cookies have a lifetime; the marker in the store has none.         *)
CookieExpires ==
    /\ cookie # NoUser /\ cookie' = NoUser /\ smooth' = FALSE
    /\ UNCHANGED <<production, challenge, me, flights, page>>

ChallengeExpires ==
    /\ challenge # NoUser /\ challenge' = NoUser
    /\ UNCHANGED <<production, cookie, me, flights, page, smooth>>

SessionNext ==
    \/ \E p \in SitePages : Visit(p)
    \/ AuthGuard
    \/ \E u \in Accounts : SubmitLogin(u) \/ SubmitRegister(u)
    \/ SubmitCode \/ Logout
    \/ CookieExpires \/ ChallengeExpires
    \/ \E f \in InFlight : \E b \in BOOLEAN :
          LoginRoute(f, b) \/ CodeAnswered(f, b) \/ LogoutAnswered(f, b)
    \/ \E f \in InFlight : LoginAccepted(f) \/ LoginRefused(f) \/ DemoAnswered(f)
    \/ \E f \in InFlight : Registered(f) \/ RegisterRefused(f) \/ RegisterOffline(f)

SessionSpec == SessionInit /\ [][SessionNext]_sessionVars

-----------------------------------------------------------------------------
SessionTypeOK ==
    /\ production \in BOOLEAN /\ smooth \in BOOLEAN
    /\ {cookie, challenge} \subseteq Accounts \cup {NoUser}
    /\ me \in Accounts \cup {NoUser, Offline}
    /\ flights \in [1 .. MaxFlights ->
          [kind : {"login", "demo", "2fa", "register", "logout"}, who : Accounts \cup {NoUser},
           from : SitePages, stage : {"sent", "answered"}, ok : BOOLEAN] \cup {Landed}]
    /\ page \in [at : SitePages, guard : {"checking", "code", "ok"}]

(* In production the proxy never acts for one account while the pages show *)
(* another: whatever order the answers of logins, second factors and       *)
(* logouts arrive in, a cookie and a shown account are the same account.   *)
NeverAnotherUser ==
    production /\ me \in Accounts /\ ProxyActsFor # NoUser => ProxyActsFor = me

(* Without overlap, failure or expiry, the pages show a user exactly when  *)
(* the cookie is there: the marker stands for the cookie.                  *)
SmoothMarkerIsCookie == smooth /\ Alone => cookie = me

(* Whom the pages show is whom the services act for.                       *)
ShownUserIsServed == NeverAnotherUser /\ SmoothMarkerIsCookie

(* Inside a guarded area the guard lets nobody stay whose role is too low. *)
GuardedPage ==
    page.at \in Areas /\ page.guard = "ok" => HasRole(me, RequiredRole[page.at])

(* A guard that sends a user away sends them where they may stay: no two   *)
(* guards send the same user back and forth.                               *)
RedirectsOnce ==
    [][AuthGuard => page'.guard = "ok" \/ HasRole(me, RequiredRole[page'.at])]_sessionVars
=============================================================================
