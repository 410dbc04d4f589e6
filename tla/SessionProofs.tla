---------------------------- MODULE SessionProofs ----------------------------
(***************************************************************************)
(* Theorems about Session, for any accounts with any roles and any number  *)
(* of requests in flight: whom the proxy acts for, and what the guards let *)
(* through.                                                                *)
(***************************************************************************)
EXTENDS Session, TLAPS

Flight == [kind : {"login", "demo", "2fa", "register", "logout"}, who : Accounts \cup {NoUser},
           from : SitePages, stage : {"sent", "answered"}, ok : BOOLEAN]

\* A login is made for somebody; so is a second factor that is right.
SomebodyLogsIn ==
    \A f \in InFlight : flights[f].kind \in {"login", "demo", "register"} => flights[f].who \in Accounts

SessionInv == SessionTypeOK /\ SomebodyLogsIn /\ NeverAnotherUser /\ GuardedPage

\* Guards look again where a page is opened in a guarded area.
LEMMA GoGuards ==
  ASSUME NEW p \in SitePages, Go(p)
  PROVE  /\ page' \in [at : SitePages, guard : {"checking", "code", "ok"}]
         /\ page'.at \in Areas => page'.guard = "checking"
BY DEF Go

LEMMA RecheckGuards ==
  ASSUME SessionTypeOK, Recheck
  PROVE  /\ page' \in [at : SitePages, guard : {"checking", "code", "ok"}]
         /\ page'.at \in Areas => page'.guard = "checking"
BY DEF SessionTypeOK, Recheck

LEMMA SignInGuards ==
  ASSUME SessionTypeOK, NEW u \in Accounts, NEW from \in SitePages, SignIn(u, from)
  PROVE  /\ page' \in [at : SitePages, guard : {"checking", "code", "ok"}]
         /\ page'.at \in Areas => page'.guard = "checking"
         /\ me' = u /\ cookie' = u
<1>1. CASE Recheck
  BY <1>1, RecheckGuards DEF SignIn
<1>2. CASE \E p \in {"products", "admin_dashboard", "platform_dashboard", "super_dashboard"} : Go(p)
  <2>1. PICK p \in {"products", "admin_dashboard", "platform_dashboard", "super_dashboard"} : Go(p)
    BY <1>2
  <2>2. p \in SitePages
    BY DEF SitePages, Areas
  <2> QED
    BY <2>1, <2>2, GoGuards DEF SignIn
<1> QED
  BY <1>1, <1>2 DEF SignIn, AfterLogin

\* A request that takes off is typed, and the others stay what they are.
LEMMA FlyTyped ==
  ASSUME SessionTypeOK, SomebodyLogsIn, NEW k \in {"login", "demo", "2fa", "register", "logout"},
         NEW w \in Accounts \cup {NoUser}, NEW p \in SitePages, Fly(k, w, p),
         k \in {"login", "demo", "register"} => w \in Accounts
  PROVE  /\ flights' \in [1 .. MaxFlights -> Flight \cup {Landed}]
         /\ SomebodyLogsIn'
<1> DEFINE s == CHOOSE f \in DOMAIN flights : flights[f] = Landed
           new == [kind |-> k, who |-> w, from |-> p, stage |-> "sent", ok |-> FALSE]
<1>1. flights \in [1 .. MaxFlights -> Flight \cup {Landed}]
  BY DEF SessionTypeOK, Flight
<1>2. s \in DOMAIN flights
  BY DEF Fly
<1>3. new \in Flight
  BY DEF Flight
<1>4. flights' = [flights EXCEPT ![s] = new]
  BY DEF Fly
<1> HIDE DEF s, new
<1>5. flights' \in [1 .. MaxFlights -> Flight \cup {Landed}]
  BY <1>1, <1>2, <1>3, <1>4
<1>6. SomebodyLogsIn'
  <2> SUFFICES ASSUME NEW f \in DOMAIN flights', flights'[f] # Landed,
                      flights'[f].kind \in {"login", "demo", "register"}
               PROVE  flights'[f].who \in Accounts
    BY DEF SomebodyLogsIn, InFlight
  <2>1. CASE f = s
    BY <1>1, <1>2, <1>4, <2>1 DEF new
  <2>2. CASE f # s
    BY <1>1, <1>4, <2>2 DEF SomebodyLogsIn, InFlight
  <2> QED
    BY <2>1, <2>2
<1> QED
  BY <1>5, <1>6

\* A request that goes on, or is over, leaves the others as they are.
LEMMA FlightMoves ==
  ASSUME SessionTypeOK, SomebodyLogsIn, NEW f \in InFlight, NEW x \in Flight \cup {Landed},
         flights' = [flights EXCEPT ![f] = x],
         x # Landed /\ x.kind \in {"login", "demo", "register"} => x.who \in Accounts
  PROVE  /\ flights' \in [1 .. MaxFlights -> Flight \cup {Landed}]
         /\ SomebodyLogsIn'
<1>1. flights \in [1 .. MaxFlights -> Flight \cup {Landed}] /\ f \in 1 .. MaxFlights
  BY DEF SessionTypeOK, Flight, InFlight
<1>2. flights' \in [1 .. MaxFlights -> Flight \cup {Landed}]
  BY <1>1
<1>3. SomebodyLogsIn'
  BY <1>1, <1>2 DEF SomebodyLogsIn, InFlight
<1> QED
  BY <1>2, <1>3

\* What is known of a request in flight.
LEMMA FlightTyped ==
  ASSUME SessionInv, NEW f \in InFlight
  PROVE  /\ flights[f] \in Flight /\ flights[f] # Landed /\ Landed \in Flight \cup {Landed}
         /\ flights[f].who \in Accounts \cup {NoUser} /\ flights[f].from \in SitePages
         /\ flights[f].kind \in {"login", "demo", "2fa", "register", "logout"}
         /\ flights[f].kind \in {"login", "demo", "register"} => flights[f].who \in Accounts
BY DEF SessionInv, SessionTypeOK, SomebodyLogsIn, InFlight, Flight

\* The initial state satisfies the invariant.
LEMMA SessionInitInv == SessionInit => SessionInv
<1> SUFFICES ASSUME SessionInit PROVE SessionInv
  OBVIOUS
<1>1. SessionTypeOK
  BY DEF SessionInit, SessionTypeOK, SitePages
<1>2. SomebodyLogsIn
  BY DEF SessionInit, SomebodyLogsIn, InFlight
<1>3. NeverAnotherUser
  BY SessionAssumption DEF SessionInit, NeverAnotherUser
<1>4. GuardedPage
  BY DEF SessionInit, GuardedPage, Areas
<1> QED
  BY <1>1, <1>2, <1>3, <1>4 DEF SessionInv

\* A step that shows a page anew, to a user it leaves alone.
LEMMA PageOpens ==
  ASSUME SessionInv, NEW p \in SitePages, Go(p), smooth' \in BOOLEAN,
         UNCHANGED <<production, cookie, challenge, me, flights>>
  PROVE  SessionInv'
BY GoGuards DEF SessionInv, SessionTypeOK, SomebodyLogsIn, InFlight, NeverAnotherUser, ProxyActsFor, GuardedPage

\* A step after which the user, if any, is the cookie's, and whose page is
\* guarded again.
LEMMA UserChanges ==
  ASSUME SessionInv,
         flights' \in [1 .. MaxFlights -> Flight \cup {Landed}], SomebodyLogsIn',
         UNCHANGED production, smooth' \in BOOLEAN,
         cookie' \in Accounts \cup {NoUser}, challenge' \in Accounts \cup {NoUser},
         me' \in Accounts \cup {NoUser, Offline},
         me' \in Accounts => cookie' = me',
         page' \in [at : SitePages, guard : {"checking", "code", "ok"}],
         page'.at \in Areas => page'.guard = "checking"
  PROVE  SessionInv'
BY DEF SessionInv, SessionTypeOK, NeverAnotherUser, ProxyActsFor, GuardedPage, Flight

\* A step that leaves user and page alone, and whose cookie is the old one
\* or none.
LEMMA UserStays ==
  ASSUME SessionInv,
         flights' \in [1 .. MaxFlights -> Flight \cup {Landed}], SomebodyLogsIn',
         UNCHANGED <<production, me>>, smooth' \in BOOLEAN,
         cookie' \in {cookie, NoUser}, challenge' \in Accounts \cup {NoUser},
         page' = page \/ page' = [page EXCEPT !.guard = "code"]
  PROVE  SessionInv'
<1>1. /\ page' \in [at : SitePages, guard : {"checking", "code", "ok"}] /\ page'.at = page.at
      /\ page'.guard = "ok" => page.guard = "ok"
  BY DEF SessionInv, SessionTypeOK
<1> QED
  BY <1>1 DEF SessionInv, SessionTypeOK, NeverAnotherUser, ProxyActsFor, GuardedPage, HasRole, Flight

LEMMA WaysOut ==
  ASSUME NEW u, NEW r
  PROVE  GetLoginPath(r) \in SitePages /\ HomeOf(u) \in SitePages
BY DEF GetLoginPath, HomeOf, SitePages, Areas, LoginSitePages

\* A guard decides.
LEMMA GuardKeepsInv == SessionInv /\ AuthGuard => SessionInv'
<1> SUFFICES ASSUME SessionInv, AuthGuard PROVE SessionInv'
  OBVIOUS
<1>0. smooth' \in BOOLEAN
  BY DEF AuthGuard, SessionInv, SessionTypeOK
<1>1. CASE \E p \in SitePages : Go(p)
  BY <1>0, <1>1, PageOpens DEF AuthGuard
<1>2. CASE HasRole(me, RequiredRole[page.at]) /\ page' = [page EXCEPT !.guard = "ok"]
  BY <1>2 DEF AuthGuard, SessionInv, SessionTypeOK, SomebodyLogsIn, InFlight, NeverAnotherUser,
              ProxyActsFor, GuardedPage, HasRole
<1> QED
  <2>1. HasRole(me, RequiredRole[page.at]) => me # NoUser
    BY DEF HasRole
  <2> QED
    BY <1>1, <1>2, <2>1, WaysOut DEF AuthGuard

\* Requests take off.
LEMMA SubmitKeepsInv ==
  ASSUME SessionInv
  PROVE  /\ \A u \in Accounts : SubmitLogin(u) \/ SubmitRegister(u) => SessionInv'
         /\ SubmitCode \/ Logout => SessionInv'
<1>0. SessionTypeOK /\ SomebodyLogsIn /\ smooth \in BOOLEAN /\ Alone \in BOOLEAN /\ page.at \in SitePages
      /\ cookie \in Accounts \cup {NoUser} /\ challenge \in Accounts \cup {NoUser}
  BY DEF SessionInv, SessionTypeOK, Alone
<1>1. ASSUME NEW u \in Accounts, SubmitLogin(u) PROVE SessionInv'
  <2>1. /\ flights' \in [1 .. MaxFlights -> Flight \cup {Landed}]
        /\ SomebodyLogsIn'
    BY <1>0, <1>1, FlyTyped DEF SubmitLogin
  <2> QED
    BY <1>0, <1>1, <2>1, UserStays DEF SubmitLogin
<1>2. ASSUME NEW u \in Accounts, SubmitRegister(u) PROVE SessionInv'
  <2>1. /\ flights' \in [1 .. MaxFlights -> Flight \cup {Landed}]
        /\ SomebodyLogsIn'
    BY <1>0, <1>2, FlyTyped DEF SubmitRegister
  <2> QED
    BY <1>0, <1>2, <2>1, UserStays DEF SubmitRegister
<1>3. ASSUME SubmitCode PROVE SessionInv'
  <2>1. /\ flights' \in [1 .. MaxFlights -> Flight \cup {Landed}]
        /\ SomebodyLogsIn'
    BY <1>0, <1>3, FlyTyped DEF SubmitCode
  <2> QED
    BY <1>0, <1>3, <2>1, UserStays DEF SubmitCode
<1>4. ASSUME Logout PROVE SessionInv'
  <2>1. /\ flights' \in [1 .. MaxFlights -> Flight \cup {Landed}]
        /\ SomebodyLogsIn'
    BY <1>0, <1>4, FlyTyped DEF Logout, SitePages
  <2>2. /\ page' \in [at : SitePages, guard : {"checking", "code", "ok"}]
        /\ page'.at \in Areas => page'.guard = "checking"
    BY <1>0, <1>4, RecheckGuards DEF Logout
  <2>3. me' = NoUser /\ smooth' \in BOOLEAN /\ UNCHANGED <<production, cookie, challenge>>
    BY <1>0, <1>4 DEF Logout
  <2> QED
    BY <1>0, <2>1, <2>2, <2>3, SessionAssumption, UserChanges
<1> QED
  BY <1>1, <1>2, <1>3, <1>4

\* A request of the login is answered.
LEMMA LoginKeepsInv ==
  ASSUME SessionInv, NEW f \in InFlight
  PROVE  /\ \A b \in BOOLEAN : LoginRoute(f, b) => SessionInv'
         /\ LoginAccepted(f) \/ LoginRefused(f) \/ DemoAnswered(f) => SessionInv'
<1>0. /\ SessionTypeOK /\ SomebodyLogsIn /\ smooth \in BOOLEAN
      /\ cookie \in Accounts \cup {NoUser} /\ challenge \in Accounts \cup {NoUser}
  BY DEF SessionInv, SessionTypeOK
<1>1. ASSUME NEW b \in BOOLEAN, LoginRoute(f, b) PROVE SessionInv'
  <2> DEFINE x == [flights[f] EXCEPT !.stage = "answered", !.ok = b]
  <2>1. x \in Flight /\ x.kind = flights[f].kind /\ x.who = flights[f].who /\ flights' = [flights EXCEPT ![f] = x]
    BY <1>1, FlightTyped DEF LoginRoute, Flight
  <2> HIDE DEF x
  <2>2. /\ flights' \in [1 .. MaxFlights -> Flight \cup {Landed}]
        /\ SomebodyLogsIn'
    BY <1>0, <2>1, FlightMoves, FlightTyped
  <2> QED
    BY <1>0, <1>1, <2>2, UserStays DEF LoginRoute
<1>2. ASSUME LoginAccepted(f) PROVE SessionInv'
  <2>1. /\ flights' \in [1 .. MaxFlights -> Flight \cup {Landed}]
        /\ SomebodyLogsIn'
    BY <1>0, <1>2, FlightMoves, FlightTyped DEF LoginAccepted, Settle
  <2>2. flights[f].who \in Accounts /\ flights[f].from \in SitePages /\ UNCHANGED <<production, smooth>>
    BY <1>2, FlightTyped DEF LoginAccepted
  <2>3. CASE flights[f].who \in Enrolled
    BY <1>0, <1>2, <2>1, <2>2, <2>3, UserStays DEF LoginAccepted
  <2>4. CASE flights[f].who \notin Enrolled
    <3>1. SignIn(flights[f].who, flights[f].from) /\ UNCHANGED challenge
      BY <1>2, <2>4 DEF LoginAccepted
    <3> QED
      BY <1>0, <2>1, <2>2, <3>1, SignInGuards, UserChanges
  <2> QED
    BY <2>3, <2>4
<1>3. ASSUME LoginRefused(f) PROVE SessionInv'
  <2> DEFINE x == IF flights[f].who \in DemoUsers
                  THEN [flights[f] EXCEPT !.kind = "demo", !.stage = "sent"] ELSE Landed
  <2>1. x \in Flight \cup {Landed} /\ (x # Landed => x.who \in Accounts) /\ flights' = [flights EXCEPT ![f] = x]
    BY <1>3, FlightTyped DEF LoginRefused, Flight
  <2> HIDE DEF x
  <2>2. /\ flights' \in [1 .. MaxFlights -> Flight \cup {Landed}]
        /\ SomebodyLogsIn'
    BY <1>0, <2>1, FlightMoves
  <2> QED
    BY <1>0, <1>3, <2>2, UserStays DEF LoginRefused
<1>4. ASSUME DemoAnswered(f) PROVE SessionInv'
  <2>1. /\ flights' \in [1 .. MaxFlights -> Flight \cup {Landed}]
        /\ SomebodyLogsIn'
    BY <1>0, <1>4, FlightMoves, FlightTyped DEF DemoAnswered, Settle
  <2>2. flights[f].who \in Accounts /\ flights[f].from \in SitePages /\ UNCHANGED <<production, challenge>>
    BY <1>4, FlightTyped DEF DemoAnswered
  <2>3. CASE UNCHANGED <<cookie, me, page, smooth>>
    BY <1>0, <2>1, <2>2, <2>3, UserStays
  <2>4. CASE ~production /\ cookie' = flights[f].who /\ smooth' = FALSE /\ UNCHANGED <<me, page>>
    BY <1>0, <2>1, <2>2, <2>4 DEF SessionInv, SessionTypeOK, NeverAnotherUser, GuardedPage, HasRole, Flight
  <2>5. CASE SignIn(flights[f].who, flights[f].from) /\ UNCHANGED smooth
    BY <1>0, <2>1, <2>2, <2>5, SignInGuards, UserChanges
  <2> QED
    BY <1>4, <2>3, <2>4, <2>5 DEF DemoAnswered
<1> QED
  BY <1>1, <1>2, <1>3, <1>4

\* Any other request is answered.
LEMMA AnswerKeepsInv ==
  ASSUME SessionInv, NEW f \in InFlight
  PROVE  /\ \A b \in BOOLEAN : CodeAnswered(f, b) \/ LogoutAnswered(f, b) => SessionInv'
         /\ Registered(f) \/ RegisterRefused(f) \/ RegisterOffline(f) => SessionInv'
<1>0. /\ SessionTypeOK /\ SomebodyLogsIn /\ smooth \in BOOLEAN
      /\ cookie \in Accounts \cup {NoUser} /\ challenge \in Accounts \cup {NoUser}
  BY DEF SessionInv, SessionTypeOK
<1>1. Settle(f) => /\ flights' \in [1 .. MaxFlights -> Flight \cup {Landed}]
                   /\ SomebodyLogsIn'
  BY <1>0, FlightMoves, FlightTyped DEF Settle
<1>2. ASSUME NEW b \in BOOLEAN, CodeAnswered(f, b) PROVE SessionInv'
  <2>1. Settle(f) /\ flights[f].from \in SitePages /\ UNCHANGED <<production, smooth>>
    BY <1>2, FlightTyped DEF CodeAnswered
  <2>2. CASE b
    <3>1. flights[f].who \in Accounts /\ SignIn(flights[f].who, flights[f].from) /\ challenge' = NoUser
      BY <1>2, <2>2, FlightTyped DEF CodeAnswered
    <3> QED
      BY <1>0, <1>1, <2>1, <3>1, SignInGuards, UserChanges
  <2>3. CASE ~b
    BY <1>0, <1>1, <1>2, <2>1, <2>3, UserStays DEF CodeAnswered
  <2> QED
    BY <2>2, <2>3
<1>3. ASSUME NEW b \in BOOLEAN, LogoutAnswered(f, b) PROVE SessionInv'
  BY <1>0, <1>1, <1>3, UserStays DEF LogoutAnswered
<1>4. ASSUME Registered(f) PROVE SessionInv'
  <2>1. flights[f].who \in Accounts /\ "products" \in SitePages
    BY <1>4, FlightTyped DEF Registered, SitePages
  <2> QED
    BY <1>0, <1>1, <1>4, <2>1, GoGuards, UserChanges DEF Registered
<1>5. ASSUME RegisterRefused(f) PROVE SessionInv'
  BY <1>0, <1>1, <1>5, UserStays DEF RegisterRefused
<1>6. ASSUME RegisterOffline(f) PROVE SessionInv'
  <2>1. flights[f].who \in Accounts \cup {NoUser} /\ "products" \in SitePages
    BY FlightTyped DEF SitePages
  <2>2. me' = Offline /\ me' \notin Accounts
    BY <1>6, SessionAssumption DEF RegisterOffline
  <2> QED
    BY <1>0, <1>1, <1>6, <2>1, <2>2, GoGuards, UserChanges DEF RegisterOffline
<1> QED
  BY <1>2, <1>3, <1>4, <1>5, <1>6

\* Every step keeps the invariant.
LEMMA SessionStepInv == SessionInv /\ [SessionNext]_sessionVars => SessionInv'
<1> SUFFICES ASSUME SessionInv, [SessionNext]_sessionVars PROVE SessionInv'
  OBVIOUS
<1>1. ASSUME NEW p \in SitePages, Visit(p) PROVE SessionInv'
  <2>1. smooth' \in BOOLEAN
    BY <1>1 DEF Visit, SessionInv, SessionTypeOK, Alone
  <2> QED
    BY <1>1, <2>1, PageOpens DEF Visit
<1>2. CASE CookieExpires
  BY <1>2, UserStays DEF CookieExpires, SessionInv, SessionTypeOK, SomebodyLogsIn, InFlight, Flight
<1>3. CASE ChallengeExpires
  BY <1>3, UserStays DEF ChallengeExpires, SessionInv, SessionTypeOK, SomebodyLogsIn, InFlight, Flight
<1>4. CASE UNCHANGED sessionVars
  BY <1>4 DEF sessionVars, SessionInv, SessionTypeOK, SomebodyLogsIn, InFlight, NeverAnotherUser,
              ProxyActsFor, GuardedPage, HasRole
<1> QED
  BY <1>1, <1>2, <1>3, <1>4, GuardKeepsInv, SubmitKeepsInv, LoginKeepsInv, AnswerKeepsInv DEF SessionNext

-----------------------------------------------------------------------------
\* While nothing overlapped or failed: one request at most is in flight, and
\* but for a logout on its way the cookie and the user shown are the same.
MarkerInv ==
    smooth => /\ \A f, g \in InFlight : f = g
              /\ (\A f \in InFlight : flights[f].kind # "logout") => cookie = me
              /\ (\E f \in InFlight : flights[f].kind = "logout") => me = NoUser

\* A request takes off when none is in flight.
LEMMA MarkerTakesOff ==
  ASSUME SessionTypeOK, MarkerInv, NEW k, NEW w, NEW p, Fly(k, w, p), smooth' => smooth /\ Alone,
         cookie' = cookie, IF k = "logout" THEN me' = NoUser ELSE me' = me
  PROVE  MarkerInv'
<1> SUFFICES ASSUME smooth' PROVE MarkerInv'
  BY DEF MarkerInv
<1> DEFINE s == CHOOSE f \in DOMAIN flights : flights[f] = Landed
           new == [kind |-> k, who |-> w, from |-> p, stage |-> "sent", ok |-> FALSE]
<1>1. s \in DOMAIN flights /\ flights' = [flights EXCEPT ![s] = new]
  BY DEF Fly
<1>2. new # Landed /\ new.kind = k
  BY DEF Landed
<1> HIDE DEF s, new
<1>3. DOMAIN flights' = DOMAIN flights /\ flights'[s] = new
      /\ \A f \in DOMAIN flights : f # s => flights'[f] = flights[f]
  BY <1>1 DEF SessionTypeOK
<1>4. \A f \in DOMAIN flights : flights[f] = Landed
  BY DEF Alone, InFlight
<1>5. InFlight' = {s}
  BY <1>1, <1>2, <1>3, <1>4 DEF InFlight
<1>6. InFlight = {}
  BY DEF Alone
<1> QED
  BY <1>2, <1>3, <1>5, <1>6 DEF MarkerInv

\* A request lands, and leaves a cookie for the user shown.
LEMMA MarkerLands ==
  ASSUME SessionTypeOK, MarkerInv, NEW f \in InFlight, Settle(f), smooth' => smooth /\ cookie' = me'
  PROVE  MarkerInv'
<1> SUFFICES ASSUME smooth' PROVE MarkerInv'
  BY DEF MarkerInv
<1>1. DOMAIN flights' = DOMAIN flights /\ flights'[f] = Landed
      /\ \A g \in DOMAIN flights : g # f => flights'[g] = flights[g]
  BY DEF Settle, SessionTypeOK, InFlight
<1>2. \A g \in DOMAIN flights : g # f => flights[g] = Landed
  BY DEF MarkerInv, InFlight
<1>3. InFlight' = {}
  BY <1>1, <1>2 DEF InFlight
<1> QED
  BY <1>3 DEF MarkerInv

\* A request that is no logout moves on.
LEMMA MarkerMoves ==
  ASSUME SessionTypeOK, MarkerInv, NEW f \in InFlight, flights[f].kind # "logout", NEW x,
         x = Landed \/ x.kind # "logout", flights' = [flights EXCEPT ![f] = x],
         smooth' => smooth, UNCHANGED <<cookie, me>>
  PROVE  MarkerInv'
<1> SUFFICES ASSUME smooth' PROVE MarkerInv'
  BY DEF MarkerInv
<1>1. DOMAIN flights' = DOMAIN flights /\ flights'[f] = x
      /\ \A g \in DOMAIN flights : g # f => flights'[g] = flights[g]
  BY DEF SessionTypeOK, InFlight
<1>2. InFlight' \subseteq InFlight /\ \A g \in InFlight' : flights'[g].kind # "logout"
  BY <1>1 DEF MarkerInv, InFlight
<1>3. cookie = me
  BY DEF MarkerInv
<1> QED
  BY <1>2, <1>3 DEF MarkerInv

LEMMA MarkerStays ==
  ASSUME MarkerInv, UNCHANGED <<flights, cookie, me>>, smooth' => smooth
  PROVE  MarkerInv'
BY DEF MarkerInv, InFlight

LEMMA MarkerLoginInv ==
  ASSUME SessionInv, MarkerInv, NEW f \in InFlight
  PROVE  /\ \A b \in BOOLEAN : LoginRoute(f, b) => MarkerInv'
         /\ LoginAccepted(f) \/ LoginRefused(f) \/ DemoAnswered(f) => MarkerInv'
<1>0. SessionTypeOK /\ flights[f] \in Flight /\ smooth \in BOOLEAN
  BY FlightTyped DEF SessionInv, SessionTypeOK
<1>1. ASSUME NEW b \in BOOLEAN, LoginRoute(f, b) PROVE MarkerInv'
  <2> DEFINE x == [flights[f] EXCEPT !.stage = "answered", !.ok = b]
  <2>1. x.kind # "logout" /\ flights' = [flights EXCEPT ![f] = x]
    BY <1>0, <1>1 DEF LoginRoute, Flight
  <2> HIDE DEF x
  <2> QED
    BY <1>0, <1>1, <2>1, MarkerMoves DEF LoginRoute
<1>2. ASSUME LoginAccepted(f) PROVE MarkerInv'
  <2>1. CASE flights[f].who \in Enrolled
    BY <1>0, <1>2, <2>1, MarkerMoves DEF LoginAccepted, Settle
  <2>2. CASE flights[f].who \notin Enrolled
    BY <1>0, <1>2, <2>2, MarkerLands DEF LoginAccepted, SignIn
  <2> QED
    BY <2>1, <2>2
<1>3. ASSUME LoginRefused(f) PROVE MarkerInv'
  <2> DEFINE x == IF flights[f].who \in DemoUsers
                  THEN [flights[f] EXCEPT !.kind = "demo", !.stage = "sent"] ELSE Landed
  <2>1. (x = Landed \/ x.kind # "logout") /\ flights' = [flights EXCEPT ![f] = x]
    BY <1>0, <1>3 DEF LoginRefused, Flight
  <2> HIDE DEF x
  <2> QED
    BY <1>0, <1>3, <2>1, MarkerMoves DEF LoginRefused
<1>4. ASSUME DemoAnswered(f) PROVE MarkerInv'
  <2>1. CASE UNCHANGED <<cookie, me, page, smooth>>
    BY <1>0, <1>4, <2>1, MarkerMoves DEF DemoAnswered, Settle
  <2>2. CASE smooth' = FALSE
    BY <2>2 DEF MarkerInv
  <2>3. CASE SignIn(flights[f].who, flights[f].from) /\ UNCHANGED smooth
    BY <1>0, <1>4, <2>3, MarkerLands DEF DemoAnswered, SignIn
  <2> QED
    BY <1>4, <2>1, <2>2, <2>3 DEF DemoAnswered
<1> QED
  BY <1>1, <1>2, <1>3, <1>4

LEMMA MarkerAnswerInv ==
  ASSUME SessionInv, MarkerInv, NEW f \in InFlight
  PROVE  /\ \A b \in BOOLEAN : CodeAnswered(f, b) \/ LogoutAnswered(f, b) => MarkerInv'
         /\ Registered(f) \/ RegisterRefused(f) \/ RegisterOffline(f) => MarkerInv'
<1>0. SessionTypeOK
  BY DEF SessionInv
<1>1. ASSUME NEW b \in BOOLEAN, CodeAnswered(f, b) PROVE MarkerInv'
  <2>1. CASE b
    BY <1>0, <1>1, <2>1, MarkerLands DEF CodeAnswered, SignIn
  <2>2. CASE ~b
    BY <1>0, <1>1, <2>2, MarkerMoves DEF CodeAnswered, Settle
  <2> QED
    BY <2>1, <2>2
<1>2. ASSUME NEW b \in BOOLEAN, LogoutAnswered(f, b) PROVE MarkerInv'
  <2>1. smooth => me = NoUser
    BY <1>2 DEF LogoutAnswered, MarkerInv
  <2> QED
    BY <1>0, <1>2, <2>1, MarkerLands DEF LogoutAnswered
<1>3. ASSUME Registered(f) \/ RegisterRefused(f) \/ RegisterOffline(f) PROVE MarkerInv'
  BY <1>0, <1>3, MarkerLands DEF Registered, RegisterRefused, RegisterOffline
<1> QED
  BY <1>1, <1>2, <1>3

LEMMA MarkerStepInv == SessionInv /\ MarkerInv /\ [SessionNext]_sessionVars => MarkerInv'
<1> SUFFICES ASSUME SessionInv, MarkerInv, [SessionNext]_sessionVars PROVE MarkerInv'
  OBVIOUS
<1>0. SessionTypeOK
  BY DEF SessionInv
<1>1. ASSUME NEW p \in SitePages, Visit(p) PROVE MarkerInv'
  BY <1>1, MarkerStays DEF Visit
<1>2. CASE AuthGuard \/ ChallengeExpires
  BY <1>2, MarkerStays DEF AuthGuard, ChallengeExpires
<1>3. CASE CookieExpires
  BY <1>3 DEF CookieExpires, MarkerInv
<1>4. ASSUME NEW u \in Accounts, SubmitLogin(u) PROVE MarkerInv'
  BY <1>0, <1>4, MarkerTakesOff DEF SubmitLogin
<1>5. ASSUME NEW u \in Accounts, SubmitRegister(u) PROVE MarkerInv'
  BY <1>0, <1>5, MarkerTakesOff DEF SubmitRegister
<1>6. CASE SubmitCode
  BY <1>0, <1>6, MarkerTakesOff DEF SubmitCode
<1>7. CASE Logout
  BY <1>0, <1>7, MarkerTakesOff DEF Logout
<1>8. CASE UNCHANGED sessionVars
  BY <1>8, MarkerStays DEF sessionVars
<1> QED
  BY <1>1, <1>2, <1>3, <1>4, <1>5, <1>6, <1>7, <1>8, MarkerLoginInv, MarkerAnswerInv DEF SessionNext

-----------------------------------------------------------------------------
\* The roles are ordered as the hierarchy lists them.
LEMMA Levels ==
  /\ RoleLevel("customer") = 2 /\ RoleLevel("moderator") = 3
  /\ RoleLevel("admin") = 4 /\ RoleLevel("super_admin") = 5
BY DEF RoleLevel, Roles

\* The invariant holds in every reachable state.
LEMMA SessionInvariant == SessionSpec => []SessionInv
BY SessionInitInv, SessionStepInv, PTL DEF SessionSpec

\* Every variable of the sessions has its type in every reachable state.
THEOREM SessionTypeCorrect == SessionSpec => []SessionTypeOK
<1>1. SessionInv => SessionTypeOK
  BY DEF SessionInv
<1> QED
  BY <1>1, SessionInvariant, PTL

\* In production the proxy never acts for one account while the pages show
\* another, for any accounts and any number of requests in flight.
THEOREM ProxyActsForTheUserShown == SessionSpec => []NeverAnotherUser
<1>1. SessionInv => NeverAnotherUser
  BY DEF SessionInv
<1> QED
  BY <1>1, SessionInvariant, PTL

\* Whom the pages show is whom the services act for: never another account
\* in production, and exactly the cookie's while nothing overlapped, failed
\* or expired.
THEOREM ShownUserIsActedFor == SessionSpec => []ShownUserIsServed
<1>1. SessionInit => MarkerInv
  BY DEF SessionInit, MarkerInv, InFlight
<1>2. SessionSpec => []MarkerInv
  BY <1>1, MarkerStepInv, SessionInvariant, PTL DEF SessionSpec
<1>3. SessionInv /\ MarkerInv => ShownUserIsServed
  BY DEF SessionInv, MarkerInv, ShownUserIsServed, SmoothMarkerIsCookie, Alone
<1> QED
  BY <1>2, <1>3, SessionInvariant, PTL

\* No page of a guarded area stays open to a user whose role is too low.
THEOREM GuardsHold == SessionSpec => []GuardedPage
<1>1. SessionInv => GuardedPage
  BY DEF SessionInv
<1> QED
  BY <1>1, SessionInvariant, PTL

\* A guard that sends a user away sends them where they may stay: there is
\* no pair of guards that sends one user back and forth, whatever the roles.
THEOREM GuardsSendAwayOnce == SessionSpec => RedirectsOnce
<1>1. ASSUME SessionInv, AuthGuard
      PROVE  page'.guard = "ok" \/ HasRole(me, RequiredRole[page'.at])
  <2>1. CASE me = NoUser
    <3> DEFINE p == GetLoginPath(RequiredRole[page.at])
    <3>1. Go(p) /\ p \notin Areas
      BY <1>1, <2>1 DEF AuthGuard, GetLoginPath, Areas
    <3> QED
      BY <3>1 DEF Go
  <2>2. CASE me # NoUser /\ ~HasRole(me, RequiredRole[page.at])
    <3>1. Go(HomeOf(me))
      BY <1>1, <2>2 DEF AuthGuard
    <3>2. CASE Role(me) = "super_admin"
      <4>1. page'.at = "platform_dashboard"
        BY <3>1, <3>2 DEF Go, HomeOf
      <4>2. RequiredRole["platform_dashboard"] = "super_admin"
        BY DEF RequiredRole
      <4> QED
        BY <2>2, <3>2, <4>1, <4>2, Levels DEF HasRole
    <3>3. CASE Role(me) \in {"admin", "moderator"}
      <4>1. page'.at = "admin_dashboard"
        BY <3>1, <3>3 DEF Go, HomeOf
      <4>2. RequiredRole["admin_dashboard"] = "moderator"
        BY DEF RequiredRole
      <4>3. RoleLevel(Role(me)) >= RoleLevel("moderator")
        BY <3>3, Levels
      <4> QED
        BY <2>2, <4>1, <4>2, <4>3 DEF HasRole
    <3>4. CASE Role(me) \notin {"super_admin", "admin", "moderator"}
      BY <3>1, <3>4 DEF Go, HomeOf, Areas
    <3> QED
      BY <3>2, <3>3, <3>4
  <2>3. CASE me # NoUser /\ HasRole(me, RequiredRole[page.at])
    BY <1>1, <2>3 DEF AuthGuard, SessionInv, SessionTypeOK
  <2> QED
    BY <2>1, <2>2, <2>3
<1>2. SessionInv => [AuthGuard => page'.guard = "ok" \/ HasRole(me, RequiredRole[page'.at])]_sessionVars
  BY <1>1
<1> QED
  BY <1>2, SessionInvariant, PTL DEF RedirectsOnce
=============================================================================
