-------------------------------- MODULE Page --------------------------------
(***************************************************************************)
(* The single-page application: the user it has cached (auth.service.ts),  *)
(* the router and its two guards (app.routes.ts, auth.guard.ts), the pages *)
(* and their requests, against the sessions and the cookie of the server.  *)
(*                                                                         *)
(* HTTP requests overlap and are answered in any order; a page that is     *)
(* left does not cancel its own. Set-Cookie takes effect as the response   *)
(* arrives, before the page handles it.                                    *)
(***************************************************************************)
EXTENDS FiniteSets, Naturals

CONSTANTS
    Users,
    Sessions,   \* sessions the server can issue
    Owner0,     \* per session, its user before the page is opened, or None
    Forms,      \* the pages with a form: accounts and payments
    Slots,      \* bound: requests in flight at once
    Room,       \* bound: the user acts while at most so many are in flight
    MaxActs,    \* bound: clicks and reloads
    None        \* no user, no cookie, no request, no navigation

ASSUME BoundsAssumption == Slots \subseteq Nat /\ Room \in Nat /\ MaxActs \in Nat

ASSUME Owner0Assumption == Owner0 \in [Sessions -> Users \cup {None}]

ASSUME FormsAssumption == Forms \subseteq {"accounts", "payments"}

ASSUME NoneAssumption == None \notin Users \cup Sessions \cup Slots

VARIABLES
    owner,    \* per session, the user it was issued to, or None
    live,     \* sessions that still authenticate
    jar,      \* the session of the browser's cookie, or None
    cached,   \* AuthService.currentUserSubject
    shown,    \* AppComponent.currentUser: the header
    route,    \* the page in view
    nav,      \* the navigation under way, or None
    flight,   \* per slot, a request in flight, or None
    busy,     \* isSubmitting: the request the form in view waits for, or None
    told,     \* the user was told to log in again, and the page is not there
    left,     \* history: "asked" when logout was answered, until the login page is
              \* there or somebody logs in ("no"); "held" after a click on the page
              \* in view, until one on another page
    late,     \* history: the cached user is from a check sent with another cookie
    acts      \* clicks and reloads so far

server == <<owner, live>>
login == <<jar, cached, shown, late>>
view == <<route, nav, busy, told, left>>
vars == <<server, login, view, flight, acts>>

Protected == Forms \cup {"dashboard"}
Routes == Protected \cup {"login"}

Checks == {"app", "guard", "entry"}       \* ensureSession: GET /auth/me
Calls == {"load", "submit"}               \* the pages' own requests
Kinds == Checks \cup Calls \cup {"login", "logout"}
Answers == {"none", "ok", "refused", "error"}

Pending == {r \in Slots : flight[r] # None}

\* A request goes out with the cookie c of the moment, in the first free slot.
Free(fl) == CHOOSE r \in Slots :
               fl[r] = None /\ \A q \in Slots : fl[q] = None => r <= q

Sending(fl, k, c) ==
    [fl EXCEPT ![Free(fl)] = [kind |-> k, session |-> c, answer |-> "none"]]

Without(r) == [flight EXCEPT ![r] = None]

\* What the page sends as it opens, with the cookie c: AppComponent.ngOnInit
\* asks for the user, and so does the guard of the first navigation.
Opening(c) == Sending(Sending([r \in Slots |-> None], "app", c), "guard", c)

Init == /\ owner = Owner0
        /\ live = {s \in Sessions : Owner0[s] # None}
        /\ jar \in live \cup {None}
        /\ cached = None /\ shown = None
        /\ route = "blank"
        /\ nav \in [to : Routes, stage : {"guard"}]
        /\ flight = Opening(jar)
        /\ busy = None
        /\ told = FALSE /\ left = "no" /\ late = FALSE
        /\ acts = 0

-----------------------------------------------------------------------------
(* The router. A navigation replaces the one under way and cancels its     *)
(* guard's request; one to the page in view does only that.                *)

\* Mistake: an error of the check counts as a user.
GuestPassesOnlyRefused(a) == a = "refused"

\* guestGuard: the login page is for those without a session, and on error.
GuestPasses(a) == a # "ok"

\* authGuard: no user, or an error, and the login page it is.
UserPasses(a) == a = "ok"

Unguarded(fl) == [r \in Slots |-> IF fl[r] # None /\ fl[r].kind = "guard"
                                  THEN None ELSE fl[r]]

\* Where a navigation leads once guestGuard has seen the cached user u.
Leads(to, u) == IF to = "login" /\ route # "login" /\ u # None
                THEN "dashboard" ELSE to

\* With a user cached the guards answer at once, without one they ask.
Go(to, u, fl) ==
    LET end == Leads(to, u)
    IN  \/ /\ end = route
           /\ nav' = None
           /\ flight' = Unguarded(fl)
        \/ /\ end # route /\ u # None
           /\ nav' = [to |-> end, stage |-> "load"]
           /\ flight' = Unguarded(fl)
        \/ /\ end # route /\ u = None
           /\ nav' = [to |-> end, stage |-> "guard"]
           /\ flight' = Sending(Unguarded(fl), "guard", jar')

Stay(fl) == UNCHANGED nav /\ flight' = fl

\* The page's chunk is loaded and its component made: ngOnInit.
Activate ==
    /\ nav # None /\ nav.stage = "load"
    /\ route' = nav.to
    /\ busy' = None
    /\ \/ /\ nav.to \in Protected
          /\ nav' = None
          /\ flight' = Sending(flight, "load", jar)
       \/ /\ nav.to = "login" /\ cached # None
          /\ nav' = [to |-> "dashboard", stage |-> "load"]
          /\ UNCHANGED flight
       \/ /\ nav.to = "login" /\ cached = None
          /\ nav' = None
          /\ flight' = Sending(flight, "entry", jar)
    /\ told' = (told /\ nav.to # "login")
    /\ left' = IF nav.to = "login" THEN "no" ELSE left
    /\ UNCHANGED <<server, login, acts>>

-----------------------------------------------------------------------------
(* The server.                                                             *)

Serves(r, ks, a) == /\ flight[r] # None
                    /\ flight[r].kind \in ks /\ flight[r].answer = "none"
                    /\ flight' = [flight EXCEPT ![r].answer = a]
                    /\ UNCHANGED <<login, view, acts>>

Accept(r) == /\ Serves(r, Checks \cup Calls, "ok")
             /\ flight[r].session \in live
             /\ UNCHANGED server

\* No session, or no answer of Redis or PostgreSQL: 401, and the cookie goes.
Refuse(r) == Serves(r, Checks \cup Calls, "refused") /\ UNCHANGED server

\* Login or registration. The session is new.
Issue(r) == \E s \in Sessions, u \in Users :
               /\ owner[s] = None
               /\ flight[r] # None
               /\ flight[r].kind = "login" /\ flight[r].answer = "none"
               /\ flight' = [flight EXCEPT ![r].answer = "ok", ![r].session = s]
               /\ owner' = [owner EXCEPT ![s] = u]
               /\ live' = live \cup {s}
               /\ UNCHANGED <<login, view, acts>>

\* Redis deletes the session, or fails to.
Revoke(r) == /\ Serves(r, {"logout"}, "ok")
             /\ live' \in {live, live \ {flight[r].session}}
             /\ UNCHANGED owner

\* Any other status (400, 409, 422, 429, 500), a wrong password, no network.
Fail(r) == Serves(r, Kinds, "error") /\ UNCHANGED server

Expire(s) == /\ s \in live
             /\ live' = live \ {s}
             /\ UNCHANGED <<owner, login, view, flight, acts>>

Serve(r) == Accept(r) \/ Refuse(r) \/ Issue(r) \/ Revoke(r) \/ Fail(r)

-----------------------------------------------------------------------------
(* Answers arrive: the cookie, the cached user, then what the page does.   *)

\* Mistake: login's tap is gone, as if every page asked for the user itself.
UserAfterUntapped(q) ==
    CASE q.kind \in Checks /\ q.answer = "ok" -> owner[q.session]
      [] q.kind \in Checks /\ q.answer = "refused" -> None
      [] q.kind = "logout" /\ q.answer = "ok" -> None
      [] OTHER -> cached

\* Mistake: logout's tap is gone.
UserAfterKept(q) ==
    CASE q.kind \in Checks \cup {"login"} /\ q.answer = "ok" -> owner[q.session]
      [] q.kind \in Checks /\ q.answer = "refused" -> None
      [] OTHER -> cached

UserAfter(q) ==
    CASE q.kind \in Checks \cup {"login"} /\ q.answer = "ok" -> owner[q.session]
      [] q.kind \in Checks /\ q.answer = "refused" -> None
      [] q.kind = "logout" /\ q.answer = "ok" -> None
      [] OTHER -> cached

CookieAfter(q) == CASE q.kind = "login" /\ q.answer = "ok" -> q.session
                    [] q.kind = "logout" /\ q.answer = "ok" -> None
                    [] q.answer = "refused" -> None
                    [] OTHER -> jar

\* It says nothing of the user.
Silent(q) == q.kind \in Calls \/ q.answer = "error"

\* currentUser$ emits; AppComponent also empties its header when its own
\* check fails.
ShownAfter(q) == CASE q.kind = "app" /\ q.answer = "error" -> None
                   [] q.kind # "app" /\ Silent(q) -> shown
                   [] OTHER -> UserAfter(q)

LateAfter(q) == IF Silent(q) THEN late
                ELSE q.kind \in Checks /\ q.answer = "ok" /\ q.session # jar

Arrives(r, k) ==
    LET q == flight[r]
    IN  /\ q # None
        /\ q.kind = k /\ q.answer # "none"
        /\ jar' = CookieAfter(q)
        /\ cached' = UserAfter(q)
        /\ shown' = ShownAfter(q)
        /\ late' = LateAfter(q)
        /\ UNCHANGED <<server, route, acts>>

AppAnswer(r) == /\ Arrives(r, "app")
                /\ Stay(Without(r))
                /\ UNCHANGED <<busy, told, left>>

\* The guard's check: the page is loaded, or the router redirected.
GuardAnswer(r) ==
    /\ Arrives(r, "guard")
    /\ LET a == flight[r].answer
       IN  \/ /\ IF nav.to = "login" THEN GuestPasses(a) ELSE UserPasses(a)
              /\ nav' = [nav EXCEPT !.stage = "load"]
              /\ flight' = Without(r)
           \/ /\ nav.to = "login" /\ ~GuestPasses(a)
              /\ Go("dashboard", cached', Without(r))
           \/ /\ nav.to # "login" /\ ~UserPasses(a)
              /\ Go("login", cached', Without(r))
    /\ UNCHANGED <<busy, told, left>>

\* The login page's own check, which it does not cancel when it is left.
EntryAnswer(r) ==
    /\ Arrives(r, "entry")
    /\ \/ flight[r].answer = "ok" /\ Go("dashboard", cached', Without(r))
       \/ flight[r].answer # "ok" /\ Stay(Without(r))
    /\ UNCHANGED <<busy, told, left>>

\* Mistake: isSubmitting is only reset on success.
FormAfterStuck(r) == IF busy = r /\ flight[r].answer = "ok" THEN None ELSE busy

\* The form of a page that has been left is not the one in view.
FormAfter(r) == IF busy = r THEN None ELSE busy

LoginAnswer(r) ==
    /\ Arrives(r, "login")
    /\ \/ flight[r].answer = "ok" /\ Go("dashboard", cached', Without(r))
       \/ flight[r].answer # "ok" /\ Stay(Without(r))
    /\ busy' = FormAfter(r)
    /\ left' = IF flight[r].answer = "ok" THEN "no" ELSE left
    /\ UNCHANGED told

LogoutAnswer(r) == /\ Arrives(r, "logout")
                   /\ Go("login", cached', Without(r))
                   /\ left' = IF flight[r].answer = "ok" /\ route # "login"
                              THEN "asked" ELSE left
                   /\ UNCHANGED <<busy, told>>

\* handleApiError: on 401 a message, and to the login page; the cached user
\* stays.
ToLogin(r) == /\ flight[r].answer = "refused"
              /\ told' = (route # "login")
              /\ Go("login", cached, Without(r))

LoadAnswer(r) == /\ Arrives(r, "load")
                 /\ \/ ToLogin(r)
                    \/ /\ flight[r].answer # "refused"
                       /\ Stay(Without(r)) /\ UNCHANGED told
                 /\ UNCHANGED <<busy, left>>

\* createAccount and submitTransfer: on success the accounts are loaded again.
SubmitAnswer(r) ==
    /\ Arrives(r, "submit")
    /\ \/ ToLogin(r)
       \/ /\ flight[r].answer = "ok"
          /\ Stay(Sending(Without(r), "load", jar)) /\ UNCHANGED told
       \/ /\ flight[r].answer = "error"
          /\ Stay(Without(r)) /\ UNCHANGED told
    /\ busy' = FormAfter(r)
    /\ UNCHANGED left

Arrive(r) == \/ AppAnswer(r) \/ GuardAnswer(r) \/ EntryAnswer(r)
             \/ LoginAnswer(r) \/ LogoutAnswer(r)
             \/ LoadAnswer(r) \/ SubmitAnswer(r)

-----------------------------------------------------------------------------
(* The user.                                                               *)

Acts == /\ acts < MaxActs /\ Cardinality(Pending) <= Room
        /\ acts' = acts + 1

\* A link; the header offers login to a guest only.
Visit(to) == /\ Acts
             /\ to \in Protected \/ shown = None
             /\ UNCHANGED <<server, login, route, busy, told>>
             /\ Go(to, cached, flight)
             /\ left' = CASE left = "no" -> "no"
                          [] left # "no" /\ to = route -> "held"
                          [] left # "no" /\ to # route -> "asked"

\* submitLogin, submitRegister, createAccount, submitTransfer.
Submit == /\ Acts
          /\ route \in Forms \cup {"login"} /\ busy = None
          /\ flight' = Sending(flight, IF route = "login" THEN "login" ELSE "submit", jar)
          /\ busy' = Free(flight)
          /\ UNCHANGED <<server, login, route, nav, told, left>>

\* The refresh button, disabled while accounts are loading.
Refresh == /\ Acts
           /\ route \in Protected
           /\ \A r \in Pending : flight[r].kind # "load"
           /\ flight' = Sending(flight, "load", jar)
           /\ UNCHANGED <<server, login, view>>

Logout == /\ Acts
          /\ shown # None
          /\ flight' = Sending(flight, "logout", jar)
          /\ UNCHANGED <<server, login, view>>

\* The browser drops the page with its requests and opens it again.
Reload == /\ Acts
          /\ route # "blank"
          /\ nav' = [to |-> route, stage |-> "guard"]
          /\ flight' = Opening(jar)
          /\ cached' = None /\ shown' = None
          /\ route' = "blank" /\ busy' = None
          /\ told' = FALSE /\ left' = "no" /\ late' = FALSE
          /\ UNCHANGED <<server, jar>>

Quiescent == nav = None /\ Pending = {} /\ UNCHANGED vars

Next == \/ Activate
        \/ \E r \in Slots : Serve(r) \/ Arrive(r)
        \/ \E s \in Sessions : Expire(s)
        \/ \E to \in Routes : Visit(to)
        \/ Submit \/ Refresh \/ Logout \/ Reload
        \/ Quiescent

Spec == Init /\ [][Next]_vars

\* The browser loads the page's chunks, and every request ends: it is answered,
\* or fails.
FairSpec == /\ Spec
            /\ WF_vars(Activate)
            /\ \A r \in Slots : WF_vars(Serve(r)) /\ WF_vars(Arrive(r))

-----------------------------------------------------------------------------
(* Properties.                                                             *)

Request == [kind : Kinds, session : Sessions \cup {None}, answer : Answers]

\* Every variable has its type.
TypeOK == /\ owner \in [Sessions -> Users \cup {None}] /\ live \subseteq Sessions
          /\ jar \in Sessions \cup {None}
          /\ cached \in Users \cup {None} /\ shown \in Users \cup {None}
          /\ route \in Routes \cup {"blank"}
          /\ nav \in [to : Routes, stage : {"guard", "load"}] \cup {None}
          /\ flight \in [Slots -> Request \cup {None}]
          /\ busy \in Slots \cup {None}
          /\ told \in BOOLEAN /\ left \in {"no", "asked", "held"} /\ late \in BOOLEAN
          /\ acts \in 0..MaxActs

\* The user the page has cached is the one its requests act for, whatever
\* requests are under way and whoever logs in: money is moved from no account
\* but the shown user's. Save while the user is from a check that was sent with
\* another cookie than the browser had when its answer arrived: the page takes
\* that for the new session's (auth.service.ts:55, auth.go:228).
ShownUserActs == cached # None /\ jar # None => owner[jar] = cached \/ late

\* Every navigation ends: the guards redirect to each other's page, and do not
\* do so for ever, even when no check is answered (auth.guard.ts:13, :23).
NavigationEnds == nav # None ~> nav = None

\* A form that was submitted can be submitted again
\* (login-page.component.ts:83, payments-page.component.ts:106).
FormsUnlock == busy # None ~> busy = None

\* After logout the page comes to the login page, whatever navigation, checks,
\* loads and logins are under way (app.component.ts:52), and whatever other page
\* the user asks for: its guard sends the user on. Two things prevent it: a click
\* on the page in view, which cancels logout's navigation and starts none, so
\* that the page stays; and a check that was sent before the logout and is
\* answered after it, from which the page has a user again.
LogoutReachesLogin == left = "asked" ~> left # "asked" \/ late

\* The user who is told that the session has expired, log in again, comes to
\* the login page (dashboard-page.component.ts:66).
ExpiredReachesLogin == told ~> ~told
=============================================================================
