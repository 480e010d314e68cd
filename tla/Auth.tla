-------------------------------- MODULE Auth --------------------------------
(***************************************************************************)
(* Registration, login, logout and the session check: /auth/* and          *)
(* requireAuth (auth.go, auth_handlers.go), UserService, the users table   *)
(* with its UNIQUE email, the sessions and the cookie of each browser.     *)
(* Requests of one browser overlap and are answered in any order.          *)
(*                                                                         *)
(* With Redis a session is a key and the cookie holds its id; without, the *)
(* cookie is a token that carries the user and the expiry under an HMAC,   *)
(* which only the server can make: a cookie it has not made is no cookie.  *)
(*                                                                         *)
(* A session id is a random number, and the request that draws it stands   *)
(* for it (SidOf); likewise the request that inserts a user stands for the *)
(* row. A cookie is named by the request whose response set it.            *)
(***************************************************************************)
EXTENDS FiniteSets, Naturals

CONSTANTS
    Requests,
    Browsers,
    Emails,
    None       \* no cookie, no session, no email

ASSUME NoneAssumption == None \notin Requests \cup Browsers \cup Emails

VARIABLES
    mode,     \* whether the session manager was given a Redis client
    users,    \* rows of the users table, by the request that inserted them
    store,    \* per session, the user (email) of its key or token, or None
    jar,      \* per browser, the request that set its cookie, or None
    pc,       \* per request, its next step
    kind,     \* per request, the endpoint
    by,       \* per request, the browser
    who,      \* per register or login, the email
    sent,     \* per request, the cookie it was sent with
    acting,   \* per authenticated request, the user it acts for
    answer,   \* per request, the status of its response, 0 before
    dropped,  \* history: sessions deleted on demand or run out
    kept      \* history: sessions whose deletion Redis refused

data == <<users, store, jar, dropped, kept>>
sending == <<mode, kind, by, who, sent>>
vars == <<data, pc, sending, acting, answer>>

Credentials == {"register", "login"}
Kinds == Credentials \cup {"logout", "me"}
Working == {"check", "insert", "password", "issue", "revoke", "session", "user"}
Statuses == {200, 201, 400, 401, 409, 422, 500}

Modes == {"redis", "signed"}

Init == /\ mode \in Modes
        /\ users = {}
        /\ store = [s \in Requests |-> None]
        /\ jar = [b \in Browsers |-> None]
        /\ pc = [t \in Requests |-> "idle"]
        /\ kind = [t \in Requests |-> "me"]
        /\ by = [t \in Requests |-> None]
        /\ who = [t \in Requests |-> None]
        /\ sent = [t \in Requests |-> None]
        /\ acting = [t \in Requests |-> None]
        /\ answer = [t \in Requests |-> 0]
        /\ dropped = {}
        /\ kept = {}

-----------------------------------------------------------------------------

Move(t, from, to) == pc[t] = from /\ pc' = [pc EXCEPT ![t] = to]

Answer(t, status) == answer' = [answer EXCEPT ![t] = status]

First(k) == CASE k = "register" -> "check"
              [] k = "login" -> "password"
              [] k = "logout" -> "revoke"
              [] k = "me" -> "session"

\* The browser sends a request, with its cookie of the moment.
Send(t, b, k, e) == /\ Move(t, "idle", First(k))
                    /\ kind' = [kind EXCEPT ![t] = k]
                    /\ by' = [by EXCEPT ![t] = b]
                    /\ who' = [who EXCEPT ![t] = IF k \in Credentials THEN e ELSE None]
                    /\ sent' = [sent EXCEPT ![t] = jar[b]]
                    /\ UNCHANGED <<mode, data, acting, answer>>

Registered(e) == \E u \in users : who[u] = e

\* A body that does not decode, or a registration that does not validate or
\* whose password bcrypt does not take.
Reject(t) == /\ \/ Move(t, "check", "done") /\ Answer(t, 422)
                \/ Move(t, "check", "done") /\ Answer(t, 500)
                \/ Move(t, "check", "done") /\ Answer(t, 400)
                \/ Move(t, "password", "done") /\ Answer(t, 400)
             /\ UNCHANGED <<data, sending, acting>>

-----------------------------------------------------------------------------
(* UserService.Create: look for the email, then insert.                    *)

EmailFree(t) == /\ ~Registered(who[t])
                /\ Move(t, "check", "insert")
                /\ UNCHANGED <<data, sending, acting, answer>>

EmailTaken(t) == /\ Registered(who[t])
                 /\ Move(t, "check", "done")
                 /\ Answer(t, 409)
                 /\ UNCHANGED <<data, sending, acting>>

\* An error of the lookup is dropped, as if the email were free.
CheckFails(t) == /\ Move(t, "check", "insert")
                 /\ UNCHANGED <<data, sending, acting, answer>>

\* Mistake: no UNIQUE constraint on the column (as in the Bolt repository).
ViolatesUniqueNever(t) == FALSE

ViolatesUnique(t) == Registered(who[t])

InsertUser(t) == /\ ~ViolatesUnique(t)
                 /\ Move(t, "insert", "issue")
                 /\ users' = users \cup {t}
                 /\ UNCHANGED <<store, jar, dropped, kept, sending, acting, answer>>

\* The constraint fires: to the handler, an error without a type.
InsertConflicts(t) == /\ ViolatesUnique(t)
                      /\ Move(t, "insert", "done")
                      /\ Answer(t, 500)
                      /\ UNCHANGED <<data, sending, acting>>

\* The statement does not reach PostgreSQL.
InsertFails(t) == /\ Move(t, "insert", "done")
                  /\ Answer(t, 500)
                  /\ UNCHANGED <<data, sending, acting>>

\* The row is there, its acknowledgement is lost.
InsertAckLost(t) == /\ ~ViolatesUnique(t)
                    /\ Move(t, "insert", "done")
                    /\ users' = users \cup {t}
                    /\ Answer(t, 500)
                    /\ UNCHANGED <<store, jar, dropped, kept, sending, acting>>

-----------------------------------------------------------------------------
(* Login, and the session both end with.                                   *)

PasswordRight(t) == /\ Registered(who[t])
                    /\ Move(t, "password", "issue")
                    /\ UNCHANGED <<data, sending, acting, answer>>

\* No such user, another password, or no answer from PostgreSQL.
PasswordWrong(t) == /\ Move(t, "password", "done")
                    /\ Answer(t, 401)
                    /\ UNCHANGED <<data, sending, acting>>

Success(t) == IF kind[t] = "register" THEN 201 ELSE 200

\* Mistake: the id does not tell sessions apart.
SidOfAll(t) == CHOOSE s \in Requests : TRUE

\* randomSessionID: a new id for every session.
SidOf(t) == t

\* Mistake: the cookie goes out whether or not Redis has the session.
IssueUnstored(t) == /\ Move(t, "issue", "done")
                    /\ Answer(t, Success(t))
                    /\ UNCHANGED <<data, sending, acting>>

\* Mistake: the id is stored under the user.
IssueSwapped(t) == /\ Move(t, "issue", "done")
                   /\ store' = [store EXCEPT ![SidOf(t)] = SidOf(t)]
                   /\ Answer(t, Success(t))
                   /\ UNCHANGED <<users, jar, dropped, kept, sending, acting>>

Issue(t) == /\ Move(t, "issue", "done")
            /\ store' = [store EXCEPT ![SidOf(t)] = who[t]]
            /\ Answer(t, Success(t))
            /\ UNCHANGED <<users, jar, dropped, kept, sending, acting>>

\* SET fails or times out; Redis may have executed it all the same.
IssueFails(t) == /\ mode = "redis"
                 /\ Move(t, "issue", "done")
                 /\ \/ UNCHANGED store
                    \/ store' = [store EXCEPT ![SidOf(t)] = who[t]]
                 /\ Answer(t, 500)
                 /\ UNCHANGED <<users, jar, dropped, kept, sending, acting>>

-----------------------------------------------------------------------------
(* Logout: DEL, whose error is ignored, then the cookie is cleared. A      *)
(* token cannot be revoked: it stays good until it expires.                *)

Drop(s) == /\ store' = [store EXCEPT ![s] = None]
           /\ dropped' = dropped \cup {s}

\* Mistake: the key of the cookie the browser has by now.
RevokeCurrent(t) == /\ mode = "redis" /\ sent[t] # None
                    /\ Move(t, "revoke", "done")
                    /\ Answer(t, 200)
                    /\ \/ jar[by[t]] # None /\ Drop(SidOf(jar[by[t]]))
                       \/ jar[by[t]] = None /\ UNCHANGED <<store, dropped>>
                    /\ UNCHANGED <<users, jar, kept, sending, acting>>

Revoke(t) == /\ mode = "redis" /\ sent[t] # None
             /\ Move(t, "revoke", "done")
             /\ Answer(t, 200)
             /\ Drop(SidOf(sent[t]))
             /\ UNCHANGED <<users, jar, kept, sending, acting>>

RevokeFails(t) == /\ mode = "redis" /\ sent[t] # None
                  /\ Move(t, "revoke", "done")
                  /\ Answer(t, 200)
                  /\ kept' = kept \cup {sent[t]}
                  /\ UNCHANGED <<users, store, jar, dropped, sending, acting>>

RevokeNothing(t) == /\ mode = "signed" \/ sent[t] = None
                    /\ Move(t, "revoke", "done")
                    /\ Answer(t, 200)
                    /\ UNCHANGED <<data, sending, acting>>

-----------------------------------------------------------------------------
(* requireAuth, in front of every other endpoint ("me" stands for them).   *)

\* Mistake: the cookie alone is trusted, as with signed cookies.
SessionOfCookie(t) == IF sent[t] = None THEN None ELSE who[sent[t]]

SessionOf(t) == IF sent[t] = None THEN None ELSE store[SidOf(sent[t])]

SessionFound(t) == /\ SessionOf(t) # None
                   /\ Move(t, "session", "user")
                   /\ acting' = [acting EXCEPT ![t] = SessionOf(t)]
                   /\ UNCHANGED <<data, sending, answer>>

\* No cookie, no such session, or no answer from Redis within 300 ms.
SessionMissing(t) == /\ mode = "redis" \/ SessionOf(t) = None
                     /\ Move(t, "session", "done")
                     /\ Answer(t, 401)
                     /\ UNCHANGED <<data, sending, acting>>

UserLoaded(t) == /\ Registered(acting[t])
                 /\ Move(t, "user", "done")
                 /\ Answer(t, 200)
                 /\ UNCHANGED <<data, sending, acting>>

\* Any error of the users table counts as an unknown user.
UserMissing(t) == /\ Move(t, "user", "done")
                  /\ Answer(t, 401)
                  /\ acting' = [acting EXCEPT ![t] = None]
                  /\ UNCHANGED <<data, sending>>

-----------------------------------------------------------------------------
(* Responses, and time.                                                    *)

SetsCookie(t) == kind[t] \in Credentials /\ answer[t] \in {200, 201}

ClearsCookie(t) == \/ kind[t] = "logout"
                   \/ kind[t] = "me" /\ answer[t] = 401

\* Set-Cookie takes effect when the response arrives, in any order.
Deliver(t) == /\ Move(t, "done", "over")
              /\ jar' = [jar EXCEPT ![by[t]] = CASE SetsCookie(t) -> t
                                                 [] ClearsCookie(t) -> None
                                                 [] OTHER -> @]
              /\ UNCHANGED <<users, store, dropped, kept, sending, acting, answer>>

Lose(t) == /\ Move(t, "done", "over")
           /\ UNCHANGED <<data, sending, acting, answer>>

\* AuthSessionTTL runs out, of the key or of the token.
Expire(s) == /\ store[s] # None
             /\ Drop(s)
             /\ UNCHANGED <<users, jar, kept, pc, sending, acting, answer>>

Quiescent == /\ \A t \in Requests : pc[t] = "over"
             /\ UNCHANGED vars

RequestNext(t) ==
    \/ \E b \in Browsers, k \in Kinds, e \in Emails : Send(t, b, k, e)
    \/ Reject(t)
    \/ EmailFree(t) \/ EmailTaken(t) \/ CheckFails(t)
    \/ InsertUser(t) \/ InsertConflicts(t) \/ InsertFails(t) \/ InsertAckLost(t)
    \/ PasswordRight(t) \/ PasswordWrong(t)
    \/ Issue(t) \/ IssueFails(t)
    \/ Revoke(t) \/ RevokeFails(t) \/ RevokeNothing(t)
    \/ SessionFound(t) \/ SessionMissing(t) \/ UserLoaded(t) \/ UserMissing(t)
    \/ Deliver(t) \/ Lose(t)

Next == \/ \E t \in Requests : RequestNext(t)
        \/ \E s \in Requests : Expire(s)
        \/ Quiescent

Spec == Init /\ [][Next]_vars

-----------------------------------------------------------------------------
(* Properties.                                                             *)

\* Every variable has its type.
TypeOK == /\ mode \in Modes
          /\ users \subseteq Requests
          /\ store \in [Requests -> Emails \cup {None}]
          /\ jar \in [Browsers -> Requests \cup {None}]
          /\ pc \in [Requests -> {"idle", "done", "over"} \cup Working]
          /\ kind \in [Requests -> Kinds]
          /\ by \in [Requests -> Browsers \cup {None}]
          /\ who \in [Requests -> Emails \cup {None}]
          /\ sent \in [Requests -> Requests \cup {None}]
          /\ acting \in [Requests -> Emails \cup {None}]
          /\ answer \in [Requests -> {0} \cup Statuses]
          /\ dropped \subseteq Requests /\ kept \subseteq Requests

\* Two registrations of one email, whose lookups both find it free or both
\* fail, create one user: the constraint decides, not the lookup
\* (user_service.go:69, 001_init.up.sql:3).
OneUserPerEmail == \A t, u \in users : who[t] = who[u] => t = u

\* A browser is only given the cookie of a session that Redis has stored, or
\* of a good token: it is there still, or has been dropped since (auth.go:78,
\* before :51).
CookieBacked == \A b \in Browsers : jar[b] # None =>
                    store[SidOf(jar[b])] # None \/ SidOf(jar[b]) \in dropped

\* A request acts for the user who logged in or registered through the
\* response its cookie came from, however many sessions are open.
ActsForItsLogin ==
    \A t \in Requests : acting[t] # None => /\ sent[t] # None
                                            /\ SetsCookie(sent[t])
                                            /\ acting[t] = who[sent[t]]

Authenticates(t) == acting[t] = None /\ acting'[t] # None

\* A session that has been dropped never authenticates again, whatever
\* requests with its cookie are still under way.
DroppedStaysDead ==
    [][\A t \in Requests : Authenticates(t) => SidOf(sent[t]) \notin dropped]_vars

LoggedOut(s) == \E u \in Requests : /\ kind[u] = "logout" /\ sent[u] = s
                                    /\ answer[u] = 200

\* Logout ends the session (README.md:91): once it has been answered
\* "logged_out", the session authenticates no further request, however many
\* were under way and whatever cookie they came with; save that Redis refused
\* the deletion, whose error revoke drops, or that the session is a token
\* (auth.go:111, :99).
LogoutEndsSession ==
    [][\A t \in Requests : Authenticates(t) /\ LoggedOut(sent[t]) =>
          mode = "signed" \/ sent[t] \in kept]_vars

\* However registrations race, statements and Redis commands fail and answers
\* are lost, the store of Redis and the signed tokens alike implement one
\* identity service: unique users, sessions only of registered users that
\* never come back, requests that act for the session they came with
\* (user_service.go, auth.go, auth_handlers.go).
Identity == INSTANCE Identity WITH Ids <- Requests, session <- store, ended <- dropped,
                                   carried <- sent,
                                   accounts <- {[id |-> u, email |-> who[u]] : u \in users}

ImplementsIdentity == Identity!Spec
=============================================================================
