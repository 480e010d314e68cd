----------------------------- MODULE PageProofs -----------------------------
(***************************************************************************)
(* Page: the user that is shown is the user the page acts for, for any     *)
(* number of users, sessions, requests and clicks.                         *)
(***************************************************************************)
EXTENDS Page, TLAPS

Flights == [Slots -> Request \cup {None}]

\* The parts of the types that the property rests on, and the property.
IInv == /\ owner \in [Sessions -> Users \cup {None}]
        /\ jar \in Sessions \cup {None}
        /\ flight \in Flights
        /\ ShownUserActs

\* Requests go out with the cookie, whichever slot they take.
LEMMA SendingType ==
    ASSUME NEW fl \in Flights, NEW k \in Kinds, NEW c \in Sessions \cup {None}
    PROVE  Sending(fl, k, c) \in Flights
<1>1. [kind |-> k, session |-> c, answer |-> "none"] \in Request
    BY DEF Request, Answers
<1> QED BY <1>1 DEF Sending, Flights

LEMMA OpeningType ==
    ASSUME NEW c \in Sessions \cup {None}
    PROVE  Opening(c) \in Flights
<1>1. [r \in Slots |-> None] \in Flights
    BY DEF Flights
<1>2. "app" \in Kinds /\ "guard" \in Kinds
    BY DEF Kinds, Checks
<1>3. Sending([r \in Slots |-> None], "app", c) \in Flights
    BY <1>1, <1>2, SendingType
<1> QED BY <1>2, <1>3, SendingType DEF Opening

LEMMA GoType ==
    ASSUME NEW to, NEW u, NEW fl \in Flights, jar' \in Sessions \cup {None},
           Go(to, u, fl)
    PROVE  flight' \in Flights
<1>1. Unguarded(fl) \in Flights
    BY DEF Unguarded, Flights
<1>2. Sending(Unguarded(fl), "guard", jar') \in Flights
    BY <1>1, SendingType DEF Kinds, Checks
<1> QED BY <1>1, <1>2 DEF Go

LEMMA WithoutType ==
    ASSUME flight \in Flights, NEW r \in Slots
    PROVE  Without(r) \in Flights
BY DEF Without, Flights

\* An answer sets the cookie and the cached user together, or is late, or
\* leaves one of the two empty.
LEMMA AnswerAgrees ==
    ASSUME IInv, NEW r \in Slots, NEW k \in Kinds, Arrives(r, k)
    PROVE  /\ owner' = owner
           /\ jar' \in Sessions \cup {None}
           /\ ShownUserActs'
<1> DEFINE q == flight[r]
<1>1. q \in Request /\ q.kind = k
    BY DEF IInv, Flights, Arrives
<1>2. /\ owner' = owner
      /\ jar' = CookieAfter(q)
      /\ cached' = UserAfter(q)
      /\ late' = LateAfter(q)
    BY DEF Arrives, server
<1>3. q.session \in Sessions \cup {None} /\ q.answer \in Answers
    BY <1>1 DEF Request
<1>4. jar' \in Sessions \cup {None}
    BY <1>2, <1>3 DEF CookieAfter, IInv
<1>5. CASE k \in Checks
    <2>1. CASE q.answer = "ok"
        <3>1. cached' = owner[q.session] /\ jar' = jar
            BY <1>1, <1>2, <1>5, <2>1 DEF UserAfter, CookieAfter, Checks
        <3>2. late' = (q.session # jar)
            BY <1>1, <1>2, <1>5, <2>1 DEF LateAfter, Silent, Checks, Calls
        <3> QED BY <1>2, <1>4, <3>1, <3>2 DEF ShownUserActs
    <2>2. CASE q.answer = "refused"
        <3>1. jar' = None
            BY <1>1, <1>2, <1>5, <2>2 DEF CookieAfter, Checks
        <3> QED BY <1>2, <1>4, <3>1 DEF ShownUserActs
    <2>3. CASE q.answer = "error"
        <3>1. cached' = cached /\ jar' = jar /\ late' = late
            BY <1>1, <1>2, <1>5, <2>3 DEF UserAfter, CookieAfter, LateAfter, Silent, Checks
        <3> QED BY <1>2, <1>4, <3>1 DEF ShownUserActs, IInv
    <2> QED BY <1>1, <1>3, <2>1, <2>2, <2>3 DEF Arrives, Answers
<1>6. CASE k \in Calls
    <2>1. cached' = cached /\ jar' \in {jar, None} /\ late' = late
        BY <1>1, <1>2, <1>6 DEF UserAfter, CookieAfter, LateAfter, Silent, Checks, Calls
    <2> QED BY <1>2, <1>4, <2>1 DEF ShownUserActs, IInv
<1>7. CASE k = "login"
    <2>1. CASE q.answer = "ok"
        <3>1. cached' = owner[q.session] /\ jar' = q.session
            BY <1>1, <1>2, <1>7, <2>1 DEF UserAfter, CookieAfter, Checks
        <3> QED BY <1>2, <1>4, <3>1 DEF ShownUserActs
    <2>2. CASE q.answer # "ok"
        <3>1. cached' = cached /\ (jar' = None \/ (jar' = jar /\ late' = late))
            BY <1>1, <1>2, <1>3, <1>7, <2>2
            DEF UserAfter, CookieAfter, LateAfter, Silent, Checks, Calls, Answers, Arrives
        <3> QED BY <1>2, <1>4, <3>1 DEF ShownUserActs, IInv
    <2> QED BY <2>1, <2>2
<1>8. CASE k = "logout"
    <2>1. jar' = None \/ (cached' = cached /\ jar' = jar /\ late' = late)
        BY <1>1, <1>2, <1>3, <1>8
        DEF UserAfter, CookieAfter, LateAfter, Silent, Checks, Calls, Answers, Arrives
    <2> QED BY <1>2, <1>4, <2>1 DEF ShownUserActs, IInv
<1> QED BY <1>2, <1>4, <1>5, <1>6, <1>7, <1>8 DEF Kinds

LEMMA ArriveStep ==
    ASSUME IInv, NEW r \in Slots, Arrive(r)
    PROVE  IInv'
<1>1. Without(r) \in Flights
    BY WithoutType DEF IInv
<1>2. PICK k \in Kinds : Arrives(r, k)
    <2>1. {"app", "guard", "entry", "login", "logout", "load", "submit"} \subseteq Kinds
        BY DEF Kinds, Checks, Calls
    <2> QED BY <2>1 DEF Arrive, AppAnswer, GuardAnswer, EntryAnswer, LoginAnswer,
                        LogoutAnswer, LoadAnswer, SubmitAnswer
<1>3. owner' = owner /\ jar' \in Sessions \cup {None} /\ ShownUserActs'
    BY <1>2, AnswerAgrees
<1>4. CASE AppAnswer(r)
    <2>1. flight' = Without(r)
        BY <1>4 DEF AppAnswer, Stay
    <2> QED BY <1>1, <1>3, <2>1 DEF IInv
<1>5. CASE GuardAnswer(r)
    <2>1. \/ flight' = Without(r)
          \/ Go("dashboard", cached', Without(r))
          \/ Go("login", cached', Without(r))
        BY <1>5 DEF GuardAnswer
    <2>2. flight' \in Flights
        BY <1>1, <1>3, <2>1, GoType
    <2> QED BY <1>3, <2>2 DEF IInv
<1>6. CASE EntryAnswer(r) \/ LoginAnswer(r)
    <2>1. flight' = Without(r) \/ Go("dashboard", cached', Without(r))
        BY <1>6 DEF EntryAnswer, LoginAnswer, Stay
    <2>2. flight' \in Flights
        BY <1>1, <1>3, <2>1, GoType
    <2> QED BY <1>3, <2>2 DEF IInv
<1>7. CASE LogoutAnswer(r)
    <2>1. Go("login", cached', Without(r))
        BY <1>7 DEF LogoutAnswer
    <2>2. flight' \in Flights
        BY <1>1, <1>3, <2>1, GoType
    <2> QED BY <1>3, <2>2 DEF IInv
<1>8. CASE LoadAnswer(r) \/ SubmitAnswer(r)
    <2>1. \/ flight' = Without(r)
          \/ flight' = Sending(Without(r), "load", jar)
          \/ Go("login", cached, Without(r))
        BY <1>8 DEF LoadAnswer, SubmitAnswer, ToLogin, Stay
    <2>2. Sending(Without(r), "load", jar) \in Flights
        BY <1>1, SendingType DEF IInv, Kinds, Calls
    <2>3. flight' \in Flights
        BY <1>1, <1>3, <2>1, <2>2, GoType
    <2> QED BY <1>3, <2>3 DEF IInv
<1> QED BY <1>4, <1>5, <1>6, <1>7, <1>8 DEF Arrive, IInv

\* The server issues a session that nobody had: no owner changes.
LEMMA ServeStep ==
    ASSUME IInv, NEW r \in Slots, Serve(r)
    PROVE  IInv'
<1>1. UNCHANGED <<jar, cached, late>>
    BY DEF Serve, Accept, Refuse, Issue, Revoke, Fail, Serves, login
<1>2. CASE Issue(r)
    <2>1. PICK s \in Sessions, u \in Users :
              /\ owner[s] = None
              /\ flight' = [flight EXCEPT ![r].answer = "ok", ![r].session = s]
              /\ owner' = [owner EXCEPT ![s] = u]
              /\ flight[r] # None
        BY <1>2 DEF Issue
    <2>2. flight[r] \in Request
        BY <2>1 DEF IInv, Flights
    <2>3. flight' \in Flights
        BY <2>1, <2>2 DEF IInv, Flights, Request, Answers
    <2>4. owner' \in [Sessions -> Users \cup {None}]
        BY <2>1 DEF IInv
    <2>5. ShownUserActs'
        <3>1. \A x \in Sessions : owner[x] # None => owner'[x] = owner[x]
            BY <2>1 DEF IInv
        <3> QED BY <1>1, <3>1 DEF ShownUserActs, IInv
    <2> QED BY <1>1, <2>3, <2>4, <2>5 DEF IInv
<1>3. CASE ~Issue(r)
    <2>1. PICK a \in Answers : /\ flight[r] # None
                               /\ flight' = [flight EXCEPT ![r].answer = a]
                               /\ owner' = owner
        BY <1>3 DEF Serve, Accept, Refuse, Revoke, Fail, Serves, server, Answers
    <2>2. flight[r] \in Request
        BY <2>1 DEF IInv, Flights
    <2>3. flight' \in Flights
        BY <2>1, <2>2 DEF IInv, Flights, Request
    <2> QED BY <1>1, <2>1, <2>3 DEF IInv, ShownUserActs
<1> QED BY <1>2, <1>3

LEMMA PageStep ==
    ASSUME IInv, [Next]_vars
    PROVE  IInv'
<1>1. ASSUME NEW r \in Slots, Serve(r) \/ Arrive(r)
      PROVE  IInv'
    BY <1>1, ServeStep, ArriveStep
<1>2. CASE Activate
    <2>1. UNCHANGED <<owner, jar, cached, late>>
        BY <1>2 DEF Activate, server, login
    <2>2. \/ flight' = flight
          \/ flight' = Sending(flight, "load", jar)
          \/ flight' = Sending(flight, "entry", jar)
        BY <1>2 DEF Activate
    <2>3. flight' \in Flights
        BY <2>2, SendingType DEF IInv, Kinds, Checks, Calls
    <2> QED BY <2>1, <2>3 DEF IInv, ShownUserActs
<1>3. ASSUME NEW s \in Sessions, Expire(s)
      PROVE  IInv'
    BY <1>3 DEF Expire, login, IInv, ShownUserActs
<1>4. ASSUME NEW to \in Routes, Visit(to)
      PROVE  IInv'
    <2>1. UNCHANGED <<owner, jar, cached, late>> /\ Go(to, cached, flight)
        BY <1>4 DEF Visit, server, login
    <2>2. flight' \in Flights
        BY <2>1, GoType DEF IInv
    <2> QED BY <2>1, <2>2 DEF IInv, ShownUserActs
<1>5. CASE Submit \/ Refresh \/ Logout
    <2>1. UNCHANGED <<owner, jar, cached, late>>
        BY <1>5 DEF Submit, Refresh, Logout, server, login
    <2>2. PICK k \in Kinds : flight' = Sending(flight, k, jar)
        <3>1. {"login", "submit", "load", "logout"} \subseteq Kinds
            BY DEF Kinds, Calls
        <3>2. \/ flight' = Sending(flight, "login", jar)
              \/ flight' = Sending(flight, "submit", jar)
              \/ flight' = Sending(flight, "load", jar)
              \/ flight' = Sending(flight, "logout", jar)
            BY <1>5 DEF Submit, Refresh, Logout
        <3> QED BY <3>1, <3>2
    <2>3. flight' \in Flights
        BY <2>2, SendingType DEF IInv
    <2> QED BY <2>1, <2>3 DEF IInv, ShownUserActs
<1>6. CASE Reload
    <2>1. /\ UNCHANGED <<owner, jar>> /\ cached' = None
          /\ flight' = Opening(jar)
        BY <1>6 DEF Reload, server
    <2>2. flight' \in Flights
        BY <2>1, OpeningType DEF IInv
    <2> QED BY <2>1, <2>2 DEF IInv, ShownUserActs
<1>7. CASE Quiescent \/ UNCHANGED vars
    BY <1>7 DEF Quiescent, vars, server, login, IInv, ShownUserActs
<1> QED BY <1>1, <1>2, <1>3, <1>4, <1>5, <1>6, <1>7 DEF Next

LEMMA PageInit == Init => IInv
<1> SUFFICES ASSUME Init PROVE IInv
    OBVIOUS
<1>1. owner \in [Sessions -> Users \cup {None}]
    BY Owner0Assumption DEF Init
<1>2. jar \in Sessions \cup {None}
    BY DEF Init
<1>3. flight \in Flights
    BY <1>2, OpeningType DEF Init
<1>4. ShownUserActs
    BY DEF Init, ShownUserActs
<1> QED BY <1>1, <1>2, <1>3, <1>4 DEF IInv

\* The page's user is the one its requests act for, but for an answer that
\* arrives after the cookie has changed (auth.service.ts, auth.guard.ts).
THEOREM ShownUsersAct == Spec => []ShownUserActs
<1>1. Spec => []IInv
    BY PageInit, PageStep, PTL DEF Spec
<1>2. IInv => ShownUserActs
    BY DEF IInv
<1> QED BY <1>1, <1>2, PTL
=============================================================================
