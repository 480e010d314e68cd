----------------------------- MODULE AuthProofs -----------------------------
(***************************************************************************)
(* What holds of Auth for any number of requests, browsers and emails. All *)
(* of it follows from one invariant: a request that is still working has   *)
(* published nothing, and a cookie in circulation belongs to a request     *)
(* that has finished, so neither its session nor its user can change.      *)
(***************************************************************************)
EXTENDS Auth, TLAPS

USE NoneAssumption

Ended == {"done", "over"}

\* A register or login at work knows its email; the other steps, their endpoint.
Routed == \A t \in Requests :
    /\ kind[t] \in Credentials /\ pc[t] # "idle" => who[t] \in Emails
    /\ pc[t] \in {"check", "insert", "password", "issue"} => kind[t] \in Credentials
    /\ pc[t] = "revoke" => kind[t] = "logout"
    /\ pc[t] \in {"session", "user"} => kind[t] = "me"

\* A request that has not been answered has no session, one that has not been
\* sent has no user either.
Unpublished == \A t \in Requests :
    /\ pc[t] \notin Ended => answer[t] = 0 /\ store[t] = None /\ t \notin dropped
    /\ pc[t] = "idle" => t \notin users /\ sent[t] = None /\ acting[t] = None

\* A session is its request's, and stays dropped.
SessionsKept == \A s \in Requests :
    /\ store[s] # None => store[s] = who[s] /\ s \notin dropped
    /\ SetsCookie(s) => store[s] # None \/ s \in dropped

\* Cookies in circulation were set.
CookiesSet == /\ \A b \in Browsers : jar[b] # None => SetsCookie(jar[b])
              /\ \A t \in Requests : sent[t] # None => SetsCookie(sent[t])

\* A logout that has been answered has dropped its session, or could not.
LoggedOutIsOver == \A u \in Requests :
    kind[u] = "logout" /\ sent[u] # None /\ answer[u] = 200 =>
        mode = "signed" \/ sent[u] \in dropped \/ sent[u] \in kept

IInv == /\ TypeOK
        /\ Routed
        /\ Unpublished
        /\ SessionsKept
        /\ CookiesSet
        /\ LoggedOutIsOver
        /\ ActsForItsLogin
        /\ OneUserPerEmail

LEMMA InitIInv == Init => IInv
BY DEF Init, IInv, TypeOK, Routed, Unpublished, SessionsKept, CookiesSet, LoggedOutIsOver,
       Ended,
       ActsForItsLogin, OneUserPerEmail, Kinds, Credentials, SetsCookie

-----------------------------------------------------------------------------

\* Every step keeps the types.
LEMMA TypeStep == ASSUME TypeOK, [Next]_vars PROVE TypeOK'
<1> USE DEF TypeOK
<1>1. ASSUME NEW t \in Requests, NEW b \in Browsers, NEW k \in Kinds, NEW e \in Emails,
             Send(t, b, k, e)
      PROVE  TypeOK'
  BY <1>1 DEF Send, Move, First, Kinds, Credentials, Working, data
<1>2. ASSUME NEW t \in Requests,
             \/ Reject(t) \/ EmailFree(t) \/ EmailTaken(t) \/ CheckFails(t)
             \/ InsertUser(t) \/ InsertConflicts(t) \/ InsertFails(t) \/ InsertAckLost(t)
             \/ PasswordRight(t) \/ PasswordWrong(t)
      PROVE  TypeOK'
  BY <1>2 DEF Reject, EmailFree, EmailTaken, CheckFails, InsertUser, InsertConflicts,
              InsertFails, InsertAckLost, PasswordRight, PasswordWrong,
              Move, Answer, Working, Statuses, data, sending
<1>3. ASSUME NEW t \in Requests,
             \/ Issue(t) \/ IssueFails(t) \/ Revoke(t) \/ RevokeFails(t) \/ RevokeNothing(t)
      PROVE  TypeOK'
  BY <1>3 DEF Issue, IssueFails, Revoke, RevokeFails, RevokeNothing, Drop, SidOf, Success,
              Move, Answer, Working, Statuses, data, sending
<1>4. ASSUME NEW t \in Requests,
             \/ SessionFound(t) \/ SessionMissing(t) \/ UserLoaded(t) \/ UserMissing(t)
      PROVE  TypeOK'
  BY <1>4 DEF SessionFound, SessionMissing, UserLoaded, UserMissing, SessionOf, SidOf,
              Move, Answer, Working, Statuses, data, sending
<1>5. ASSUME NEW t \in Requests, Deliver(t) \/ Lose(t) PROVE TypeOK'
  BY <1>5 DEF Deliver, Lose, Move, Working, data, sending
<1>6. ASSUME NEW s \in Requests, Expire(s) PROVE TypeOK'
  BY <1>6 DEF Expire, Drop, sending
<1>7. CASE UNCHANGED vars
  BY <1>7 DEF vars, data, sending
<1>8. QED
  BY <1>1, <1>2, <1>3, <1>4, <1>5, <1>6, <1>7 DEF Next, RequestNext, Quiescent

\* What a request was sent as is settled then, its answer when it ends.
Settled(t) ==
    /\ pc[t] # "idle" => /\ pc'[t] # "idle"
                         /\ kind'[t] = kind[t] /\ who'[t] = who[t] /\ sent'[t] = sent[t]
    /\ pc[t] \in Ended => /\ pc'[t] \in Ended
                          /\ answer'[t] = answer[t] /\ acting'[t] = acting[t]
    /\ t \in dropped => t \in dropped'
    /\ t \in kept => t \in kept'
    /\ mode' = mode

LEMMA StepSettles ==
    ASSUME TypeOK, [Next]_vars, NEW t \in Requests
    PROVE  Settled(t)
<1> USE DEF TypeOK, Settled, Ended
<1>1. ASSUME NEW u \in Requests, NEW b \in Browsers, NEW k \in Kinds, NEW e \in Emails,
             Send(u, b, k, e)
      PROVE  Settled(t)
  BY <1>1 DEF Send, Move, First, data
<1>2. ASSUME NEW u \in Requests,
             \/ Reject(u) \/ EmailFree(u) \/ EmailTaken(u) \/ CheckFails(u)
             \/ InsertUser(u) \/ InsertConflicts(u) \/ InsertFails(u) \/ InsertAckLost(u)
             \/ PasswordRight(u) \/ PasswordWrong(u)
      PROVE  Settled(t)
  BY <1>2 DEF Reject, EmailFree, EmailTaken, CheckFails, InsertUser, InsertConflicts,
              InsertFails, InsertAckLost, PasswordRight, PasswordWrong,
              Move, Answer, data, sending
<1>3. ASSUME NEW u \in Requests,
             \/ Issue(u) \/ IssueFails(u) \/ Revoke(u) \/ RevokeFails(u) \/ RevokeNothing(u)
      PROVE  Settled(t)
  BY <1>3 DEF Issue, IssueFails, Revoke, RevokeFails, RevokeNothing, Drop, Move, Answer, data, sending
<1>4. ASSUME NEW u \in Requests,
             \/ SessionFound(u) \/ SessionMissing(u) \/ UserLoaded(u) \/ UserMissing(u)
      PROVE  Settled(t)
  BY <1>4 DEF SessionFound, SessionMissing, UserLoaded, UserMissing,
              Move, Answer, data, sending
<1>5. ASSUME NEW u \in Requests, Deliver(u) \/ Lose(u) PROVE Settled(t)
  BY <1>5 DEF Deliver, Lose, Move, data, sending
<1>6. ASSUME NEW s \in Requests, Expire(s) PROVE Settled(t)
  BY <1>6 DEF Expire, Drop, sending
<1>7. CASE UNCHANGED vars
  BY <1>7 DEF vars, data, sending
<1>8. QED
  BY <1>1, <1>2, <1>3, <1>4, <1>5, <1>6, <1>7 DEF Next, RequestNext, Quiescent

\* Every step keeps the rest of the invariant.
LEMMA IInvStep == ASSUME IInv, [Next]_vars PROVE IInv'
<1>0. TypeOK' /\ \A t \in Requests : Settled(t)
  BY TypeStep, StepSettles DEF IInv
<1> USE DEF IInv, TypeOK, Routed, Unpublished, SessionsKept, CookiesSet, LoggedOutIsOver,
            ActsForItsLogin, OneUserPerEmail, SetsCookie, Settled, Ended, Credentials
<1>1. ASSUME NEW t \in Requests, NEW b \in Browsers, NEW k \in Kinds, NEW e \in Emails,
             Send(t, b, k, e)
      PROVE  IInv'
  BY <1>0, <1>1 DEF Send, Move, First, Kinds, data
<1>2. ASSUME NEW t \in Requests,
             \/ Reject(t) \/ EmailFree(t) \/ EmailTaken(t) \/ CheckFails(t)
             \/ InsertConflicts(t) \/ InsertFails(t) \/ PasswordRight(t) \/ PasswordWrong(t)
      PROVE  IInv'
  BY <1>0, <1>2 DEF Reject, EmailFree, EmailTaken, CheckFails, InsertConflicts,
              InsertFails, PasswordRight, PasswordWrong, Move, Answer, data, sending
<1>3. ASSUME NEW t \in Requests, InsertUser(t) \/ InsertAckLost(t)
      PROVE  IInv'
  BY <1>0, <1>3 DEF InsertUser, InsertAckLost, ViolatesUnique, Registered, Move,
     Answer, sending
<1>4. ASSUME NEW t \in Requests, Issue(t) \/ IssueFails(t)
      PROVE  IInv'
  BY <1>0, <1>4 DEF Issue, IssueFails, SidOf, Success, Move, Answer, sending
<1>5. ASSUME NEW t \in Requests,
             Revoke(t) \/ RevokeFails(t) \/ RevokeNothing(t)
      PROVE  IInv'
  BY <1>0, <1>5 DEF Revoke, RevokeFails, RevokeNothing, Drop, SidOf, Move, Answer, data, sending
<1>6. ASSUME NEW t \in Requests,
             \/ SessionFound(t) \/ SessionMissing(t) \/ UserLoaded(t) \/ UserMissing(t)
      PROVE  IInv'
  BY <1>0, <1>6 DEF SessionFound, SessionMissing, UserLoaded, UserMissing, SessionOf,
     SidOf,
              Move, Answer, data, sending
<1>7. ASSUME NEW t \in Requests, Deliver(t) \/ Lose(t) PROVE IInv'
  BY <1>0, <1>7 DEF Deliver, Lose, ClearsCookie, Move, data, sending
<1>8. ASSUME NEW s \in Requests, Expire(s) PROVE IInv'
  BY <1>0, <1>8 DEF Expire, Drop, sending
<1>9. CASE UNCHANGED vars
  BY <1>0, <1>9 DEF vars, data, sending
<1>10. QED
  BY <1>1, <1>2, <1>3, <1>4, <1>5, <1>6, <1>7, <1>8, <1>9 DEF Next, RequestNext,
     Quiescent

-----------------------------------------------------------------------------

\* The invariant above is inductive.
THEOREM Inductive == Spec => []IInv
<1>1. IInv /\ [Next]_vars => IInv'
  BY IInvStep
<1>2. QED BY InitIInv, <1>1, PTL DEF Spec

\* Every variable has its type.
THEOREM TypeCorrect == Spec => []TypeOK
BY Inductive, PTL DEF IInv

\* Registrations that race for one email, their lookups failing or not,
\* leave one user of it.
THEOREM EmailsAreUnique == Spec => []OneUserPerEmail
BY Inductive, PTL DEF IInv

\* No browser ever holds the cookie of a session that was never stored.
THEOREM CookiesAreBacked == Spec => []CookieBacked
<1>1. IInv => CookieBacked
  BY DEF IInv, TypeOK, SessionsKept, CookiesSet, CookieBacked, SidOf
<1>2. QED BY Inductive, <1>1, PTL

\* Every authenticated request acts for the user of the login its cookie
\* came from.
THEOREM RequestsActForTheirLogin == Spec => []ActsForItsLogin
BY Inductive, PTL DEF IInv

\* A request is authenticated by a session that is there.
LEMMA SessionAuthenticates ==
    ASSUME IInv, [Next]_vars, NEW t \in Requests, Authenticates(t)
    PROVE  sent[t] \in Requests /\ store[sent[t]] # None
<1> USE DEF IInv, TypeOK, Authenticates
<1>1. SessionFound(t)
  <2>1. ASSUME NEW u \in Requests, SessionFound(u) PROVE u = t
    BY <2>1 DEF SessionFound
  <2>2. PICK u \in Requests : SessionFound(u)
    BY DEF Next, RequestNext, Quiescent, Expire, vars, data, sending,
           Send, Reject, EmailFree, EmailTaken, CheckFails, InsertUser,
           InsertConflicts, InsertFails, InsertAckLost, PasswordRight,
           PasswordWrong, Issue, IssueFails, Revoke, RevokeFails, RevokeNothing,
           SessionMissing, UserLoaded, UserMissing, Deliver, Lose
  <2>3. QED BY <2>1, <2>2
<1>2. QED BY <1>1 DEF SessionFound, SessionOf, SidOf

\* Only a session that is there authenticates a request, and one that has
\* been dropped is never there again.
THEOREM DroppedSessionsStayDead == Spec => DroppedStaysDead
<1>1. ASSUME IInv, [Next]_vars, NEW t \in Requests, Authenticates(t)
      PROVE  SidOf(sent[t]) \notin dropped
  BY <1>1, SessionAuthenticates DEF IInv, SessionsKept, SidOf
<1>2. IInv /\ [Next]_vars =>
        [\A t \in Requests : Authenticates(t) => SidOf(sent[t]) \notin dropped]_vars
  BY <1>1
<1>3. QED BY Inductive, <1>2, PTL DEF Spec, DroppedStaysDead

\* After an answered logout no request is authenticated by its session, unless
\* Redis refused the deletion or the session is a token.
THEOREM LogoutsEndSessions == Spec => LogoutEndsSession
<1>1. ASSUME IInv, [Next]_vars, NEW t \in Requests, Authenticates(t), LoggedOut(sent[t])
      PROVE  mode = "signed" \/ sent[t] \in kept
  <2>1. sent[t] \in Requests /\ sent[t] \notin dropped /\ sent[t] # None
    BY <1>1, SessionAuthenticates DEF IInv, SessionsKept
  <2>2. QED BY <1>1, <2>1 DEF IInv, LoggedOutIsOver, LoggedOut
<1>2. IInv /\ [Next]_vars =>
        [\A t \in Requests : Authenticates(t) /\ LoggedOut(sent[t]) =>
            mode = "signed" \/ sent[t] \in kept]_vars
  BY <1>1
<1>3. QED BY Inductive, <1>2, PTL DEF Spec, LogoutEndsSession
-----------------------------------------------------------------------------
(* The identity service.                                                   *)

Accounts == {[id |-> u, email |-> who[u]] : u \in users}

\* Who is about to be given a session has a user; who is about to be
\* authenticated has not been.
KnownIssuer == \A t \in Requests : pc[t] = "issue" => Registered(who[t])
NotYetActing == \A t \in Requests : pc[t] = "session" => acting[t] = None

LEMMA AccountsKnown ==
    ASSUME NEW e
    PROVE  Identity!Known(e) <=> Registered(e)
<1>1. ASSUME NEW u \in users, who[u] = e
      PROVE  \E a \in Accounts : a.email = e
  <2>1. [id |-> u, email |-> who[u]] \in Accounts
    BY DEF Accounts
  <2>2. QED BY <1>1, <2>1
<1>2. ASSUME NEW a \in Accounts, a.email = e
      PROVE  \E u \in users : who[u] = e
  BY <1>2 DEF Accounts
<1>3. QED BY <1>1, <1>2 DEF Identity!Known, Registered, Accounts

\* Users keep their emails: no step makes a user and changes an email at once.
LEMMA UsersStay ==
    ASSUME IInv, [Next]_vars
    PROVE  /\ users \subseteq users'
           /\ \A u \in users : who'[u] = who[u]
           /\ users' = users => Accounts' = Accounts
<1>1. users \subseteq users'
  BY DEF Next, RequestNext, Quiescent, Expire, Drop, vars, data, sending,
         Send, Reject, EmailFree, EmailTaken, CheckFails, InsertUser,
         InsertConflicts, InsertFails, InsertAckLost, PasswordRight,
         PasswordWrong, Issue, IssueFails, Revoke, RevokeFails, RevokeNothing,
         SessionFound, SessionMissing, UserLoaded, UserMissing, Deliver, Lose
<1>2. ASSUME NEW u \in users
      PROVE  who'[u] = who[u]
  <2>1. u \in Requests /\ TypeOK /\ pc[u] # "idle"
    BY DEF IInv, TypeOK, Unpublished
  <2>2. QED BY <2>1, StepSettles DEF Settled
<1>3. QED BY <1>1, <1>2 DEF Accounts

LEMMA KnownIssuerStep ==
    ASSUME IInv, KnownIssuer, [Next]_vars
    PROVE  KnownIssuer'
<1> SUFFICES ASSUME NEW t \in Requests, pc'[t] = "issue"
             PROVE  \E u \in users' : who'[u] = who'[t]
  BY DEF KnownIssuer, Registered
<1>1. users \subseteq users' /\ \A u \in users : who'[u] = who[u]
  BY UsersStay
<1>2. TypeOK /\ Settled(t)
  BY StepSettles DEF IInv
<1>3. CASE InsertUser(t)
  BY <1>3 DEF InsertUser, sending
<1>4. CASE PasswordRight(t)
  BY <1>1, <1>4 DEF PasswordRight, Registered, data, sending
<1>5. CASE pc[t] = "issue"
  BY <1>1, <1>2, <1>5 DEF KnownIssuer, Registered, Settled
<1>6. CASE ~InsertUser(t) /\ ~PasswordRight(t) /\ pc[t] # "issue"
  <2> USE DEF TypeOK
  <2>1. pc'[t] # pc[t]
    BY <1>6
  <2>2. ASSUME NEW b \in Browsers, NEW k \in Kinds, NEW e \in Emails, NEW u \in Requests,
               Send(u, b, k, e)
        PROVE  FALSE
    BY <1>2, <1>6, <2>2 DEF Send, Move, First, Kinds, Credentials
  <2>3. ASSUME NEW u \in Requests,
               \/ Reject(u) \/ EmailFree(u) \/ EmailTaken(u) \/ CheckFails(u)
               \/ InsertUser(u) \/ InsertConflicts(u) \/ InsertFails(u) \/ InsertAckLost(u)
               \/ PasswordRight(u) \/ PasswordWrong(u)
        PROVE  FALSE
    BY <1>2, <1>6, <2>1, <2>3 DEF Reject, EmailFree, EmailTaken, CheckFails, InsertUser,
       InsertConflicts, InsertFails, InsertAckLost, PasswordRight, PasswordWrong, Move
  <2>4. ASSUME NEW u \in Requests,
               \/ Issue(u) \/ IssueFails(u) \/ Revoke(u) \/ RevokeFails(u)
               \/ RevokeNothing(u) \/ SessionFound(u) \/ SessionMissing(u)
               \/ UserLoaded(u) \/ UserMissing(u) \/ Deliver(u) \/ Lose(u)
        PROVE  FALSE
    BY <1>2, <1>6, <2>1, <2>4 DEF Issue, IssueFails, Revoke, RevokeFails, RevokeNothing,
       SessionFound, SessionMissing, UserLoaded, UserMissing, Deliver, Lose, Move
  <2>5. ASSUME NEW s \in Requests, Expire(s)
        PROVE  FALSE
    BY <2>1, <2>5 DEF Expire
  <2>6. ~UNCHANGED vars
    BY <2>1 DEF vars
  <2>7. QED BY <2>2, <2>3, <2>4, <2>5, <2>6 DEF Next, RequestNext, Quiescent
<1>7. QED BY <1>3, <1>4, <1>5, <1>6

LEMMA NotYetActingStep ==
    ASSUME IInv, NotYetActing, [Next]_vars
    PROVE  NotYetActing'
<1> SUFFICES ASSUME NEW t \in Requests, pc'[t] = "session", acting'[t] # None
             PROVE  FALSE
  BY DEF NotYetActing
<1> USE DEF IInv, TypeOK, Unpublished, NotYetActing
<1>1. ASSUME NEW b \in Browsers, NEW k \in Kinds, NEW e \in Emails, NEW u \in Requests,
             Send(u, b, k, e)
      PROVE  FALSE
  BY <1>1 DEF Send, Move
<1>2. ASSUME NEW u \in Requests,
             \/ Reject(u) \/ EmailFree(u) \/ EmailTaken(u) \/ CheckFails(u)
             \/ InsertUser(u) \/ InsertConflicts(u) \/ InsertFails(u) \/ InsertAckLost(u)
             \/ PasswordRight(u) \/ PasswordWrong(u)
      PROVE  FALSE
  BY <1>2 DEF Reject, EmailFree, EmailTaken, CheckFails, InsertUser, InsertConflicts,
     InsertFails, InsertAckLost, PasswordRight, PasswordWrong, Move
<1>3. ASSUME NEW u \in Requests,
             \/ Issue(u) \/ IssueFails(u) \/ Revoke(u) \/ RevokeFails(u)
             \/ RevokeNothing(u) \/ SessionFound(u) \/ SessionMissing(u)
             \/ UserLoaded(u) \/ UserMissing(u) \/ Deliver(u) \/ Lose(u)
      PROVE  FALSE
  BY <1>3 DEF Issue, IssueFails, Revoke, RevokeFails, RevokeNothing,
     SessionFound, SessionMissing, UserLoaded, UserMissing, Deliver, Lose, Move
<1>4. ASSUME NEW s \in Requests, Expire(s)
      PROVE  FALSE
  BY <1>4 DEF Expire
<1>5. ~UNCHANGED vars
  BY DEF vars
<1>6. QED BY <1>1, <1>2, <1>3, <1>4, <1>5 DEF Next, RequestNext, Quiescent

\* A session in a cookie has been begun.
LEMMA CarriedIsBegun ==
    ASSUME IInv, NEW s \in Requests, SetsCookie(s)
    PROVE  Identity!Begun(s)
BY DEF IInv, SessionsKept, Identity!Begun

LEMMA RegisterMaps ==
    ASSUME IInv, [Next]_vars, NEW t \in Requests, NEW e, e = who[t],
           InsertUser(t) \/ InsertAckLost(t)
    PROVE  Identity!Register(t, e)
<1>1. /\ users' = users \cup {t} /\ ~Registered(who[t])
      /\ UNCHANGED <<store, dropped, sent, who, acting>>
  BY DEF InsertUser, InsertAckLost, ViolatesUnique, sending
<1>2. Accounts' = Accounts \cup {[id |-> t, email |-> who[t]]}
  BY <1>1 DEF Accounts
<1>3. ~Identity!Known(who[t])
  BY <1>1, AccountsKnown
<1>4. QED BY <1>1, <1>2, <1>3 DEF Identity!Register, Accounts

LEMMA BeginMaps ==
    ASSUME IInv, KnownIssuer, [Next]_vars, NEW t \in Requests, Issue(t) \/ IssueFails(t)
    PROVE  Identity!Begin(t, who[t]) \/ UNCHANGED Identity!vars
<1>1. pc[t] = "issue" /\ UNCHANGED <<users, dropped, sent, who, acting>>
  BY DEF Issue, IssueFails, Move, sending
<1>2. Accounts' = Accounts
  BY <1>1 DEF Accounts
<1>3. store' = store \/ store' = [store EXCEPT ![t] = who[t]]
  BY DEF Issue, IssueFails, SidOf
<1>4. Identity!Known(who[t]) /\ ~Identity!Begun(t)
  <2>1. Registered(who[t])
    BY <1>1 DEF KnownIssuer
  <2>2. store[t] = None /\ t \notin dropped
    BY <1>1 DEF IInv, Unpublished, Ended
  <2>3. QED BY <2>1, <2>2, AccountsKnown DEF Identity!Begun
<1>5. CASE store' = store
  BY <1>1, <1>2, <1>5 DEF Identity!vars, Accounts
<1>6. CASE store' = [store EXCEPT ![t] = who[t]]
  BY <1>1, <1>2, <1>4, <1>6 DEF Identity!Begin, Accounts
<1>7. QED BY <1>3, <1>5, <1>6

\* To end a session that has ended changes nothing.
LEMMA EndMaps ==
    ASSUME IInv, NEW s \in Requests, Identity!Begun(s), Drop(s),
           UNCHANGED <<users, sent, who, acting>>
    PROVE  Identity!End(s) \/ UNCHANGED Identity!vars
<1>1. Accounts' = Accounts
  BY DEF Accounts
<1>2. store \in [Requests -> Emails \cup {None}]
  BY DEF IInv, TypeOK
<1>3. CASE store[s] # None
  BY <1>1, <1>3 DEF Drop, Identity!End, Accounts
<1>4. CASE store[s] = None
  <2>1. s \in dropped
    BY <1>4 DEF Identity!Begun
  <2>2. store' = store /\ dropped' = dropped
    BY <1>2, <1>4, <2>1 DEF Drop
  <2>3. QED BY <1>1, <2>2 DEF Identity!vars, Accounts
<1>5. QED BY <1>3, <1>4

LEMMA CarryMaps ==
    ASSUME IInv, [Next]_vars, NEW t \in Requests,
           NEW b \in Browsers, NEW k \in Kinds, NEW e \in Emails, Send(t, b, k, e)
    PROVE  (Identity!Carry(t, jar[b]) /\ jar[b] \in Requests) \/ UNCHANGED Identity!vars
<1>1. /\ pc[t] = "idle" /\ sent' = [sent EXCEPT ![t] = jar[b]]
      /\ UNCHANGED <<users, store, dropped, acting>>
  BY DEF Send, Move, data
<1>2. Accounts' = Accounts
  BY <1>1, UsersStay
<1>3. sent[t] = None /\ sent \in [Requests -> Requests \cup {None}]
      /\ jar[b] \in Requests \cup {None}
  BY <1>1 DEF IInv, Unpublished, TypeOK
<1>4. CASE jar[b] = None
  <2>1. sent' = sent
    BY <1>1, <1>3, <1>4
  <2>2. QED BY <1>1, <1>2, <2>1 DEF Identity!vars, Accounts
<1>5. CASE jar[b] # None
  <2>1. Identity!Begun(jar[b])
    BY <1>3, <1>5, CarriedIsBegun DEF IInv, CookiesSet
  <2>2. QED BY <1>1, <1>2, <1>3, <1>5, <2>1 DEF Identity!Carry, Accounts
<1>6. QED BY <1>4, <1>5

LEMMA AuthenticateMaps ==
    ASSUME NotYetActing, NEW t \in Requests, SessionFound(t)
    PROVE  Identity!Authenticate(t)
<1>1. /\ sent[t] # None /\ store[sent[t]] # None /\ pc[t] = "session"
      /\ acting' = [acting EXCEPT ![t] = store[sent[t]]]
      /\ UNCHANGED <<users, store, dropped, sent, who>>
  BY DEF SessionFound, SessionOf, SidOf, Move, data, sending
<1>2. acting[t] = None
  BY <1>1 DEF NotYetActing
<1>3. QED BY <1>1, <1>2 DEF Identity!Authenticate

LEMMA IdentityStep ==
    ASSUME IInv, KnownIssuer, NotYetActing, [Next]_vars
    PROVE  [Identity!Next]_(Identity!vars)
<1>1. TypeOK
  BY DEF IInv
<1>2. ASSUME NEW t \in Requests, InsertUser(t) \/ InsertAckLost(t)
      PROVE  Identity!Next
  <2>1. pc[t] = "insert"
    BY <1>2 DEF InsertUser, InsertAckLost, Move
  <2>2. PICK e \in Emails : e = who[t]
    BY <2>1 DEF IInv, Routed
  <2>3. Identity!Register(t, e)
    BY <1>2, <2>2, RegisterMaps
  <2>4. QED BY <2>3 DEF Identity!Next
<1>3. ASSUME NEW t \in Requests, Issue(t) \/ IssueFails(t)
      PROVE  [Identity!Next]_(Identity!vars)
  <2>1. pc[t] = "issue"
    BY <1>3 DEF Issue, IssueFails, Move
  <2>2. who[t] \in Emails
    BY <2>1 DEF IInv, Routed
  <2>3. QED BY <1>3, <2>2, BeginMaps DEF Identity!Next
<1>4. ASSUME NEW t \in Requests, Revoke(t)
      PROVE  [Identity!Next]_(Identity!vars)
  <2>1. /\ sent[t] # None /\ Drop(sent[t])
        /\ UNCHANGED <<users, sent, who, acting>>
    BY <1>4 DEF Revoke, SidOf, sending
  <2>2. sent[t] \in Requests /\ Identity!Begun(sent[t])
    BY <1>1, <2>1, CarriedIsBegun DEF IInv, TypeOK, CookiesSet
  <2>3. QED BY <2>1, <2>2, EndMaps DEF Identity!Next
<1>5. ASSUME NEW s \in Requests, Expire(s)
      PROVE  [Identity!Next]_(Identity!vars)
  <2>1. /\ Drop(s) /\ Identity!Begun(s) /\ UNCHANGED <<users, sent, who, acting>>
    BY <1>5 DEF Expire, sending, Identity!Begun
  <2>2. QED BY <2>1, EndMaps DEF Identity!Next
<1>6. ASSUME NEW t \in Requests, NEW b \in Browsers, NEW k \in Kinds, NEW e \in Emails,
             Send(t, b, k, e)
      PROVE  [Identity!Next]_(Identity!vars)
  BY <1>6, CarryMaps DEF Identity!Next
<1>7. ASSUME NEW t \in Requests, SessionFound(t)
      PROVE  Identity!Next
  BY <1>7, AuthenticateMaps DEF Identity!Next
<1>8. ASSUME NEW t \in Requests, UserMissing(t)
      PROVE  Identity!Next
  <2>1. Identity!Disown(t)
    BY <1>8 DEF UserMissing, Identity!Disown, data, sending
  <2>2. QED BY <2>1 DEF Identity!Next
\* Every other step leaves users, sessions and who acts for whom alone.
<1>9. ASSUME UNCHANGED <<users, store, dropped, sent, who, acting>>
      PROVE  UNCHANGED Identity!vars
  BY <1>9 DEF Identity!vars
<1>10. ASSUME NEW t \in Requests,
              \/ Reject(t) \/ EmailFree(t) \/ EmailTaken(t) \/ CheckFails(t)
              \/ InsertConflicts(t) \/ InsertFails(t)
              \/ PasswordRight(t) \/ PasswordWrong(t) \/ RevokeFails(t) \/ RevokeNothing(t)
              \/ SessionMissing(t) \/ UserLoaded(t) \/ Deliver(t) \/ Lose(t)
       PROVE  UNCHANGED Identity!vars
  BY <1>9, <1>10 DEF Reject, EmailFree, EmailTaken, CheckFails, InsertConflicts,
     InsertFails, PasswordRight, PasswordWrong, RevokeFails, RevokeNothing,
     SessionMissing, UserLoaded, Deliver, Lose, data, sending
<1>11. CASE UNCHANGED vars
  BY <1>9, <1>11 DEF vars, data, sending
<1>12. QED
  BY <1>2, <1>3, <1>4, <1>5, <1>6, <1>7, <1>8, <1>10, <1>11
     DEF Next, RequestNext, Quiescent

\* Redis sessions and signed tokens alike, with registrations that race,
\* commands that fail and answers that are lost: unique users, sessions only
\* of users there are, which never come back, and requests that act for the
\* session they came with.
THEOREM AuthImplementsIdentity == Spec => ImplementsIdentity
<1>1. Init => Identity!Init /\ KnownIssuer /\ NotYetActing
  BY DEF Init, Identity!Init, KnownIssuer, NotYetActing
<1>2. IInv /\ KnownIssuer /\ NotYetActing /\ [Next]_vars =>
          KnownIssuer' /\ NotYetActing' /\ [Identity!Next]_(Identity!vars)
  BY KnownIssuerStep, NotYetActingStep, IdentityStep
<1>3. QED BY <1>1, <1>2, Inductive, PTL DEF Spec, ImplementsIdentity, Identity!Spec
=============================================================================
