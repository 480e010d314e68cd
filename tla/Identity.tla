------------------------------ MODULE Identity ------------------------------
(***************************************************************************)
(* What registration, login and requireAuth promise the endpoints behind   *)
(* them, whether sessions are keys in Redis or signed tokens: an email has *)
(* one user; a session is begun for a user there is, once, and when it has *)
(* ended it is never begun again; a request carries at most one session,   *)
(* which was begun before, and acts for the user of that session or for    *)
(* nobody.                                                                 *)
(***************************************************************************)
CONSTANTS
    Requests,
    Ids,      \* of users and of sessions
    Emails,
    None

VARIABLES
    accounts, \* the users: [id, email]
    session,  \* per session, the email of its user while it is live, or None
    ended,    \* the sessions that have ended
    carried,  \* per request, the session of its cookie, or None
    acting    \* per request, the user it acts for, or None

vars == <<accounts, session, ended, carried, acting>>

Init == /\ accounts = {}
        /\ session = [s \in Ids |-> None]
        /\ ended = {}
        /\ carried = [t \in Requests |-> None]
        /\ acting = [t \in Requests |-> None]

Known(e) == \E a \in accounts : a.email = e

Begun(s) == session[s] # None \/ s \in ended

Register(id, e) == /\ ~Known(e)
                   /\ accounts' = accounts \cup {[id |-> id, email |-> e]}
                   /\ UNCHANGED <<session, ended, carried, acting>>

Begin(s, e) == /\ Known(e)
               /\ ~Begun(s)
               /\ session' = [session EXCEPT ![s] = e]
               /\ UNCHANGED <<accounts, ended, carried, acting>>

\* Logout, or the end of its time.
End(s) == /\ session[s] # None
          /\ session' = [session EXCEPT ![s] = None]
          /\ ended' = ended \cup {s}
          /\ UNCHANGED <<accounts, carried, acting>>

Carry(t, s) == /\ carried[t] = None
               /\ Begun(s)
               /\ carried' = [carried EXCEPT ![t] = s]
               /\ UNCHANGED <<accounts, session, ended, acting>>

Authenticate(t) == /\ carried[t] # None
                   /\ session[carried[t]] # None
                   /\ acting[t] = None
                   /\ acting' = [acting EXCEPT ![t] = session[carried[t]]]
                   /\ UNCHANGED <<accounts, session, ended, carried>>

\* The user cannot be loaded.
Disown(t) == /\ acting' = [acting EXCEPT ![t] = None]
             /\ UNCHANGED <<accounts, session, ended, carried>>

Next == \/ \E s \in Ids : \/ End(s)
                               \/ \E e \in Emails : Register(s, e) \/ Begin(s, e)
        \/ \E t \in Requests : \/ Authenticate(t) \/ Disown(t)
                               \/ \E s \in Ids : Carry(t, s)

Spec == Init /\ [][Next]_vars
=============================================================================
