----------------------------- MODULE Repository -----------------------------
(***************************************************************************)
(* What domain.TaskRepository (models.go) promises the task endpoints,     *)
(* whichever store is behind it: a table of rows in which every request    *)
(* does at most one thing, at once and to a row of its own user, or        *)
(* nothing. A new row takes an id that no row has had; a row never changes *)
(* hands and, once deleted, does not come back.                            *)
(***************************************************************************)
EXTENDS Naturals

CONSTANTS Requests, Ids, Row, None

VARIABLES
    rows,   \* per id, its row or None
    last,   \* the last id given
    user,   \* per request, the user it is for, or None before it is sent
    done    \* per request, the ids it has written

vars == <<rows, last, user, done>>

Init == /\ rows \in [Ids -> Row \cup {None}]
        /\ last \in Ids \cup {0}
        /\ \A i \in Ids : i > last => rows[i] = None
        /\ user = [t \in Requests |-> None]
        /\ done = [t \in Requests |-> {}]

Send(t, u) == /\ user[t] = None
              /\ user' = [user EXCEPT ![t] = u]
              /\ UNCHANGED <<rows, last, done>>

Mark(t, i) == done[t] = {} /\ done' = [done EXCEPT ![t] = {i}]

Create(t, r) == /\ r.owner = user[t]
                /\ last + 1 \in Ids
                /\ last' = last + 1
                /\ rows' = [rows EXCEPT ![last + 1] = r]
                /\ Mark(t, last + 1)
                /\ UNCHANGED user

Owns(t, i) == rows[i] # None /\ rows[i].owner = user[t]

Update(t, i, r) == /\ Owns(t, i)
                   /\ r.owner = user[t]
                   /\ rows' = [rows EXCEPT ![i] = r]
                   /\ Mark(t, i)
                   /\ UNCHANGED <<last, user>>

Delete(t, i) == /\ Owns(t, i)
                /\ rows' = [rows EXCEPT ![i] = None]
                /\ Mark(t, i)
                /\ UNCHANGED <<last, user>>

Owners == {r.owner : r \in Row}

Next == \E t \in Requests :
            \/ \E u \in Owners : Send(t, u)
            \/ \E r \in Row : Create(t, r)
            \/ \E i \in Ids : Delete(t, i) \/ \E r \in Row : Update(t, i, r)

Spec == Init /\ [][Next]_vars
=============================================================================
