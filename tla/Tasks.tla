-------------------------------- MODULE Tasks --------------------------------
(***************************************************************************)
(* The /tasks endpoints (handlers.go), TaskService and the two stores that *)
(* implement domain.TaskRepository: the tasks table (postgres.go) and the  *)
(* tasks bucket of a Bolt file (boltdb.go). A request is a sequence of     *)
(* statements, each its own transaction: it loads the task and compares    *)
(* the owner, decodes and validates the body, looks for the task again,    *)
(* and then writes by id alone. Requests of one or several users           *)
(* interleave between statements.                                          *)
(*                                                                         *)
(* server.go builds the service on PostgreSQL; nothing builds it on Bolt   *)
(* today, but TaskService takes either.                                    *)
(*                                                                         *)
(* One value stands for the two text columns; Blank is the empty title.    *)
(***************************************************************************)
EXTENDS Integers, Sequences

CONSTANTS
    Users,
    Requests,
    Texts,
    Blank,
    Bodies,    \* the bodies requests may have
    Owner0,    \* the owners of the rows there at the start
    MaxTasks,  \* bound: rows ever created
    None       \* no row, no body, no user

ASSUME MaxTasksAssumption == MaxTasks \in Nat
ASSUME RowsAssumption == Owner0 \in Seq(Users) /\ Len(Owner0) <= MaxTasks
ASSUME TextsAssumption == Texts # {}
ASSUME BlankAssumption == Blank \notin Texts

Ids == 1..MaxTasks
Statuses == {"todo", "in_progress", "done"}
Row == [owner : Users, text : Texts, status : Statuses]

\* A body: its text, its status ("" when absent), and the user_id it claims.
Body == [text : Texts \cup {Blank}, status : Statuses \cup {"", "other"}, claims : Users]

Repos == {"postgres", "bolt"}

Kinds == {"create", "get", "list", "put", "delete"}

ASSUME BodiesAssumption == Bodies \subseteq Body

ASSUME NoneAssumption == None \notin Row \cup Body \cup Users

VARIABLES
    repo,    \* the repository TaskService was given
    rows,    \* the tasks table, or bucket: per id, its row or None
    last,    \* the id of the last row created
    pc,      \* per request, its next step
    kind,
    user,    \* per request, the user requireAuth has put in its context
    id,      \* per request, the id of its path
    body,
    answer,  \* per request, the status of its response, 0 before
    seen,    \* per request, the rows in its response
    done,    \* history: per request, the ids it has written
    raced    \* history: the requests whose task was deleted under way

table == <<repo, rows, last>>
request == <<kind, user, id, body>>
history == <<done, raced>>
vars == <<table, pc, request, answer, seen, history>>

Steps == {"idle", "load", "decode", "user", "again", "list", "write", "over"}
Answers == {0, 200, 201, 400, 404, 422, 500}

Init == /\ repo \in Repos
        /\ \E x \in Texts :
               rows = [i \in Ids |-> IF i \in DOMAIN Owner0
                                     THEN [owner |-> Owner0[i], text |-> x, status |-> "todo"]
                                     ELSE None]
        /\ last = Len(Owner0)
        /\ pc = [t \in Requests |-> "idle"]
        /\ kind = [t \in Requests |-> "list"]
        /\ user = [t \in Requests |-> None]
        /\ id = [t \in Requests |-> 0]
        /\ body = [t \in Requests |-> None]
        /\ answer = [t \in Requests |-> 0]
        /\ seen = [t \in Requests |-> {}]
        /\ done = [t \in Requests |-> {}]
        /\ raced = {}

-----------------------------------------------------------------------------

Move(t, from, to) == pc[t] = from /\ pc' = [pc EXCEPT ![t] = to]

Answer(t, status) == answer' = [answer EXCEPT ![t] = status]

\* Ends request t, its rows as they are, with an answer that shows no row.
Refuse(t, from, status) == /\ Move(t, from, "over")
                           /\ Answer(t, status)
                           /\ UNCHANGED <<table, request, seen, history>>

Go(t, from, to) == /\ Move(t, from, to)
                   /\ UNCHANGED <<table, request, answer, seen, history>>

First(k) == CASE k = "create" -> "decode"
              [] k = "list" -> "user"
              [] OTHER -> "load"

Present(i) == i \in Ids /\ rows[i] # None

\* A request that requireAuth has let pass.
Send(t, u, k, i, b) ==
    /\ Move(t, "idle", First(k))
    /\ kind' = [kind EXCEPT ![t] = k]
    /\ user' = [user EXCEPT ![t] = u]
    /\ id' = [id EXCEPT ![t] = IF k \in {"create", "list"} THEN 0 ELSE i]
    /\ body' = [body EXCEPT ![t] = IF k \in {"create", "put"} THEN b ELSE None]
    /\ UNCHANGED <<table, answer, seen, history>>

-----------------------------------------------------------------------------
(* taskForUser: load the task, and compare its owner.                      *)

ForUser(t) == pc[t] = "load" /\ Present(id[t]) /\ rows[id[t]].owner = user[t]

Show(t) == /\ ForUser(t)
           /\ kind[t] = "get"
           /\ Move(t, "load", "over")
           /\ Answer(t, 200)
           /\ seen' = [seen EXCEPT ![t] = {rows[id[t]]}]
           /\ UNCHANGED <<table, request, history>>

Load(t) == /\ ForUser(t)
           /\ \/ kind[t] = "put" /\ Go(t, "load", "decode")
              \/ kind[t] = "delete" /\ Go(t, "load", "again")

\* Not there, not his, or no answer from the store.
LoadNothing(t) == Refuse(t, "load", 404)

-----------------------------------------------------------------------------
(* The body, and TaskService's own checks.                                 *)

Undecodable(t) == Refuse(t, "decode", 400)

Valid(b) == b.text # Blank /\ b.status # "other"

Invalid(t) == /\ Refuse(t, "decode", 422)
              /\ ~Valid(body[t])

Validate(t) == /\ pc[t] = "decode"
               /\ Valid(body[t])
               /\ \/ kind[t] = "create" /\ Go(t, "decode", "user")
                  \/ kind[t] = "put" /\ Go(t, "decode", "again")

\* Create and ListByUser look for the user, whose row is never deleted.
UserExists(t) == \/ kind[t] = "create" /\ Go(t, "user", "write")
                 \/ kind[t] = "list" /\ Go(t, "user", "list")

UserCheckFails(t) == Refuse(t, "user", 404)

\* Update and Delete look for the task once more, whoever owns it.
Again(t) == Present(id[t]) /\ Go(t, "again", "write")

\* Deleted meanwhile, or no answer from the store.
Gone(t) == Refuse(t, "again", 404)

-----------------------------------------------------------------------------
(* The statements: each is executed and its answer received (201, 200), or *)
(* executed and its answer lost, or not executed (500).                    *)

\* Mistake: the lowest free id is given to a new row.
FreshIdReused == CHOOSE i \in Ids : /\ rows[i] = None
                                    /\ \A j \in Ids : rows[j] = None => i <= j

\* BIGSERIAL; NextSequence, in the transaction of the Put
FreshId == last + 1

\* Mistake: the owner is the one the body claims.
RowOfClaim(owner, b) == [owner |-> b.claims, text |-> b.text,
                         status |-> IF b.status = "" THEN "todo" ELSE b.status]

\* The body replaces every column but the owner's.
RowOf(owner, b) == [owner |-> owner, text |-> b.text,
                    status |-> IF b.status = "" THEN "todo" ELSE b.status]

Insert(t) == /\ kind[t] = "create"
             /\ last < MaxTasks
             /\ rows' = [rows EXCEPT ![FreshId] = RowOf(user[t], body[t])]
             /\ last' = last + 1
             /\ done' = [done EXCEPT ![t] = {FreshId}]
             /\ UNCHANGED raced

Written(t, row) == /\ rows' = [rows EXCEPT ![id[t]] = row]
                   /\ done' = [done EXCEPT ![t] = {id[t]}]

\* UPDATE ... WHERE id: no row, no error. The owner's column is not set.
PgUpdate(t) == \/ Present(id[t]) /\ Written(t, RowOf(rows[id[t]].owner, body[t]))
               \/ ~Present(id[t]) /\ UNCHANGED <<rows, done>>

\* Mistake: the record is put whether or not there is one.
BoltUpdateUpserts(t) == Written(t, RowOf(user[t], body[t]))

\* Mistake: no record, no error, as in PostgreSQL.
BoltUpdateSilent(t) == PgUpdate(t)

\* Get and Put in one transaction: no record, an error (see WriteFails). The
\* record is replaced whole, its owner by the user of the request.
BoltUpdate(t) == Present(id[t]) /\ Written(t, RowOf(user[t], body[t]))

Update(t) == /\ kind[t] = "put"
             /\ \/ repo = "postgres" /\ PgUpdate(t)
                \/ repo = "bolt" /\ BoltUpdate(t)
             /\ UNCHANGED <<last, raced>>

Loaded(t) == pc[t] \in {"decode", "again", "write"} /\ kind[t] \in {"put", "delete"}

\* DELETE ... WHERE id, and Bucket.Delete: nothing there, no error.
Remove(t) == /\ kind[t] = "delete"
             /\ \/ /\ Present(id[t])
                   /\ Written(t, None)
                   /\ raced' = raced \cup {u \in Requests \ {t} : Loaded(u) /\ id[u] = id[t]}
                \/ /\ ~Present(id[t])
                   /\ UNCHANGED <<rows, done, raced>>
             /\ UNCHANGED last

Statement(t) == (Insert(t) \/ Update(t) \/ Remove(t)) /\ UNCHANGED repo

Success(t) == IF kind[t] = "create" THEN 201 ELSE 200

Write(t) == /\ Move(t, "write", "over")
            /\ Statement(t)
            /\ Answer(t, Success(t))
            /\ UNCHANGED <<request, seen>>

WriteAckLost(t) == /\ Move(t, "write", "over")
                   /\ Statement(t)
                   /\ Answer(t, 500)
                   /\ UNCHANGED <<request, seen>>

\* Mistake: the error of the statement is dropped.
WriteFailsSilently(t) == Refuse(t, "write", Success(t))

WriteFails(t) == Refuse(t, "write", 500)

\* ListByUser, for the list and for the statistics.
List(t) == /\ Move(t, "list", "over")
           /\ Answer(t, 200)
           /\ seen' = [seen EXCEPT ![t] = {rows[i] : i \in {j \in Ids : /\ Present(j)
                                                                     /\ rows[j].owner = user[t]}}]
           /\ UNCHANGED <<table, request, history>>

ListFails(t) == Refuse(t, "list", 500)

\* Every request is answered.
Quiescent == /\ \A t \in Requests : pc[t] = "over"
             /\ UNCHANGED vars

RequestNext(t) ==
    \/ \E u \in Users, k \in Kinds, i \in Ids, b \in Bodies : Send(t, u, k, i, b)
    \/ Show(t) \/ Load(t) \/ LoadNothing(t)
    \/ Undecodable(t) \/ Invalid(t) \/ Validate(t)
    \/ UserExists(t) \/ UserCheckFails(t) \/ Again(t) \/ Gone(t)
    \/ Write(t) \/ WriteAckLost(t) \/ WriteFails(t)
    \/ List(t) \/ ListFails(t)

Next == (\E t \in Requests : RequestNext(t)) \/ Quiescent

Spec == Init /\ [][Next]_vars

-----------------------------------------------------------------------------
(* Properties.                                                             *)

\* Every variable has its type.
TypeOK == /\ repo \in Repos
          /\ rows \in [Ids -> Row \cup {None}]
          /\ last \in 0..MaxTasks
          /\ pc \in [Requests -> Steps]
          /\ kind \in [Requests -> Kinds]
          /\ user \in [Requests -> Users \cup {None}]
          /\ id \in [Requests -> Ids \cup {0}]
          /\ body \in [Requests -> Body \cup {None}]
          /\ answer \in [Requests -> Answers]
          /\ seen \in [Requests -> SUBSET Row]
          /\ done \in [Requests -> SUBSET Ids]
          /\ raced \subseteq Requests

WritesAs(t) == pc[t] = "write" /\ pc'[t] = "over"

\* A task changes or disappears only by a request of its owner, although the
\* owner is compared three statements before the write, which goes by the id
\* alone (handlers.go:99, postgres.go:170,181).
OwnersOnly ==
    [][\A i \in Ids : rows[i] # None /\ rows'[i] # rows[i] =>
          \E t \in Requests : WritesAs(t) /\ user[t] = rows[i].owner]_vars

\* A deleted task stays deleted: no update that was under way brings it back
\* and no new task takes its id.
DeletedStaysDeleted ==
    [][\A i \in 1..last : rows[i] = None => rows'[i] = None]_vars

\* The user id comes from the session, whatever the body claims
\* (backend/README.md:130): nobody is shown, or has created, another's row.
OnlyOwn ==
    \A t \in Requests : /\ \A r \in seen[t] : r.owner = user[t]
                        /\ \A i \in done[t] : rows[i] # None => rows[i].owner = user[t]

\* An answer tells what has happened: a created row is there, an updated or
\* deleted one was, unless another request has deleted it since this one
\* loaded it; any refusal has written nothing. Only 500 leaves it open. The
\* Bolt repository looks once more in the transaction that writes
\* (boltdb.go:211), so there an update answered 200 has updated.
AnswersTruthful ==
    \A t \in Requests :
        /\ answer[t] = 201 => done[t] # {}
        /\ answer[t] = 200 /\ kind[t] = "put" =>
              done[t] # {} \/ (repo = "postgres" /\ t \in raced)
        /\ answer[t] = 200 /\ kind[t] = "delete" => done[t] # {} \/ t \in raced
        /\ answer[t] \in {400, 404, 422} => done[t] = {}

Repository == INSTANCE Repository WITH Ids <- Ids, Row <- Row, rows <- rows, last <- last,
                                       user <- user, done <- done

\* Loads, checks and writes are statements apart, and yet every request does
\* at most one thing, at once and to a row of its own user (models.go:113):
\* what it has compared at its first statement still holds at its last.
ImplementsRepository == Repository!Spec
=============================================================================
