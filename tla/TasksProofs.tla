----------------------------- MODULE TasksProofs -----------------------------
(***************************************************************************)
(* What holds of Tasks for any number of users, rows and requests. The     *)
(* owner a request has compared when it loaded its task is still the owner *)
(* when it writes, because a row never changes hands and an id is never    *)
(* given twice: either the row is still its user's or it is gone for good. *)
(***************************************************************************)
EXTENDS Tasks, TLAPS

USE MaxTasksAssumption, RowsAssumption, BlankAssumption, BodiesAssumption, NoneAssumption

\* A request at a step has the kind and the body that lead to it.
Routed == \A t \in Requests :
    /\ pc[t] = "load" => kind[t] \in {"get", "put", "delete"} /\ id[t] \in Ids
    /\ pc[t] = "decode" => kind[t] \in {"create", "put"}
    /\ pc[t] = "list" => kind[t] = "list"
    /\ pc[t] = "again" => kind[t] \in {"put", "delete"}
    /\ pc[t] = "write" => kind[t] \in {"create", "put", "delete"}
    /\ IF pc[t] = "idle" THEN user[t] = None ELSE user[t] \in Users
    /\ kind[t] \in {"create", "put"} /\ pc[t] # "idle" => body[t] \in Body
    /\ kind[t] \in {"create", "put"} /\ pc[t] \in {"user", "again", "write"} => Valid(body[t])

\* No row beyond the last id.
Fresh == \A i \in Ids : i > last => rows[i] = None

\* What the check of the owner has established.
Checked == \A t \in Requests : Loaded(t) =>
    /\ id[t] \in Ids /\ id[t] <= last
    /\ rows[id[t]] = None => t \in raced
    /\ rows[id[t]] # None => rows[id[t]].owner = user[t]

\* Nothing is written before the answer, and nothing beyond the last id.
Pending == \A t \in Requests : /\ pc[t] # "over" => done[t] = {} /\ seen[t] = {} /\ answer[t] = 0
                               /\ \A i \in done[t] : i <= last

IInv == /\ TypeOK
        /\ Routed
        /\ Fresh
        /\ Checked
        /\ Pending
        /\ OnlyOwn
        /\ AnswersTruthful

LEMMA InitIInv == Init => IInv
<1> SUFFICES ASSUME Init PROVE IInv
  OBVIOUS
<1>1. PICK x \in Texts :
         rows = [i \in Ids |-> IF i \in DOMAIN Owner0
                               THEN [owner |-> Owner0[i], text |-> x, status |-> "todo"]
                               ELSE None]
  BY DEF Init
<1>2. DOMAIN Owner0 = 1..Len(Owner0) /\ \A i \in DOMAIN Owner0 : Owner0[i] \in Users
  OBVIOUS
<1>3. TypeOK
  BY <1>1, <1>2 DEF Init, TypeOK, Ids, Row, Statuses, Steps, Kinds, Answers
<1>4. Fresh
  BY <1>1, <1>2 DEF Init, Fresh, Ids
<1>5. QED
  BY <1>3, <1>4 DEF Init, IInv, Routed, Checked, Loaded, Pending, OnlyOwn, AnswersTruthful

-----------------------------------------------------------------------------

LEMMA RowOfType ==
    ASSUME NEW owner \in Users, NEW b \in Body, Valid(b)
    PROVE  RowOf(owner, b) \in Row /\ RowOf(owner, b).owner = owner
BY DEF RowOf, Row, Body, Valid, Statuses

\* A request that ends without writing.
LEMMA RefuseStep ==
    ASSUME IInv, NEW t \in Requests, NEW from \in Steps \ {"idle", "over"},
           NEW status \in {400, 404, 422, 500}, Refuse(t, from, status)
    PROVE  IInv'
BY DEF IInv, TypeOK, Routed, Fresh, Checked, Loaded, Pending, OnlyOwn, AnswersTruthful,
       Refuse, Move, Answer, Steps, Answers, table, request, history

\* A request that goes on to its next statement.
LEMMA GoStep ==
    ASSUME IInv, NEW t \in Requests,
           Load(t) \/ Validate(t) \/ UserExists(t) \/ Again(t)
    PROVE  IInv'
<1> USE DEF IInv, TypeOK, Routed, Fresh, Checked, Loaded, Pending, OnlyOwn, AnswersTruthful,
            Go, Move, Steps, table, request, history
<1>1. CASE Load(t)
  <2>1. /\ pc[t] = "load" /\ id[t] \in Ids /\ id[t] <= last
        /\ rows[id[t]] # None /\ rows[id[t]].owner = user[t]
    BY <1>1 DEF Load, ForUser, Present, Ids
  <2>2. CASE kind[t] = "put" /\ Go(t, "load", "decode")
    BY <2>1, <2>2
  <2>3. CASE kind[t] = "delete" /\ Go(t, "load", "again")
    BY <2>1, <2>3
  <2>4. QED
    BY <1>1, <2>2, <2>3 DEF Load
<1>2. CASE Validate(t)
  <2>1. CASE kind[t] = "create" /\ Go(t, "decode", "user")
    BY <1>2, <2>1 DEF Validate
  <2>2. CASE kind[t] = "put" /\ Go(t, "decode", "again")
    BY <1>2, <2>2 DEF Validate
  <2>3. QED BY <1>2, <2>1, <2>2 DEF Validate
<1>3. CASE UserExists(t)
  BY <1>3 DEF UserExists
<1>4. CASE Again(t)
  BY <1>4 DEF Again
<1>5. QED BY <1>1, <1>2, <1>3, <1>4

\* What a write leaves of the request that executes it.
Over(t) == /\ pc[t] = "write"
           /\ pc' = [pc EXCEPT ![t] = "over"]
           /\ Answer(t, Success(t)) \/ Answer(t, 500)
           /\ UNCHANGED <<repo, request, seen>>

LEMMA OverFacts ==
    ASSUME TypeOK, NEW t \in Requests, Over(t)
    PROVE  /\ pc' \in [Requests -> Steps] /\ pc'[t] = "over"
           /\ answer' \in [Requests -> Answers]
           /\ answer'[t] \in {200, 201, 500}
           /\ answer'[t] = 201 => kind[t] = "create"
           /\ \A u \in Requests \ {t} : pc'[u] = pc[u] /\ answer'[u] = answer[u]
           /\ pc[t] = "write" /\ UNCHANGED <<repo, kind, user, id, body, seen>>
BY DEF TypeOK, Over, Answer, Success, Steps, Answers, request

LEMMA RoutedOver ==
    ASSUME Routed, NEW t \in Requests, pc[t] = "write", pc'[t] = "over",
           \A u \in Requests \ {t} : pc'[u] = pc[u],
           UNCHANGED <<kind, user, id, body>>
    PROVE  Routed'
<1> USE DEF Routed
<1>1. user'[t] \in Users /\ (kind'[t] \in {"create", "put"} => body'[t] \in Body)
  OBVIOUS
<1>2. QED BY <1>1

LEMMA InsertStep ==
    ASSUME IInv, NEW t \in Requests, Over(t), Insert(t)
    PROVE  IInv'
<1> USE OverFacts DEF IInv, Ids, Insert, FreshId
<1>1. FreshId \in Ids /\ rows[FreshId] = None
  BY DEF TypeOK, Fresh
<1>2. user[t] \in Users /\ body[t] \in Body /\ Valid(body[t])
  BY DEF Routed, Over
<1>3. PICK r \in Row : /\ r.owner = user[t]
                       /\ rows' = [rows EXCEPT ![FreshId] = r]
  <2>1. RowOf(user[t], body[t]) \in Row /\ RowOf(user[t], body[t]).owner = user[t]
    BY <1>2, RowOfType
  <2>2. QED BY <2>1
<1>4. TypeOK'
  BY <1>1, <1>3 DEF TypeOK, Steps, Answers, Success
<1>5. Routed'
  BY RoutedOver
<1>6. Fresh'
  BY <1>3 DEF TypeOK, Fresh
<1>7. Checked'
  BY <1>1, <1>3 DEF TypeOK, Checked, Loaded
<1>8. Pending'
  BY DEF TypeOK, Pending
<1>9. OnlyOwn'
  BY <1>1, <1>3 DEF TypeOK, OnlyOwn, Pending
<1>10. AnswersTruthful'
  BY DEF TypeOK, AnswersTruthful, Pending, Success
<1>11. QED
  BY <1>4, <1>5, <1>6, <1>7, <1>8, <1>9, <1>10

\* Whichever the repository, an update of a row that is there replaces it by
\* one of the same owner: the user the owner was compared with.
LEMMA UpdateWrites ==
    ASSUME IInv, NEW t \in Requests, pc[t] = "write", Update(t), Present(id[t])
    PROVE  \E r \in Row : r.owner = rows[id[t]].owner /\ Written(t, r)
<1>1. /\ kind[t] = "put" /\ id[t] \in Ids
      /\ rows[id[t]] \in Row /\ rows[id[t]].owner \in Users /\ rows[id[t]].owner = user[t]
      /\ body[t] \in Body /\ Valid(body[t])
  BY DEF IInv, TypeOK, Routed, Checked, Loaded, Update, Present, Row
<1>2. PICK r \in Row : r = RowOf(rows[id[t]].owner, body[t]) /\ r.owner = rows[id[t]].owner
  BY <1>1, RowOfType
<1>3. rows' = [rows EXCEPT ![id[t]] = r] /\ done' = [done EXCEPT ![t] = {id[t]}]
  BY <1>1, <1>2 DEF Update, PgUpdate, BoltUpdate, Written
<1>4. QED BY <1>2, <1>3 DEF Written

LEMMA UpdateStep ==
    ASSUME IInv, NEW t \in Requests, Over(t), Update(t)
    PROVE  IInv'
<1> USE DEF IInv, Ids, Update
<1>0. /\ pc[t] = "write" /\ kind[t] = "put" /\ UNCHANGED <<last, raced>>
      /\ Loaded(t) /\ id[t] \in Ids /\ id[t] <= last
      /\ body[t] \in Body /\ Valid(body[t])
  BY DEF TypeOK, Routed, Checked, Loaded, Over
<1>1. /\ pc' \in [Requests -> Steps] /\ pc'[t] = "over"
      /\ answer' \in [Requests -> Answers]
      /\ answer'[t] \in {200, 500}
      /\ \A u \in Requests \ {t} : pc'[u] = pc[u] /\ answer'[u] = answer[u]
      /\ UNCHANGED <<repo, kind, user, id, body, seen>>
  BY <1>0, OverFacts
<1>2. /\ done' \in [Requests -> SUBSET Ids]
      /\ \A u \in Requests \ {t} : done'[u] = done[u]
      /\ Present(id[t]) => done'[t] = {id[t]}
      /\ ~Present(id[t]) => done'[t] = {} /\ repo = "postgres"
  <2>1. done \in [Requests -> SUBSET Ids] /\ done[t] = {}
    BY <1>0 DEF TypeOK, Pending
  <2>2. CASE Present(id[t])
    BY <1>0, <2>1, <2>2, UpdateWrites DEF Written
  <2>3. CASE ~Present(id[t])
    BY <2>1, <2>3 DEF PgUpdate, BoltUpdate
  <2>4. QED BY <2>2, <2>3
<1>3. /\ rows' \in [Ids -> Row \cup {None}]
      /\ \A i \in Ids : rows'[i] = None <=> rows[i] = None
      /\ \A i \in Ids : rows[i] # None => rows'[i].owner = rows[i].owner
  <2>1. CASE Present(id[t])
    <3>1. PICK r \in Row : r.owner = rows[id[t]].owner /\ Written(t, r)
      BY <1>0, <2>1, UpdateWrites
    <3>2. QED BY <1>0, <2>1, <3>1 DEF TypeOK, Present, Written
  <2>2. CASE ~Present(id[t])
    BY <2>2 DEF TypeOK, PgUpdate, BoltUpdate
  <2>3. QED BY <2>1, <2>2
<1>4. TypeOK'
  BY <1>0, <1>1, <1>2, <1>3 DEF TypeOK
<1>5. Routed'
  BY <1>0, <1>1, RoutedOver
<1>6. Fresh'
  BY <1>0, <1>3 DEF Fresh
<1>7. Checked'
  <2> SUFFICES ASSUME NEW u \in Requests, Loaded(u)'
               PROVE  /\ id[u] \in Ids /\ id[u] <= last
                      /\ rows'[id[u]] = None => u \in raced
                      /\ rows'[id[u]] # None => rows'[id[u]].owner = user[u]
    BY <1>0, <1>1 DEF Checked
  <2>1. u # t
    BY <1>1 DEF Loaded
  <2>2. Loaded(u)
    BY <1>1, <2>1 DEF Loaded
  <2>3. QED BY <1>3, <2>2 DEF Checked
<1>8. Pending'
  BY <1>0, <1>1, <1>2 DEF Pending
<1>9. OnlyOwn'
  <2>1. rows[id[t]] # None => rows[id[t]].owner = user[t]
    BY <1>0 DEF Checked
  <2>2. \A u \in Requests : \A i \in done'[u] :
           i \in Ids /\ (rows[i] # None => rows[i].owner = user[u])
    BY <1>0, <1>2, <2>1 DEF TypeOK, OnlyOwn
  <2>3. QED BY <1>1, <1>3, <2>2 DEF OnlyOwn
<1>10. AnswersTruthful'
  <2>1. ~Present(id[t]) => t \in raced
    BY <1>0 DEF Checked, Present
  <2>2. id[t] \in done'[t] \/ (repo = "postgres" /\ t \in raced)
    BY <1>2, <2>1
  <2>3. QED BY <1>0, <1>1, <1>2, <2>2 DEF AnswersTruthful
<1>11. QED
  BY <1>4, <1>5, <1>6, <1>7, <1>8, <1>9, <1>10

LEMMA RemoveStep ==
    ASSUME IInv, NEW t \in Requests, Over(t), Remove(t)
    PROVE  IInv'
<1> USE DEF IInv, Ids, Remove, Written
<1>0. /\ pc[t] = "write" /\ kind[t] = "delete" /\ UNCHANGED last
      /\ Loaded(t) /\ id[t] \in Ids /\ id[t] <= last
  BY DEF TypeOK, Routed, Checked, Loaded, Over
<1>1. /\ pc' \in [Requests -> Steps] /\ pc'[t] = "over"
      /\ answer' \in [Requests -> Answers]
      /\ answer'[t] \in {200, 500}
      /\ \A u \in Requests \ {t} : pc'[u] = pc[u] /\ answer'[u] = answer[u]
      /\ UNCHANGED <<repo, kind, user, id, body, seen>>
  BY <1>0, OverFacts
<1>2. /\ done' \in [Requests -> SUBSET Ids]
      /\ \A u \in Requests \ {t} : done'[u] = done[u]
      /\ Present(id[t]) => done'[t] = {id[t]}
      /\ ~Present(id[t]) => done'[t] = {}
  <2>1. done \in [Requests -> SUBSET Ids] /\ done[t] = {}
    BY <1>0 DEF TypeOK, Pending
  <2>2. CASE Present(id[t])
    BY <1>0, <2>1, <2>2
  <2>3. CASE ~Present(id[t])
    BY <2>1, <2>3
  <2>4. QED BY <2>2, <2>3
<1>3. /\ rows' \in [Ids -> Row \cup {None}]
      /\ rows'[id[t]] = None
      /\ \A i \in Ids \ {id[t]} : rows'[i] = rows[i]
  BY <1>0 DEF TypeOK, Present
<1>4. /\ raced' \in SUBSET Requests
      /\ raced \subseteq raced'
      /\ \A u \in Requests \ {t} : /\ Loaded(u) /\ id[u] = id[t] /\ rows[id[t]] # None
                                   => u \in raced'
  BY <1>0 DEF TypeOK, Present
<1>5. TypeOK'
  BY <1>0, <1>1, <1>2, <1>3, <1>4 DEF TypeOK
<1>6. Routed'
  BY <1>0, <1>1, RoutedOver
<1>7. Fresh'
  BY <1>0, <1>3 DEF Fresh
<1>8. Checked'
  <2> SUFFICES ASSUME NEW u \in Requests, Loaded(u)'
               PROVE  /\ id[u] \in Ids /\ id[u] <= last
                      /\ rows'[id[u]] = None => u \in raced'
                      /\ rows'[id[u]] # None => rows'[id[u]].owner = user[u]
    BY <1>0, <1>1 DEF Checked
  <2>1. u # t /\ Loaded(u)
    BY <1>1 DEF Loaded
  <2>2. QED BY <1>0, <1>3, <1>4, <2>1 DEF Checked
<1>9. Pending'
  BY <1>0, <1>1, <1>2 DEF Pending
<1>10. OnlyOwn'
  <2>1. \A u \in Requests : \A i \in done'[u] : i \in Ids /\ (i = id[t] \/ i \in done[u])
    BY <1>2 DEF TypeOK
  <2>2. QED BY <1>1, <1>3, <2>1 DEF OnlyOwn
<1>11. AnswersTruthful'
  <2>1. ~Present(id[t]) => t \in raced
    BY <1>0 DEF Checked, Present
  <2>2. id[t] \in done'[t] \/ t \in raced'
    BY <1>2, <1>4, <2>1
  <2>3. QED BY <1>0, <1>1, <1>2, <1>4, <2>2 DEF AnswersTruthful
<1>12. QED
  BY <1>5, <1>6, <1>7, <1>8, <1>9, <1>10, <1>11

\* A statement, its acknowledgement received or lost.
LEMMA WriteStep ==
    ASSUME IInv, NEW t \in Requests, Write(t) \/ WriteAckLost(t)
    PROVE  IInv'
<1>1. Over(t) /\ Statement(t)
  BY DEF Write, WriteAckLost, Over, Move, Statement
<1>2. QED BY <1>1, InsertStep, UpdateStep, RemoveStep DEF Statement

\* A request that reads: the task of its path, or its user's tasks.
LEMMA ReadStep ==
    ASSUME IInv, NEW t \in Requests, Show(t) \/ List(t)
    PROVE  IInv'
<1> DEFINE Own == {r \in Row : r.owner = user[t]}
<1> USE DEF IInv, TypeOK, Move, Answer, table, request, history
<1>1. /\ pc[t] \in {"load", "list"}
      /\ pc' = [pc EXCEPT ![t] = "over"]
      /\ answer' = [answer EXCEPT ![t] = 200]
      /\ pc[t] = "load" => kind[t] = "get"
      /\ UNCHANGED <<table, request, history>>
  BY DEF Show, List
<1>2. PICK shown \in SUBSET Own : seen' = [seen EXCEPT ![t] = shown]
  <2>1. CASE Show(t)
    <3>1. rows[id[t]] \in Own /\ seen' = [seen EXCEPT ![t] = {rows[id[t]]}]
      BY <2>1 DEF Show, ForUser, Present
    <3>2. QED BY <3>1
  <2>2. CASE List(t)
    <3> DEFINE Mine == {j \in Ids : Present(j) /\ rows[j].owner = user[t]}
    <3>1. \A j \in Mine : rows[j] \in Own
      BY DEF Present
    <3>2. {rows[j] : j \in Mine} \in SUBSET Own
      BY <3>1
    <3>3. seen' = [seen EXCEPT ![t] = {rows[j] : j \in Mine}]
      BY <2>2 DEF List
    <3>4. QED BY <3>2, <3>3
  <2>3. QED BY <2>1, <2>2
<1>3. TypeOK'
  BY <1>1, <1>2 DEF Steps, Answers
<1>4. Routed'
  BY <1>1 DEF Routed
<1>5. Fresh' /\ Checked'
  BY <1>1 DEF Fresh, Checked, Loaded
<1>6. Pending'
  BY <1>1, <1>2 DEF Pending
<1>7. OnlyOwn'
  BY <1>1, <1>2 DEF OnlyOwn
<1>8. AnswersTruthful'
  BY <1>1 DEF AnswersTruthful, Routed
<1>9. QED BY <1>3, <1>4, <1>5, <1>6, <1>7, <1>8

LEMMA SendStep ==
    ASSUME IInv, NEW t \in Requests, NEW u \in Users, NEW k \in Kinds, NEW i \in Ids,
           NEW b \in Bodies, Send(t, u, k, i, b)
    PROVE  IInv'
<1> USE DEF IInv, TypeOK, Send, Move, First, Kinds, table, history
<1>1. TypeOK'
  BY DEF Steps
<1>2. Routed'
  BY DEF Routed, Valid
<1>3. Fresh' /\ Checked' /\ Pending'
  BY DEF Fresh, Checked, Loaded, Pending
<1>4. OnlyOwn'
  BY DEF OnlyOwn, Pending
<1>5. AnswersTruthful'
  BY DEF AnswersTruthful, Pending
<1>6. QED BY <1>1, <1>2, <1>3, <1>4, <1>5

LEMMA IInvStep == ASSUME IInv, [Next]_vars PROVE IInv'
<1>1. ASSUME NEW t \in Requests,
             \/ LoadNothing(t) \/ Undecodable(t) \/ Invalid(t)
             \/ UserCheckFails(t) \/ Gone(t) \/ WriteFails(t) \/ ListFails(t)
      PROVE  IInv'
  BY <1>1, RefuseStep DEF LoadNothing, Undecodable, Invalid, UserCheckFails, Gone,
                          WriteFails, ListFails, Steps
<1>2. CASE UNCHANGED vars
  BY <1>2 DEF vars, table, request, history, IInv, TypeOK, Routed, Fresh, Checked, Loaded,
              Pending, OnlyOwn, AnswersTruthful
<1>3. QED
  BY <1>1, <1>2, SendStep, ReadStep, GoStep, WriteStep DEF Next, RequestNext, Quiescent

-----------------------------------------------------------------------------

\* The invariant above is inductive.
THEOREM Inductive == Spec => []IInv
<1>1. IInv /\ [Next]_vars => IInv'
  BY IInvStep
<1>2. QED BY InitIInv, <1>1, PTL DEF Spec

\* Every variable has its type.
THEOREM TypeCorrect == Spec => []TypeOK
BY Inductive, PTL DEF IInv

\* Nobody is shown, creates or changes a row of another user, whatever the
\* body claims.
THEOREM OnlyOwnTasks == Spec => []OnlyOwn
BY Inductive, PTL DEF IInv

\* What an answer says of the row is what has happened to it.
THEOREM AnswersAreTruthful == Spec => []AnswersTruthful
BY Inductive, PTL DEF IInv

\* The statements are the only steps that change a row.
LEMMA OnlyStatements ==
    ASSUME [Next]_vars, UNCHANGED rows => FALSE
    PROVE  \E t \in Requests : Over(t) /\ Statement(t)
<1>1. PICK t \in Requests : Write(t) \/ WriteAckLost(t)
  BY DEF Next, RequestNext, Quiescent, vars, table, Refuse, Go, Send, Show, Load, LoadNothing,
         Undecodable, Invalid, Validate, UserExists, UserCheckFails, Again, Gone, WriteFails,
         List, ListFails
<1>2. QED BY <1>1 DEF Write, WriteAckLost, Over, Move, Statement

\* Rows only change or disappear by their owners' requests: the comparison
\* made when the task was loaded still holds at the write.
THEOREM OwnersWrite == Spec => OwnersOnly
<1>1. ASSUME IInv, [Next]_vars, NEW i \in Ids, rows[i] # None, rows'[i] # rows[i]
      PROVE  \E t \in Requests : WritesAs(t) /\ user[t] = rows[i].owner
  <2>1. PICK t \in Requests : Over(t) /\ Statement(t)
    BY <1>1, OnlyStatements
  <2>2. WritesAs(t)
    BY <1>1, <2>1 DEF IInv, TypeOK, Over, WritesAs
  <2>3. ~Insert(t)
    BY <1>1 DEF IInv, TypeOK, Fresh, Insert, FreshId, Ids
  <2>4. id[t] = i /\ Loaded(t)
    BY <1>1, <2>1, <2>3 DEF IInv, TypeOK, Statement, Update, PgUpdate, BoltUpdate, Remove,
                            Written, Over, Loaded
  <2>5. QED BY <1>1, <2>2, <2>4 DEF IInv, Checked
<1>2. IInv /\ [Next]_vars =>
        [\A i \in Ids : rows[i] # None /\ rows'[i] # rows[i] =>
            \E t \in Requests : WritesAs(t) /\ user[t] = rows[i].owner]_vars
  BY <1>1
<1>3. QED BY Inductive, <1>2, PTL DEF Spec, OwnersOnly

\* Nothing under way brings a deleted task back.
THEOREM DeletedTasksStayDeleted == Spec => DeletedStaysDeleted
<1>1. ASSUME IInv, [Next]_vars, NEW i \in 1..last, rows[i] = None PROVE rows'[i] = None
  <2>1. CASE UNCHANGED rows
    BY <1>1, <2>1
  <2>2. CASE ~UNCHANGED rows
    <3>1. PICK t \in Requests : Over(t) /\ Statement(t)
      BY <1>1, <2>2, OnlyStatements
    <3>2. rows \in [Ids -> Row \cup {None}] /\ last \in 0..MaxTasks /\ i \in Ids /\ i # last + 1
      BY <1>1 DEF IInv, TypeOK, Ids
    <3>3. CASE Insert(t)
      BY <1>1, <3>2, <3>3 DEF Insert, FreshId
    <3>4. CASE Update(t)
      BY <1>1, <3>2, <3>4 DEF Update, PgUpdate, BoltUpdate, Written, Present
    <3>5. CASE Remove(t)
      BY <1>1, <3>2, <3>5 DEF Remove, Written
    <3>6. QED BY <3>1, <3>3, <3>4, <3>5 DEF Statement
  <2>3. QED BY <2>1, <2>2
<1>2. IInv /\ [Next]_vars => [\A i \in 1..last : rows[i] = None => rows'[i] = None]_vars
  BY <1>1
<1>3. QED BY Inductive, <1>2, PTL DEF Spec, DeletedStaysDeleted

-----------------------------------------------------------------------------

LEMMA RepositoryInit == Init => Repository!Init
<1> SUFFICES ASSUME Init PROVE Repository!Init
  OBVIOUS
<1>1. TypeOK /\ Fresh
  BY InitIInv DEF IInv
<1>2. QED BY <1>1 DEF Init, TypeOK, Fresh, Repository!Init, Ids

\* A statement is a step of the abstract repository, or changes nothing.
LEMMA RepositoryStatement ==
    ASSUME IInv, NEW t \in Requests, Over(t), Statement(t)
    PROVE  [Repository!Next]_(Repository!vars)
<1>1. /\ pc[t] = "write" /\ done[t] = {} /\ UNCHANGED user
      /\ user[t] \in Users /\ done \in [Requests -> SUBSET Ids]
  BY DEF IInv, TypeOK, Routed, Pending, Over, request
<1>2. CASE Insert(t)
  <2>1. body[t] \in Body /\ Valid(body[t])
    BY <1>1, <1>2 DEF IInv, Routed, Insert
  <2>2. PICK r \in Row : r.owner = user[t] /\ rows' = [rows EXCEPT ![last + 1] = r]
    <3>1. RowOf(user[t], body[t]) \in Row /\ RowOf(user[t], body[t]).owner = user[t]
      BY <1>1, <2>1, RowOfType
    <3>2. QED BY <1>2, <3>1 DEF Insert, FreshId
  <2>3. last + 1 \in Ids
    BY <1>2 DEF IInv, TypeOK, Insert, Ids
  <2>4. Repository!Create(t, r)
    BY <1>1, <1>2, <2>2, <2>3 DEF Insert, FreshId, Repository!Create, Repository!Mark
  <2>5. QED BY <2>4 DEF Repository!Next
<1>3. CASE Update(t) /\ Present(id[t])
  <2>1. PICK r \in Row : r.owner = rows[id[t]].owner /\ Written(t, r)
    BY <1>1, <1>3, UpdateWrites
  <2>2. id[t] \in Ids /\ rows[id[t]] # None /\ rows[id[t]].owner = user[t]
    BY <1>1, <1>3 DEF IInv, Checked, Loaded, Update, Present
  <2>3. Repository!Update(t, id[t], r)
    BY <1>1, <1>3, <2>1, <2>2
       DEF Update, Written, Repository!Update, Repository!Owns, Repository!Mark
  <2>4. QED BY <2>2, <2>3 DEF Repository!Next
<1>4. CASE Remove(t) /\ Present(id[t])
  <2>1. id[t] \in Ids /\ rows[id[t]] # None /\ rows[id[t]].owner = user[t]
    BY <1>1, <1>4 DEF IInv, Checked, Loaded, Remove, Present
  <2>2. Repository!Delete(t, id[t])
    BY <1>1, <1>4, <2>1
       DEF Remove, Written, Repository!Delete, Repository!Owns, Repository!Mark
  <2>3. QED BY <2>1, <2>2 DEF Repository!Next
<1>5. CASE (Update(t) \/ Remove(t)) /\ ~Present(id[t])
  BY <1>1, <1>5 DEF Update, PgUpdate, BoltUpdate, Remove, Repository!vars
<1>6. QED BY <1>2, <1>3, <1>4, <1>5 DEF Statement

LEMMA RepositoryStep == ASSUME IInv, [Next]_vars PROVE [Repository!Next]_(Repository!vars)
<1>1. ASSUME NEW t \in Requests, NEW u \in Users, NEW k \in Kinds, NEW i \in Ids,
             NEW b \in Bodies, Send(t, u, k, i, b)
      PROVE  [Repository!Next]_(Repository!vars)
  <2>1. u \in Repository!Owners
    <3>1. PICK x : x \in Texts
      BY TextsAssumption
    <3>2. [owner |-> u, text |-> x, status |-> "todo"] \in Row
      BY <3>1 DEF Row, Statuses
    <3>3. QED BY <3>2 DEF Repository!Owners
  <2>2. user[t] = None /\ user' = [user EXCEPT ![t] = u] /\ UNCHANGED <<rows, last, done>>
    BY <1>1 DEF IInv, Routed, Pending, Send, Move, table, history
  <2>3. Repository!Send(t, u)
    BY <2>2 DEF Repository!Send
  <2>4. QED BY <2>1, <2>3 DEF Repository!Next
<1>2. ASSUME NEW t \in Requests, Write(t) \/ WriteAckLost(t)
      PROVE  [Repository!Next]_(Repository!vars)
  <2>1. Over(t) /\ Statement(t)
    BY <1>2 DEF Write, WriteAckLost, Over, Move, Statement
  <2>2. QED BY <2>1, RepositoryStatement
<1>3. ASSUME NEW t \in Requests,
             \/ Show(t) \/ Load(t) \/ LoadNothing(t) \/ Undecodable(t) \/ Invalid(t)
             \/ Validate(t) \/ UserExists(t) \/ UserCheckFails(t) \/ Again(t) \/ Gone(t)
             \/ WriteFails(t) \/ List(t) \/ ListFails(t)
      PROVE  [Repository!Next]_(Repository!vars)
  BY <1>3 DEF Show, Load, LoadNothing, Undecodable, Invalid, Validate, UserExists,
              UserCheckFails, Again, Gone, WriteFails, List, ListFails, Refuse, Go,
              table, request, history, Repository!vars
<1>4. CASE UNCHANGED vars
  BY <1>4 DEF vars, table, request, history, Repository!vars
<1>5. QED
  BY <1>1, <1>2, <1>3, <1>4 DEF Next, RequestNext, Quiescent

\* The endpoints, on either store, implement the abstract repository: every
\* request does at most one thing, at once and to a row of its own user.
THEOREM TasksImplementRepository == Spec => ImplementsRepository
<1>1. IInv /\ [Next]_vars => [Repository!Next]_(Repository!vars)
  BY RepositoryStep
<1>2. QED
  BY Inductive, RepositoryInit, <1>1, PTL DEF Spec, ImplementsRepository, Repository!Spec
=============================================================================
