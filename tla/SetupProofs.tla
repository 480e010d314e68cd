----------------------------- MODULE SetupProofs -----------------------------
(***************************************************************************)
(* What holds of Setup for any number of processes and any fixtures. A     *)
(* process that migrates has committed or created every table before its   *)
(* place in the list, and one that seeds has found or inserted every user  *)
(* before its place: nothing is taken back from either.                    *)
(***************************************************************************)
EXTENDS Setup, FiniteSetTheorems, TLAPS

All == {"users", "tasks", "accounts", "transfers"}

LEMMA TablesFacts ==
    /\ FirstTables \subseteq All
    /\ Len(Tables) = 4 /\ DOMAIN Tables = 1..4
    /\ Range(Tables) = All
    /\ \A i \in 1..4 : Tables[i] \in All
    /\ \A x \in All : \E i \in 1..4 : Tables[i] = x
<1>2. Len(Tables) = 4 /\ DOMAIN Tables = 1..4
  BY DEF Tables
<1>3. Tables[1] = "users" /\ Tables[2] = "tasks"
      /\ Tables[3] = "accounts" /\ Tables[4] = "transfers"
  BY DEF Tables
<1>4. \A i \in 1..4 : i = 1 \/ i = 2 \/ i = 3 \/ i = 4
  OBVIOUS
<1>5. \A i \in 1..4 : Tables[i] \in All
  BY <1>3, <1>4 DEF All
<1>6. \A x \in All : \E i \in 1..4 : Tables[i] = x
  BY <1>3, 1 \in 1..4, 2 \in 1..4, 3 \in 1..4, 4 \in 1..4 DEF All
<1>7. Range(Tables) = All
  BY <1>2, <1>5, <1>6 DEF Range
<1>8. FirstTables \subseteq All
  BY <1>5 DEF FirstTables, SecondFile
<1>9. QED BY <1>2, <1>5, <1>6, <1>7, <1>8

LEMMA FixtureFacts ==
    /\ Len(Emails) \in Nat \ {0} /\ DOMAIN Emails = 1..Len(Emails)
    /\ \A i \in 1..Len(Emails) : Emails[i] \in Range(Emails)
    /\ \A e \in Range(Emails) : \E i \in 1..Len(Emails) : Emails[i] = e
    /\ Len(Titles) \in Nat \ {0} /\ DOMAIN Titles = 1..Len(Titles)
    /\ \A i \in 1..Len(Titles) : Titles[i] \in Range(Titles)
BY EmailsAssumption, TitlesAssumption DEF Range

-----------------------------------------------------------------------------
(* The invariant.                                                          *)

Types == /\ tables \subseteq All
         /\ users \subseteq Range(Emails)
         /\ copies \in [Range(Titles) -> Nat]
         /\ pc \in [Procs -> Steps \cup Ends]
         /\ kind \in [Procs -> Kinds]
         /\ made \in [Procs -> SUBSET All]
         /\ n \in [Procs -> Nat]
         /\ found \in [tables : SUBSET All, copies : [Range(Titles) -> Nat]]

\* Where a process is, and what it has seen to on the way there.
WalkOf(p) ==
    /\ pc[p] \in {"off", "open", "lookup", "batch"} => n[p] = 1
    /\ pc[p] \in {"migrate", "create"} =>
           n[p] \in 1..5 /\ \A i \in 1..4 : i < n[p] => Tables[i] \in tables \cup made[p]
    /\ pc[p] = "create" => n[p] \in 1..4 /\ Tables[n[p]] \notin found.tables
    /\ pc[p] \in {"open", "check", "insert", "lookup", "task", "conflict"} => tables = All
    /\ pc[p] \in {"check", "insert"} =>
           /\ n[p] \in 1..Len(Emails)
           /\ \A i \in 1..Len(Emails) : i < n[p] => Emails[i] \in users
    /\ pc[p] \in {"lookup", "task"} => Range(Emails) \subseteq users
    /\ pc[p] = "task" => n[p] \in 1..Len(Titles)

IInv == /\ Types
        /\ \A p \in Procs : WalkOf(p)
        /\ found.tables \subseteq tables
        /\ tables \in {found.tables, All}
        /\ TasksOwned

\* A statement or commit of p, or none.
Effect(p) == AddTables(p) \/ AddUser(p) \/ AddTask(p) \/ AddAll(p) \/ UNCHANGED database

\* Tables and users only grow, the tables all at once; a task finds its owner.
LEMMA EffectFacts ==
    ASSUME IInv, NEW p \in Procs, Effect(p)
    PROVE  /\ tables \subseteq tables' /\ tables' \in {found.tables, All}
           /\ users \subseteq users' /\ users' \subseteq Range(Emails)
           /\ copies' \in [Range(Titles) -> Nat]
           /\ TasksOwned'
           /\ AddTables(p) => tables' = All
<1> USE DEF IInv, Types
<1>1. CASE AddTables(p)
  <2>1. n[p] = 5 /\ made[p] \subseteq All
    BY <1>1, TablesFacts DEF AddTables, Migrating, WalkOf
  <2>2. \A i \in 1..4 : Tables[i] \in tables \cup made[p]
    BY <1>1, <2>1 DEF AddTables, WalkOf
  <2>3. tables' = All
    BY <1>1, <2>1, <2>2, TablesFacts DEF AddTables
  <2>4. QED BY <1>1, <2>3 DEF AddTables, TasksOwned, Owned
<1>2. CASE AddUser(p)
  <2>1. Emails[n[p]] \in Range(Emails)
    BY <1>2, FixtureFacts DEF AddUser, WalkOf
  <2>2. QED BY <1>2, <2>1 DEF AddUser, AddTables, TasksOwned, Owned
<1>3. CASE AddTask(p)
  <2>1. /\ Titles[n[p]] \in Range(Titles)
        /\ Range(Emails) \subseteq users
    BY <1>3, FixtureFacts DEF AddTask, WalkOf
  <2>2. copies' \in [Range(Titles) -> Nat]
    BY <1>3, <2>1 DEF AddTask
  <2>3. TasksOwned'
    BY <1>3, <2>1, OwnersAssumption DEF AddTask, TasksOwned, Owned
  <2>4. QED BY <1>3, <2>2, <2>3 DEF AddTask, AddTables
<1>4. CASE AddAll(p)
  <2>1. copies' \in [Range(Titles) -> Nat] /\ users' = Range(Emails)
    BY <1>4 DEF AddAll
  <2>2. TasksOwned'
    BY <2>1, OwnersAssumption DEF TasksOwned, Owned
  <2>3. QED BY <1>4, <2>1, <2>2 DEF AddAll, AddTables
<1>5. CASE UNCHANGED database /\ ~AddTables(p)
  BY <1>5 DEF database, TasksOwned, Owned
<1>6. QED BY <1>1, <1>2, <1>3, <1>4, <1>5 DEF Effect

\* What a step of one process leaves of the others.
Frame(p) == /\ found' = found
            /\ \A q \in Procs \ {p} : /\ pc'[q] = pc[q] /\ n'[q] = n[q]
                                      /\ made'[q] = made[q]
            /\ pc' \in [Procs -> Steps \cup Ends]
            /\ kind' \in [Procs -> Kinds]
            /\ made' \in [Procs -> SUBSET All]
            /\ n' \in [Procs -> Nat]

LEMMA Step ==
    ASSUME IInv, NEW p \in Procs, Effect(p), Frame(p), WalkOf(p)'
    PROVE  IInv'
<1> USE DEF IInv, Types
<1>1. /\ tables \subseteq tables' /\ tables' \in {found.tables, All}
      /\ users \subseteq users' /\ users' \subseteq Range(Emails)
      /\ copies' \in [Range(Titles) -> Nat]
      /\ TasksOwned'
  BY EffectFacts
<1>2. ASSUME NEW q \in Procs, q # p
      PROVE  WalkOf(q)'
  <2>1. WalkOf(q) /\ pc'[q] = pc[q] /\ n'[q] = n[q] /\ made'[q] = made[q]
    BY <1>2 DEF Frame
  <2>2. tables = All => tables' = All
    BY <1>1
  <2>3. QED BY <1>1, <2>1, <2>2 DEF Frame, WalkOf
<1>3. Types' /\ found' = found
  BY <1>1 DEF Frame
<1>4. QED BY <1>1, <1>2, <1>3

-----------------------------------------------------------------------------
(* The steps of a process.                                                 *)

LEMMA MigrateStep ==
    ASSUME IInv, NEW p \in Procs,
           \/ Exists(p) \/ Missing(p) \/ Create(p) \/ CreateConflicts(p) \/ Commit(p)
    PROVE  IInv'
<1> USE DEF IInv, Types, Move, At, given
<1>0. WalkOf(p)
  OBVIOUS
<1>1. CASE Exists(p)
  <2>1. n[p] \in 1..4 /\ n'[p] = n[p] + 1 /\ pc[p] = "migrate"
    BY <1>1, TablesFacts DEF Exists, Migrating
  <2>2. \A i \in 1..4 : i < n[p] + 1 => Tables[i] \in tables \cup made[p]
    BY <1>0, <1>1, <2>1 DEF Exists, WalkOf
  <2>3. Frame(p) /\ Effect(p)
    BY <1>1, <2>1 DEF Exists, Frame, Effect
  <2>4. WalkOf(p)'
    BY <1>1, <2>1, <2>2 DEF Exists, WalkOf, database
  <2>5. QED BY <2>3, <2>4, Step
<1>2. CASE Missing(p)
  <2>1. n[p] \in 1..4 /\ pc[p] = "migrate" /\ pc'[p] = "create"
    BY <1>2, TablesFacts DEF Missing, Migrating
  <2>2. Frame(p) /\ Effect(p)
    BY <1>2 DEF Missing, Frame, Effect, Steps
  <2>5. Tables[n[p]] \notin found.tables
    BY <1>2 DEF Missing
  <2>3. WalkOf(p)'
    BY <1>0, <1>2, <2>1, <2>5 DEF Missing, WalkOf, database
  <2>4. QED BY <2>2, <2>3, Step
<1>3. CASE Create(p)
  <2>1. /\ n[p] \in 1..4 /\ n'[p] = n[p] + 1
        /\ pc[p] = "create" /\ pc'[p] = "migrate"
        /\ made'[p] = made[p] \cup {Tables[n[p]]}
    BY <1>0, <1>3 DEF Create, WalkOf
  <2>2. Frame(p) /\ Effect(p)
    <3>1. Tables[n[p]] \in All
      BY <2>1, TablesFacts
    <3>2. QED BY <1>3, <2>1, <3>1 DEF Create, Frame, Effect, Steps
  <2>3. \A i \in 1..4 : i < n'[p] => Tables[i] \in tables' \cup made'[p]
    BY <1>0, <1>3, <2>1 DEF Create, WalkOf, database
  <2>4. WalkOf(p)'
    BY <2>1, <2>3 DEF WalkOf
  <2>5. QED BY <2>2, <2>4, Step
<1>4. CASE CreateConflicts(p)
  <2>1. Frame(p) /\ Effect(p) /\ pc'[p] = "conflict"
    BY <1>4 DEF CreateConflicts, Frame, Effect, Ends
  <2>2. tables' = All
    BY <1>0, <1>4 DEF CreateConflicts, WalkOf, database
  <2>3. WalkOf(p)'
    BY <2>1, <2>2 DEF WalkOf
  <2>4. QED BY <2>1, <2>3, Step
<1>5. CASE Commit(p)
  <2>1. Frame(p) /\ Effect(p) /\ pc'[p] \in {"open", "ok"} /\ n'[p] = 1
    BY <1>5 DEF Commit, AddTables, Frame, Effect, Steps, Ends
  <2>2. tables' = All
    BY <1>5, <2>1, EffectFacts DEF Commit
  <2>3. WalkOf(p)'
    BY <2>1, <2>2 DEF WalkOf
  <2>4. QED BY <2>1, <2>3, Step
<1>6. QED BY <1>1, <1>2, <1>3, <1>4, <1>5

\* After a user that is there, whoever inserted it.
LEMMA NextUserStep ==
    ASSUME IInv, NEW p \in Procs, pc[p] \in {"check", "insert"}, NextUser(p),
           users \subseteq users', Emails[n[p]] \in users',
           UNCHANGED <<tables, copies, given, made>>
    PROVE  Frame(p) /\ WalkOf(p)'
<1> USE DEF IInv, Types, At, given
<1>1. WalkOf(p) /\ n[p] \in 1..Len(Emails) /\ Len(Emails) \in Nat
  BY FixtureFacts DEF WalkOf
<1>2. \A i \in 1..Len(Emails) : i < n[p] + 1 => Emails[i] \in users'
  BY <1>1 DEF WalkOf
<1>3. Frame(p)
  BY <1>1 DEF NextUser, Frame, Steps
<1>4. CASE n[p] < Len(Emails)
  <2>1. pc'[p] = "check" /\ n'[p] = n[p] + 1
    BY <1>4 DEF NextUser
  <2>2. QED BY <1>1, <1>2, <1>3, <1>4, <2>1 DEF WalkOf
<1>5. CASE ~(n[p] < Len(Emails))
  <2>1. pc'[p] = "lookup" /\ n'[p] = 1
    BY <1>5 DEF NextUser
  <2>2. Range(Emails) \subseteq users'
    BY <1>1, <1>2, <1>5, FixtureFacts
  <2>3. QED BY <1>1, <1>3, <2>1, <2>2 DEF WalkOf
<1>6. QED BY <1>4, <1>5

LEMMA SeedStep ==
    ASSUME IInv, NEW p \in Procs,
           \/ OpenStores(p) \/ Skip(p) \/ Absent(p) \/ InsertUser(p) \/ InsertConflicts(p)
           \/ Lookup(p) \/ InsertTask(p) \/ Batch(p)
    PROVE  IInv'
<1> USE DEF IInv, Types, Move, given
<1>0. WalkOf(p)
  OBVIOUS
<1>1. CASE OpenStores(p)
  <2>1. Frame(p) /\ Effect(p) /\ pc[p] = "open" /\ pc'[p] = "check" /\ n'[p] = n[p]
    BY <1>1 DEF OpenStores, Frame, Effect, Steps
  <2>2. n[p] = 1 /\ tables' = All
    BY <1>0, <1>1 DEF OpenStores, WalkOf, database
  <2>3. WalkOf(p)'
    BY <2>1, <2>2, FixtureFacts DEF WalkOf
  <2>4. QED BY <2>1, <2>3, Step
<1>2. CASE Skip(p)
  <2>1. pc[p] = "check" /\ Effect(p) /\ NextUser(p) /\ users' = users
        /\ UNCHANGED <<tables, copies, given, made>> /\ Emails[n[p]] \in users
    BY <1>2 DEF Skip, Effect, database
  <2>2. Frame(p) /\ WalkOf(p)'
    BY <2>1, NextUserStep
  <2>3. QED BY <2>1, <2>2, Step
<1>3. CASE Absent(p) \/ InsertConflicts(p)
  <2>1. /\ Frame(p) /\ Effect(p) /\ pc[p] \in {"check", "insert"}
        /\ pc'[p] \in {"insert", "conflict"} /\ n'[p] = n[p] /\ UNCHANGED <<tables, users>>
    BY <1>3 DEF Absent, InsertConflicts, Frame, Effect, Steps, Ends, database
  <2>2. WalkOf(p)'
    BY <1>0, <2>1 DEF WalkOf
  <2>3. QED BY <2>1, <2>2, Step
<1>4. CASE InsertUser(p)
  <2>1. pc[p] = "insert" /\ Effect(p) /\ NextUser(p)
        /\ users' = users \cup {Emails[n[p]]}
        /\ UNCHANGED <<tables, copies, given, made>>
    BY <1>4 DEF InsertUser, AddUser, Effect
  <2>2. Frame(p) /\ WalkOf(p)'
    BY <2>1, NextUserStep
  <2>3. QED BY <2>1, <2>2, Step
<1>5. CASE Lookup(p)
  <2>1. /\ Frame(p) /\ Effect(p) /\ pc[p] = "lookup"
        /\ pc'[p] = "task" /\ n'[p] = n[p] /\ UNCHANGED <<tables, users>>
    BY <1>5 DEF Lookup, Frame, Effect, Steps, database
  <2>2. WalkOf(p)'
    BY <1>0, <2>1, FixtureFacts DEF WalkOf
  <2>3. QED BY <2>1, <2>2, Step
<1>6. CASE InsertTask(p)
  <2>1. /\ Frame(p) /\ Effect(p) /\ pc[p] = "task"
        /\ n'[p] = n[p] + 1 /\ UNCHANGED <<tables, users>>
        /\ pc'[p] = IF n[p] < Len(Titles) THEN "task" ELSE "ok"
    BY <1>6 DEF InsertTask, AddTask, NextTask, At, Frame, Effect, Steps, Ends
  <2>2. WalkOf(p)'
    BY <1>0, <2>1, FixtureFacts DEF WalkOf
  <2>3. QED BY <2>1, <2>2, Step
<1>7. CASE Batch(p)
  <2>1. Frame(p) /\ Effect(p) /\ pc'[p] = "ok"
    BY <1>7 DEF Batch, Frame, Effect, Ends
  <2>2. WalkOf(p)'
    BY <2>1 DEF WalkOf
  <2>3. QED BY <2>1, <2>2, Step
<1>8. QED BY <1>1, <1>2, <1>3, <1>4, <1>5, <1>6, <1>7

LEMMA SetupStep == IInv /\ [Next]_vars => IInv'
<1> SUFFICES ASSUME IInv, [Next]_vars PROVE IInv'
  OBVIOUS
<1>1. ASSUME NEW p \in Procs, NEW k \in Kinds, Start(p, k)
      PROVE  IInv'
  <2>1. /\ Frame(p) /\ Effect(p) /\ pc[p] = "off" /\ n'[p] = n[p]
        /\ pc'[p] \in {"batch", "migrate"}
    BY <1>1 DEF Start, Move, Frame, Effect, Steps, IInv, Types
  <2>2. WalkOf(p)'
    BY <2>1 DEF WalkOf, IInv
  <2>3. QED BY <2>1, <2>2, Step
<1>2. ASSUME NEW p \in Procs, Fail(p) \/ AckLost(p)
      PROVE  IInv'
  <2>1. Frame(p) /\ Effect(p) /\ pc'[p] = "failed"
    BY <1>2 DEF Fail, AckLost, Failed, Frame, Effect, Ends, IInv, Types, given
  <2>2. WalkOf(p)'
    BY <2>1 DEF WalkOf
  <2>3. QED BY <2>1, <2>2, Step
<1>3. CASE Quiescent \/ UNCHANGED vars
  BY <1>3 DEF Quiescent, vars, given, database, IInv, Types, WalkOf, TasksOwned, Owned
<1>4. QED BY <1>1, <1>2, <1>3, MigrateStep, SeedStep DEF Next, ProcNext

LEMMA SetupInit == Init => IInv
<1> SUFFICES ASSUME Init PROVE IInv
  OBVIOUS
<1>0. Before \cup {0} \subseteq Nat
  BY BeforeAssumption
<1>1. /\ tables \subseteq All
      /\ users \subseteq Range(Emails)
      /\ copies \in [Range(Titles) -> Nat]
      /\ found = [tables |-> tables, copies |-> copies]
  <2>1. tables \subseteq All
    BY TablesFacts DEF Init
  <2>2. copies \in [Range(Titles) -> Nat]
    BY <1>0 DEF Init
  <2>3. QED BY <2>1, <2>2 DEF Init
<1>2. Types
  BY <1>1 DEF Init, Types, Steps, Kinds
<1>3. \A p \in Procs : WalkOf(p)
  BY DEF Init, WalkOf
<1>4. TasksOwned
  BY DEF Init, TasksOwned
<1>5. QED BY <1>1, <1>2, <1>3, <1>4 DEF IInv

LEMMA Inductive == Spec => []IInv
BY SetupInit, SetupStep, PTL DEF Spec

-----------------------------------------------------------------------------
(* The copies of a task, counted by the processes that have inserted it.   *)

Seeds == {"seed", "fixtures"}

Walked(p, i) == pc[p] = "task" /\ i < n[p]

\* Those that have seen to title i for certain, and those that may have.
Sure(i) == {p \in Procs : kind[p] \in Seeds /\ (pc[p] = "ok" \/ Walked(p, i))}
Maybe(i) == {p \in Procs : kind[p] \in Seeds /\ (pc[p] \in Ends \/ Walked(p, i))}

KindOf(p) == /\ pc[p] \in {"migrate", "create"} => kind[p] # "fixtures"
             /\ pc[p] \in {"open", "check", "insert", "lookup", "task"} => kind[p] = "seed"
             /\ pc[p] = "batch" => kind[p] = "fixtures"

CountOf(i) == /\ Sure(i) # {} => copies[Titles[i]] > 0
              /\ found.copies[Titles[i]] <= copies[Titles[i]]
              /\ copies[Titles[i]] <= found.copies[Titles[i]] + Cardinality(Maybe(i))

UsersOf(p) == kind[p] \in Seeds /\ pc[p] = "ok" => Range(Emails) \subseteq users

CountInv == /\ \A p \in Procs : KindOf(p) /\ UsersOf(p)
            /\ \A i \in 1..Len(Titles) : CountOf(i)

Others(p) == /\ found' = found
             /\ \A q \in Procs \ {p} : pc'[q] = pc[q] /\ n'[q] = n[q] /\ kind'[q] = kind[q]

LEMMA FiniteCounts ==
    ASSUME NEW i
    PROVE  /\ IsFiniteSet(Maybe(i)) /\ Cardinality(Maybe(i)) \in Nat
           /\ IsFiniteSet(Maybe(i)') /\ Cardinality(Maybe(i)') \in Nat
<1>1. Maybe(i) \in SUBSET Procs /\ Maybe(i)' \in SUBSET Procs
  BY DEF Maybe
<1>2. QED BY <1>1, ProcsAssumption, FS_Subset, FS_CardinalityType

\* A step of p that does not insert title i.
LEMMA CountKept ==
    ASSUME NEW i, NEW p \in Procs, CountOf(i), Others(p),
           copies'[Titles[i]] = copies[Titles[i]], copies[Titles[i]] \in Nat,
           found.copies[Titles[i]] \in Nat,
           p \in Sure(i)' => p \in Sure(i),
           p \in Maybe(i) => p \in Maybe(i)'
    PROVE  CountOf(i)'
<1>1. Sure(i)' \subseteq Sure(i)
  BY DEF Others, Sure, Walked
<1>2. Maybe(i) \subseteq Maybe(i)'
  BY DEF Others, Maybe, Walked
<1>3. Cardinality(Maybe(i)) <= Cardinality(Maybe(i)')
  BY <1>2, FiniteCounts, FS_Subset
<1>4. found' = found
  BY DEF Others
<1>5. QED BY <1>1, <1>3, <1>4, FiniteCounts DEF CountOf

\* A step of p that inserts it, which p had not.
LEMMA CountAdded ==
    ASSUME NEW i, NEW p \in Procs, CountOf(i), Others(p),
           copies'[Titles[i]] = copies[Titles[i]] + 1, copies[Titles[i]] \in Nat,
           found.copies[Titles[i]] \in Nat,
           p \notin Maybe(i), p \in Maybe(i)'
    PROVE  CountOf(i)'
<1>1. Maybe(i) \cup {p} \subseteq Maybe(i)'
  BY DEF Others, Maybe, Walked
<1>2. Cardinality(Maybe(i) \cup {p}) = Cardinality(Maybe(i)) + 1
  BY FiniteCounts, FS_AddElement
<1>3. Cardinality(Maybe(i) \cup {p}) <= Cardinality(Maybe(i)')
  BY <1>1, FiniteCounts, FS_Subset
<1>4. found' = found
  BY DEF Others
<1>5. QED BY <1>2, <1>3, <1>4, FiniteCounts DEF CountOf

\* No step takes a user away.
LEMMA UsersGrow == [Next]_vars => users \subseteq users'
<1> SUFFICES ASSUME [Next]_vars PROVE users \subseteq users'
  OBVIOUS
<1> USE DEF database
<1>1. ASSUME NEW p \in Procs, \E k \in Kinds : Start(p, k)
      PROVE  users \subseteq users'
  BY <1>1 DEF Start
<1>2. ASSUME NEW p \in Procs, Effect(p)
      PROVE  users \subseteq users'
  BY <1>2 DEF Effect, AddTables, AddUser, AddTask, AddAll
<1>3. ASSUME NEW p \in Procs, ProcNext(p), ~ \E k \in Kinds : Start(p, k)
      PROVE  Effect(p)
  BY <1>3 DEF ProcNext, Effect, Fail, AckLost, Exists, Missing, Create, CreateConflicts,
     Commit, OpenStores, Skip, Absent, InsertUser, InsertConflicts, Lookup, InsertTask, Batch
<1>4. CASE Quiescent \/ UNCHANGED vars
  BY <1>4 DEF Quiescent, vars
<1>5. QED BY <1>1, <1>2, <1>3, <1>4 DEF Next

LEMMA TitleFacts ==
    ASSUME NEW i \in 1..Len(Titles), NEW j \in 1..Len(Titles), Titles[i] = Titles[j]
    PROVE  i = j
BY FixtureFacts, TitlesAssumption DEF IsInjective

\* A step of p that changes no copies: p stays as certain and as possible.
Neutral(p) == /\ Others(p)
              /\ UNCHANGED copies
              /\ \/ pc[p] = "task" /\ pc'[p] = "failed" /\ kind'[p] = kind[p]
                 \/ /\ pc[p] \notin {"task"} \cup Ends
                    /\ kind'[p] \in Seeds => pc'[p] # "ok"
                    /\ pc'[p] = "task" => n'[p] = 1

LEMMA NeutralStep ==
    ASSUME IInv, CountInv, NEW p \in Procs, Neutral(p), KindOf(p)', users \subseteq users'
    PROVE  CountInv'
<1>1. ASSUME NEW q \in Procs
      PROVE  KindOf(q)' /\ UsersOf(q)'
  BY DEF Neutral, Others, CountInv, KindOf, UsersOf, Ends
<1>2. ASSUME NEW i \in 1..Len(Titles)
      PROVE  CountOf(i)'
  <2>1. copies'[Titles[i]] = copies[Titles[i]] /\ copies[Titles[i]] \in Nat
        /\ found.copies[Titles[i]] \in Nat
    BY FixtureFacts DEF Neutral, IInv, Types
  <2>2. p \in Sure(i)' => p \in Sure(i)
    BY DEF Neutral, Sure, Walked
  <2>3. p \in Maybe(i) => p \in Maybe(i)'
    BY DEF Neutral, Maybe, Walked, Ends
  <2>4. QED BY <2>1, <2>2, <2>3, CountKept DEF Neutral, CountInv
<1>3. QED BY <1>1, <1>2 DEF CountInv

\* Titles of p's task or of the batch are inserted by p, once.
Inserts(p) == /\ Others(p)
              /\ kind'[p] = kind[p]
              /\ \/ AddTask(p) /\ \/ pc'[p] = "failed"
                                  \/ NextTask(p)
                 \/ AddAll(p) /\ pc'[p] \in {"ok", "failed"}

LEMMA InsertsStep ==
    ASSUME IInv, CountInv, NEW p \in Procs, Inserts(p), users \subseteq users'
    PROVE  CountInv'
<1>0. Range(Emails) \subseteq users'
  BY DEF Inserts, AddTask, AddAll, IInv, WalkOf
<1>1. ASSUME NEW q \in Procs
      PROVE  KindOf(q)' /\ UsersOf(q)'
  <2>1. KindOf(q)'
    BY DEF Inserts, NextTask, AddTask, AddAll, Others, CountInv, KindOf, IInv, Types
  <2>2. QED BY <1>0, <2>1 DEF UsersOf
<1>2. copies \in [Range(Titles) -> Nat] /\ kind[p] \in Seeds
  BY DEF IInv, Types, Inserts, AddTask, AddAll, CountInv, KindOf, Seeds
<1>3. ASSUME NEW i \in 1..Len(Titles)
      PROVE  CountOf(i)'
  <2>1. copies[Titles[i]] \in Nat /\ Titles[i] \in Range(Titles)
        /\ found.copies[Titles[i]] \in Nat
    BY <1>2, FixtureFacts DEF IInv, Types
  <2>2. CASE AddAll(p)
    <3>1. copies'[Titles[i]] = copies[Titles[i]] + 1
      BY <2>1, <2>2 DEF AddAll
    <3>2. p \notin Maybe(i) /\ p \in Maybe(i)'
      BY <1>2, <2>2 DEF Inserts, AddAll, AddTask, Maybe, Walked, Ends
    <3>3. QED BY <2>1, <3>1, <3>2, CountAdded DEF Inserts, CountInv
  <2>3. CASE AddTask(p)
    <3>1. /\ n[p] \in 1..Len(Titles) /\ pc[p] = "task"
          /\ copies' = [copies EXCEPT ![Titles[n[p]]] = @ + 1]
      BY <2>3 DEF AddTask, IInv, WalkOf
    <3>2. pc'[p] = "failed" \/ /\ n'[p] = n[p] + 1
                               /\ pc'[p] = IF n[p] < Len(Titles) THEN "task" ELSE "ok"
      BY <2>3, <3>1 DEF Inserts, AddTask, AddAll, NextTask, At, IInv, Types
    <3>3. CASE i = n[p]
      <4>1. copies'[Titles[i]] = copies[Titles[i]] + 1
        BY <1>2, <2>1, <3>1, <3>3
      <4>2. p \notin Maybe(i)
        BY <3>1, <3>3 DEF Maybe, Walked, Ends
      <4>3. p \in Maybe(i)'
        BY <1>2, <3>1, <3>2, <3>3 DEF Inserts, Maybe, Walked, Ends
      <4>4. QED BY <2>1, <4>1, <4>2, <4>3, CountAdded DEF Inserts, CountInv
    <3>4. CASE i # n[p]
      <4>1. copies'[Titles[i]] = copies[Titles[i]]
        BY <1>2, <2>1, <3>1, <3>4, TitleFacts, FixtureFacts
      <4>2. p \in Sure(i)' => p \in Sure(i)
        BY <1>2, <3>1, <3>2, <3>4, FixtureFacts DEF Sure, Walked
      <4>3. p \in Maybe(i) => p \in Maybe(i)'
        BY <1>2, <3>1, <3>2, <3>4 DEF Inserts, Maybe, Walked, Ends
      <4>4. QED BY <2>1, <4>1, <4>2, <4>3, CountKept DEF Inserts, CountInv
    <3>5. QED BY <3>3, <3>4
  <2>4. QED BY <2>2, <2>3 DEF Inserts
<1>4. QED BY <1>1, <1>3 DEF CountInv

LEMMA CountStep == IInv /\ CountInv /\ [Next]_vars => CountInv'
<1> SUFFICES ASSUME IInv, CountInv, [Next]_vars
             PROVE  CountInv'
  OBVIOUS
<1> USE DEF Move, At, database, given
<1>0. users \subseteq users'
  BY UsersGrow
<1>1. ASSUME NEW p \in Procs, NEW k \in Kinds, Start(p, k)
      PROVE  CountInv'
  <2>1. pc[p] = "off" /\ kind'[p] = k /\ Others(p)
        /\ pc'[p] = IF k = "fixtures" THEN "batch" ELSE "migrate"
    BY <1>1 DEF Start, Others, IInv, Types
  <2>2. KindOf(p)' /\ Neutral(p)
    BY <1>1, <2>1 DEF Start, KindOf, Neutral, Ends
  <2>3. QED BY <1>0, <2>2, NeutralStep
<1>2. ASSUME NEW p \in Procs, Failed(p)
      PROVE  /\ Others(p) /\ kind'[p] = kind[p] /\ pc'[p] = "failed" /\ KindOf(p)'
             /\ UNCHANGED copies => Neutral(p)
  BY <1>2 DEF Failed, Others, KindOf, Neutral, IInv, Types, Ends
<1>3. ASSUME NEW p \in Procs, Fail(p) \/ AckLost(p)
      PROVE  CountInv'
  <2>1. CASE UNCHANGED copies
    BY <1>0, <1>2, <1>3, <2>1, NeutralStep DEF Fail, AckLost
  <2>2. CASE AddTask(p) \/ AddAll(p)
    <3>1. Inserts(p)
      BY <1>2, <1>3, <2>2 DEF Fail, AckLost, Inserts
    <3>2. QED BY <1>0, <3>1, InsertsStep
  <2>3. QED BY <1>3, <2>1, <2>2 DEF Fail, AckLost, AddTables, AddUser
<1>4. ASSUME NEW p \in Procs,
             \/ Exists(p) \/ Missing(p) \/ Create(p) \/ CreateConflicts(p) \/ Commit(p)
             \/ OpenStores(p) \/ Absent(p) \/ InsertConflicts(p) \/ Lookup(p)
      PROVE  CountInv'
  <2>1. Others(p) /\ UNCHANGED copies /\ kind'[p] = kind[p]
    BY <1>4 DEF Exists, Missing, Create, CreateConflicts, Commit, AddTables, OpenStores,
       Absent, InsertConflicts, Lookup, Others, IInv, Types
  <2>2. KindOf(p) /\ WalkOf(p) /\ kind[p] \in Kinds
    BY DEF CountInv, IInv, Types
  <2>3. CASE Commit(p)
    <3>1. pc[p] = "migrate" /\ pc'[p] = IF kind[p] = "seed" THEN "open" ELSE "ok"
      BY <2>3 DEF Commit, AddTables, IInv, Types
    <3>2. Neutral(p) /\ KindOf(p)'
      BY <2>1, <2>2, <3>1 DEF Neutral, KindOf, Seeds, Kinds, Ends
    <3>3. QED BY <1>0, <3>2, NeutralStep
  <2>4. CASE Lookup(p)
    <3>1. Neutral(p) /\ KindOf(p)'
      BY <2>1, <2>2, <2>4 DEF Lookup, WalkOf, Neutral, KindOf, Ends, IInv, Types
    <3>2. QED BY <1>0, <3>1, NeutralStep
  <2>5. CASE ~Commit(p) /\ ~Lookup(p)
    <3>1. /\ pc[p] \notin {"task"} \cup Ends /\ pc'[p] \notin {"task", "ok"}
          /\ KindOf(p)'
      BY <1>4, <2>1, <2>2, <2>5 DEF Exists, Missing, Create, CreateConflicts, OpenStores,
         Absent, InsertConflicts, KindOf, Ends, IInv, Types
    <3>2. Neutral(p)
      BY <2>1, <3>1 DEF Neutral
    <3>3. QED BY <1>0, <3>1, <3>2, NeutralStep
  <2>6. QED BY <2>3, <2>4, <2>5
<1>5. ASSUME NEW p \in Procs, Skip(p) \/ InsertUser(p)
      PROVE  CountInv'
  <2>1. Others(p) /\ UNCHANGED copies /\ kind'[p] = kind[p]
    BY <1>5 DEF Skip, InsertUser, AddUser, NextUser, Others, IInv, Types
  <2>2. pc[p] \in {"check", "insert"} /\ pc'[p] \in {"check", "lookup"}
    BY <1>5 DEF Skip, InsertUser, AddUser, NextUser, IInv, Types
  <2>3. Neutral(p) /\ KindOf(p)'
    BY <2>1, <2>2 DEF Neutral, KindOf, CountInv, Ends
  <2>4. QED BY <1>0, <2>3, NeutralStep
<1>6. ASSUME NEW p \in Procs, InsertTask(p) \/ Batch(p)
      PROVE  CountInv'
  <2>1. Inserts(p)
    BY <1>6 DEF InsertTask, NextTask, Batch, AddTask, AddAll, Inserts, Others, IInv, Types
  <2>2. QED BY <1>0, <2>1, InsertsStep
<1>7. CASE Quiescent \/ UNCHANGED vars
  BY <1>7 DEF Quiescent, vars, CountInv, KindOf, UsersOf, CountOf, Sure, Maybe, Walked
<1>8. QED BY <1>1, <1>3, <1>4, <1>5, <1>6, <1>7 DEF Next, ProcNext

LEMMA CountInit == Init => CountInv
<1> SUFFICES ASSUME Init
             PROVE  CountInv
  OBVIOUS
<1>1. \A p \in Procs : KindOf(p) /\ UsersOf(p)
  BY DEF Init, KindOf, UsersOf
<1>2. ASSUME NEW i \in 1..Len(Titles)
      PROVE  CountOf(i)
  <2>1. Sure(i) = {} /\ Maybe(i) = {}
    BY DEF Init, Sure, Maybe, Walked, Seeds
  <2>2. found.copies[Titles[i]] = copies[Titles[i]] /\ copies[Titles[i]] \in Nat
    <3>1. copies \in [Range(Titles) -> Nat]
      BY SetupInit DEF IInv, Types
    <3>2. QED BY <3>1, FixtureFacts DEF Init
  <2>3. QED BY <2>1, <2>2, FS_EmptySet DEF CountOf
<1>3. QED BY <1>1, <1>2 DEF CountInv

-----------------------------------------------------------------------------
(* The theorems.                                                           *)

\* Every list is walked within its bounds, in any number of processes.
THEOREM TypeCorrect == Spec => []TypeOK
<1>1. IInv => TypeOK
  <2> SUFFICES ASSUME IInv PROVE TypeOK
    OBVIOUS
  <2>1. ASSUME NEW p \in Procs, pc[p] \notin Ends
        PROVE  n[p] \in Places(pc[p])
    <3>1. WalkOf(p) /\ pc[p] \in Steps
      BY <2>1 DEF IInv, Types
    <3>2. Len(Tables) = 4
      BY TablesFacts
    <3>3. CASE pc[p] = "migrate"
      BY <3>1, <3>2, <3>3 DEF WalkOf, Places
    <3>4. CASE pc[p] = "create"
      BY <3>1, <3>2, <3>4 DEF WalkOf, Places
    <3>5. CASE pc[p] \in {"check", "insert"}
      BY <3>1, <3>5 DEF WalkOf, Places
    <3>6. CASE pc[p] = "task"
      BY <3>1, <3>6 DEF WalkOf, Places
    <3>7. CASE pc[p] \in {"off", "open", "lookup", "batch"}
      BY <3>1, <3>7 DEF WalkOf, Places
    <3>8. QED BY <3>1, <3>3, <3>4, <3>5, <3>6, <3>7 DEF Steps
  <2>2. QED BY <2>1, TablesFacts DEF IInv, Types, TypeOK
<1>2. QED BY <1>1, Inductive, PTL

\* The schema is whole or what it was, however many processes migrate and
\* wherever they fail, from no schema, the first file's or both (migrate.go).
THEOREM SchemaIsWhole == Spec => []SchemaWhole
<1>1. IInv => SchemaWhole
  BY TablesFacts DEF IInv, SchemaWhole
<1>2. QED BY <1>1, Inductive, PTL

\* No task without its owner (cmd/specto/seed.go, seed.go).
THEOREM TasksAreOwned == Spec => []TasksOwned
<1>1. IInv => TasksOwned
  BY DEF IInv
<1>2. QED BY <1>1, Inductive, PTL

\* A process that lost to another finds the schema set up when it starts again.
THEOREM ConflictsMeanDone == Spec => []ConflictMeansDone
<1>1. IInv => ConflictMeansDone
  BY TablesFacts DEF IInv, WalkOf, ConflictMeansDone
<1>2. QED BY <1>1, Inductive, PTL

\* After a seeding that succeeds every fixture is there, and no seeding adds a
\* task more than once (cmd/specto/seed.go, seed.go).
THEOREM SeedingsAreComplete == Spec => []SeedingsComplete
<1>1. IInv /\ CountInv => SeedingsComplete
  <2> SUFFICES ASSUME IInv, CountInv
               PROVE  SeedingsComplete
    OBVIOUS
  <2>1. Seeders({"ok"}) # {} => Range(Emails) \subseteq users
    BY DEF Seeders, CountInv, UsersOf, Seeds
  <2>2. ASSUME NEW t \in Range(Titles)
        PROVE  /\ Seeders({"ok"}) # {} => copies[t] > 0
               /\ found.copies[t] <= copies[t]
               /\ copies[t] <= found.copies[t] + Cardinality(Seeders({"task"} \cup Ends))
    <3>1. PICK i \in 1..Len(Titles) : t = Titles[i]
      BY FixtureFacts DEF Range
    <3>2. Seeders({"ok"}) \subseteq Sure(i) /\ Maybe(i) \subseteq Seeders({"task"} \cup Ends)
      BY DEF Seeders, Sure, Maybe, Walked, Seeds
    <3>3. Seeders({"task"} \cup Ends) \in SUBSET Procs
      BY DEF Seeders
    <3>4. IsFiniteSet(Seeders({"task"} \cup Ends))
      BY <3>3, ProcsAssumption, FS_Subset
    <3>5. /\ Cardinality(Maybe(i)) <= Cardinality(Seeders({"task"} \cup Ends))
          /\ Cardinality(Seeders({"task"} \cup Ends)) \in Nat
      BY <3>2, <3>4, FS_Subset, FS_CardinalityType
    <3>6. CountOf(i) /\ copies[t] \in Nat /\ found.copies[t] \in Nat
      BY DEF CountInv, IInv, Types
    <3>7. QED BY <3>1, <3>2, <3>5, <3>6, FiniteCounts DEF CountOf
  <2>3. QED BY <2>1, <2>2 DEF SeedingsComplete
<1>2. QED
  BY <1>1, CountInit, CountStep, Inductive, PTL DEF Spec
=============================================================================
