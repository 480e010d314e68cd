-------------------------------- MODULE Setup --------------------------------
(***************************************************************************)
(* What the commands do to PostgreSQL before anyone serves: Migrate, which *)
(* both run first, the seed command's seedData, and Seed, which executes   *)
(* the fixtures as one batch. Several processes may run at once, on a new  *)
(* database, on one that has had both migrations or only the first (of an  *)
(* earlier release, or as the integration tests set it up), seeded or not, *)
(* and any statement may fail. The seed command locks its Bolt file before *)
(* it seeds; hosts have files of their own and one database.               *)
(*                                                                         *)
(* A migration file is as many statements as it creates tables; its        *)
(* indexes belong to their tables. A task is known by its title.           *)
(***************************************************************************)
EXTENDS Integers, Sequences, FiniteSets, SequencesExt

CONSTANTS
    Procs,
    BoltOf,    \* the Bolt file of each process
    Emails,    \* of the fixture users, in order
    Titles,    \* of the fixture tasks, in order
    OwnerOf,   \* the email of each title's owner
    Before     \* bound: the copies of a task there may be before

ASSUME ProcsAssumption == IsFiniteSet(Procs)
ASSUME EmailsAssumption ==
    Emails \in Seq(Range(Emails)) /\ Emails # <<>> /\ IsInjective(Emails)
ASSUME TitlesAssumption ==
    Titles \in Seq(Range(Titles)) /\ Titles # <<>> /\ IsInjective(Titles)
ASSUME OwnersAssumption == OwnerOf \in [Range(Titles) -> Range(Emails)]
ASSUME BeforeAssumption == Before \subseteq Nat

\* The files sorted by name: the tables of 001_init, then of 002_banking.
Tables == <<"users", "tasks", "accounts", "transfers">>
SecondFile == 3
FirstTables == {Tables[i] : i \in 1..(SecondFile - 1)}
Kinds == {"server", "seed", "fixtures"}

VARIABLES
    tables,  \* committed tables
    users,   \* emails in users
    copies,  \* per title, the rows in tasks
    pc,      \* per process, its next call
    kind,
    made,    \* per process, the tables its open transaction has created
    n,       \* per process, the statement of the list at hand
    found    \* history: the tables and copies there were before

database == <<tables, users, copies>>
given == <<kind, found>>
vars == <<database, pc, given, made, n>>

Steps == {"off", "migrate", "create", "open", "check", "insert", "lookup",
          "task", "batch"}
Ends == {"ok", "conflict", "failed"}

Owned(t) == copies[t] > 0 => OwnerOf[t] \in users

Init == /\ tables \in {{}, FirstTables, Range(Tables)}
        /\ users \in SUBSET Range(Emails)
        /\ copies \in [Range(Titles) -> Before \cup {0}]
        /\ \A t \in Range(Titles) : Owned(t)
        /\ tables = {} => users = {}
        /\ found = [tables |-> tables, copies |-> copies]
        /\ pc = [p \in Procs |-> "off"]
        /\ kind = [p \in Procs |-> "server"]
        /\ made = [p \in Procs |-> {}]
        /\ n = [p \in Procs |-> 1]

Move(p, from, to) == pc[p] = from /\ pc' = [pc EXCEPT ![p] = to]

\* On to statement k of the list at hand.
At(p, k) == n' = [n EXCEPT ![p] = k]

Start(p, k) == /\ Move(p, "off", IF k = "fixtures" THEN "batch" ELSE "migrate")
               /\ kind' = [kind EXCEPT ![p] = k]
               /\ UNCHANGED <<database, made, n, found>>

\* Migrate rolls back, and the process ends.
Failed(p) == /\ pc[p] \notin {"off"} \cup Ends
             /\ pc' = [pc EXCEPT ![p] = "failed"]
             /\ made' = [made EXCEPT ![p] = {}]
             /\ UNCHANGED <<given, n>>

\* An error of a statement, or of BEGIN or COMMIT.
Fail(p) == Failed(p) /\ UNCHANGED database

-----------------------------------------------------------------------------
(* Migrate: one transaction, CREATE TABLE IF NOT EXISTS for each table.    *)

Migrating(p) == n[p] \in DOMAIN Tables

\* IF NOT EXISTS looks at committed tables and at its own.
Exists(p) == /\ pc[p] = "migrate"
             /\ Migrating(p)
             /\ Tables[n[p]] \in tables \cup made[p]
             /\ At(p, n[p] + 1)
             /\ UNCHANGED <<database, pc, given, made>>

Missing(p) == /\ Move(p, "migrate", "create")
              /\ Migrating(p)
              /\ Tables[n[p]] \notin tables \cup made[p]
              /\ UNCHANGED <<database, given, made, n>>

\* The catalog's unique index makes it wait for whoever creates the same.
MayCreate(p) == /\ pc[p] = "create"
                /\ \A q \in Procs \ {p} : Tables[n[p]] \notin made[q]

\* Mistake: statements run outside of the transaction.
CreateAutocommits(p) == /\ MayCreate(p)
                        /\ Tables[n[p]] \notin tables
                        /\ Move(p, "create", "migrate")
                        /\ tables' = tables \cup {Tables[n[p]]}
                        /\ At(p, n[p] + 1)
                        /\ UNCHANGED <<users, copies, given, made>>

Create(p) == /\ MayCreate(p)
             /\ Tables[n[p]] \notin tables
             /\ Move(p, "create", "migrate")
             /\ made' = [made EXCEPT ![p] = @ \cup {Tables[n[p]]}]
             /\ At(p, n[p] + 1)
             /\ UNCHANGED <<database, given>>

\* Created meanwhile: the index refuses.
CreateConflicts(p) == /\ MayCreate(p)
                      /\ Tables[n[p]] \in tables
                      /\ Move(p, "create", "conflict")
                      /\ made' = [made EXCEPT ![p] = {}]
                      /\ UNCHANGED <<database, given, n>>

\* Mistake: every file is committed on its own.
CommitEach(p) == /\ pc[p] = "migrate"
                 /\ n[p] \in {SecondFile, Len(Tables) + 1}
                 /\ made[p] # {} \/ ~Migrating(p)
                 /\ pc' = [pc EXCEPT ![p] = IF Migrating(p) THEN "migrate"
                                            ELSE IF kind[p] = "seed" THEN "open" ELSE "ok"]
                 /\ tables' = tables \cup made[p]
                 /\ made' = [made EXCEPT ![p] = {}]
                 /\ At(p, IF Migrating(p) THEN n[p] ELSE 1)
                 /\ UNCHANGED <<users, copies, given>>

AddTables(p) == /\ pc[p] = "migrate"
                /\ ~Migrating(p)
                /\ tables' = tables \cup made[p]
                /\ UNCHANGED <<users, copies>>

Commit(p) == /\ AddTables(p)
             /\ pc' = [pc EXCEPT ![p] = IF kind[p] = "seed" THEN "open" ELSE "ok"]
             /\ made' = [made EXCEPT ![p] = {}]
             /\ At(p, 1)
             /\ UNCHANGED given

-----------------------------------------------------------------------------
(* seedData: UserService.Create for each user, then TaskService.Create for *)
(* each task.                                                              *)

\* Mistake: the tasks are counted on from the users.
NextUserNoReset(p) == /\ pc' = [pc EXCEPT ![p] = IF n[p] < Len(Emails) THEN "check" ELSE "lookup"]
                      /\ At(p, n[p] + 1)

\* Ones with the Bolt file open.
Seeding == {p \in Procs : pc[p] \in {"check", "insert", "lookup", "task"}}

\* OpenRedis and OpenBolt, whose flock waits a second for another process
\* of the file; a server that holds it is a Fail.
OpenStores(p) == /\ Move(p, "open", "check")
                 /\ \A q \in Seeding : BoltOf[q] # BoltOf[p]
                 /\ UNCHANGED <<database, given, made, n>>

\* After user n: the next one, or the lookups.
NextUser(p) == /\ pc' = [pc EXCEPT ![p] = IF n[p] < Len(Emails) THEN "check" ELSE "lookup"]
               /\ At(p, IF n[p] < Len(Emails) THEN n[p] + 1 ELSE 1)

\* ConflictError: the user is skipped.
Skip(p) == /\ pc[p] = "check"
           /\ Emails[n[p]] \in users
           /\ NextUser(p)
           /\ UNCHANGED <<database, given, made>>

\* Not found, or the error of GetByEmail is ignored.
Absent(p) == /\ Move(p, "check", "insert")
             /\ UNCHANGED <<database, given, made, n>>

AddUser(p) == /\ pc[p] = "insert"
              /\ Emails[n[p]] \notin users
              /\ users' = users \cup {Emails[n[p]]}
              /\ UNCHANGED <<tables, copies>>

InsertUser(p) == AddUser(p) /\ NextUser(p) /\ UNCHANGED <<given, made>>

\* The UNIQUE constraint's error is no ConflictError.
InsertConflicts(p) == /\ Move(p, "insert", "conflict")
                      /\ Emails[n[p]] \in users
                      /\ UNCHANGED <<database, given, made, n>>

\* GetByEmail of both.
Lookup(p) == /\ Move(p, "lookup", "task")
             /\ UNCHANGED <<database, given, made, n>>

NextTask(p) == /\ pc' = [pc EXCEPT ![p] = IF n[p] < Len(Titles) THEN "task" ELSE "ok"]
               /\ At(p, n[p] + 1)

\* Mistake: a task that cannot be created is skipped.
TaskOrSkip(p) == /\ pc[p] = "task"
                 /\ \/ copies' = [copies EXCEPT ![Titles[n[p]]] = @ + 1]
                    \/ UNCHANGED copies
                 /\ NextTask(p)
                 /\ UNCHANGED <<tables, users, given, made>>

\* Whether the task is there is not looked at.
AddTask(p) == /\ pc[p] = "task"
              /\ copies' = [copies EXCEPT ![Titles[n[p]]] = @ + 1]
              /\ UNCHANGED <<tables, users>>

InsertTask(p) == AddTask(p) /\ NextTask(p) /\ UNCHANGED <<given, made>>

-----------------------------------------------------------------------------
(* Seed: the fixtures in one batch, one transaction. The users there are   *)
(* are kept; no constraint of tasks can make ON CONFLICT DO NOTHING apply. *)

\* Mistake: the batch creates users only where there are none.
AddIntoEmpty(p) == /\ pc[p] = "batch"
                   /\ "tasks" \in tables
                   /\ users' = IF users = {} THEN Range(Emails) ELSE users
                   /\ copies' = [t \in Range(Titles) |-> copies[t] + 1]
                   /\ UNCHANGED tables

AddAll(p) == /\ pc[p] = "batch"
             /\ "tasks" \in tables
             /\ users' = users \cup Range(Emails)
             /\ copies' = [t \in Range(Titles) |-> copies[t] + 1]
             /\ UNCHANGED tables

Batch(p) == /\ AddAll(p)
            /\ Move(p, "batch", "ok")
            /\ UNCHANGED <<given, made, n>>

\* The statement or commit has been executed and its answer is lost.
AckLost(p) == /\ Failed(p)
              /\ AddTables(p) \/ AddUser(p) \/ AddTask(p) \/ AddAll(p)

\* Every process has ended.
Quiescent == /\ \A p \in Procs : pc[p] \in Ends
             /\ UNCHANGED vars

ProcNext(p) == \/ \E k \in Kinds : Start(p, k)
               \/ Exists(p) \/ Missing(p) \/ Create(p) \/ CreateConflicts(p) \/ Commit(p)
               \/ OpenStores(p) \/ Skip(p) \/ Absent(p) \/ InsertUser(p) \/ InsertConflicts(p)
               \/ Lookup(p) \/ InsertTask(p) \/ Batch(p)
               \/ Fail(p) \/ AckLost(p)

Next == (\E p \in Procs : ProcNext(p)) \/ Quiescent

Spec == Init /\ [][Next]_vars

-----------------------------------------------------------------------------
(* Properties.                                                             *)

\* Where in its list a process can be at a call.
Places(s) == CASE s = "migrate" -> 1..(Len(Tables) + 1)
               [] s = "create" -> 1..Len(Tables)
               [] s \in {"check", "insert"} -> 1..Len(Emails)
               [] s = "task" -> 1..Len(Titles)
               [] s \in {"off", "open", "lookup", "batch"} -> {1}

\* Every variable has its type, and every list is walked within its bounds.
TypeOK == /\ tables \subseteq Range(Tables)
          /\ users \subseteq Range(Emails)
          /\ copies \in [Range(Titles) -> Nat]
          /\ pc \in [Procs -> Steps \cup Ends]
          /\ kind \in [Procs -> Kinds]
          /\ made \in [Procs -> SUBSET Range(Tables)]
          /\ n \in [Procs -> Nat]
          /\ found \in [tables : SUBSET Range(Tables), copies : [Range(Titles) -> Nat]]
          /\ \A p \in Procs : pc[p] \notin Ends => n[p] \in Places(pc[p])

\* The schema is complete or what it was: no failure adds some of the tables
\* that are missing, in one file or in two ("sequentially inside a
\* transaction", migrate.go:16), however many processes migrate at once.
SchemaWhole == tables \in {found.tables, Range(Tables)}

\* A task's owner is there before the task, whoever seeds and whatever fails.
TasksOwned == \A t \in Range(Titles) : Owned(t)

Seeders(ends) == {p \in Procs : kind[p] \in {"seed", "fixtures"} /\ pc[p] \in ends}

\* A seeding that reports success has left every fixture user and task there,
\* whatever another one lost, doubled or had refused meanwhile; none takes a
\* task away, and none adds more than one copy, or any before it comes to the
\* tasks (cmd/specto/seed.go:103, seed.go:17).
SeedingsComplete ==
    /\ Seeders({"ok"}) # {} => Range(Emails) \subseteq users
    /\ \A t \in Range(Titles) :
        /\ Seeders({"ok"}) # {} => copies[t] > 0
        /\ found.copies[t] <= copies[t]
        /\ copies[t] <= found.copies[t] + Cardinality(Seeders({"task"} \cup Ends))

\* "second seed should be idempotent" (db_test.go:314), and the users that
\* exist are skipped (cmd/specto/seed.go:80): where every fixture task is
\* there, seeding adds none.
SeedIdempotent == [][(\A t \in Range(Titles) : copies[t] > 0) => UNCHANGED copies]_vars

\* What there is of "It is safe to call on every server start" (migrate.go:17):
\* Migrate and the seed command may fail against another process, but only one
\* that has set the schema up, so that starting again succeeds.
ConflictMeansDone == \A p \in Procs : pc[p] = "conflict" => tables = Range(Tables)
=============================================================================
