---------------------------- MODULE BankingProofs ----------------------------
(***************************************************************************)
(* What holds of Banking for every number of accounts, requests, users and *)
(* pooled connections, every BIGINT width, every opening table and every   *)
(* set of inputs. The proofs follow one argument: types, then the versions *)
(* that open transactions have written, then what their checks still know, *)
(* then the ledger.                                                        *)
(***************************************************************************)
EXTENDS Banking, FiniteSetTheorems, TLAPS

USE MaxIntAssumption, NullAssumption, TableAssumption, InputsAssumption

\* Strengthens TypeOK: a request in flight has been accepted.
Asked == \A t \in Requests :
            pc[t] \in {"begin", "committed"} \cup InTxSteps => req[t] \in Input

TypeInv == TypeOK /\ Asked

LEMMA Int64Facts == /\ MinInt \in Int /\ MaxInt \in Int /\ MinInt < 0 /\ 0 < MaxInt
                    /\ 0 \in Int64
                    /\ Int64 \subseteq Int
                    /\ \A x \in Int64 : Negate(x) \in Int64
BY DEF MinInt, Int64, Negate

\* The functions that close or abandon a transaction keep their types.
LEMMA ReleaseType ==
    ASSUME TypeOK, NEW t \in Requests, Release(t)
    PROVE  lock' \in [Accounts -> Requests \cup {Null}]
BY DEF TypeOK, Release

LEMMA DropVersionsType ==
    ASSUME TypeOK, NEW t \in Requests, DropVersions(t)
    PROVE  draft' \in [Accounts -> Int64]
BY DEF TypeOK, DropVersions

LEMMA TypeInit == Init => TypeInv
BY Int64Facts DEF Init, TypeInv, TypeOK, Asked, Steps, InTxSteps

LEMMA TypeWrite ==
    ASSUME TypeInv, NEW t \in Requests, Debit(t) \/ Credit(t)
    PROVE  TypeInv'
<1>1. req[t] \in Input
  BY DEF TypeInv, Asked, Debit, Credit, At, InTxSteps
<1>2. PICK a \in Accounts, delta \in Int64, next \in Steps :
         /\ UpdateBalance(t, a, delta, next)
         /\ pc[t] \in InTxSteps
         /\ next \in InTxSteps
  <2>1. CASE Debit(t)
    BY <1>1, <2>1, Int64Facts DEF Debit, Input, At, Steps, InTxSteps
  <2>2. CASE Credit(t)
    BY <1>1, <2>2, Int64Facts DEF Credit, Input, At, Steps, InTxSteps
  <2>3. QED BY <2>1, <2>2
<1>3. /\ lock' \in [Accounts -> Requests \cup {Null}]
      /\ draft' \in [Accounts -> Int64]
      /\ UNCHANGED <<book, req, answer, seen, snap>>
  BY <1>2 DEF TypeInv, TypeOK, UpdateBalance, Fits
<1>4. /\ pc' \in [Requests -> Steps]
      /\ \A u \in Requests : pc'[u] # pc[u] => u = t
  BY <1>2 DEF TypeInv, TypeOK, UpdateBalance, Goto, Steps, InTxSteps
<1>5. QED
  BY <1>1, <1>3, <1>4 DEF TypeInv, TypeOK, Asked, book

LEMMA TypeStep == TypeInv /\ [Next]_vars => TypeInv'
<1> SUFFICES ASSUME TypeInv, [Next]_vars
             PROVE  TypeInv'
  OBVIOUS
<1> USE DEF TypeInv, TypeOK, Asked, book, At, Goto, Finish, Steps, InTxSteps, Ended, Answers
<1>1. CASE UNCHANGED vars
  BY <1>1 DEF vars
<1>2. ASSUME NEW t \in Requests, Reject(t)
      PROVE  TypeInv'
  BY <1>2 DEF Reject
<1>3. ASSUME NEW t \in Requests, NEW in \in Inputs, Accept(t, in)
      PROVE  TypeInv'
  BY <1>3 DEF Accept
<1>4. ASSUME NEW t \in Requests, Begin(t)
      PROVE  TypeInv'
  BY <1>4 DEF Begin
<1>5. ASSUME NEW t \in Requests, BeginFails(t)
      PROVE  TypeInv'
  BY <1>5 DEF BeginFails
<1>6. ASSUME NEW t \in Requests, ReadSender(t)
      PROVE  TypeInv'
  <2>1. req[t].sender \in Accounts
    BY <1>6 DEF ReadSender, Input
  <2>2. seen' \in [Requests -> Int64] /\ snap' \in [Requests -> SUBSET Row]
    BY <1>6, <2>1 DEF ReadSender
  <2>3. QED BY <1>6, <2>2 DEF ReadSender
<1>7. ASSUME NEW t \in Requests, ReadReceiver(t)
      PROVE  TypeInv'
  BY <1>7 DEF ReadReceiver
<1>8. ASSUME NEW t \in Requests, Debit(t) \/ Credit(t)
      PROVE  TypeInv'
  BY <1>8, TypeWrite
<1>9. ASSUME NEW t \in Requests, Insert(t)
      PROVE  TypeInv'
  BY <1>9 DEF Insert
<1>10. ASSUME NEW t \in Requests, StatementFails(t)
       PROVE  TypeInv'
  BY <1>10 DEF StatementFails
<1>11. ASSUME NEW t \in Requests, DeadlockAbort(t)
       PROVE  TypeInv'
  <2>1. pc[t] \in {"debit", "credit"}
    BY <1>11 DEF DeadlockAbort, OnCycle, Blocked
  <2>2. QED BY <1>11, <2>1 DEF DeadlockAbort
<1>12. ASSUME NEW t \in Requests, Rollback(t) \/ CommitFails(t)
       PROVE  TypeInv'
  <2>1. /\ lock' \in [Accounts -> Requests \cup {Null}]
        /\ draft' \in [Accounts -> Int64]
    BY <1>12, ReleaseType, DropVersionsType DEF Rollback, CommitFails
  <2>2. QED BY <1>12, <2>1 DEF Rollback, CommitFails
<1>13. ASSUME NEW t \in Requests, Commit(t)
       PROVE  TypeInv'
  <2>1. RowOf(t) \in Row
    BY <1>13 DEF Commit, RowOf, Row, Input
  <2>2. lock' \in [Accounts -> Requests \cup {Null}]
    BY <1>13, ReleaseType DEF Commit
  <2>3. balance' \in [Accounts -> Int64]
    BY <1>13 DEF Commit
  <2>4. QED BY <1>13, <2>1, <2>2, <2>3 DEF Commit
<1>14. ASSUME NEW t \in Requests, Reply(t) \/ AckLost(t)
       PROVE  TypeInv'
  BY <1>14 DEF Reply, AckLost
<1>15. ASSUME NEW a \in Accounts, NEW u \in Users, NEW c \in Currencies,
              CreateAccount(a, u, c)
       PROVE  TypeInv'
  BY <1>15 DEF CreateAccount
<1>16. CASE Crash
  BY <1>16 DEF Crash, Active
<1>17. CASE Quiescent
  BY <1>17 DEF Quiescent, vars
<1>18. QED
  BY <1>1, <1>2, <1>3, <1>4, <1>5, <1>6, <1>7, <1>8, <1>9, <1>10, <1>11, <1>12,
     <1>13, <1>14, <1>15, <1>16, <1>17
  DEF Next, RequestNext, Progress, Failure

\* Every reachable state is typed: no committed balance and no row version
\* ever leaves the range of a BIGINT, and every request in flight is one that
\* was accepted.
THEOREM TypeCorrect == Spec => []TypeOK
<1>1. TypeInv => TypeOK
  BY DEF TypeInv
<1>2. QED
  BY <1>1, TypeInit, TypeStep, PTL DEF Spec

-----------------------------------------------------------------------------
(* The versions open transactions have written.                            *)

Writing == {"credit", "insert", "commit", "undo"}

\* A step of t that reads, fails, inserts or answers writes no account row: it
\* stays out of the writing part, goes on from insert to commit, or gives up.
QuietFor(t) == /\ UNCHANGED <<balance, lock, draft>>
               /\ \A u \in Requests \ {t} : pc'[u] = pc[u] /\ req'[u] = req[u]
               /\ \/ pc[t] \notin Writing /\ pc'[t] \notin Writing
                  \/ req'[t] = req[t] /\ pc'[t] = "undo"
                  \/ req'[t] = req[t] /\ pc[t] = "insert" /\ pc'[t] = "commit"

LEMMA VersionQuiet ==
    ASSUME TypeInv, VersionInv, NEW t \in Requests, QuietFor(t), req'[t] \in Inputs \cup {Null}
    PROVE  VersionInv'
<1> USE DEF TypeInv, TypeOK, Writing
<1>1. FreeRowsAreCommitted'
  BY DEF QuietFor, VersionInv, FreeRowsAreCommitted
<1>2. LocksAreOwned'
  BY DEF QuietFor, VersionInv, LocksAreOwned
<1>3. ASSUME NEW u \in Requests
      PROVE  WrittenSoFar(u)'
  <2>1. CASE u # t
    BY <1>3, <2>1 DEF QuietFor, VersionInv, WrittenSoFar, At, Moved, RowOf
  <2>2. CASE u = t
    BY <1>3, <2>2 DEF QuietFor, VersionInv, WrittenSoFar, At, Moved, RowOf
  <2>3. QED BY <2>1, <2>2
<1>4. QED BY <1>1, <1>2, <1>3 DEF VersionInv

\* Rollback, and a COMMIT that fails: the locks go, and the versions with them.
LEMMA VersionDrop ==
    ASSUME TypeInv, VersionInv, NEW t \in Requests,
           pc[t] \in {"undo", "commit"}, Goto(t, "done"),
           Release(t), DropVersions(t), UNCHANGED <<balance, req>>
    PROVE  VersionInv'
<1> USE DEF TypeInv, TypeOK, Release, DropVersions, Goto
<1>1. FreeRowsAreCommitted'
  BY NullAssumption DEF VersionInv, FreeRowsAreCommitted
<1>2. LocksAreOwned'
  BY NullAssumption DEF VersionInv, LocksAreOwned
<1>3. ASSUME NEW u \in Requests
      PROVE  WrittenSoFar(u)'
  <2>1. CASE u # t
    <3>1. \/ /\ req[u] \in Input
             /\ req[u].sender \in Accounts
             /\ req[u].receiver \in Accounts
          \/ pc[u] \notin {"credit", "insert", "commit"}
      BY DEF Asked, InTxSteps, Input
    <3>2. QED
      BY <2>1, <3>1, NullAssumption DEF VersionInv, WrittenSoFar, At, Moved, RowOf
  <2>2. CASE u = t
    BY <2>2 DEF WrittenSoFar, At
  <2>3. QED BY <2>1, <2>2
<1>4. QED BY <1>1, <1>2, <1>3 DEF VersionInv

LEMMA VersionCommit ==
    ASSUME TypeInv, VersionInv, NEW t \in Requests, Commit(t)
    PROVE  VersionInv'
<1> USE DEF TypeInv, TypeOK, Commit, Release, Goto, At
<1>1. FreeRowsAreCommitted'
  BY NullAssumption DEF VersionInv, FreeRowsAreCommitted
<1>2. LocksAreOwned'
  BY NullAssumption DEF VersionInv, LocksAreOwned
<1>3. ASSUME NEW u \in Requests
      PROVE  WrittenSoFar(u)'
  <2>1. CASE u # t
    <3>1. \/ /\ req[u] \in Input
             /\ req[u].sender \in Accounts
             /\ req[u].receiver \in Accounts
          \/ pc[u] \notin {"credit", "insert", "commit"}
      BY DEF Asked, InTxSteps, Input
    <3>2. QED
      BY <2>1, <3>1, NullAssumption DEF VersionInv, WrittenSoFar, Moved, RowOf
  <2>2. CASE u = t
    BY <2>2 DEF WrittenSoFar
  <2>3. QED BY <2>1, <2>2
<1>4. QED BY <1>1, <1>2, <1>3 DEF VersionInv

\* An update of a row touches no row another transaction has locked.
LEMMA VersionWrite ==
    ASSUME TypeInv, VersionInv, NEW t \in Requests, Debit(t) \/ Credit(t)
    PROVE  VersionInv'
<1> DEFINE s == req[t].sender
           r == req[t].receiver
           n == req[t].amount
<1>1. /\ req[t] \in Input /\ s \in Accounts /\ r \in Accounts /\ n \in Int64
      /\ pc[t] \in {"debit", "credit"}
  BY DEF TypeInv, Asked, Debit, Credit, At, InTxSteps, Input
<1>2. CASE UNCHANGED <<lock, draft>> /\ pc'[t] = "undo"
  <2>1. QuietFor(t) /\ req'[t] \in Inputs \cup {Null}
    BY <1>2 DEF QuietFor, Debit, Credit, UpdateBalance, Goto, TypeInv, TypeOK, book
  <2>2. QED BY <2>1, VersionQuiet
<1>3. CASE /\ Debit(t)
           /\ lock' = [lock EXCEPT ![s] = t]
           /\ draft' = [draft EXCEPT ![s] = draft[s] + Negate(n)]
           /\ Goto(t, "credit")
  <2>1. UNCHANGED <<balance, req>> /\ lock[s] \in {Null, t}
    BY <1>3 DEF Debit, UpdateBalance, CanLock, book
  <2>2. \A a \in Accounts : lock[a] # t
    BY <1>1, <1>3, NullAssumption DEF VersionInv, LocksAreOwned, Debit, At
  <2>3. FreeRowsAreCommitted'
    BY <1>1, <1>3, <2>1, NullAssumption DEF VersionInv, FreeRowsAreCommitted,
       TypeInv, TypeOK
  <2>4. LocksAreOwned'
    BY <1>1, <1>3, <2>1, <2>2, NullAssumption
    DEF VersionInv, LocksAreOwned, Goto, TypeInv, TypeOK
  <2>5. ASSUME NEW u \in Requests
        PROVE  WrittenSoFar(u)'
    <3>1. CASE u # t
      <4>1. \/ req[u] \in Input /\ req[u].sender \in Accounts /\ req[u].receiver \in Accounts
            \/ pc[u] \notin {"credit", "insert", "commit"}
        BY DEF TypeInv, Asked, InTxSteps, Input
      <4>2. QED
        BY <1>1, <1>3, <2>1, <3>1, <4>1, NullAssumption
        DEF VersionInv, WrittenSoFar, Moved, RowOf, At, Goto, TypeInv, TypeOK
    <3>2. CASE u = t
      <4>1. draft[s] = balance[s]
        BY <1>1, <2>1, <2>2, NullAssumption DEF VersionInv, FreeRowsAreCommitted
      <4>2. pc'[t] = "credit" /\ lock'[s] = t /\ draft'[s] = balance[s] + Negate(n)
        BY <1>1, <1>3, <4>1 DEF Goto, TypeInv, TypeOK
      <4>3. QED
        BY <2>1, <3>2, <4>2 DEF WrittenSoFar, At
    <3>3. QED BY <3>1, <3>2
  <2>6. QED BY <2>3, <2>4, <2>5 DEF VersionInv
<1>4. CASE /\ Credit(t)
           /\ lock' = [lock EXCEPT ![r] = t]
           /\ draft' = [draft EXCEPT ![r] = draft[r] + n]
           /\ Goto(t, "insert")
  <2>1. UNCHANGED <<balance, req>> /\ lock[r] \in {Null, t}
    BY <1>4 DEF Credit, UpdateBalance, CanLock, book
  <2>2. /\ lock[s] = t /\ draft[s] = balance[s] + Negate(n)
        /\ \A a \in Accounts : lock[a] = t => a = s
    BY <1>4, NullAssumption DEF VersionInv, LocksAreOwned, WrittenSoFar, Credit, At
  <2>3. FreeRowsAreCommitted'
    BY <1>1, <1>4, <2>1, NullAssumption DEF VersionInv, FreeRowsAreCommitted,
       TypeInv, TypeOK
  <2>4. LocksAreOwned'
    BY <1>1, <1>4, <2>1, <2>2, NullAssumption
    DEF VersionInv, LocksAreOwned, Goto, TypeInv, TypeOK
  <2>5. ASSUME NEW u \in Requests
        PROVE  WrittenSoFar(u)'
    <3>1. CASE u # t
      <4>1. \/ req[u] \in Input /\ req[u].sender \in Accounts /\ req[u].receiver \in Accounts
            \/ pc[u] \notin {"credit", "insert", "commit"}
        BY DEF TypeInv, Asked, InTxSteps, Input
      <4>2. QED
        BY <1>1, <1>4, <2>1, <3>1, <4>1, NullAssumption
        DEF VersionInv, WrittenSoFar, Moved, RowOf, At, Goto, TypeInv, TypeOK
    <3>2. CASE u = t
      <4>1. pc'[t] = "insert"
        BY <1>4 DEF Goto, TypeInv, TypeOK
      <4>2. \A a \in {s, r} : lock'[a] = t
        BY <1>1, <1>4, <2>2 DEF TypeInv, TypeOK
      <4>3. \A a \in Accounts : balance[a] \in Int /\ draft[a] \in Int
        BY Int64Facts DEF TypeInv, TypeOK
      <4>4. n \in Int /\ Negate(n) \in Int
        BY <1>1, Int64Facts
      <4>5. CASE s = r
        <5>1. draft'[s] = balance[s] + Negate(n) + n
          BY <1>1, <1>4, <2>2, <4>5 DEF TypeInv, TypeOK
        <5>2. Moved(RowOf(t), s) = Negate(n) + n
          BY <4>5 DEF Moved, RowOf
        <5>3. QED
          BY <1>1, <2>1, <3>2, <4>1, <4>2, <4>3, <4>4, <4>5, <5>1, <5>2
          DEF WrittenSoFar, At, Moved, RowOf
      <4>6. CASE s # r
        <5>1. draft[r] = balance[r]
          BY <1>1, <2>1, <2>2, <4>6, NullAssumption DEF VersionInv, FreeRowsAreCommitted
        <5>2. draft'[s] = balance[s] + Negate(n) /\ draft'[r] = balance[r] + n
          BY <1>1, <1>4, <2>2, <4>6, <5>1 DEF TypeInv, TypeOK
        <5>3. Moved(RowOf(t), s) = Negate(n) /\ Moved(RowOf(t), r) = n
          BY <4>4, <4>6 DEF Moved, RowOf
        <5>4. QED
          BY <1>1, <2>1, <3>2, <4>1, <4>2, <4>6, <5>2, <5>3
          DEF WrittenSoFar, At, Moved, RowOf
      <4>7. QED BY <4>5, <4>6
    <3>3. QED BY <3>1, <3>2
  <2>6. QED BY <2>3, <2>4, <2>5 DEF VersionInv
<1>5. QED
  BY <1>1, <1>2, <1>3, <1>4
  DEF Debit, Credit, UpdateBalance, NewVersion, Goto, TypeInv, TypeOK

LEMMA VersionStep == TypeInv /\ VersionInv /\ [Next]_vars => VersionInv'
<1> SUFFICES ASSUME TypeInv, VersionInv, [Next]_vars
             PROVE  VersionInv'
  OBVIOUS
<1>1. CASE UNCHANGED vars
  BY <1>1 DEF vars, book, VersionInv, FreeRowsAreCommitted, LocksAreOwned,
              WrittenSoFar, At, Moved, RowOf
<1>2. ASSUME NEW t \in Requests,
             \/ Reject(t) \/ (\E in \in Inputs : Accept(t, in)) \/ Begin(t)
             \/ BeginFails(t) \/ ReadSender(t) \/ ReadReceiver(t) \/ Insert(t)
             \/ StatementFails(t) \/ Reply(t) \/ AckLost(t)
      PROVE  VersionInv'
  <2>1. QuietFor(t) /\ req'[t] \in Inputs \cup {Null}
    BY <1>2 DEF QuietFor, Reject, Accept, Begin, BeginFails, ReadSender, ReadReceiver,
         Insert, StatementFails, Reply, AckLost, Finish, Goto, At, Writing, book,
         TypeInv, TypeOK, InTxSteps
  <2>2. QED BY <2>1, VersionQuiet
<1>3. ASSUME NEW t \in Requests, DeadlockAbort(t)
      PROVE  VersionInv'
  <2>1. QuietFor(t) /\ req'[t] \in Inputs \cup {Null}
    BY <1>3 DEF QuietFor, DeadlockAbort, Goto, book, TypeInv, TypeOK
  <2>2. QED BY <2>1, VersionQuiet
<1>4. ASSUME NEW t \in Requests, Debit(t) \/ Credit(t)
      PROVE  VersionInv'
  BY <1>4, VersionWrite
<1>5. ASSUME NEW t \in Requests, Rollback(t) \/ CommitFails(t)
      PROVE  VersionInv'
  BY <1>5, VersionDrop DEF Rollback, CommitFails, At, Finish, book
<1>6. ASSUME NEW t \in Requests, Commit(t)
      PROVE  VersionInv'
  BY <1>6, VersionCommit
<1>7. ASSUME NEW a \in Accounts, NEW u \in Users, NEW c \in Currencies,
             CreateAccount(a, u, c)
      PROVE  VersionInv'
  BY <1>7 DEF CreateAccount, VersionInv, FreeRowsAreCommitted, LocksAreOwned,
              WrittenSoFar, At, Moved, RowOf
<1>8. CASE Crash
  BY <1>8, NullAssumption
  DEF Crash, Active, Ended, book, VersionInv, FreeRowsAreCommitted, LocksAreOwned,
      WrittenSoFar, At, TypeInv, TypeOK
<1>9. CASE Quiescent
  BY <1>1, <1>9 DEF Quiescent
<1>10. QED
  BY <1>1, <1>2, <1>3, <1>4, <1>5, <1>6, <1>7, <1>8, <1>9
  DEF Next, RequestNext, Progress, Failure

LEMMA VersionInit == Init => VersionInv
BY NullAssumption DEF Init, VersionInv, FreeRowsAreCommitted, LocksAreOwned,
   WrittenSoFar, At

\* No update is lost and none is seen early, for any number of transactions:
\* what an open transaction has written is its own effect over the committed
\* balances, and a row nobody has locked has no uncommitted version.
THEOREM VersionsCorrect == Spec => []VersionInv
BY TypeInit, TypeStep, VersionInit, VersionStep, PTL DEF Spec

-----------------------------------------------------------------------------
(* What the checks of an open transaction still know, and what the book    *)
(* holds.                                                                  *)

\* COMMIT adds exactly the row's effect to every account.
LEMMA CommitEffect ==
    ASSUME TypeInv, VersionInv, NEW t \in Requests, Commit(t), NEW a \in Accounts
    PROVE  balance'[a] = balance[a] + Moved(RowOf(t), a)
<1>1. balance'[a] = IF lock[a] = t THEN draft[a] ELSE balance[a]
  BY DEF Commit
<1>2. At(t, "commit") /\ balance[a] \in Int
  BY Int64Facts DEF Commit, TypeInv, TypeOK
<1>3. CASE a \in {req[t].sender, req[t].receiver}
  BY <1>1, <1>2, <1>3 DEF VersionInv, WrittenSoFar, At
<1>4. CASE a \notin {req[t].sender, req[t].receiver}
  <2>1. lock[a] # t
    BY <1>4, NullAssumption DEF VersionInv, LocksAreOwned
  <2>2. Moved(RowOf(t), a) = 0
    BY <1>4 DEF Moved, RowOf
  <2>3. QED BY <1>1, <1>2, <2>1, <2>2
<1>5. QED BY <1>3, <1>4

\* An account with an owner stays as it is; only commits post.
LEMMA BookSteps ==
    ASSUME TypeInv, [Next]_vars
    PROVE  /\ \A a \in Accounts : owner[a] # Null =>
                 owner'[a] = owner[a] /\ currency'[a] = currency[a]
           /\ \/ \E t \in Requests : Commit(t)
              \/ UNCHANGED <<balance, transfers>>
<1> USE DEF TypeInv, TypeOK
<1>1. CASE \E t \in Requests : RequestNext(t)
  BY <1>1 DEF RequestNext, Progress, Failure, Reject, Accept, Begin, BeginFails,
     ReadSender,
     ReadReceiver, Debit, Credit, UpdateBalance, Insert, StatementFails, DeadlockAbort,
     Rollback, Commit, CommitFails, Reply, AckLost, book
<1>2. CASE \E a \in Accounts, u \in Users, c \in Currencies : CreateAccount(a, u, c)
  BY <1>2 DEF CreateAccount
<1>3. CASE Crash \/ Quiescent \/ UNCHANGED vars
  BY <1>3 DEF Crash, Quiescent, vars, book
<1>4. QED BY <1>1, <1>2, <1>3 DEF Next

\* A step is of one request, of the server as a whole, or of no request.
OthersKept(t) == \A u \in Requests \ {t} :
    pc'[u] = pc[u] /\ req'[u] = req[u] /\ answer'[u] = answer[u]
        /\ seen'[u] = seen[u] /\ snap'[u] = snap[u]

LEMMA OneRequestMoves ==
    ASSUME TypeInv, NEW t \in Requests, RequestNext(t)
    PROVE  OthersKept(t)
BY DEF TypeInv, TypeOK, OthersKept, RequestNext, Progress, Failure, Reject, Accept,
   Begin,
   BeginFails, ReadSender, ReadReceiver, Debit, Credit, UpdateBalance, Insert,
   StatementFails,
   DeadlockAbort, Rollback, Commit, CommitFails, Reply, AckLost, Goto, Finish

SenderChecked == {"receiver", "debit", "credit", "insert", "commit"}
BothChecked == {"debit", "credit", "insert", "commit"}

\* The sender's balance can only have sunk below what the SELECT returned
\* through rows posted since; the ownership and the currencies still hold.
Knows(t) ==
    /\ pc[t] \in SenderChecked =>
         /\ owner[req[t].sender] = req[t].user
         /\ seen[t] >= req[t].amount
         /\ snap[t] \subseteq transfers
         /\ (\A row \in transfers \ snap[t] : Moved(row, req[t].sender) >= 0)
              => balance[req[t].sender] >= seen[t]
    /\ pc[t] \in BothChecked =>
         /\ owner[req[t].receiver] # Null
         /\ currency[req[t].sender] = req[t].currency
         /\ currency[req[t].receiver] = req[t].currency

\* A request is answered once, at its end, and its row is there when the
\* server says so, and only if its COMMIT ran.
Answered(t) == /\ answer[t] # Null => At(t, "done")
               /\ At(t, "committed") \/ answer[t] = "created" => RowOf(t) \in transfers

BookInv == /\ \A row \in transfers : /\ pc[row.id] \in {"committed"} \cup Ended
                                     /\ answer[row.id] # "rejected"
                                     /\ owner[row.sender] # Null
                                     /\ owner[row.receiver] # Null
           /\ RowsFaithful

KnowsInv == (\A t \in Requests : Knows(t) /\ Answered(t)) /\ BookInv

LEMMA KnowsInit == TypeInv /\ Init => KnowsInv
BY NullAssumption, AnswersAssumption DEF Init, KnowsInv, Knows, Answered, BookInv,
   RowsFaithful, SenderChecked,
   BothChecked, At, Answers

\* A request's knowledge survives a step that posts nothing and keeps it where
\* it is, or moves it on without a check to pass.
LEMMA KnowsKept ==
    ASSUME TypeInv, KnowsInv, [Next]_vars, UNCHANGED <<balance, transfers>>,
           NEW t \in Requests,
           req'[t] = req[t], seen'[t] = seen[t], snap'[t] = snap[t],
           pc'[t] \in SenderChecked => pc[t] \in SenderChecked,
           pc'[t] \in BothChecked => pc[t] \in BothChecked
    PROVE  Knows(t)'
<1>1. pc[t] \in SenderChecked => req[t] \in Input
  BY DEF TypeInv, Asked, SenderChecked, InTxSteps
<1>2. pc[t] \in SenderChecked => owner[req[t].sender] # Null
  BY <1>1, NullAssumption DEF KnowsInv, Knows, Input
<1>3. QED
  BY <1>1, <1>2, BookSteps DEF KnowsInv, Knows, Input, SenderChecked, BothChecked, Moved

\* A step that posts nothing and changes no request that has a row leaves the
\* book as it was.
LEMMA BookKept ==
    ASSUME TypeInv, KnowsInv, [Next]_vars, UNCHANGED <<balance, transfers>>,
           \A row \in transfers : /\ req'[row.id] = req[row.id]
                                  /\ pc'[row.id] \in {"committed"} \cup Ended
                                  /\ answer'[row.id] # "rejected"
    PROVE  BookInv'
<1>1. \A row \in transfers : /\ owner[row.sender] # Null /\ owner[row.receiver] # Null
                             /\ row.sender \in Accounts /\ row.receiver \in Accounts
  BY DEF KnowsInv, BookInv, TypeInv, TypeOK, Row
<1>2. QED
  BY <1>1, BookSteps DEF KnowsInv, BookInv, RowsFaithful, RowOf, Ended
\* The step that posts: the row is new, and what the checks knew is what the
\* book now says.
LEMMA KnowsCommit ==
    ASSUME TypeInv, VersionInv, KnowsInv, [Next]_vars, NEW t \in Requests, Commit(t)
    PROVE  KnowsInv'
<1> DEFINE new == RowOf(t)
<1>1. /\ req[t] \in Input /\ req[t].sender \in Accounts /\ req[t].receiver \in Accounts
      /\ pc[t] = "commit" /\ answer[t] = Null
      /\ transfers' = transfers \cup {new}
      /\ UNCHANGED <<owner, currency, req, answer, seen, snap>>
      /\ pc' = [pc EXCEPT ![t] = "committed"]
  BY DEF Commit, At, Goto, TypeInv, Asked, InTxSteps, Input, KnowsInv, Answered
<1>2. \A row \in transfers : row.id \in Requests /\ row.id # t
  BY <1>1 DEF KnowsInv, BookInv, TypeInv, TypeOK, Row, Ended
<1>3. new.id = t
  BY DEF RowOf
<1>4. ASSUME NEW u \in Requests
      PROVE  Knows(u)'
  <2>1. CASE u = t
    BY <1>1, <2>1 DEF Knows, SenderChecked, BothChecked, TypeInv, TypeOK
  <2>2. CASE u # t /\ pc[u] \in SenderChecked
    <3>1. /\ req[u].sender \in Accounts /\ pc'[u] = pc[u]
          /\ balance[req[u].sender] \in Int /\ seen[u] \in Int
      BY <1>1, <2>2, Int64Facts
      DEF TypeInv, TypeOK, Asked, SenderChecked, InTxSteps, Input
    <3>2. balance'[req[u].sender] = balance[req[u].sender] + Moved(new, req[u].sender)
      BY <3>1, CommitEffect
    <3>3. Moved(new, req[u].sender) \in Int
      <4>1. /\ req[t].amount \in Int /\ Negate(req[t].amount) \in Int
            /\ new.amount = req[t].amount
        BY <1>1, Int64Facts DEF Input, RowOf
      <4>2. QED BY <4>1 DEF Moved
    <3>4. new \notin snap[u] /\ snap[u] \subseteq transfers
      BY <1>2, <1>3, <2>2 DEF KnowsInv, Knows
    <3>5. (\A row \in transfers' \ snap[u] : Moved(row, req[u].sender) >= 0)
             => balance'[req[u].sender] >= seen[u]
      <4>1. SUFFICES ASSUME \A row \in transfers' \ snap[u] : Moved(row, req[u].sender) >= 0
                     PROVE  balance'[req[u].sender] >= seen[u]
        OBVIOUS
      <4>2. Moved(new, req[u].sender) >= 0
        BY <1>1, <3>4, <4>1
      <4>3. balance[req[u].sender] >= seen[u]
        BY <1>1, <2>2, <4>1 DEF KnowsInv, Knows
      <4>4. QED BY <3>1, <3>2, <3>3, <4>2, <4>3
    <3>6. QED
      BY <1>1, <2>2, <3>1, <3>4, <3>5 DEF KnowsInv, Knows, Moved
  <2>3. CASE u # t /\ pc[u] \notin SenderChecked
    BY <1>1, <2>3 DEF Knows, SenderChecked, BothChecked, TypeInv, TypeOK
  <2>4. QED BY <2>1, <2>2, <2>3
<1>5. ASSUME NEW u \in Requests
      PROVE  Answered(u)'
  BY <1>1, <1>5 DEF KnowsInv, Answered, At, RowOf, TypeInv, TypeOK
<1>6. ASSUME NEW row \in transfers'
      PROVE  /\ pc'[row.id] \in {"committed"} \cup Ended
             /\ answer'[row.id] # "rejected"
             /\ owner'[row.sender] # Null /\ owner'[row.receiver] # Null
             /\ row = RowOf(row.id)' /\ owner'[row.sender] = req'[row.id].user
             /\ currency'[row.sender] = row.currency
             /\ currency'[row.receiver] = row.currency
  <2>1. CASE row \in transfers
    BY <1>1, <1>2, <2>1 DEF KnowsInv, BookInv, RowsFaithful, RowOf, TypeInv, TypeOK
  <2>2. CASE row = new
    <3>1. /\ owner[req[t].sender] = req[t].user /\ req[t].user # Null
          /\ owner[req[t].receiver] # Null
          /\ currency[req[t].sender] = req[t].currency
          /\ currency[req[t].receiver] = req[t].currency
      BY <1>1, NullAssumption DEF KnowsInv, Knows, SenderChecked, BothChecked, Input
    <3>2. QED
      BY <1>1, <1>3, <2>2, <3>1, AnswersAssumption
      DEF RowOf, TypeInv, TypeOK, Answers
  <2>3. QED BY <1>1, <1>6, <2>1, <2>2
<1>7. QED
  BY <1>4, <1>5, <1>6 DEF KnowsInv, BookInv, RowsFaithful

\* A request that is not at its end has no row yet.
LEMMA RowsEnded ==
    ASSUME TypeInv, KnowsInv, NEW row \in transfers
    PROVE  row.id \in Requests /\ pc[row.id] \in {"committed"} \cup Ended
BY DEF KnowsInv, BookInv, TypeInv, TypeOK, Row

LEMMA KnowsStep == TypeInv /\ VersionInv /\ KnowsInv /\ [Next]_vars => KnowsInv'
<1> SUFFICES ASSUME TypeInv, VersionInv, KnowsInv, [Next]_vars
             PROVE  KnowsInv'
  OBVIOUS
<1>1. CASE \E t \in Requests : Commit(t)
  BY <1>1, KnowsCommit
<1>2. CASE UNCHANGED <<balance, transfers, req, pc, answer, seen, snap>>
  <2>1. BookInv'
    BY <1>2, BookKept DEF KnowsInv, BookInv
  <2>2. \A t \in Requests : Knows(t)'
    BY <1>2, KnowsKept
  <2>3. \A t \in Requests : Answered(t)'
    BY <1>2 DEF KnowsInv, Answered, At, RowOf
  <2>4. QED BY <2>1, <2>2, <2>3 DEF KnowsInv
<1>3. CASE Crash
  <2>1. /\ UNCHANGED <<balance, transfers, req, answer, seen, snap>>
        /\ \A t \in Requests : pc'[t] = IF t \in Active THEN "gone" ELSE pc[t]
    BY <1>3 DEF Crash, book
  <2>2. BookInv'
    BY <2>1, BookKept, RowsEnded DEF KnowsInv, BookInv, Active, Ended
  <2>3. \A t \in Requests : Knows(t)'
    BY <2>1, KnowsKept DEF SenderChecked, BothChecked
  <2>4. \A t \in Requests : Answered(t)'
    BY <2>1 DEF KnowsInv, Answered, At, RowOf, Active, Ended
  <2>5. QED BY <2>2, <2>3, <2>4 DEF KnowsInv
<1>4. ASSUME NEW t \in Requests, RequestNext(t), ~Commit(t)
      PROVE  KnowsInv'
  <2>1. OthersKept(t)
    BY <1>4, OneRequestMoves
  <2>2. UNCHANGED <<balance, transfers>>
    BY <1>4 DEF RequestNext, Progress, Failure, Reject, Accept, Begin, BeginFails,
       ReadSender,
       ReadReceiver, Debit, Credit, UpdateBalance, Insert, StatementFails,
       DeadlockAbort,
       Rollback, CommitFails, Reply, AckLost, book
  <2>3. \A u \in Requests \ {t} : Knows(u)'
    BY <2>1, <2>2, KnowsKept DEF OthersKept
  <2>4. \A u \in Requests \ {t} : Answered(u)'
    BY <2>1, <2>2 DEF OthersKept, KnowsInv, Answered, At, RowOf
  <2>5. Knows(t)'
    <3>1. CASE ReadSender(t)
      <4>1. req[t] \in Input /\ req[t].sender \in Accounts /\ req[t].amount \in Int
        BY <3>1, Int64Facts DEF ReadSender, At, TypeInv, Asked, InTxSteps, Input
      <4>2. /\ seen'[t] = balance[req[t].sender] /\ snap'[t] = transfers /\ req' = req
            /\ UNCHANGED book
            /\ pc'[t] = IF SenderOk(t) THEN "receiver" ELSE "undo"
        BY <3>1 DEF ReadSender, Goto, TypeInv, TypeOK
      <4>3. CASE SenderOk(t)
        <5>1. /\ owner'[req'[t].sender] = req'[t].user
              /\ seen'[t] >= req'[t].amount
              /\ seen'[t] = balance'[req'[t].sender] /\ seen'[t] \in Int
              /\ snap'[t] = transfers'
              /\ pc'[t] = "receiver"
          BY <4>1, <4>2, <4>3, Int64Facts DEF SenderOk, book, TypeInv, TypeOK
        <5>2. QED BY <5>1 DEF Knows, SenderChecked, BothChecked
      <4>4. CASE ~SenderOk(t)
        BY <4>2, <4>4 DEF Knows, SenderChecked, BothChecked
      <4>5. QED BY <4>3, <4>4
    <3>2. CASE ReadReceiver(t)
      <4>1. /\ UNCHANGED <<book, req, seen, snap>>
            /\ pc[t] = "receiver"
            /\ pc'[t] = IF ReceiverOk(t) THEN "debit" ELSE "undo"
        BY <3>2 DEF ReadReceiver, Goto, At, TypeInv, TypeOK
      <4>2. CASE ReceiverOk(t)
        BY <4>1, <4>2 DEF ReceiverOk, KnowsInv, Knows, SenderChecked, BothChecked,
           book, Moved
      <4>3. CASE ~ReceiverOk(t)
        BY <4>1, <4>3 DEF Knows, SenderChecked, BothChecked
      <4>4. QED BY <4>2, <4>3
    <3>3. CASE ~ReadSender(t) /\ ~ReadReceiver(t)
      <4>1. \/ pc'[t] \notin SenderChecked
            \/ /\ req'[t] = req[t] /\ seen'[t] = seen[t] /\ snap'[t] = snap[t]
               /\ pc[t] \in BothChecked
        BY <1>4, <3>3 DEF RequestNext, Progress, Failure, Reject, Accept, Begin,
           BeginFails,
           Debit, Credit, UpdateBalance, Insert, StatementFails, DeadlockAbort,
           Rollback,
           CommitFails, Reply, AckLost, Goto, Finish, At, SenderChecked, BothChecked,
           TypeInv, TypeOK
      <4>2. CASE pc'[t] \notin SenderChecked
        BY <4>2 DEF Knows, SenderChecked, BothChecked
      <4>3. CASE /\ req'[t] = req[t] /\ seen'[t] = seen[t] /\ snap'[t] = snap[t]
                 /\ pc[t] \in BothChecked
        <5>1. pc[t] \in SenderChecked
          BY <4>3 DEF SenderChecked, BothChecked
        <5>2. QED BY <2>2, <4>3, <5>1, KnowsKept
      <4>4. QED BY <4>1, <4>2, <4>3
    <3>4. QED BY <3>1, <3>2, <3>3
  <2>6. Answered(t)'
    <3>1. CASE Reply(t)
      BY <3>1 DEF Reply, Finish, Goto, At, KnowsInv, Answered, RowOf, book, TypeInv,
         TypeOK
    <3>2. CASE ~Reply(t)
      <4>1. /\ pc'[t] # "committed"
            /\ \/ answer'[t] = answer[t] /\ pc[t] # "done"
               \/ answer'[t] \in {"failed", "rejected"} /\ pc'[t] = "done"
        BY <1>4, <3>2 DEF RequestNext, Progress, Failure, Reject, Accept, Begin,
           BeginFails,
           ReadSender, ReadReceiver, Debit, Credit, UpdateBalance, Insert,
           StatementFails,
           DeadlockAbort, OnCycle, Blocked, Rollback, CommitFails, Reply, AckLost,
           Goto, Finish,
           At, InTxSteps, TypeInv, TypeOK
      <4>2. QED
        BY <4>1, AnswersAssumption DEF KnowsInv, Answered, At, Answers
    <3>3. QED BY <3>1, <3>2
  <2>7. BookInv'
    <3>1. CASE pc[t] \in {"idle", "begin"} \cup InTxSteps
      <4>1. \A row \in transfers : row.id \in Requests \ {t}
        BY <3>1, RowsEnded DEF InTxSteps, Ended
      <4>2. QED
        BY <2>1, <2>2, <4>1, BookKept, RowsEnded DEF OthersKept, KnowsInv, BookInv
    <3>2. CASE pc[t] \notin {"idle", "begin"} \cup InTxSteps
      <4>1. Reply(t) \/ AckLost(t)
        BY <1>4, <3>2 DEF RequestNext, Progress, Failure, Reject, Accept, Begin,
           BeginFails,
           ReadSender, ReadReceiver, Debit, Credit, Insert, StatementFails,
           DeadlockAbort, OnCycle, Blocked, Rollback, CommitFails, At, InTxSteps
      <4>2. /\ req' = req /\ pc'[t] = "done" /\ answer'[t] # "rejected"
        BY <4>1 DEF Reply, AckLost, Finish, Goto, TypeInv, TypeOK
      <4>3. QED
        BY <2>1, <2>2, <4>2, BookKept, RowsEnded DEF OthersKept, KnowsInv, BookInv,
           Ended
    <3>3. QED BY <3>1, <3>2
  <2>8. QED BY <2>3, <2>4, <2>5, <2>6, <2>7 DEF KnowsInv
<1>5. QED
  <2>1. CASE \E a \in Accounts, u \in Users, c \in Currencies : CreateAccount(a, u, c)
    BY <1>2, <2>1 DEF CreateAccount
  <2>2. CASE Quiescent \/ UNCHANGED vars
    BY <1>2, <2>2 DEF Quiescent, vars, book
  <2>3. QED BY <1>1, <1>3, <1>4, <2>1, <2>2 DEF Next, RequestNext

IInv == TypeInv /\ VersionInv /\ KnowsInv

\* The inductive invariant: types, versions, and what the checks know.
THEOREM Inductive == Spec => []IInv
<1>1. Init => IInv
  BY TypeInit, VersionInit, KnowsInit DEF IInv
<1>2. IInv /\ [Next]_vars => IInv'
  BY TypeStep, VersionStep, KnowsStep DEF IInv
<1>3. QED BY <1>1, <1>2, PTL DEF Spec

-----------------------------------------------------------------------------
(* The theorems.                                                           *)

\* Every row of transfers is its request, word for word, from an account of
\* the user who asked, between accounts of its currency: what the two SELECTs
\* checked without a lock still holds when the row commits.
THEOREM RowsAreFaithful == Spec => []RowsFaithful
<1>1. IInv => RowsFaithful
  BY DEF IInv, KnowsInv, BookInv
<1>2. QED BY <1>1, Inductive, PTL

\* A client told 201 has its row, one told 400 has none, and no row exists
\* unless its COMMIT ran, whatever fails or crashes.
THEOREM AnswersAreTruthful == Spec => []AnswersTruthful
<1>1. IInv => AnswersTruthful
  BY DEF IInv, KnowsInv, BookInv, Answered, AnswersTruthful
<1>2. QED BY <1>1, Inductive, PTL

\* The row a step posts is that of the request whose COMMIT it is.
LEMMA PostedBy ==
    ASSUME IInv, [Next]_vars, NEW row \in Posted
    PROVE  \E t \in Requests : Commit(t) /\ row = RowOf(t)
<1>1. \E t \in Requests : Commit(t)
  BY BookSteps DEF IInv, Posted
<1>2. QED BY <1>1 DEF Commit, Posted

\* What is debited from an account that no row has lowered since its balance
\* was read is there.
LEMMA QuietIsCovered ==
    ASSUME IInv, [Next]_vars, NEW row \in Posted,
           \A r \in transfers \ snap[row.id] : ~(Moved(r, row.sender) < 0)
    PROVE  Covered(row)
<1>1. PICK t \in Requests : Commit(t) /\ row = RowOf(t)
  BY PostedBy
<1>2. /\ req[t] \in Input /\ row.id = t
      /\ row.sender = req[t].sender /\ row.amount = req[t].amount
      /\ pc[t] \in SenderChecked
  BY <1>1 DEF IInv, TypeInv, Asked, InTxSteps, Commit, At, RowOf, SenderChecked
<1>3. \A r \in transfers \ snap[t] : Moved(r, req[t].sender) >= 0
  <2> SUFFICES ASSUME NEW r \in transfers \ snap[t]
               PROVE  Moved(r, req[t].sender) >= 0
    OBVIOUS
  <2>1. r.amount \in Int /\ Negate(r.amount) \in Int
    BY Int64Facts DEF IInv, TypeInv, TypeOK, Row
  <2>2. Moved(r, req[t].sender) \in Int
    BY <2>1 DEF Moved
  <2>3. QED BY <1>2, <2>2
<1>4. balance[req[t].sender] >= seen[t] /\ seen[t] >= req[t].amount
  BY <1>2, <1>3 DEF IInv, KnowsInv, Knows
<1>5. /\ balance[req[t].sender] \in Int /\ seen[t] \in Int /\ req[t].amount \in Int
  BY <1>2, Int64Facts DEF IInv, TypeInv, TypeOK, Input
<1>6. QED BY <1>2, <1>4, <1>5 DEF Covered

\* "insufficient funds" can only be missed because another posting, made
\* after this transfer's SELECT, lowered the same account.
THEOREM OverdraftsAreRaces == Spec => FundsRace
<1>1. IInv /\ [Next]_vars =>
        \A row \in Posted : \/ Covered(row)
                            \/ \E r \in transfers \ snap[row.id] : Moved(r, row.sender) < 0
  BY QuietIsCovered
<1>2. QED BY <1>1, Inductive, PTL DEF Spec, FundsRace

\* Five statements, in any interleaving and with any failures, implement the
\* ledger: every step posts one transfer whole, opens an account, or changes
\* nothing of the book.
THEOREM BankingImplementsLedger == Spec => ImplementsLedger
<1>1. Init => Book!Init
  BY DEF Init, Book!Init
<1>2. IInv /\ [Next]_vars => [Book!Next]_(Book!vars)
  <2> SUFFICES ASSUME IInv, [Next]_vars
               PROVE  Book!Next \/ UNCHANGED Book!vars
    OBVIOUS
  <2>1. ASSUME NEW t \in Requests, Commit(t)
        PROVE  Book!Next
    <3>1. /\ req[t] \in Input /\ pc[t] = "commit"
          /\ owner[req[t].sender] = req[t].user
          /\ owner[req[t].receiver] # Null
          /\ currency[req[t].sender] = req[t].currency
          /\ currency[req[t].receiver] = req[t].currency
      BY <2>1 DEF IInv, TypeInv, Asked, InTxSteps, Commit, At, KnowsInv, Knows,
                  SenderChecked, BothChecked
    <3>2. RowOf(t) \in Row /\ owner[req[t].sender] # Null
      BY <3>1, NullAssumption DEF RowOf, Row, Input
    <3>3. \A r \in transfers : r.id # RowOf(t).id
      BY <3>1, RowsEnded DEF IInv, RowOf, Ended
    <3>4. \A a \in Accounts : balance'[a] = balance[a] + Moved(RowOf(t), a)
      BY <2>1, CommitEffect DEF IInv
    <3>5. balance' \in [Accounts -> Int64]
      BY TypeStep DEF IInv, TypeInv, TypeOK
    <3>6. balance' = [a \in Accounts |-> balance[a] + Moved(RowOf(t), a)]
      BY <3>4, <3>5
    <3>7. Book!Post(RowOf(t))
      BY <2>1, <3>1, <3>2, <3>3, <3>5, <3>6
      DEF Commit, Book!Post, RowOf, Moved, Book!Moved, Negate, Book!Negate,
          Int64, Book!Int64, MinInt, Book!MinInt
    <3>8. QED
      BY <3>2, <3>7 DEF Book!Next, Row, Book!Row, Int64, Book!Int64, MinInt, Book!MinInt
  <2>2. ASSUME NEW a \in Accounts, NEW u \in Users, NEW c \in Currencies,
               CreateAccount(a, u, c)
        PROVE  Book!Next
    BY <2>2 DEF CreateAccount, Book!Next, Book!Open
  <2>3. ASSUME NEW t \in Requests, RequestNext(t), ~Commit(t)
        PROVE  UNCHANGED Book!vars
    BY <2>3 DEF RequestNext, Progress, Failure, Reject, Accept, Begin, BeginFails,
       ReadSender,
       ReadReceiver, Debit, Credit, UpdateBalance, Insert, StatementFails,
       DeadlockAbort,
       Rollback, CommitFails, Reply, AckLost, book, Book!vars
  <2>4. CASE Crash \/ Quiescent \/ UNCHANGED vars
    BY <2>4 DEF Crash, Quiescent, vars, book, Book!vars
  <2>5. QED BY <2>1, <2>2, <2>3, <2>4 DEF Next, RequestNext
<1>3. QED
  BY <1>1, <1>2, Inductive, PTL DEF Spec, ImplementsLedger, Book!Spec

-----------------------------------------------------------------------------
(* Transfers that run side by side on accounts of their own.               *)

\* No open transaction moves money of the account another one debits: what a
\* lock on the sender's account, taken with its SELECT, would bring about.
Apart == \A t, u \in InTx :
             t # u => req[t].sender \notin {req[u].sender, req[u].receiver}

\* No row has moved the sender's account since its balance was read.
Undisturbed == \A t \in Requests : pc[t] \in SenderChecked =>
                   \A r \in transfers \ snap[t] : Moved(r, req[t].sender) = 0

LEMMA UndisturbedStep ==
    ASSUME IInv, Apart, Undisturbed, [Next]_vars
    PROVE  Undisturbed'
<1> USE DEF IInv, TypeInv, TypeOK
<1>1. ASSUME NEW t \in Requests, Commit(t)
      PROVE  Undisturbed'
  <2>1. /\ pc[t] = "commit" /\ pc'[t] = "committed"
        /\ transfers' = transfers \cup {RowOf(t)} /\ OthersKept(t)
    BY <1>1, OneRequestMoves DEF Commit, Goto, At, RequestNext, Progress
  <2>2. ASSUME NEW u \in Requests \ {t}, pc[u] \in SenderChecked
        PROVE  Moved(RowOf(t), req[u].sender) = 0
    <3>1. t \in InTx /\ u \in InTx
      BY <2>1, <2>2 DEF InTx, InTxSteps, SenderChecked
    <3>2. QED BY <3>1 DEF Apart, Moved, RowOf
  <2>3. pc'[t] \notin SenderChecked
    BY <2>1 DEF SenderChecked
  <2>4. QED BY <2>1, <2>2, <2>3 DEF Undisturbed, OthersKept, Moved
<1>2. ASSUME NEW t \in Requests, RequestNext(t), ~Commit(t)
      PROVE  Undisturbed'
  <2>1. OthersKept(t)
    BY <1>2, OneRequestMoves
  <2>2. UNCHANGED transfers
    BY <1>2 DEF RequestNext, Progress, Failure, Reject, Accept, Begin, BeginFails,
       ReadSender,
       ReadReceiver, Debit, Credit, UpdateBalance, Insert, StatementFails,
       DeadlockAbort,
       Rollback, CommitFails, Reply, AckLost, book
  <2>3. pc'[t] \in SenderChecked =>
          \/ pc[t] \in SenderChecked /\ snap'[t] = snap[t] /\ req'[t] = req[t]
          \/ snap'[t] = transfers
    BY <1>2 DEF RequestNext, Progress, Failure, Reject, Accept, Begin, BeginFails,
       ReadSender,
       ReadReceiver, Debit, Credit, UpdateBalance, Insert, StatementFails,
       DeadlockAbort,
       OnCycle, Blocked, Rollback, CommitFails, Reply, AckLost, Goto, Finish, At,
       SenderChecked, InTxSteps
  <2>4. QED BY <2>1, <2>2, <2>3 DEF Undisturbed, OthersKept, Moved
<1>3. CASE \E a \in Accounts, u \in Users, c \in Currencies : CreateAccount(a, u, c)
  BY <1>3 DEF CreateAccount, Undisturbed, Moved
<1>4. CASE Crash
  BY <1>4 DEF Crash, Active, Ended, Undisturbed, SenderChecked, book
<1>5. CASE Quiescent \/ UNCHANGED vars
  BY <1>5 DEF Quiescent, vars, book, Undisturbed, Moved
<1>6. QED BY <1>1, <1>2, <1>3, <1>4, <1>5 DEF Next

\* However many connections the pool has, an overdraft needs two transactions
\* open at once of which one moves the account the other debits: as long as
\* there are none, every transfer is covered when it posts. Where there are
\* two, it need not be (run banking_overdraft).
THEOREM SeparateTransfersAreCovered == Spec /\ []Apart => FundsCovered
<1>1. Init => Undisturbed
  BY DEF Init, Undisturbed, SenderChecked
<1>2. IInv /\ Apart /\ Undisturbed /\ [Next]_vars => Undisturbed'
  BY UndisturbedStep
<1>3. IInv /\ Undisturbed /\ [Next]_vars => \A row \in Posted : Covered(row)
  <2> SUFFICES ASSUME IInv, Undisturbed, [Next]_vars, NEW row \in Posted
               PROVE  Covered(row)
    OBVIOUS
  <2>1. PICK t \in Requests : Commit(t) /\ row = RowOf(t)
    BY PostedBy
  <2>2. pc[t] \in SenderChecked /\ row.id = t /\ row.sender = req[t].sender
    BY <2>1 DEF Commit, At, RowOf, SenderChecked
  <2>3. \A r \in transfers \ snap[row.id] : ~(Moved(r, row.sender) < 0)
    BY <2>2 DEF Undisturbed
  <2>4. QED BY <2>3, QuietIsCovered
<1>4. QED
  BY <1>1, <1>2, <1>3, Inductive, PTL DEF Spec, FundsCovered

-----------------------------------------------------------------------------
(* Sums over finite sets. SumFunctionOnSet is a recursion over the subsets *)
(* of its set; what it computes is proved by taking a smallest subset of   *)
(* which it would be wrong.                                                *)

\* Induction over the subsets of a finite set, as the least counterexample:
\* a set of them has one that contains no other.
LEMMA SmallestSubset ==
    ASSUME NEW T, IsFiniteSet(T), NEW Bad, Bad \subseteq SUBSET T, Bad # {}
    PROVE  \E s \in Bad : \A u \in Bad : u \subseteq s => u = s
<1>1. IsWellFoundedOn(StrictSubsetOrdering(T), FiniteSubsetsOf(T))
  BY FS_StrictSubsetOrderingWellFounded
<1>2. Bad \subseteq FiniteSubsetsOf(T)
  BY FS_FiniteSubsetsOfFinite
<1>3. PICK s \in Bad : \A u \in Bad : <<u, s>> \notin StrictSubsetOrdering(T)
  BY <1>1, <1>2, WFMin
<1>4. ASSUME NEW u \in Bad, u \subseteq s, u # s
      PROVE  FALSE
  <2>1. <<u, s>> \in (SUBSET T) \X (SUBSET T)
    BY <1>3
  <2>2. <<u, s>> \in StrictSubsetOrdering(T)
    BY <1>4, <2>1 DEF StrictSubsetOrdering
  <2>3. QED BY <1>3, <2>2
<1>5. QED BY <1>3, <1>4

Some(s) == CHOOSE x \in s : TRUE

\* One step of the recursion behind SumFunctionOnSet.
SumStep(f, g, s) == IF s = {} THEN 0 ELSE f[Some(s)] + g[s \ {Some(s)}]

Sums(f, T, g) == g = [s \in SUBSET T |-> SumStep(f, g, s)]

LEMMA SomeOf == ASSUME NEW s, s # {}
                PROVE  Some(s) \in s
BY DEF Some

\* The recursion has a solution: one that is right for the subsets of some
\* size gives one that is right for the next size.
LEMMA SumsExist ==
    ASSUME NEW T, IsFiniteSet(T), NEW f
    PROVE  \E g : Sums(f, T, g)
<1> DEFINE Right(g, k) == \A u \in SUBSET T : Cardinality(u) <= k => g[u] = SumStep(f, g, u)
           Bad == {s \in SUBSET T : ~ \E g : Right(g, Cardinality(s))}
<1>1. \A u \in SUBSET T : IsFiniteSet(u) /\ Cardinality(u) \in Nat
  BY FS_Subset, FS_CardinalityType
<1>2. ASSUME NEW s \in Bad, \A u \in Bad : u \subseteq s => u = s
      PROVE  FALSE
  <2>1. CASE s = {}
    <3> DEFINE G == [u \in SUBSET T |-> 0]
    <3>1. Right(G, Cardinality(s))
      BY <1>1, <2>1, FS_EmptySet DEF SumStep
    <3>2. QED BY <3>1
  <2>2. CASE s # {}
    <3>1. PICK x \in s : TRUE
      BY <2>2
    <3> DEFINE r == s \ {x}
    <3>2. Cardinality(r) = Cardinality(s) - 1 /\ r \in SUBSET T /\ r # s /\ r \subseteq s
      BY <1>1, <3>1, FS_RemoveElement
    <3>3. PICK g : Right(g, Cardinality(r))
      BY <1>2, <3>2
    <3> DEFINE G == [u \in SUBSET T |-> SumStep(f, g, u)]
    <3>4. ASSUME NEW u \in SUBSET T, Cardinality(u) <= Cardinality(s)
          PROVE  G[u] = SumStep(f, G, u)
      <4>1. CASE u = {}
        BY <4>1 DEF SumStep
      <4>2. CASE u # {}
        <5> DEFINE v == u \ {Some(u)}
        <5>1. Some(u) \in u
          BY <4>2, SomeOf
        <5>2. v \in SUBSET T /\ Cardinality(v) <= Cardinality(r)
          <6>1. Cardinality(v) = Cardinality(u) - 1
            BY <1>1, <5>1, FS_RemoveElement
          <6>2. Cardinality(u) \in Nat /\ Cardinality(s) \in Nat
            BY <1>1, <1>2
          <6>3. QED BY <3>2, <3>4, <6>1, <6>2
        <5>3. G[v] = g[v]
          BY <3>3, <5>2
        <5>4. G[u] = f[Some(u)] + g[v] /\ SumStep(f, G, u) = f[Some(u)] + G[v]
          BY <4>2 DEF SumStep
        <5>5. QED BY <5>3, <5>4
      <4>3. QED BY <4>1, <4>2
    <3>5. Right(G, Cardinality(s))
      BY <3>4
    <3>6. QED BY <3>5
  <2>3. QED BY <2>1, <2>2
<1>3. Bad = {}
  <2>1. Bad \subseteq SUBSET T
    OBVIOUS
  <2> HIDE DEF Bad
  <2>2. QED BY <1>2, <2>1, SmallestSubset
<1>4. PICK g : Right(g, Cardinality(T))
  BY <1>3
<1> DEFINE G == [u \in SUBSET T |-> SumStep(f, g, u)]
<1>5. ASSUME NEW u \in SUBSET T
      PROVE  G[u] = SumStep(f, G, u)
  <2>1. \A v \in SUBSET T : Cardinality(v) <= Cardinality(T)
    BY FS_Subset
  <2>2. CASE u = {}
    BY <2>2 DEF SumStep
  <2>3. CASE u # {}
    <3> DEFINE v == u \ {Some(u)}
    <3>1. G[v] = g[v]
      BY <1>4, <2>1
    <3>2. G[u] = f[Some(u)] + g[v] /\ SumStep(f, G, u) = f[Some(u)] + G[v]
      BY <2>3 DEF SumStep
    <3>3. QED BY <3>1, <3>2
  <2>4. QED BY <2>2, <2>3
<1>6. Sums(f, T, G)
  BY <1>5 DEF Sums
<1>7. QED BY <1>6

SumFcn(f, T) == CHOOSE g : Sums(f, T, g)

LEMMA SumsOf ==
    ASSUME NEW T, IsFiniteSet(T), NEW f
    PROVE  /\ SumFunctionOnSet(f, T) = SumFcn(f, T)[T]
           /\ Sums(f, T, SumFcn(f, T))
<1>1. SumFunctionOnSet(f, T) = SumFcn(f, T)[T]
  BY DEF SumFunctionOnSet, FoldFunctionOnSet, MapThenFoldSet, Sums, Some, SumFcn, SumStep
<1>2. Sums(f, T, SumFcn(f, T))
  BY SumsExist DEF SumFcn
<1>3. QED BY <1>1, <1>2

LEMMA SumsAt ==
    ASSUME NEW T, NEW f, NEW g, Sums(f, T, g), NEW s \in SUBSET T
    PROVE  g[s] = SumStep(f, g, s)
BY DEF Sums

\* It has one solution, which depends only on the values it adds.
LEMMA SumsAgree ==
    ASSUME NEW T, IsFiniteSet(T),
           NEW V, NEW W, T \subseteq V, T \subseteq W,
           NEW f, NEW h, \A x \in T : f[x] = h[x],
           NEW g, Sums(f, V, g), NEW k, Sums(h, W, k)
    PROVE  g[T] = k[T]
<1> DEFINE Bad == {s \in SUBSET T : g[s] # k[s]}
<1>1. ASSUME NEW s \in Bad, \A u \in Bad : u \subseteq s => u = s
      PROVE  FALSE
  <2>1. g[s] = SumStep(f, g, s) /\ k[s] = SumStep(h, k, s)
    BY SumsAt
  <2>2. CASE s = {}
    BY <2>1, <2>2 DEF SumStep
  <2>3. CASE s # {}
    <3>1. Some(s) \in s
      BY <2>3, SomeOf
    <3>2. g[s \ {Some(s)}] = k[s \ {Some(s)}]
      BY <1>1, <3>1
    <3>3. QED BY <2>1, <2>3, <3>1, <3>2 DEF SumStep
  <2>4. QED BY <2>2, <2>3
<1>2. Bad = {}
  <2>1. Bad \subseteq SUBSET T
    OBVIOUS
  <2> HIDE DEF Bad
  <2>2. QED BY <1>1, <2>1, SmallestSubset
<1>3. QED BY <1>2

\* The order in which the elements are taken does not matter.
LEMMA SumsPick ==
    ASSUME NEW T, IsFiniteSet(T), NEW f, \A x \in T : f[x] \in Int,
           NEW g, Sums(f, T, g)
    PROVE  \A s \in SUBSET T : /\ g[s] \in Int
                               /\ \A y \in s : g[s] = f[y] + g[s \ {y}]
<1> DEFINE Good(s) == g[s] \in Int /\ \A y \in s : g[s] = f[y] + g[s \ {y}]
           Bad == {s \in SUBSET T : ~ Good(s)}
<1>1. ASSUME NEW s \in Bad, \A u \in Bad : u \subseteq s => u = s
      PROVE  FALSE
  <2>1. g[s] = SumStep(f, g, s)
    BY SumsAt
  <2>2. CASE s = {}
    BY <2>1, <2>2 DEF SumStep
  <2>3. CASE s # {}
    <3> DEFINE x == Some(s)
    <3>1. x \in s /\ g[s] = f[x] + g[s \ {x}]
      BY <2>1, <2>3, SomeOf DEF SumStep
    <3>2. \A u \in SUBSET s : u # s => Good(u)
      BY <1>1
    <3>3. g[s \ {x}] \in Int /\ f[x] \in Int
      BY <3>1, <3>2
    <3>4. ASSUME NEW y \in s, y # x
          PROVE  g[s] = f[y] + g[s \ {y}]
      <4>1. (s \ {x}) \ {y} = (s \ {y}) \ {x}
        OBVIOUS
      <4>2. g[s \ {x}] = f[y] + g[(s \ {x}) \ {y}] /\ g[(s \ {x}) \ {y}] \in Int
        BY <3>1, <3>2, <3>4
      <4>3. g[s \ {y}] = f[x] + g[(s \ {y}) \ {x}]
        BY <3>1, <3>2, <3>4
      <4>4. f[y] \in Int /\ g[s] = f[x] + g[s \ {x}]
        BY <3>1
      <4> DEFINE d == g[(s \ {x}) \ {y}]
      <4>5. g[s] = f[x] + (f[y] + d) /\ g[s \ {y}] = f[x] + d /\ d \in Int
        BY <4>1, <4>2, <4>3, <4>4
      <4> HIDE DEF d
      <4>6. QED BY <3>3, <4>4, <4>5
    <3>5. g[s] \in Int
      BY <3>1, <3>3
    <3>6. \A y \in s : g[s] = f[y] + g[s \ {y}]
      BY <3>1, <3>4
    <3>7. Good(s)
      BY <3>5, <3>6
    <3>8. QED BY <3>7
  <2>4. QED BY <2>2, <2>3
<1>2. Bad = {}
  <2>1. Bad \subseteq SUBSET T
    OBVIOUS
  <2> HIDE DEF Bad
  <2>2. QED BY <1>1, <2>1, SmallestSubset
<1>3. QED BY <1>2

LEMMA SumsTake ==
    ASSUME NEW T, IsFiniteSet(T), NEW f, \A x \in T : f[x] \in Int,
           NEW g, Sums(f, T, g), NEW y \in T
    PROVE  g[T] = f[y] + g[T \ {y}]
BY SumsPick

LEMMA SumEmpty == ASSUME NEW f
                  PROVE  SumFunctionOnSet(f, {}) = 0
BY SumsOf, SumsAt, FS_EmptySet DEF SumStep

LEMMA SumType ==
    ASSUME NEW T, IsFiniteSet(T), NEW f, \A x \in T : f[x] \in Int
    PROVE  SumFunctionOnSet(f, T) \in Int
BY SumsOf, SumsPick

LEMMA SumSame ==
    ASSUME NEW T, IsFiniteSet(T), NEW f, NEW h, \A x \in T : f[x] = h[x]
    PROVE  SumFunctionOnSet(f, T) = SumFunctionOnSet(h, T)
BY SumsOf, SumsAgree

LEMMA SumAdd ==
    ASSUME NEW T, IsFiniteSet(T), NEW x, x \notin T,
           NEW f, \A y \in T \cup {x} : f[y] \in Int
    PROVE  SumFunctionOnSet(f, T \cup {x}) = f[x] + SumFunctionOnSet(f, T)
<1> DEFINE U == T \cup {x}
<1>1. IsFiniteSet(U) /\ U \ {x} = T
  BY FS_AddElement
<1>2. PICK g : Sums(f, U, g) /\ SumFunctionOnSet(f, U) = g[U]
  BY <1>1, SumsOf
<1>3. g[U] = f[x] + g[U \ {x}]
  <2>1. x \in U /\ \A y \in U : f[y] \in Int
    OBVIOUS
  <2> HIDE DEF U
  <2>2. QED BY <1>1, <1>2, <2>1, SumsTake
<1>4. g[U] = f[x] + g[T]
  BY <1>1, <1>3
<1>5. PICK h : Sums(f, T, h) /\ SumFunctionOnSet(f, T) = h[T]
  BY SumsOf
<1>6. h[T] = g[T]
  BY <1>2, <1>5, SumsAgree
<1>7. QED BY <1>2, <1>4, <1>5, <1>6

LEMMA SumChange ==
    ASSUME NEW T, IsFiniteSet(T), NEW a \in T,
           NEW f, \A x \in T : f[x] \in Int,
           NEW h, \A x \in T : h[x] \in Int,
           \A x \in T \ {a} : h[x] = f[x]
    PROVE  SumFunctionOnSet(h, T) = SumFunctionOnSet(f, T) + h[a] - f[a]
<1> DEFINE U == T \ {a}
<1>1. IsFiniteSet(U) /\ a \notin U /\ U \cup {a} = T
  BY FS_RemoveElement
<1>2. SumFunctionOnSet(f, T) = f[a] + SumFunctionOnSet(f, U)
  BY <1>1, SumAdd
<1>3. SumFunctionOnSet(h, T) = h[a] + SumFunctionOnSet(h, U)
  BY <1>1, SumAdd
<1>4. SumFunctionOnSet(f, U) = SumFunctionOnSet(h, U) /\ SumFunctionOnSet(f, U) \in Int
  BY <1>1, SumSame, SumType
<1>5. QED BY <1>2, <1>3, <1>4

-----------------------------------------------------------------------------
(* The ledger keeps its accounts. Nothing here is about requests: it holds *)
(* of every step of Ledger, and so of Banking, which implements it.        *)

LedgerInv == /\ owner \in [Accounts -> Users \cup {Null}]
             /\ currency \in [Accounts -> Currencies \cup {Null}]
             /\ balance \in [Accounts -> Int64]
             /\ transfers \subseteq Row
             /\ IsFiniteSet(transfers)
             /\ \A a \in Accounts : owner[a] = Null => currency[a] = Null /\ balance[a] = 0
             /\ LedgerAgrees
             /\ MoneyConserved

\* What Ledger!Post does, in the terms of this module.
LEMMA PostEffect ==
    ASSUME NEW row \in Book!Row, Book!Post(row)
    PROVE  /\ row \in Row /\ row \notin transfers
           /\ \A a \in {row.sender, row.receiver} : owner[a] # Null /\ currency[a] = row.currency
           /\ transfers' = transfers \cup {row}
           /\ balance' \in [Accounts -> Int64]
           /\ \A a \in Accounts : balance'[a] = balance[a] + Moved(row, a)
           /\ UNCHANGED <<owner, currency>>
BY DEF Book!Post, Moved, Book!Moved, Negate, Book!Negate, Row, Book!Row,
       Int64, Book!Int64, MinInt, Book!MinInt

LEMMA RowFacts ==
    ASSUME NEW row \in Row
    PROVE  /\ row.sender \in Accounts /\ row.receiver \in Accounts
           /\ row.amount \in Int64 /\ row.amount \in Int
           /\ Negate(row.amount) \in Int
           /\ row.currency \in Currencies /\ row.currency # Null
           /\ \A a \in Accounts : Moved(row, a) \in Int
<1>1. /\ row.sender \in Accounts /\ row.receiver \in Accounts
      /\ row.amount \in Int64 /\ row.currency \in Currencies
  BY DEF Row
<1>2. row.amount \in Int /\ Negate(row.amount) \in Int
  BY <1>1, Int64Facts
<1>3. \A a \in Accounts : Moved(row, a) \in Int
  BY <1>2 DEF Moved
<1>4. QED BY <1>1, <1>2, <1>3

LEMMA PostAgrees ==
    ASSUME LedgerInv, NEW row \in Book!Row, Book!Post(row)
    PROVE  IsFiniteSet(transfers') /\ LedgerAgrees'
<1>1. IsFiniteSet(transfers')
  BY PostEffect, FS_AddElement DEF LedgerInv
<1>2. ASSUME NEW a \in Accounts
      PROVE  balance'[a] = Opening(a) + SumFunction([r \in transfers' |-> Moved(r, a)])
  <2> DEFINE f == [r \in transfers |-> Moved(r, a)]
             g == [r \in transfers' |-> Moved(r, a)]
  <2>1. transfers' = transfers \cup {row} /\ row \notin transfers /\ row \in Row
    BY PostEffect
  <2>2. \A r \in transfers' : g[r] \in Int
    BY <2>1, RowFacts DEF LedgerInv
  <2>3. /\ DOMAIN f = transfers /\ DOMAIN g = transfers' /\ g[row] = Moved(row, a)
        /\ \A r \in transfers : f[r] = g[r]
    BY <2>1
  <2> HIDE DEF f, g
  <2>4. SumFunctionOnSet(g, transfers') = g[row] + SumFunctionOnSet(g, transfers)
    BY <2>1, <2>2, SumAdd DEF LedgerInv
  <2>5. SumFunctionOnSet(f, transfers) = SumFunctionOnSet(g, transfers)
    BY <2>3, SumSame DEF LedgerInv
  <2>6. balance[a] = Opening(a) + SumFunctionOnSet(f, transfers)
    BY <2>3 DEF LedgerInv, LedgerAgrees, SumFunction, f
  <2>7. SumFunctionOnSet(g, transfers) \in Int
    BY <2>1, <2>2, SumType DEF LedgerInv
  <2>8. balance'[a] = balance[a] + Moved(row, a) /\ Moved(row, a) \in Int /\ Opening(a) \in Int
    BY <2>1, PostEffect, RowFacts, Int64Facts DEF Opening
  <2>9. balance'[a] = Opening(a) + SumFunctionOnSet(g, transfers')
    BY <2>3, <2>4, <2>5, <2>6, <2>7, <2>8
  <2>10. QED BY <2>3, <2>9 DEF SumFunction, g
<1>3. QED BY <1>1, <1>2 DEF LedgerAgrees, Opening

LEMMA WidthFacts == Width \in Nat \ {0} /\ Width = -2 * MinInt
BY DEF Width, MinInt

\* A remainder is not changed by one Width less.
LEMMA OneWidthLess ==
    ASSUME NEW x \in Int, NEW w \in Nat \ {0}
    PROVE  (x - w) % w = x % w
<1>1. /\ x % w \in 0..(w - 1) /\ x = w * (x \div w) + (x % w) /\ x \div w \in Int
      /\ (x - w) % w \in 0..(w - 1) /\ x - w = w * ((x - w) \div w) + ((x - w) % w)
      /\ (x - w) \div w \in Int
  OBVIOUS
<1>2. PICK p \in Int, q \in Int, m \in 0..(w - 1), n \in 0..(w - 1) :
         /\ x % w = m /\ x = w * p + m
         /\ (x - w) % w = n /\ x - w = w * q + n
  BY <1>1
<1>3. w * (p - q - 1) = n - m
  BY <1>2
<1>4. p - q - 1 = 0
  <2> DEFINE d == p - q - 1
  <2>1. d \in Int /\ w * d = n - m /\ n - m < w /\ n - m > -w
    BY <1>3
  <2> HIDE DEF d
  <2>2. d >= 1 => w * d >= w
    BY <2>1
  <2>3. d <= -1 => w * d <= -w
    BY <2>1
  <2>4. d = 0
    BY <2>1, <2>2, <2>3
  <2>5. QED BY <2>4 DEF d
<1>5. w * (p - q - 1) = 0
  BY <1>4
<1>6. QED BY <1>2, <1>3, <1>5

\* The accounts of a currency lose together what Negate does not give back.
LEMMA PostTotal ==
    ASSUME LedgerInv, NEW row \in Book!Row, Book!Post(row), NEW c \in Currencies
    PROVE  /\ Total(c) \in Int
           /\ \/ Total(c)' = Total(c)
              \/ row.amount = MinInt /\ Total(c)' = Total(c) - Width
<1> DEFINE T == InCurrency(c, currency)
           s == row.sender
           r == row.receiver
           n == row.amount
           mid == [balance EXCEPT ![s] = balance[s] + Negate(n)]
<1>1. /\ IsFiniteSet(T) /\ T' = T
      /\ \A a \in T : balance[a] \in Int /\ balance'[a] \in Int
  <2>1. T \in SUBSET Accounts /\ T' = T
    BY PostEffect DEF InCurrency
  <2>2. \A a \in Accounts : balance[a] \in Int /\ balance'[a] \in Int
    BY PostEffect, Int64Facts DEF LedgerInv
  <2>3. QED BY <2>1, <2>2, AccountsAssumption, FS_Subset
<1>2. /\ row \in Row /\ s \in Accounts /\ r \in Accounts /\ n \in Int64 /\ n \in Int
      /\ Negate(n) \in Int
      /\ currency[s] = row.currency /\ currency[r] = row.currency
      /\ \A a \in Accounts : balance'[a] = balance[a] + Moved(row, a)
  BY PostEffect, RowFacts
<1>3. Total(c) = SumFunctionOnSet(balance, T) /\ Total(c)' = SumFunctionOnSet(balance', T)
  BY <1>1 DEF Total
<1>4. Total(c) \in Int
  BY <1>1, <1>3, SumType
<1>5. CASE c # row.currency
  <2>1. \A a \in T : balance'[a] = balance[a]
    BY <1>1, <1>2, <1>5 DEF InCurrency, Moved
  <2>2. QED BY <1>1, <1>3, <1>4, <2>1, SumSame
<1>6. CASE c = row.currency
  <2>1. s \in T /\ r \in T
    BY <1>2, <1>6 DEF InCurrency
  <2>2. Total(c)' = Total(c) + Negate(n) + n
    <3>1. CASE s = r
      <4>1. /\ balance'[s] = balance[s] + (Negate(n) + n)
            /\ \A a \in T \ {s} : balance'[a] = balance[a]
        BY <1>1, <1>2, <3>1 DEF Moved, InCurrency
      <4>2. SumFunctionOnSet(balance', T) = SumFunctionOnSet(balance, T) + balance'[s] - balance[s]
        <5> HIDE DEF T, s
        <5>1. QED BY <1>1, <2>1, <4>1, SumChange
      <4>3. balance[s] \in Int
        BY <1>1, <2>1
      <4>4. QED BY <1>2, <1>3, <1>4, <4>1, <4>2, <4>3
    <3>2. CASE s # r
      <4>1. /\ mid[s] = balance[s] + Negate(n) /\ mid[r] = balance[r]
            /\ \A a \in T \ {s} : mid[a] = balance[a]
            /\ \A a \in T \ {r} : balance'[a] = mid[a]
            /\ balance'[r] = balance[r] + n
            /\ \A a \in T : mid[a] \in Int
        BY <1>1, <1>2, <3>2 DEF Moved, InCurrency, LedgerInv
      <4>2. /\ SumFunctionOnSet(mid, T) = SumFunctionOnSet(balance, T) + mid[s] - balance[s]
            /\ SumFunctionOnSet(balance', T) = SumFunctionOnSet(mid, T) + balance'[r] - mid[r]
        <5> HIDE DEF T, s, r, mid
        <5>1. QED BY <1>1, <2>1, <4>1, SumChange
      <4>3. balance[s] \in Int /\ balance[r] \in Int
        BY <1>1, <2>1
      <4>4. QED
        <5> HIDE DEF mid, s, r, n
        <5>1. QED BY <1>2, <1>3, <1>4, <4>1, <4>2, <4>3
    <3>3. QED BY <3>1, <3>2
  <2>3. Negate(n) + n = IF n = MinInt THEN -Width ELSE 0
    BY <1>2, WidthFacts, Int64Facts DEF Negate
  <2>4. QED
    <3>1. Total(c)' = Total(c) + (Negate(n) + n)
      BY <1>2, <1>4, <2>2
    <3>2. QED BY <1>4, <2>3, <3>1, WidthFacts
<1>7. QED BY <1>4, <1>5, <1>6

LEMMA PostConserves ==
    ASSUME LedgerInv, NEW row \in Book!Row, Book!Post(row)
    PROVE  MoneyConserved'
<1> SUFFICES ASSUME NEW c \in Currencies
             PROVE  /\ Total(c)' % Width = Opened(c) % Width
                    /\ (\A r \in transfers' : r.amount # MinInt) => Total(c)' = Opened(c)
  BY DEF MoneyConserved, Width, Opened, InCurrency
<1>1. Total(c) \in Int /\ \/ Total(c)' = Total(c)
                          \/ row.amount = MinInt /\ Total(c)' = Total(c) - Width
  BY PostTotal
<1>2. /\ Total(c) % Width = Opened(c) % Width
      /\ (\A r \in transfers : r.amount # MinInt) => Total(c) = Opened(c)
  BY DEF LedgerInv, MoneyConserved
<1>3. transfers' = transfers \cup {row}
  BY PostEffect
<1>4. Total(c)' % Width = Total(c) % Width
  BY <1>1, WidthFacts, OneWidthLess
<1>5. QED BY <1>1, <1>2, <1>3, <1>4

LEMMA OpenStep ==
    ASSUME LedgerInv, NEW a \in Accounts, NEW u \in Users, NEW k \in Currencies,
           Book!Open(a, u, k)
    PROVE  LedgerInv'
<1>1. /\ owner[a] = Null /\ currency[a] = Null /\ balance[a] = 0
      /\ owner' = [owner EXCEPT ![a] = u]
      /\ currency' = [currency EXCEPT ![a] = k]
      /\ UNCHANGED <<balance, transfers>>
  BY DEF Book!Open, LedgerInv
<1>2. /\ owner' \in [Accounts -> Users \cup {Null}]
      /\ currency' \in [Accounts -> Currencies \cup {Null}]
      /\ \A b \in Accounts : owner'[b] = Null => currency'[b] = Null /\ balance'[b] = 0
  BY <1>1 DEF LedgerInv
<1>3. LedgerAgrees'
  BY <1>1 DEF LedgerInv, LedgerAgrees, Opening
<1>4. ASSUME NEW c \in Currencies
      PROVE  Total(c)' = Total(c)
  <2> DEFINE T == InCurrency(c, currency)
             U == InCurrency(c, currency')
  <2>1. Total(c) = SumFunctionOnSet(balance, T) /\ Total(c)' = SumFunctionOnSet(balance, U)
    BY <1>1 DEF Total
  <2>2. CASE c # k
    <3>1. U = T
      BY <1>1, <2>2 DEF InCurrency, LedgerInv
    <3>2. QED BY <2>1, <3>1
  <2>3. CASE c = k
    <3>1. U = T \cup {a} /\ a \notin T /\ T \in SUBSET Accounts
      BY <1>1, <2>3, NullAssumption DEF InCurrency, LedgerInv
    <3>2. IsFiniteSet(T)
      BY <3>1, AccountsAssumption, FS_Subset
    <3>3. (\A b \in T \cup {a} : balance[b] \in Int) /\ balance[a] = 0
      BY <1>1, <3>1, Int64Facts DEF LedgerInv
    <3>4. SumFunctionOnSet(balance, T) \in Int
      BY <3>2, <3>3, SumType
    <3>5. SumFunctionOnSet(balance, U) = balance[a] + SumFunctionOnSet(balance, T)
      <4> HIDE DEF T, U
      <4>1. QED BY <3>1, <3>2, <3>3, SumAdd
    <3>6. QED BY <2>1, <3>3, <3>4, <3>5
  <2>4. QED BY <2>2, <2>3
<1>5. MoneyConserved'
  BY <1>1, <1>4 DEF LedgerInv, MoneyConserved, Width, Opened, InCurrency
<1>6. QED BY <1>1, <1>2, <1>3, <1>5 DEF LedgerInv

LEMMA LedgerInit == Book!Init => LedgerInv
<1> SUFFICES ASSUME Book!Init
             PROVE  LedgerInv
  OBVIOUS
<1>1. owner = Owner0 /\ currency = Currency0 /\ balance = Balance0 /\ transfers = {}
  BY DEF Book!Init
<1>2. IsFiniteSet(transfers)
  BY <1>1, FS_EmptySet
<1>3. ASSUME NEW a \in Accounts
      PROVE  balance[a] = Opening(a) + SumFunction([row \in transfers |-> Moved(row, a)])
  <2>1. SumFunction([row \in transfers |-> Moved(row, a)]) = 0
    BY <1>1, SumEmpty DEF SumFunction
  <2>2. Balance0[a] \in Int
    BY Int64Facts
  <2>3. QED BY <1>1, <2>1, <2>2 DEF Opening
<1>4. MoneyConserved
  BY <1>1 DEF MoneyConserved, Total, Opened
<1>5. QED BY <1>1, <1>2, <1>3, <1>4 DEF LedgerInv, LedgerAgrees

LEMMA LedgerStep == LedgerInv /\ [Book!Next]_(Book!vars) => LedgerInv'
<1> SUFFICES ASSUME LedgerInv, [Book!Next]_(Book!vars)
             PROVE  LedgerInv'
  OBVIOUS
<1>1. ASSUME NEW row \in Book!Row, Book!Post(row)
      PROVE  LedgerInv'
  <2>1. IsFiniteSet(transfers') /\ LedgerAgrees' /\ MoneyConserved'
    BY <1>1, PostAgrees, PostConserves
  <2>2. ASSUME NEW a \in Accounts, owner'[a] = Null
        PROVE  currency'[a] = Null /\ balance'[a] = 0
    <3>1. owner[a] = Null /\ currency[a] = Null /\ balance[a] = 0 /\ currency'[a] = currency[a]
      BY <1>1, <2>2, PostEffect DEF LedgerInv
    <3>2. a # row.sender /\ a # row.receiver
      BY <1>1, <3>1, PostEffect
    <3>3. Moved(row, a) = 0
      BY <3>2 DEF Moved
    <3>4. QED BY <1>1, <3>1, <3>3, PostEffect
  <2>3. QED BY <1>1, <2>1, <2>2, PostEffect DEF LedgerInv
<1>2. ASSUME NEW a \in Accounts, NEW u \in Users, NEW k \in Currencies, Book!Open(a, u, k)
      PROVE  LedgerInv'
  BY <1>2, OpenStep
<1>3. CASE UNCHANGED Book!vars
  BY <1>3 DEF Book!vars, LedgerInv, LedgerAgrees, Opening, MoneyConserved, Total, Opened,
     Width, InCurrency
<1>4. QED BY <1>1, <1>2, <1>3 DEF Book!Next

\* The balances and the book agree in every reachable state, because the book
\* of the abstract ledger does.
THEOREM BalancesAreTheBook == Spec => []LedgerAgrees
<1>1. LedgerInv => LedgerAgrees
  BY DEF LedgerInv
<1>2. QED
  BY <1>1, LedgerInit, LedgerStep, BankingImplementsLedger, PTL DEF ImplementsLedger, Book!Spec

\* Transfers neither create nor destroy money, currency by currency, up to the
\* one amount that has no negative.
THEOREM MoneyIsConserved == Spec => []MoneyConserved
<1>1. LedgerInv => MoneyConserved
  BY DEF LedgerInv
<1>2. QED
  BY <1>1, LedgerInit, LedgerStep, BankingImplementsLedger, PTL DEF ImplementsLedger, Book!Spec
=============================================================================
