------------------------------ MODULE Banking ------------------------------
(***************************************************************************)
(* The banking module of the backend: POST /accounts and                   *)
(* POST /accounts/{id}/transfer, from the handler (router.go) through      *)
(* BankingService.Transfer and RunInTx to the statements that reach        *)
(* PostgreSQL under its default isolation level, READ COMMITTED.           *)
(*                                                                         *)
(* One transfer is five statements in one transaction: two plain SELECTs,  *)
(* two UPDATEs that lock the row they change until the end of the          *)
(* transaction, one INSERT. Other requests run between any two of them.    *)
(***************************************************************************)
EXTENDS Money, FiniteSets, FiniteSetsExt

CONSTANTS
    Inputs,    \* the requests a client may send: a subset of Input
    MaxConns   \* db.SetMaxOpenConns, 25 in the code

Input == [user : Users, sender : Accounts, receiver : Accounts,
          amount : Int64, currency : Currencies]

ASSUME InputsAssumption == Inputs \subseteq Input /\ Null \notin Input

ASSUME MaxConnsAssumption == MaxConns \in Nat \ {0}

ASSUME RequestsAssumption == IsFiniteSet(Requests)

VARIABLES
    owner, currency, balance,  \* the committed rows of accounts
    transfers,                 \* the committed rows of transfers
    lock,    \* per account row, the transaction that has updated it, or Null
    draft,   \* per account row, the newest version of balance
    req,     \* per request, what it asks for
    pc,      \* per request, the statement it executes next
    answer,  \* per request, what its handler has answered
    seen,    \* per request, senderAcc.Balance, as its SELECT returned it
    snap     \* per request, history: the committed transfers at that SELECT

book == <<owner, currency, balance, transfers>>
vars == <<book, lock, draft, req, pc, answer, seen, snap>>

\* The statements of RunInTx's callback, its Commit and its Rollback: while a
\* request is here it holds a connection of the pool.
InTxSteps == {"sender", "receiver", "debit", "credit", "insert", "commit", "undo"}
Ended == {"done", "gone"}
Steps == {"idle", "begin", "committed"} \cup InTxSteps \cup Ended

Answers == {"created", "rejected", "failed"}  \* 201, 400, 500

ASSUME AnswersAssumption == Null \notin Answers

InTx == {t \in Requests : pc[t] \in InTxSteps}
Active == {t \in Requests : pc[t] \notin Ended \cup {"idle"}}

Init == /\ owner = Owner0
        /\ currency = Currency0
        /\ balance = Balance0
        /\ transfers = {}
        /\ lock = [a \in Accounts |-> Null]
        /\ draft = Balance0
        /\ req = [t \in Requests |-> Null]
        /\ pc = [t \in Requests |-> "idle"]
        /\ answer = [t \in Requests |-> Null]
        /\ seen = [t \in Requests |-> 0]
        /\ snap = [t \in Requests |-> {}]

-----------------------------------------------------------------------------
(* Control.                                                                *)

At(t, step) == pc[t] = step

Goto(t, step) == pc' = [pc EXCEPT ![t] = step]

Finish(t, status) == /\ Goto(t, "done")
                     /\ answer' = [answer EXCEPT ![t] = status]

-----------------------------------------------------------------------------
(* The handler, before the transaction.                                    *)

\* An id that is no number, or a body that is no JSON: answered 400.
Reject(t) == /\ At(t, "idle")
             /\ Finish(t, "rejected")
             /\ UNCHANGED <<book, lock, draft, req, seen, snap>>

Accept(t, in) == /\ At(t, "idle")
                 /\ Goto(t, "begin")
                 /\ req' = [req EXCEPT ![t] = in]
                 /\ UNCHANGED <<book, lock, draft, answer, seen, snap>>

PoolHasRoom == Cardinality(InTx) < MaxConns

\* db.BeginTx waits for a connection of the pool.
Begin(t) == /\ At(t, "begin")
            /\ PoolHasRoom
            /\ Goto(t, "sender")
            /\ UNCHANGED <<book, lock, draft, req, answer, seen, snap>>

\* The client goes away while BeginTx waits, or PostgreSQL is unreachable.
BeginFails(t) == /\ At(t, "begin")
                 /\ Finish(t, "failed")
                 /\ UNCHANGED <<book, lock, draft, req, seen, snap>>

-----------------------------------------------------------------------------
(* loadAndValidateTransferAccounts: two SELECTs that see committed rows    *)
(* and lock nothing.                                                       *)

\* Mistake: the account of somebody else may be debited.
SenderOkAnyOwner(t) == balance[req[t].sender] >= req[t].amount

\* Mistake: no funds check.
SenderOkUnfunded(t) == owner[req[t].sender] = req[t].user

SenderOk(t) == LET s == req[t].sender
               IN  /\ owner[s] = req[t].user
                   /\ balance[s] >= req[t].amount

\* Mistake: the currency of the receiver is not compared.
ReceiverOkAnyCurrency(t) == /\ owner[req[t].receiver] # Null
                            /\ currency[req[t].sender] = req[t].currency

ReceiverOk(t) == LET r == req[t].receiver
                 IN  /\ owner[r] # Null
                     /\ currency[req[t].sender] = req[t].currency
                     /\ currency[r] = req[t].currency

ReadSender(t) == /\ At(t, "sender")
                 /\ seen' = [seen EXCEPT ![t] = balance[req[t].sender]]
                 /\ snap' = [snap EXCEPT ![t] = transfers]
                 /\ Goto(t, IF SenderOk(t) THEN "receiver" ELSE "undo")
                 /\ UNCHANGED <<book, lock, draft, req, answer>>

ReadReceiver(t) == /\ At(t, "receiver")
                   /\ Goto(t, IF ReceiverOk(t) THEN "debit" ELSE "undo")
                   /\ UNCHANGED <<book, lock, draft, req, answer, seen, snap>>

-----------------------------------------------------------------------------
(* applyTransferBalances: balance = balance + $1, twice. An UPDATE waits   *)
(* for the row's lock, then reads the version the last holder committed.   *)

\* Mistake: the update does not wait for the row.
CanLockAlways(t, a) == TRUE

CanLock(t, a) == lock[a] \in {Null, t}

\* Mistake: read-modify-write of the balance the SELECT returned.
NewVersionFromRead(t, a, delta) ==
    (IF a = req[t].sender THEN seen[t] ELSE draft[a]) + delta

NewVersion(t, a, delta) == draft[a] + delta

\* Mistake: no overflow check.
FitsAlways(v) == TRUE

Fits(v) == v \in Int64

\* PostgreSQL refuses a BIGINT out of range, and fn returns its error.
UpdateBalance(t, a, delta, next) ==
    /\ CanLock(t, a)
    /\ \/ /\ Fits(NewVersion(t, a, delta))
          /\ lock' = [lock EXCEPT ![a] = t]
          /\ draft' = [draft EXCEPT ![a] = NewVersion(t, a, delta)]
          /\ Goto(t, next)
       \/ /\ ~Fits(NewVersion(t, a, delta))
          /\ Goto(t, "undo")
          /\ UNCHANGED <<lock, draft>>
    /\ UNCHANGED <<book, req, answer, seen, snap>>

\* Mistake: the first update runs outside the transaction.
DebitAutocommits(t) ==
    /\ At(t, "debit")
    /\ CanLock(t, req[t].sender)
    /\ Fits(draft[req[t].sender] + Negate(req[t].amount))
    /\ draft' = [draft EXCEPT ![req[t].sender] = @ + Negate(req[t].amount)]
    /\ balance' = [balance EXCEPT ![req[t].sender] = draft'[req[t].sender]]
    /\ Goto(t, "credit")
    /\ UNCHANGED <<owner, currency, transfers, lock, req, answer, seen, snap>>

Debit(t) == /\ At(t, "debit")
            /\ UpdateBalance(t, req[t].sender, Negate(req[t].amount), "credit")

Credit(t) == /\ At(t, "credit")
             /\ UpdateBalance(t, req[t].receiver, req[t].amount, "insert")

\* The row is invisible to the others, and a foreign key only takes a lock
\* that no update of balance conflicts with: nothing shared changes.
Insert(t) == /\ At(t, "insert")
             /\ Goto(t, "commit")
             /\ UNCHANGED <<book, lock, draft, req, answer, seen, snap>>

\* A statement returns an error: the client has gone (the statement runs
\* under the request's context), or the connection broke.
StatementFails(t) == /\ pc[t] \in InTxSteps \ {"commit", "undo"}
                     /\ Goto(t, "undo")
                     /\ UNCHANGED <<book, lock, draft, req, answer, seen, snap>>

-----------------------------------------------------------------------------
(* PostgreSQL's deadlock detector: it aborts a transaction on a cycle of   *)
(* the waits-for graph, and its statement returns an error.                *)

Target(t) == IF At(t, "debit") THEN req[t].sender ELSE req[t].receiver

Blocked(t) == pc[t] \in {"debit", "credit"} /\ ~CanLock(t, Target(t))

OnCycle(t) ==
    \E S \in SUBSET Requests :
        /\ t \in S
        /\ \A u \in S : /\ Blocked(u)
                        /\ lock[Target(u)] \in S
                        /\ \E w \in S : Blocked(w) /\ lock[Target(w)] = u

DeadlockAbort(t) == /\ OnCycle(t)
                    /\ Goto(t, "undo")
                    /\ UNCHANGED <<book, lock, draft, req, answer, seen, snap>>

-----------------------------------------------------------------------------
(* The end of RunInTx, and the answer.                                     *)

Release(t) == lock' = [a \in Accounts |-> IF lock[a] = t THEN Null ELSE lock[a]]

DropVersions(t) ==
    draft' = [a \in Accounts |-> IF lock[a] = t THEN balance[a] ELSE draft[a]]

RowOf(t) == [id |-> t, sender |-> req[t].sender, receiver |-> req[t].receiver,
             amount |-> req[t].amount, currency |-> req[t].currency]

\* Mistake: an error returns without ending the transaction.
RollbackForgotten(t) == /\ At(t, "undo")
                        /\ Finish(t, "failed")
                        /\ UNCHANGED <<book, lock, draft, req, seen, snap>>

Rollback(t) == /\ At(t, "undo")
               /\ Release(t)
               /\ DropVersions(t)
               /\ Finish(t, "failed")
               /\ UNCHANGED <<book, req, seen, snap>>

Commit(t) == /\ At(t, "commit")
             /\ balance' = [a \in Accounts |-> IF lock[a] = t THEN draft[a] ELSE balance[a]]
             /\ transfers' = transfers \cup {RowOf(t)}
             /\ Release(t)
             /\ Goto(t, "committed")
             /\ UNCHANGED <<owner, currency, draft, req, answer, seen, snap>>

\* Mistake: the error of Commit is dropped.
CommitFailsSilently(t) == /\ At(t, "commit")
                          /\ Release(t)
                          /\ DropVersions(t)
                          /\ Finish(t, "created")
                          /\ UNCHANGED <<book, req, seen, snap>>

\* COMMIT never reaches PostgreSQL: the transaction ends without effect.
CommitFails(t) == /\ At(t, "commit")
                  /\ Release(t)
                  /\ DropVersions(t)
                  /\ Finish(t, "failed")
                  /\ UNCHANGED <<book, req, seen, snap>>

Reply(t) == /\ At(t, "committed")
            /\ Finish(t, "created")
            /\ UNCHANGED <<book, lock, draft, req, seen, snap>>

\* PostgreSQL has committed, its acknowledgement is lost: "commit tx" error.
AckLost(t) == /\ At(t, "committed")
              /\ Finish(t, "failed")
              /\ UNCHANGED <<book, lock, draft, req, seen, snap>>

-----------------------------------------------------------------------------
(* The rest of the system.                                                 *)

\* POST /accounts: one INSERT outside any transaction, balance 0.
CreateAccount(a, u, c) == /\ owner[a] = Null
                          /\ PoolHasRoom
                          /\ owner' = [owner EXCEPT ![a] = u]
                          /\ currency' = [currency EXCEPT ![a] = c]
                          /\ UNCHANGED <<balance, transfers, lock, draft,
                                         req, pc, answer, seen, snap>>

\* The server dies and starts again: requests in flight are never answered,
\* PostgreSQL rolls their transactions back when their connections close.
Crash == /\ Active # {}
         /\ pc' = [t \in Requests |-> IF t \in Active THEN "gone" ELSE pc[t]]
         /\ lock' = [a \in Accounts |-> Null]
         /\ draft' = balance
         /\ UNCHANGED <<book, req, answer, seen, snap>>

\* All requests have ended and every account id is used: the model stops.
Quiescent == /\ \A t \in Requests : pc[t] \in Ended
             /\ UNCHANGED vars

Progress(t) == \/ Begin(t) \/ ReadSender(t) \/ ReadReceiver(t)
               \/ Debit(t) \/ Credit(t) \/ Insert(t)
               \/ Rollback(t) \/ Commit(t) \/ Reply(t)

Failure(t) == \/ BeginFails(t) \/ StatementFails(t) \/ CommitFails(t) \/ AckLost(t)

RequestNext(t) == \/ Reject(t)
                  \/ \E in \in Inputs : Accept(t, in)
                  \/ Progress(t)
                  \/ Failure(t)
                  \/ DeadlockAbort(t)

Next == \/ \E t \in Requests : RequestNext(t)
        \/ \E a \in Accounts, u \in Users, c \in Currencies : CreateAccount(a, u, c)
        \/ Crash
        \/ Quiescent

Spec == Init /\ [][Next]_vars

\* The Go scheduler runs every handler, PostgreSQL executes every statement
\* and looks for deadlocks; nothing is assumed of failures and crashes.
Fairness == \A t \in Requests : /\ WF_vars(Progress(t))
                                /\ WF_vars(DeadlockAbort(t))

FairSpec == Spec /\ Fairness

-----------------------------------------------------------------------------
(* Properties.                                                             *)

\* Every variable has its type: no balance or row version ever leaves BIGINT.
TypeOK == /\ owner \in [Accounts -> Users \cup {Null}]
          /\ currency \in [Accounts -> Currencies \cup {Null}]
          /\ balance \in [Accounts -> Int64]
          /\ transfers \subseteq Row
          /\ lock \in [Accounts -> Requests \cup {Null}]
          /\ draft \in [Accounts -> Int64]
          /\ req \in [Requests -> Inputs \cup {Null}]
          /\ pc \in [Requests -> Steps]
          /\ answer \in [Requests -> Answers \cup {Null}]
          /\ seen \in [Requests -> Int64]
          /\ snap \in [Requests -> SUBSET Row]

\* A version nobody has locked is the committed one.
FreeRowsAreCommitted == \A a \in Accounts : lock[a] = Null => draft[a] = balance[a]

\* Locks are held by transactions that have updated, on the rows they update.
LocksAreOwned ==
    \A a \in Accounts : lock[a] # Null =>
        /\ pc[lock[a]] \in {"credit", "insert", "commit", "undo"}
        /\ a \in {req[lock[a]].sender, req[lock[a]].receiver}
        /\ pc[lock[a]] = "credit" => a = req[lock[a]].sender

\* What a transaction has written so far, on top of what is committed.
WrittenSoFar(t) ==
    /\ At(t, "credit") =>
         LET s == req[t].sender
         IN  lock[s] = t /\ draft[s] = balance[s] + Negate(req[t].amount)
    /\ pc[t] \in {"insert", "commit"} =>
         \A a \in {req[t].sender, req[t].receiver} :
             lock[a] = t /\ draft[a] = balance[a] + Moved(RowOf(t), a)

\* The versions an open transaction has written are exactly its own effect
\* over the committed balances, however the others interleave with it: no
\* update of another transfer is lost, none is seen before it commits
\* (banking_postgres.go UpdateBalance, tx.go RunInTx).
VersionInv == /\ FreeRowsAreCommitted
              /\ LocksAreOwned
              /\ \A t \in Requests : WrittenSoFar(t)

Opening(a) == Balance0[a]

\* Every balance is its opening value plus what the rows of transfers moved:
\* the two tables, written by separate statements, never disagree, whatever
\* aborts, crashes or loses an acknowledgement on the way.
LedgerAgrees ==
    \A a \in Accounts :
        balance[a] = Opening(a) + SumFunction([row \in transfers |-> Moved(row, a)])

InCurrency(c, cur) == {a \in Accounts : cur[a] = c}

Total(c) == SumFunctionOnSet(balance, InCurrency(c, currency))

Opened(c) == SumFunctionOnSet(Balance0, InCurrency(c, Currency0))

Width == 2 * (MaxInt + 1)

\* Transfers neither create nor destroy money, currency by currency. The one
\* exception is a transfer of the smallest BIGINT, which -amount cannot
\* negate: both accounts lose, and the total is only kept modulo 2^64.
MoneyConserved ==
    \A c \in Currencies :
        /\ Total(c) % Width = Opened(c) % Width
        /\ (\A row \in transfers : row.amount # MinInt) => Total(c) = Opened(c)

\* A client told 201 has its row in the book; a client refused with 400 has
\* none; and a row appears only for a request whose COMMIT ran.
AnswersTruthful ==
    /\ \A t \in Requests : answer[t] = "created" => RowOf(t) \in transfers
    /\ \A row \in transfers : /\ pc[row.id] \in {"committed"} \cup Ended
                              /\ answer[row.id] # "rejected"

\* A committed row says what its request asked, between accounts of its
\* currency, from an account of the user who asked: what the checks read
\* before the updates still holds when the row commits.
RowsFaithful ==
    \A row \in transfers : /\ row = RowOf(row.id)
                           /\ owner[row.sender] = req[row.id].user
                           /\ currency[row.sender] = row.currency
                           /\ currency[row.receiver] = row.currency

Posted == transfers' \ transfers

Covered(row) == balance[row.sender] >= row.amount

\* "insufficient funds" (banking_service.go:52) "within transaction" (:77): a
\* transfer never posts more than the sender's balance when it posts.
FundsCovered == [][\A row \in Posted : Covered(row)]_vars

\* The check can only be wrong because of a race: a transfer that posts more
\* than the sender has was overtaken, after its SELECT, by the posting of
\* another transfer that lowered the same account.
FundsRace == [][\A row \in Posted :
                  \/ Covered(row)
                  \/ \E r \in transfers \ snap[row.id] : Moved(r, row.sender) < 0]_vars

\* A transfer that has been accepted is answered, unless the server dies:
\* waiting for the pool, for row locks and in deadlocks always ends.
EveryTransferAnswered == \A t \in Requests : At(t, "begin") ~> pc[t] \in Ended

Book == INSTANCE Ledger WITH owner <- owner, currency <- currency,
                             balance <- balance, transfers <- transfers

\* The five statements and their failures implement the abstract ledger, in
\* which a transfer is one indivisible step.
ImplementsLedger == Book!Spec
=============================================================================
