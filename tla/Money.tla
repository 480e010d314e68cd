------------------------------- MODULE Money -------------------------------
(***************************************************************************)
(* The data of the banking module: BIGINT amounts with the width of the    *)
(* columns, the rows of the transfers table, and what one row does to the  *)
(* balance of one account.                                                 *)
(***************************************************************************)
EXTENDS Integers, FiniteSets

CONSTANTS
    Accounts,    \* ids of the accounts table, used and still unused
    Users,       \* ids of the users table
    Currencies,  \* values of accounts.currency
    Requests,    \* HTTP requests POST /accounts/{id}/transfer
    Null,        \* no user, no currency, no holder
    MaxInt,      \* the largest BIGINT, 2^63 - 1 in the code
    Owner0, Currency0, Balance0  \* the accounts table when the server starts

MinInt == -MaxInt - 1

Int64 == MinInt..MaxInt

\* Go's unary minus on an int64: it wraps on the smallest value.
Negate(x) == IF x = MinInt THEN MinInt ELSE -x

\* A row of the transfers table. A request inserts at most one row, so the
\* request stands for the BIGSERIAL id.
Row == [id : Requests, sender : Accounts, receiver : Accounts,
        amount : Int64, currency : Currencies]

\* What the two updates of a transfer add to the balance of account a.
Moved(row, a) == (IF a = row.sender THEN Negate(row.amount) ELSE 0)
                 + (IF a = row.receiver THEN row.amount ELSE 0)

ASSUME AccountsAssumption == IsFiniteSet(Accounts)

ASSUME MaxIntAssumption == MaxInt \in Nat \ {0}

ASSUME NullAssumption ==
    Null \notin Accounts \cup Users \cup Currencies \cup Requests

ASSUME TableAssumption ==
    /\ Owner0 \in [Accounts -> Users \cup {Null}]
    /\ Currency0 \in [Accounts -> Currencies \cup {Null}]
    /\ Balance0 \in [Accounts -> Int64]
    /\ \A a \in Accounts : Owner0[a] = Null => Currency0[a] = Null /\ Balance0[a] = 0
    /\ \A a \in Accounts : Owner0[a] # Null => Currency0[a] # Null
=============================================================================
