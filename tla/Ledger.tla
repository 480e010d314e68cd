------------------------------- MODULE Ledger -------------------------------
(***************************************************************************)
(* What the banking module promises: a table of accounts and a book of     *)
(* transfers, in which a transfer moves its amount between two accounts of *)
(* its own currency in one indivisible step, together with its row.        *)
(*                                                                         *)
(* A posting here has no condition on the sender's balance: the code       *)
(* checks it, but not in the step that posts (see Banking!FundsCovered).   *)
(***************************************************************************)
EXTENDS Money

VARIABLES owner, currency, balance, transfers

vars == <<owner, currency, balance, transfers>>

Init == /\ owner = Owner0
        /\ currency = Currency0
        /\ balance = Balance0
        /\ transfers = {}

\* An account is opened once, empty.
Open(a, u, c) == /\ owner[a] = Null
                 /\ owner' = [owner EXCEPT ![a] = u]
                 /\ currency' = [currency EXCEPT ![a] = c]
                 /\ UNCHANGED <<balance, transfers>>

\* One transfer: the owner of the sending account and both currencies are
\* settled, the id is new, and no balance leaves the range of a BIGINT.
Post(row) == /\ \A r \in transfers : r.id # row.id
             /\ \A a \in {row.sender, row.receiver} : /\ owner[a] # Null
                                                      /\ currency[a] = row.currency
             /\ transfers' = transfers \cup {row}
             /\ balance' = [a \in Accounts |-> balance[a] + Moved(row, a)]
             /\ balance' \in [Accounts -> Int64]
             /\ UNCHANGED <<owner, currency>>

Next == \/ \E a \in Accounts, u \in Users, c \in Currencies : Open(a, u, c)
        \/ \E row \in Row : Post(row)

Spec == Init /\ [][Next]_vars
=============================================================================
