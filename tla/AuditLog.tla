------------------------------ MODULE AuditLog ------------------------------
(***************************************************************************)
(* What domain.AuditLogger (audit.go) and AuditTrail promise, whatever     *)
(* process serves a request: one log that only grows at its end. A request *)
(* is answered once; its record, with the status of that answer, is        *)
(* appended once or reported as not appended, and only then is the request *)
(* over. A request that is cut off may leave its record behind or not.     *)
(***************************************************************************)
EXTENDS Naturals

CONSTANTS Requests, Statuses  \* 0 is no status

VARIABLES
    log,     \* the records, 1 to the last
    last,
    answer,  \* per request, the status of its answer, or 0
    declined, \* the requests whose append failed
    over     \* the requests that have ended by themselves

vars == <<log, last, answer, declined, over>>

Init == /\ last = 0
        /\ log \in [1..0 -> {}]
        /\ answer = [r \in Requests |-> 0]
        /\ declined = {}
        /\ over = {}

Recorded(r) == \E k \in 1..last : log[k].req = r

Answer(r, code) == /\ answer[r] = 0
                   /\ answer' = [answer EXCEPT ![r] = code]
                   /\ UNCHANGED <<log, last, declined, over>>

\* An append is settled once, after the answer and before the end.
Settling(r) == answer[r] # 0 /\ ~Recorded(r) /\ r \notin declined \cup over

Append(r) == /\ Settling(r)
             /\ last' = last + 1
             /\ log' = [k \in 1..last' |->
                           IF k = last' THEN [req |-> r, status |-> answer[r]] ELSE log[k]]
             /\ UNCHANGED <<answer, declined, over>>

Decline(r) == /\ Settling(r)
              /\ declined' = declined \cup {r}
              /\ UNCHANGED <<log, last, answer, over>>

Finish(r) == /\ Recorded(r) \/ r \in declined
             /\ over' = over \cup {r}
             /\ UNCHANGED <<log, last, answer, declined>>

Next == \E r \in Requests : \/ \E code \in Statuses \ {0} : Answer(r, code)
                            \/ Append(r) \/ Decline(r) \/ Finish(r)

Spec == Init /\ [][Next]_vars
=============================================================================
