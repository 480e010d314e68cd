------------------------------- MODULE Server -------------------------------
(***************************************************************************)
(* The server command: it opens the stores, serves requests through the    *)
(* middleware chain and, on a signal, drains and closes the stores again.  *)
(* AuditTrail appends a record of every answer to the Bolt file, which     *)
(* outlives the process and which one process at a time may hold open.     *)
(* Requests run in goroutines of their own while the main goroutine stops. *)
(***************************************************************************)
EXTENDS Config, FiniteSets

CONSTANTS
    Procs,     \* processes, each started at most once
    Requests,
    Served,    \* the statuses that handlers answer with
    Environments,
    None

ASSUME ServedAssumption == Served \subseteq 100..999
ASSUME EnvironmentsAssumption == Environments \subseteq Environment
ASSUME NoneAssumption == None \notin Procs

VARIABLES
    stage,    \* per process, the next call of its main goroutine
    held,     \* per process, the stores it has open
    lis,      \* per process, the goroutine of ListenAndServe
    errCh,    \* per process, the channel from that goroutine
    outcome,  \* per process, what Run (or a failed Open) returned
    trail,    \* the bucket audit_log: records by key
    sequence, \* the bucket's sequence
    pc,       \* per request, where in the chain it is
    at,       \* per request, the process that serves it
    noted,    \* per request, rw.status of AuditTrail, 0 before WriteHeader
    sent,     \* per request, the status line of the response, 0 before
    audit     \* per request, what Append returned

main == <<stage, held, outcome>>
serving == <<lis, errCh>>
bucket == <<trail, sequence>>
response == <<noted, sent>>
handling == <<pc, at, response, audit>>
vars == <<main, serving, bucket, handling>>

\* The calls of RunE before Run, and what follows each.
After == [postgres |-> "migrate", migrate |-> "redis", redis |-> "bolt", bolt |-> "run"]

Stores == {"postgres", "redis", "bolt"}
Stages == DOMAIN After \cup {"off", "run", "drain", "await", "close", "exited", "dead"}
InChain == {"limit", "handler", "audit", "append", "reply"}
Statuses == Served \cup {0, 429, 500}
Record == [req : Requests, status : Statuses]

Init == /\ stage = [p \in Procs |-> "off"]
        /\ held = [p \in Procs |-> {}]
        /\ lis = [p \in Procs |-> "none"]
        /\ errCh = [p \in Procs |-> "empty"]
        /\ outcome = [p \in Procs |-> "none"]
        /\ trail = [k \in {} |-> None]
        /\ sequence = 0
        /\ pc = [r \in Requests |-> "idle"]
        /\ at = [r \in Requests |-> None]
        /\ noted = [r \in Requests |-> 0]
        /\ sent = [r \in Requests |-> 0]
        /\ audit = [r \in Requests |-> "none"]

Step(p, from, to) == stage[p] = from /\ stage' = [stage EXCEPT ![p] = to]

Result(p, res) == outcome' = [outcome EXCEPT ![p] = res]

InFlight(p) == {r \in Requests : at[r] = p /\ pc[r] \in InChain}

-----------------------------------------------------------------------------
(* The main goroutine until Run.                                           *)

Accepted == {env \in Environments : Validate(Load(env))}

Start(p) == /\ Step(p, "off", "postgres")
            /\ Accepted # {}
            /\ UNCHANGED <<held, outcome, serving, bucket, handling>>

InvalidConfig(p) == /\ Step(p, "off", "close")
                    /\ Environments \ Accepted # {}
                    /\ Result(p, "error")
                    /\ UNCHANGED <<held, serving, bucket, handling>>

\* bbolt.Open waits for the lock of the file.
BoltFree == \A p \in Procs : "bolt" \notin held[p]

Open(p) == \E s \in DOMAIN After :
    /\ Step(p, s, After[s])
    /\ s = "bolt" => BoltFree
    /\ held' = [held EXCEPT ![p] = @ \cup ({s} \cap Stores)]
    /\ UNCHANGED <<outcome, serving, bucket, handling>>

\* Any of them fails; bbolt.Open does after a second's wait.
OpenFails(p) == \E s \in DOMAIN After :
    /\ Step(p, s, "close")
    /\ Result(p, "error")
    /\ UNCHANGED <<held, serving, bucket, handling>>

-----------------------------------------------------------------------------
(* The goroutine that Run starts.                                          *)

Serving(p) == stage[p] \in {"run", "drain"} /\ lis[p] \in {"none", "open"}

Listen(p) == /\ Serving(p)
             /\ lis[p] = "none"
             /\ lis' = [lis EXCEPT ![p] = "open"]
             /\ UNCHANGED <<main, errCh, bucket, handling>>

\* Listen or Accept returns an error.
ServeFails(p) == /\ Serving(p)
                 /\ lis' = [lis EXCEPT ![p] = "failed"]
                 /\ errCh' = [errCh EXCEPT ![p] = "error"]
                 /\ UNCHANGED <<main, bucket, handling>>

\* ErrServerClosed: Shutdown has closed the listener.
ServeStops(p) == /\ stage[p] \in {"drain", "await", "close"}
                 /\ lis[p] = "closed"
                 /\ errCh[p] = "empty"
                 /\ errCh' = [errCh EXCEPT ![p] = "closed"]
                 /\ UNCHANGED <<main, lis, bucket, handling>>

-----------------------------------------------------------------------------
(* Run after the goroutine is started, and the deferred calls of RunE.     *)

Signal(p) == /\ Step(p, "run", "drain")
             /\ UNCHANGED <<held, outcome, serving, bucket, handling>>

\* The select finds an error in the channel.
ServeError(p) == /\ Step(p, "run", "close")
                 /\ errCh[p] = "error"
                 /\ Result(p, "error")
                 /\ UNCHANGED <<held, serving, bucket, handling>>

CloseListener(p) == /\ stage[p] = "drain"
                    /\ lis[p] \in {"none", "open"}
                    /\ lis' = [lis EXCEPT ![p] = "closed"]
                    /\ UNCHANGED <<main, errCh, bucket, handling>>

Draining(p) == stage[p] = "drain" /\ lis[p] \in {"closed", "failed"}

\* Mistake: the connections are not waited for.
DrainedAtOnce(p) == /\ Draining(p)
                    /\ Step(p, "drain", "await")
                    /\ UNCHANGED <<held, outcome, serving, bucket, handling>>

Drained(p) == /\ Draining(p)
              /\ InFlight(p) = {}
              /\ Step(p, "drain", "await")
              /\ UNCHANGED <<held, outcome, serving, bucket, handling>>

\* Mistake: Shutdown is given a context without a deadline.
NoDeadline(p) == FALSE /\ UNCHANGED vars

\* The ten seconds of Shutdown are over.
DrainTimeout(p) == /\ Draining(p)
                   /\ InFlight(p) # {}
                   /\ Step(p, "drain", "close")
                   /\ Result(p, "error")
                   /\ UNCHANGED <<held, serving, bucket, handling>>

Await(p) == /\ Step(p, "await", "close")
            /\ errCh[p] # "empty"
            /\ Result(p, IF errCh[p] = "closed" THEN "ok" ELSE "error")
            /\ UNCHANGED <<held, serving, bucket, handling>>

\* Bolt waits for the transaction under way.
CanClose(p, s) ==
    CASE s = "bolt" -> \A r \in InFlight(p) : pc[r] # "append"
      [] s = "redis" -> "bolt" \notin held[p]
      [] s = "postgres" -> held[p] = {"postgres"}

\* Deferred calls run in reverse order.
CloseStore(p) == \E s \in held[p] :
    /\ stage[p] = "close"
    /\ CanClose(p, s)
    /\ held' = [held EXCEPT ![p] = @ \ {s}]
    /\ UNCHANGED <<stage, outcome, serving, bucket, handling>>

\* The requests of a process end with it, whatever they were doing.
Kill(p) == pc' = [r \in Requests |-> IF r \in InFlight(p) THEN "killed" ELSE pc[r]]

Exit(p) == /\ Step(p, "close", "exited")
           /\ held[p] = {}
           /\ Kill(p)
           /\ UNCHANGED <<held, outcome, serving, bucket, at, response, audit>>

\* Also a signal while Run does not listen for it.
Crash(p) == /\ stage[p] \notin {"off", "exited", "dead"}
            /\ stage' = [stage EXCEPT ![p] = "dead"]
            /\ held' = [held EXCEPT ![p] = {}]
            /\ Kill(p)
            /\ UNCHANGED <<outcome, serving, bucket, at, response, audit>>

-----------------------------------------------------------------------------
(* A request in the chain.                                                 *)

Move(r, from, to) == pc[r] = from /\ pc' = [pc EXCEPT ![r] = to]

Arrive(r, p) == /\ Move(r, "idle", "limit")
                /\ lis[p] = "open"
                /\ stage[p] \in {"run", "drain"}
                /\ at' = [at EXCEPT ![r] = p]
                /\ UNCHANGED <<main, serving, bucket, response, audit>>

\* Mistake: the record has the last status that was written.
WriteHeaderAgain(r, code) == /\ noted' = [noted EXCEPT ![r] = code]
                             /\ sent' = [sent EXCEPT ![r] = IF @ = 0 THEN code ELSE @]

\* Only the first status counts, for the record as for net/http.
WriteHeader(r, code) == /\ noted' = [noted EXCEPT ![r] = IF @ = 0 THEN code ELSE @]
                        /\ sent' = [sent EXCEPT ![r] = IF @ = 0 THEN code ELSE @]

\* Below the limit, or Redis does not answer.
Admit(r) == /\ Move(r, "limit", "handler")
            /\ UNCHANGED <<main, serving, bucket, at, response, audit>>

\* Mistake: the limiter is outside of AuditTrail.
RefuseUnrecorded(r) == /\ Move(r, "limit", "reply")
                       /\ "redis" \in held[at[r]]
                       /\ WriteHeader(r, 429)
                       /\ UNCHANGED <<main, serving, bucket, at, audit>>

Refuse(r) == /\ Move(r, "limit", "audit")
             /\ "redis" \in held[at[r]]
             /\ WriteHeader(r, 429)
             /\ UNCHANGED <<main, serving, bucket, at, audit>>

\* The handler of the mux answers,
Respond(r) == /\ pc[r] = "handler"
              /\ sent[r] = 0
              /\ \E code \in Served : WriteHeader(r, code)
              /\ UNCHANGED <<main, serving, bucket, pc, at, audit>>

\* and returns,
Return(r) == /\ Move(r, "handler", "audit")
             /\ sent[r] # 0
             /\ UNCHANGED <<main, serving, bucket, at, response, audit>>

\* or panics, before or after its answer, and Recovery answers.
Panic(r) == /\ Move(r, "handler", "audit")
            /\ WriteHeader(r, 500)
            /\ UNCHANGED <<main, serving, bucket, at, audit>>

Audit(r, res) == audit' = [audit EXCEPT ![r] = res]

\* Bolt has one writer.
BeginAppend(r) == /\ Move(r, "audit", "append")
                  /\ "bolt" \in held[at[r]]
                  /\ \A u \in Requests : pc[u] # "append"
                  /\ UNCHANGED <<main, serving, bucket, at, response, audit>>

\* Mistake: a counter of the process instead of the bucket's sequence.
KeyFromMemory(r) == 1 + Cardinality({u \in Requests : at[u] = at[r] /\ audit[u] = "stored"})

NextKey(r) == sequence + 1

Commit(r) == /\ Move(r, "append", "reply")
             /\ sequence' = sequence + 1
             /\ trail' = [k \in DOMAIN trail \cup {NextKey(r)} |->
                            IF k = NextKey(r) THEN [req |-> r, status |-> noted[r]] ELSE trail[k]]
             /\ Audit(r, "stored")
             /\ UNCHANGED <<main, serving, at, response>>

\* Mistake: a failed transaction uses up a key.
RollbackBurnsKey(r) == /\ Move(r, "append", "reply")
                       /\ sequence' = sequence + 1
                       /\ Audit(r, "failed")
                       /\ UNCHANGED <<main, serving, trail, at, response>>

Rollback(r) == /\ Move(r, "append", "reply")
               /\ Audit(r, "failed")
               /\ UNCHANGED <<main, serving, bucket, at, response>>

\* ErrDatabaseNotOpen
AppendClosed(r) == /\ Move(r, "audit", "reply")
                   /\ "bolt" \notin held[at[r]]
                   /\ Audit(r, "closed")
                   /\ UNCHANGED <<main, serving, bucket, at, response>>

Finish(r) == /\ Move(r, "reply", "over")
             /\ UNCHANGED <<main, serving, bucket, at, response, audit>>

-----------------------------------------------------------------------------

MainStep(p) == \/ Open(p) \/ OpenFails(p)
               \/ ServeError(p) \/ CloseListener(p) \/ Drained(p) \/ DrainTimeout(p)
               \/ Await(p) \/ CloseStore(p) \/ Exit(p)

AppendStep(r) == BeginAppend(r) \/ Commit(r) \/ Rollback(r) \/ AppendClosed(r)

RequestStep(r) == \/ \E p \in Procs : Arrive(r, p)
                  \/ Admit(r) \/ Refuse(r) \/ Respond(r) \/ Return(r) \/ Panic(r)
                  \/ AppendStep(r) \/ Finish(r)

ProcStep(p) == \/ Start(p) \/ InvalidConfig(p) \/ Signal(p) \/ Crash(p) \/ MainStep(p)
               \/ Listen(p) \/ ServeFails(p) \/ ServeStops(p)

\* Every process has ended.
Quiescent == /\ \A p \in Procs : stage[p] \in {"exited", "dead"}
             /\ UNCHANGED vars

Next == \/ \E p \in Procs : ProcStep(p)
        \/ \E r \in Requests : RequestStep(r)
        \/ Quiescent

Spec == Init /\ [][Next]_vars

\* The scheduler runs the main goroutine, that of ListenAndServe and the
\* appends; the timer of Shutdown fires. Handlers may hang, no signal need come.
FairSpec == /\ Spec
            /\ \A p \in Procs : WF_vars(MainStep(p)) /\ WF_vars(ServeStops(p))
            /\ \A r \in Requests : WF_vars(AppendStep(r))

-----------------------------------------------------------------------------
(* Properties.                                                             *)

ProcTypes == /\ stage \in [Procs -> Stages]
             /\ held \in [Procs -> SUBSET Stores]
             /\ lis \in [Procs -> {"none", "open", "closed", "failed"}]
             /\ errCh \in [Procs -> {"empty", "error", "closed"}]
             /\ outcome \in [Procs -> {"none", "ok", "error"}]

TrailTypes == sequence \in Nat /\ trail \in [1..sequence -> Record]

RequestTypes == /\ pc \in [Requests -> InChain \cup {"idle", "over", "killed"}]
                /\ at \in [Requests -> Procs \cup {None}]
                /\ noted \in [Requests -> Statuses]
                /\ sent \in [Requests -> Statuses]
                /\ audit \in [Requests -> {"none", "stored", "failed", "closed"}]

\* Every variable has its type, and the keys of the trail have no gap.
TypeOK == ProcTypes /\ TrailTypes /\ RequestTypes

\* Every answered request has a record, the refused and the panicking ones
\* too, unless Bolt failed or the process stopped without a complete drain
\* (AuditTrail around everything, router.go:52; middleware.go:217).
Audited ==
    \A r \in Requests : pc[r] = "over" =>
        \/ \E k \in DOMAIN trail : trail[k].req = r
        \/ audit[r] = "failed"
        \/ audit[r] = "closed" /\ outcome[at[r]] = "error"

\* A record has the status that the client was sent, even when a handler
\* panics after its answer (middleware.go:40), and no request has two.
TrailTruthful ==
    /\ \A k \in DOMAIN trail : trail[k].status = sent[trail[k].req]
    /\ \A k, l \in DOMAIN trail : trail[k].req = trail[l].req => k = l

\* The trail is append-only (audit_bolt.go:15): no restart, crash or failed
\* transaction lets a later record replace or remove one.
AppendOnly ==
    [][\A k \in DOMAIN trail : k \in DOMAIN trail' /\ trail'[k] = trail[k]]_vars

\* Server, its processes stopping, crashing and taking over from each other,
\* is one append-only log that has a record of every request that ended,
\* with the status its client was sent, or has reported the failure
\* (audit.go:8, audit_bolt.go:16, AuditTrail).
Log == INSTANCE AuditLog WITH log <- trail, last <- sequence, answer <- sent,
                              declined <- {r \in Requests : audit[r] \in {"failed", "closed"}},
                              over <- {r \in Requests : pc[r] = "over"}

ImplementsAuditLog == Log!Spec

\* When Run returns no error, each of its requests has ended by itself, and
\* none found the audit store closed: the deferred Close calls of RunE
\* (cmd/specto/server.go:31-45) came after the last handler.
OrderlyStop ==
    \A r \in Requests : at[r] # None /\ outcome[at[r]] = "ok" =>
        pc[r] = "over" /\ audit[r] # "closed"

\* A signal ends the process, though handlers may hang (server.go:70).
SignalEndsRun ==
    \A p \in Procs : stage[p] = "drain" ~> stage[p] \in {"exited", "dead"}

=============================================================================
