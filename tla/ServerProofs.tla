---------------------------- MODULE ServerProofs ----------------------------
(***************************************************************************)
(* What holds of Server for any number of processes and requests. A        *)
(* request in the chain keeps its process in Run, or the process has        *)
(* already returned an error: hence the stores that are closed under a     *)
(* handler, and the requests that are cut off, belong to processes that    *)
(* report it.                                                              *)
(***************************************************************************)
EXTENDS Server, TLAPS

USE ServedAssumption, NoneAssumption

-----------------------------------------------------------------------------
(* The configuration.                                                      *)

LEMMA DefaultsArePositive == DefaultLimit > 0 /\ DefaultCacheTTL > 0 /\ DefaultSessionTTL > 0
BY SMT DEF DefaultLimit, DefaultCacheTTL, DefaultSessionTTL, Second

\* A text falls back on its default when it is not there, not when it is blank.
LEMMA TextPasses ==
    ASSUME NEW v \in Variable
    PROVE  EnvOr(v, "text") # "spaces" <=> v.text # "spaces"
BY DEF Variable, EnvOr

\* A number is refused when it was read and is not positive.
LEMMA NumberPasses ==
    ASSUME NEW v \in Variable, NEW n, n > 0
    PROVE  EnvNumberOr(v, n) > 0 <=> (v.text # "" /\ v.parses => v.number > 0)
BY DEF EnvNumberOr

Texts == {"POSTGRES_DSN", "REDIS_ADDR", "BOLT_PATH", "AUTH_SECRET"}
Numbers == {"RATE_LIMIT_PER_MINUTE", "BALANCE_CACHE_TTL", "AUTH_SESSION_TTL"}

\* The environments the server starts in (config.go, Load and Validate): no
\* store's variable is blank, and no limit or lifetime is set to a number that
\* can be read and is not positive. A variable that is not set, and a number
\* with a mistake in it, keep no server from starting.
THEOREM AcceptedEnvironments ==
    ASSUME NEW env \in Environment
    PROVE  Validate(Load(env)) <=>
               /\ \A n \in Texts : env[n].text # "spaces"
               /\ \A n \in Numbers :
                      env[n].text # "" /\ env[n].parses => env[n].number > 0
<1>1. \A n \in Texts \cup Numbers : env[n] \in Variable
  BY DEF Environment, Names, Texts, Numbers
<1>2. \A n \in Texts : EnvOr(env[n], "text") # "spaces" <=> env[n].text # "spaces"
  BY <1>1, TextPasses
<1>3. "spaces" \notin {Load(env).PostgresDSN, Load(env).RedisAddr,
                       Load(env).BoltPath, Load(env).AuthSecret}
        <=> \A n \in Texts : EnvOr(env[n], "text") # "spaces"
  BY DEF Load, Texts
<1> DEFINE Fits(v) == v.text # "" /\ v.parses => v.number > 0
<1>4. Load(env).RateLimitPerMinute > 0 <=> Fits(env["RATE_LIMIT_PER_MINUTE"])
  BY <1>1, NumberPasses, DefaultsArePositive DEF Load, Numbers
<1>5. Load(env).BalanceCacheTTL > 0 <=> Fits(env["BALANCE_CACHE_TTL"])
  BY <1>1, NumberPasses, DefaultsArePositive DEF Load, Numbers
<1>6. Load(env).AuthSessionTTL > 0 <=> Fits(env["AUTH_SESSION_TTL"])
  BY <1>1, NumberPasses, DefaultsArePositive DEF Load, Numbers
<1>7. /\ Load(env).RateLimitPerMinute > 0 /\ Load(env).BalanceCacheTTL > 0
      /\ Load(env).AuthSessionTTL > 0
      <=> \A n \in Numbers : Fits(env[n])
  <2> HIDE DEF Fits
  <2> QED BY <1>4, <1>5, <1>6 DEF Numbers
<1> QED BY <1>2, <1>3, <1>7, Zenon DEF Validate

\* A number that cannot be read never keeps the server from starting: the
\* default takes its place without a word.
THEOREM UnreadableNumbersAreAccepted ==
    ASSUME NEW env \in Environment,
           \A n \in Texts : env[n].text # "spaces",
           \A n \in Numbers : env[n].parses = FALSE
    PROVE  Validate(Load(env))
BY AcceptedEnvironments

\* The main goroutine: what is open at each of its calls, and its result.
ProcInv == \A p \in Procs :
    /\ stage[p] \in DOMAIN After \cup {"off", "run", "drain", "await"} => outcome[p] = "none"
    /\ stage[p] \in {"migrate", "redis"} => "postgres" \in held[p]
    /\ stage[p] = "bolt" => {"postgres", "redis"} \subseteq held[p]
    /\ stage[p] \in {"run", "drain", "await"} => held[p] = Stores
    /\ stage[p] = "close" => outcome[p] # "none"

\* A request: what it has done at each place in the chain.
RequestInv == \A r \in Requests :
    /\ noted[r] = sent[r]
    /\ pc[r] = "idle" <=> at[r] = None
    /\ pc[r] \in {"idle", "limit", "handler", "audit", "append"} => audit[r] = "none"
    /\ pc[r] \in {"reply", "over"} => audit[r] # "none"
    /\ pc[r] \in {"audit", "append", "reply", "over"} => sent[r] # 0

\* A request and its process.
ChainInv == \A r \in Requests : \A p \in Procs : at[r] = p =>
    /\ stage[p] \in {"run", "drain", "await", "close", "exited", "dead"}
    /\ pc[r] \in InChain => \/ stage[p] \in {"run", "drain"}
                            \/ stage[p] = "close" /\ outcome[p] = "error"
    /\ stage[p] = "await" \/ outcome[p] = "ok" => pc[r] = "over" /\ audit[r] # "closed"
    /\ audit[r] = "closed" => outcome[p] = "error"
    /\ pc[r] = "killed" => stage[p] \in {"exited", "dead"}

\* The trail holds the stored requests, each once.
TrailInv ==
    /\ \A k \in 1..sequence : /\ audit[trail[k].req] = "stored"
                              /\ trail[k].status = sent[trail[k].req]
                              /\ trail[k].status # 0
    /\ \A k, l \in 1..sequence : trail[k].req = trail[l].req => k = l
    /\ \A r \in Requests : audit[r] = "stored" => \E k \in 1..sequence : trail[k].req = r

IInv == /\ TypeOK
        /\ ProcInv
        /\ RequestInv
        /\ ChainInv
        /\ TrailInv

LEMMA AfterFacts ==
    /\ DOMAIN After = {"postgres", "migrate", "redis", "bolt"}
    /\ After["postgres"] = "migrate" /\ After["migrate"] = "redis"
    /\ After["redis"] = "bolt" /\ After["bolt"] = "run"
BY DEF After

LEMMA InitIInv == Init => IInv
<1> SUFFICES ASSUME Init PROVE IInv
  OBVIOUS
<1>1. TypeOK
  BY AfterFacts DEF Init, TypeOK, ProcTypes, TrailTypes, RequestTypes, Stages,
     InChain, Statuses, Record
<1>2. TrailInv
  BY DEF Init, TrailInv
<1>3. QED
  BY <1>1, <1>2, AfterFacts DEF Init, IInv, ProcInv, RequestInv, ChainInv, InChain

-----------------------------------------------------------------------------
(* Steps of a process: the trail and the requests are left alone, but for  *)
(* those that end with it.                                                 *)

LEMMA MainIInv ==
    ASSUME IInv, NEW p \in Procs,
           \/ Start(p) \/ InvalidConfig(p) \/ Open(p) \/ OpenFails(p) \/ Listen(p)
           \/ ServeFails(p) \/ ServeStops(p) \/ Signal(p) \/ ServeError(p) \/ CloseListener(p) \/ DrainTimeout(p) \/ CloseStore(p)
    PROVE  IInv'
<1> USE AfterFacts DEF IInv, Step, Result, main, serving, bucket, handling, response,
                       Stages, Stores, InChain
<1>1. RequestInv' /\ TrailInv'
  BY DEF RequestInv, TrailInv, Start, InvalidConfig, Open, OpenFails, Listen, ServeFails, ServeStops,
         Signal, ServeError, CloseListener, DrainTimeout, CloseStore
<1>2. TypeOK'
  <2>1. TrailTypes' /\ RequestTypes'
    BY DEF TypeOK, TrailTypes, RequestTypes, Start, InvalidConfig, Open, OpenFails, Listen, ServeFails,
           ServeStops, Signal, ServeError, CloseListener, DrainTimeout, CloseStore
  <2>2. CASE \/ Start(p) \/ InvalidConfig(p) \/ OpenFails(p) \/ Signal(p)
          \/ ServeError(p) \/ DrainTimeout(p)
    BY <2>1, <2>2 DEF TypeOK, ProcTypes, Start, InvalidConfig, OpenFails, Signal, ServeError,
       DrainTimeout
  <2>3. CASE Open(p)
    BY <2>1, <2>3 DEF TypeOK, ProcTypes, Open
  <2>4. CASE Listen(p) \/ ServeFails(p) \/ ServeStops(p) \/ CloseListener(p)
    BY <2>1, <2>4 DEF TypeOK, ProcTypes, Listen, ServeFails, ServeStops, CloseListener
  <2>5. CASE CloseStore(p)
    BY <2>1, <2>5 DEF TypeOK, ProcTypes, CloseStore
  <2>6. QED BY <2>1, <2>2, <2>3, <2>4, <2>5 DEF TypeOK, ProcTypes, TrailTypes, RequestTypes
<1>3. ProcInv' /\ ChainInv'
  <2>1. CASE Start(p)
    BY <2>1 DEF TypeOK, ProcTypes, TrailTypes, RequestTypes, ProcInv, ChainInv, Start
  <2>2. CASE Open(p)
    <3>1. PICK s \in DOMAIN After : /\ stage[p] = s
                                   /\ stage' = [stage EXCEPT ![p] = After[s]]
                                   /\ held' = [held EXCEPT ![p] = @ \cup ({s} \cap Stores)]
      BY <2>2 DEF Open
    <3>2. UNCHANGED <<outcome, at, pc, audit>>
      BY <2>2 DEF Open
    <3>3. /\ stage'[p] = After[s] /\ held'[p] = held[p] \cup ({s} \cap Stores)
          /\ \A q \in Procs \ {p} : stage'[q] = stage[q] /\ held'[q] = held[q]
      BY <3>1 DEF TypeOK, ProcTypes
    <3>4. s \in {"postgres", "migrate", "redis", "bolt"} /\ held[p] \subseteq Stores
      BY DEF TypeOK, ProcTypes
    <3>5. ChainInv'
      BY <3>1, <3>2, <3>3, <3>4 DEF ChainInv
    <3>6. ProcInv'
      <4>1. \A q \in Procs \ {p} : stage'[q] = stage[q] /\ held'[q] = held[q] /\ outcome'[q] = outcome[q]
        BY <3>2, <3>3
      <4>2. outcome'[p] = "none" /\ stage'[p] \in {"migrate", "redis", "bolt", "run"}
        BY <3>1, <3>2, <3>3, <3>4 DEF ProcInv
      <4>3. CASE s = "postgres"
        BY <3>1, <3>3, <4>1, <4>2, <4>3 DEF ProcInv
      <4>4. CASE s = "migrate"
        BY <3>1, <3>3, <4>1, <4>2, <4>4 DEF ProcInv
      <4>5. CASE s = "redis"
        BY <3>1, <3>3, <4>1, <4>2, <4>5 DEF ProcInv
      <4>6. CASE s = "bolt"
        BY <3>1, <3>3, <3>4, <4>1, <4>2, <4>6 DEF ProcInv
      <4>7. QED BY <3>4, <4>3, <4>4, <4>5, <4>6
    <3>7. QED BY <3>5, <3>6
  <2>3. CASE InvalidConfig(p) \/ OpenFails(p)
    <3>1. CASE InvalidConfig(p)
      BY <3>1 DEF TypeOK, ProcTypes, TrailTypes, RequestTypes, ProcInv, ChainInv,
         InvalidConfig
    <3>2. CASE OpenFails(p)
      BY <3>2 DEF TypeOK, ProcTypes, TrailTypes, RequestTypes, ProcInv, ChainInv,
         OpenFails
    <3>3. QED BY <2>3, <3>1, <3>2
  <2>4. CASE Listen(p) \/ ServeFails(p) \/ ServeStops(p) \/ CloseListener(p)
    BY <2>4 DEF ProcInv, ChainInv, Listen, ServeFails, ServeStops, CloseListener
  <2>5. CASE Signal(p)
    BY <2>5 DEF TypeOK, ProcTypes, TrailTypes, RequestTypes, ProcInv, ChainInv, Signal
  <2>6. CASE ServeError(p)
    BY <2>6 DEF TypeOK, ProcTypes, TrailTypes, RequestTypes, ProcInv, ChainInv,
       ServeError
  <2>7. CASE DrainTimeout(p)
    BY <2>7 DEF TypeOK, ProcTypes, TrailTypes, RequestTypes, ProcInv, ChainInv,
       DrainTimeout
  <2>8. CASE CloseStore(p)
    BY <2>8 DEF TypeOK, ProcTypes, TrailTypes, RequestTypes, ProcInv, ChainInv,
       CloseStore
  <2>9. QED BY <2>1, <2>2, <2>3, <2>4, <2>5, <2>6, <2>7, <2>8
<1>4. QED BY <1>1, <1>2, <1>3

\* A complete drain: what is left of the process's requests has ended.
LEMMA DrainedIInv ==
    ASSUME IInv, NEW p \in Procs, Drained(p) \/ Await(p)
    PROVE  IInv'
<1> USE AfterFacts DEF IInv, Step, Result, main, serving, bucket, handling, response,
                       Stages, Stores, InChain
<1>1. RequestInv' /\ TrailInv'
  BY DEF RequestInv, TrailInv, Drained, Await
<1>2. TypeOK'
  <2>1. TrailTypes' /\ RequestTypes'
    BY DEF TypeOK, TrailTypes, RequestTypes, Drained, Await
  <2>2. CASE Drained(p)
    BY <2>1, <2>2 DEF TypeOK, ProcTypes, Drained
  <2>3. CASE Await(p)
    BY <2>1, <2>3 DEF TypeOK, ProcTypes, Await
  <2>4. QED BY <2>2, <2>3
<1>3. CASE Drained(p)
  <2>1. ASSUME NEW r \in Requests, at[r] = p PROVE pc[r] = "over" /\ audit[r] # "closed"
    <3>1. pc[r] \notin InChain
      BY <1>3, <2>1 DEF Drained, InFlight
    <3>2. pc[r] # "idle" /\ pc[r] # "killed"
      BY <1>3, <2>1 DEF Drained, RequestInv, ChainInv
    <3>3. audit[r] # "closed"
      BY <1>3, <2>1 DEF Drained, ChainInv, ProcInv
    <3>4. QED BY <3>1, <3>2, <3>3 DEF TypeOK, ProcTypes, TrailTypes, RequestTypes
  <2>2. QED
    BY <1>1, <1>2, <1>3, <2>1 DEF TypeOK, ProcTypes, TrailTypes, RequestTypes,
       ProcInv, ChainInv, Drained
<1>4. CASE Await(p)
  BY <1>1, <1>2, <1>4 DEF TypeOK, ProcTypes, TrailTypes, RequestTypes, ProcInv,
     ChainInv, Await
<1>5. QED BY <1>3, <1>4

\* The end of a process.
LEMMA EndIInv ==
    ASSUME IInv, NEW p \in Procs, Exit(p) \/ Crash(p)
    PROVE  IInv'
<1> USE AfterFacts DEF IInv, Step, main, serving, bucket, response, Stages, Stores, InChain
<1>1. /\ \A r \in Requests : pc'[r] = IF r \in InFlight(p) THEN "killed" ELSE pc[r]
      /\ pc' \in [Requests -> InChain \cup {"idle", "over", "killed"}]
      /\ stage'[p] \in {"exited", "dead"} /\ \A q \in Procs \ {p} : stage'[q] = stage[q]
      /\ \A q \in Procs \ {p} : held'[q] = held[q]
      /\ UNCHANGED <<outcome, serving, bucket, at, response, audit>>
  BY DEF Exit, Crash, Kill, TypeOK, ProcTypes, TrailTypes, RequestTypes
<1>2. TypeOK'
  <2>1. ProcTypes'
    BY DEF TypeOK, ProcTypes, Exit, Crash
  <2>2. QED
    BY <1>1, <2>1 DEF TypeOK, TrailTypes, RequestTypes
<1>3. ProcInv'
  BY <1>1 DEF ProcInv, TypeOK, ProcTypes, TrailTypes, RequestTypes
<1>4. RequestInv' /\ TrailInv'
  BY <1>1 DEF RequestInv, TrailInv, InFlight
<1>5. ChainInv'
  BY <1>1 DEF ChainInv, InFlight, TypeOK, ProcTypes, TrailTypes, RequestTypes
<1>6. QED BY <1>2, <1>3, <1>4, <1>5

-----------------------------------------------------------------------------
(* Steps of a request.                                                     *)

LEMMA RequestIInv ==
    ASSUME IInv, NEW r \in Requests,
           \/ \E p \in Procs : Arrive(r, p)
           \/ Admit(r) \/ Refuse(r) \/ Respond(r) \/ Return(r) \/ Panic(r)
           \/ BeginAppend(r) \/ Rollback(r) \/ AppendClosed(r) \/ Finish(r)
    PROVE  IInv'
<1> USE DEF IInv, Move, Audit, WriteHeader, main, serving, bucket, response
<1>1. TypeOK'
  <2>1. ProcTypes' /\ TrailTypes'
    BY DEF TypeOK, ProcTypes, TrailTypes, Arrive, Admit, Refuse, Respond, Return, Panic,
           BeginAppend, Rollback, AppendClosed, Finish
  <2>2. CASE \E p \in Procs : Arrive(r, p)
    BY <2>1, <2>2 DEF TypeOK, RequestTypes, InChain, Arrive
  <2>3. CASE Admit(r) \/ Refuse(r) \/ Respond(r) \/ Return(r) \/ Panic(r)
    BY <2>1, <2>3 DEF TypeOK, RequestTypes, InChain, Statuses, Admit, Refuse,
       Respond, Return, Panic
  <2>4. CASE BeginAppend(r) \/ Rollback(r) \/ AppendClosed(r) \/ Finish(r)
    BY <2>1, <2>4 DEF TypeOK, RequestTypes, InChain, BeginAppend, Rollback,
       AppendClosed, Finish
  <2>5. QED BY <2>2, <2>3, <2>4
<1>2. RequestInv'
  BY DEF TypeOK, ProcTypes, TrailTypes, RequestTypes, RequestInv, Arrive, Admit,
     Refuse, Respond, Return, Panic,
         BeginAppend, Rollback, AppendClosed, Finish
<1>3. ProcInv'
  BY DEF ProcInv, Arrive, Admit, Refuse, Respond, Return, Panic,
         BeginAppend, Rollback, AppendClosed, Finish
<1>4. TrailInv'
  <2>1. /\ UNCHANGED <<trail, sequence>>
        /\ \A u \in Requests : audit[u] = "stored" <=> audit'[u] = "stored"
        /\ \A u \in Requests : sent[u] # 0 => sent'[u] = sent[u]
    BY DEF TypeOK, ProcTypes, TrailTypes, RequestTypes, RequestInv, Arrive, Admit,
       Refuse, Respond, Return, Panic,
           BeginAppend, Rollback, AppendClosed, Finish
  <2>2. \A k \in 1..sequence : trail[k].req \in Requests
    BY DEF TypeOK, ProcTypes, TrailTypes, RequestTypes, Record
  <2>3. QED BY <2>1, <2>2 DEF TrailInv
<1>5. ChainInv'
  <2>1. CASE \E p \in Procs : Arrive(r, p)
    BY <2>1 DEF TypeOK, ProcTypes, TrailTypes, RequestTypes, RequestInv, ChainInv,
       ProcInv, InChain, Arrive
  <2>2. CASE Admit(r) \/ Refuse(r) \/ Respond(r) \/ Return(r) \/ Panic(r) \/ BeginAppend(r)
    BY <2>2 DEF TypeOK, ProcTypes, TrailTypes, RequestTypes, ChainInv, InChain,
       Admit, Refuse, Respond, Return, Panic, BeginAppend
  <2>3. CASE Rollback(r) \/ Finish(r)
    BY <2>3 DEF TypeOK, ProcTypes, TrailTypes, RequestTypes, ChainInv, InChain,
       Rollback, Finish
  <2>4. CASE AppendClosed(r)
    <3>1. at[r] \in Procs
      BY <2>4 DEF AppendClosed, TypeOK, ProcTypes, TrailTypes, RequestTypes, RequestInv
    <3>2. stage[at[r]] = "close" /\ outcome[at[r]] = "error"
      BY <2>4, <3>1 DEF AppendClosed, ProcInv, ChainInv, InChain, Stores
    <3>3. QED
      BY <2>4, <3>1, <3>2 DEF TypeOK, ProcTypes, TrailTypes, RequestTypes, ChainInv,
         InChain, AppendClosed
  <2>5. QED BY <2>1, <2>2, <2>3, <2>4
<1>6. QED BY <1>1, <1>2, <1>3, <1>4, <1>5

\* A record goes to a key that was not there.
LEMMA CommitTrail ==
    ASSUME TypeOK, NEW r \in Requests, Commit(r)
    PROVE  /\ sequence' = sequence + 1
           /\ trail' \in [1..sequence' -> Record]
           /\ trail'[sequence'] = [req |-> r, status |-> noted[r]]
           /\ \A k \in 1..sequence : trail'[k] = trail[k]
<1>1. DOMAIN trail = 1..sequence /\ sequence \in Nat
  BY DEF TypeOK, ProcTypes, TrailTypes, RequestTypes
<1>2. DOMAIN trail \cup {NextKey(r)} = 1..(sequence + 1)
  BY <1>1 DEF NextKey
<1>3. [req |-> r, status |-> noted[r]] \in Record
  BY DEF TypeOK, ProcTypes, TrailTypes, RequestTypes, Record
<1>4. QED
  BY <1>1, <1>2, <1>3 DEF Commit, NextKey, TypeOK, ProcTypes, TrailTypes, RequestTypes

LEMMA CommitIInv ==
    ASSUME IInv, NEW r \in Requests, Commit(r)
    PROVE  IInv'
<1> USE DEF IInv, Move, Audit, main, serving, response
<1>0. /\ sequence \in Nat /\ sequence' = sequence + 1
      /\ trail' \in [1..sequence' -> Record]
      /\ trail'[sequence'] = [req |-> r, status |-> noted[r]]
      /\ \A k \in 1..sequence : trail'[k] = trail[k]
  BY CommitTrail DEF TypeOK, TrailTypes
<1>1. TypeOK'
  <2>1. ProcTypes'
    BY DEF TypeOK, ProcTypes, Commit
  <2>2. TrailTypes'
    BY <1>0 DEF TrailTypes
  <2>3. RequestTypes'
    BY DEF TypeOK, RequestTypes, Commit, InChain
  <2>4. QED BY <2>1, <2>2, <2>3 DEF TypeOK
<1>2. RequestInv' /\ ProcInv' /\ ChainInv'
  <2>1. RequestInv'
    BY DEF TypeOK, RequestTypes, RequestInv, Commit
  <2>2. ProcInv'
    BY DEF ProcInv, Commit
  <2>3. ChainInv'
    BY DEF TypeOK, RequestTypes, ChainInv, InChain, Commit
  <2>4. QED BY <2>1, <2>2, <2>3
<1>3. TrailInv'
  <2>1. \A k \in 1..sequence : trail[k].req \in Requests /\ trail[k].req # r
    BY DEF TypeOK, ProcTypes, TrailTypes, RequestTypes, Record, TrailInv, RequestInv,
       Commit
  <2>2. sequence \in Nat /\ 1..sequence' = 1..sequence \cup {sequence'} /\ sequence' \notin 1..sequence
    BY <1>0
  <2>3. noted[r] = sent[r] /\ sent[r] # 0
    BY DEF RequestInv, Commit
  <2>4. audit'[r] = "stored" /\ (\A u \in Requests \ {r} : audit'[u] = audit[u]) /\ sent' = sent
    BY DEF Commit, TypeOK, ProcTypes, TrailTypes, RequestTypes
  <2>5. \A k \in 1..sequence' : k = sequence' \/ k \in 1..sequence
    BY <2>2
  <2>6. trail'[sequence'].req = r /\ trail'[sequence'].status = noted[r]
    BY <1>0
  <2>7. \A k \in 1..sequence' : /\ audit'[trail'[k].req] = "stored"
                                 /\ trail'[k].status = sent'[trail'[k].req]
                                 /\ trail'[k].status # 0
    <3>1. ASSUME NEW k \in 1..sequence
          PROVE  /\ audit'[trail'[k].req] = "stored"
                 /\ trail'[k].status = sent'[trail'[k].req]
                 /\ trail'[k].status # 0
      BY <1>0, <2>1, <2>4 DEF TrailInv
    <3>2. QED BY <3>1, <2>3, <2>4, <2>5, <2>6
  <2>8. \A k, l \in 1..sequence' : trail'[k].req = trail'[l].req => k = l
    BY <1>0, <2>1, <2>5, <2>6 DEF TrailInv
  <2>9. \A u \in Requests :
          audit'[u] = "stored" => \E k \in 1..sequence' : trail'[k].req = u
    BY <1>0, <2>2, <2>4, <2>6 DEF TrailInv
  <2>10. QED
    BY <2>7, <2>8, <2>9 DEF TrailInv
<1>4. QED BY <1>1, <1>2, <1>3

LEMMA StutterIInv == IInv /\ UNCHANGED vars => IInv'
BY DEF vars, main, serving, bucket, handling, response, IInv, TypeOK, ProcTypes,
   TrailTypes, RequestTypes, ProcInv, RequestInv,
       ChainInv, TrailInv

LEMMA NextIInv == IInv /\ [Next]_vars => IInv'
<1> SUFFICES ASSUME IInv, [Next]_vars PROVE IInv'
  OBVIOUS
<1>1. CASE \E p \in Procs : ProcStep(p)
  BY <1>1, MainIInv, DrainedIInv, EndIInv DEF ProcStep, MainStep
<1>2. CASE \E r \in Requests : RequestStep(r)
  BY <1>2, RequestIInv, CommitIInv DEF RequestStep, AppendStep
<1>3. CASE UNCHANGED vars
  BY <1>3, StutterIInv
<1>4. QED
  BY <1>1, <1>2, <1>3 DEF Next, Quiescent

\* The strengthened invariant.
THEOREM Inductive == Spec => []IInv
<1>1. QED BY InitIInv, NextIInv, PTL DEF Spec

\* Every variable has its type and the trail's keys no gap.
THEOREM TypeCorrect == Spec => []TypeOK
<1>1. IInv => TypeOK
  BY DEF IInv
<1>2. QED BY <1>1, Inductive, PTL

\* AuditTrail sees every answer.
THEOREM AnswersAreAudited == Spec => []Audited
<1>1. IInv => Audited
  <2> SUFFICES ASSUME IInv, NEW r \in Requests, pc[r] = "over",
                      audit[r] # "failed"
               PROVE  \/ \E k \in DOMAIN trail : trail[k].req = r
                      \/ audit[r] = "closed" /\ outcome[at[r]] = "error"
    BY DEF Audited
  <2>1. audit[r] \in {"stored", "closed"} /\ at[r] \in Procs
    BY DEF IInv, TypeOK, ProcTypes, TrailTypes, RequestTypes, RequestInv
  <2>2. CASE audit[r] = "stored"
    BY <2>2 DEF IInv, TypeOK, ProcTypes, TrailTypes, RequestTypes, TrailInv
  <2>3. CASE audit[r] = "closed"
    BY <2>1, <2>3 DEF IInv, ChainInv
  <2>4. QED BY <2>1, <2>2, <2>3
<1>2. QED BY <1>1, Inductive, PTL

\* A record tells what the client was sent, once.
THEOREM TrailIsTruthful == Spec => []TrailTruthful
<1>1. IInv => TrailTruthful
  BY DEF IInv, TypeOK, ProcTypes, TrailTypes, RequestTypes, TrailInv, TrailTruthful
<1>2. QED BY <1>1, Inductive, PTL

\* No error from Run: every request had ended before the stores were closed.
THEOREM StopsAreOrderly == Spec => []OrderlyStop
<1>1. IInv => OrderlyStop
  BY DEF IInv, TypeOK, ProcTypes, TrailTypes, RequestTypes, ChainInv, OrderlyStop
<1>2. QED BY <1>1, Inductive, PTL

\* No step replaces or removes a record.
THEOREM TrailIsAppendOnly == Spec => AppendOnly
<1> DEFINE Kept == \A k \in DOMAIN trail : k \in DOMAIN trail' /\ trail'[k] = trail[k]
<1>1. IInv /\ [Next]_vars => [Kept]_vars
  <2> SUFFICES ASSUME IInv, [Next]_vars PROVE trail' = trail \/ Kept
    BY DEF vars
  <2>1. CASE \E r \in Requests : Commit(r)
    <3>1. DOMAIN trail = 1..sequence /\ sequence \in Nat
      BY DEF IInv, TypeOK, ProcTypes, TrailTypes, RequestTypes
    <3>2. PICK r \in Requests : Commit(r)
      BY <2>1
    <3>3. TypeOK
      BY DEF IInv
    <3>4. sequence' = sequence + 1 /\ trail' \in [1..sequence' -> Record]
          /\ \A k \in 1..sequence : trail'[k] = trail[k]
      BY <3>2, <3>3, CommitTrail
    <3>5. QED
      BY <3>1, <3>4
  <2>2. CASE ~\E r \in Requests : Commit(r)
    BY <2>2 DEF Next, Quiescent, ProcStep, MainStep, RequestStep, AppendStep, vars,
       bucket, handling,
       Start, InvalidConfig, Open, OpenFails, Listen, ServeFails, ServeStops, Signal, ServeError,
       CloseListener,
       Drained, DrainTimeout, Await, CloseStore, Exit, Crash, Arrive, Admit, Refuse,
       Respond,
       Return, Panic, BeginAppend, Rollback, AppendClosed, Finish
  <2>3. QED BY <2>1, <2>2
<1>2. QED BY <1>1, Inductive, PTL DEF Spec, AppendOnly
-----------------------------------------------------------------------------
(* The abstract log.                                                       *)

Declined == {r \in Requests : audit[r] \in {"failed", "closed"}}
Over == {r \in Requests : pc[r] = "over"}

LEMMA RecordedIsStored ==
    ASSUME IInv, NEW r \in Requests
    PROVE  Log!Recorded(r) <=> audit[r] = "stored"
BY DEF Log!Recorded, IInv, TrailInv

\* Who has a place in the chain has not settled its append before "reply".
LEMMA Unsettled ==
    ASSUME IInv, NEW r \in Requests, pc[r] \in {"audit", "append"}
    PROVE  Log!Settling(r)
<1>1. audit[r] = "none" /\ sent[r] # 0 /\ pc[r] # "over"
  BY DEF IInv, RequestInv
<1>2. ~Log!Recorded(r)
  BY <1>1, RecordedIsStored
<1>3. QED BY <1>1, <1>2 DEF Log!Settling

LEMMA AnswerMaps ==
    ASSUME IInv, NEW r \in Requests, NEW code \in Statuses \ {0}, WriteHeader(r, code),
           UNCHANGED <<trail, sequence, audit>>, Over' = Over
    PROVE  [Log!Next]_(Log!vars)
<1>1. CASE sent[r] = 0
  <2>1. Log!Answer(r, code)
    BY <1>1 DEF WriteHeader, Log!Answer, IInv, TypeOK, RequestTypes, Over
  <2>2. QED BY <2>1 DEF Log!Next
<1>2. CASE sent[r] # 0
  <2>1. sent' = sent
    BY <1>2 DEF WriteHeader, IInv, TypeOK, RequestTypes
  <2>2. QED BY <2>1 DEF Log!vars, Over
<1>3. QED BY <1>1, <1>2

LEMMA CommitMaps ==
    ASSUME IInv, NEW r \in Requests, Commit(r)
    PROVE  Log!Append(r)
<1>1. /\ pc[r] = "append" /\ pc' = [pc EXCEPT ![r] = "reply"]
      /\ audit' = [audit EXCEPT ![r] = "stored"] /\ UNCHANGED sent
  BY DEF Commit, Move, Audit, response
<1>2. TypeOK /\ noted[r] = sent[r] /\ audit[r] = "none"
  BY <1>1 DEF IInv, RequestInv
<1>3. /\ sequence \in Nat /\ sequence' = sequence + 1
      /\ trail' \in [1..sequence' -> Record]
      /\ trail'[sequence'] = [req |-> r, status |-> noted[r]]
      /\ \A k \in 1..sequence : trail'[k] = trail[k]
  BY <1>2, CommitTrail DEF TypeOK, TrailTypes
<1>4. trail' = [k \in 1..sequence' |->
                   IF k = sequence' THEN [req |-> r, status |-> sent[r]] ELSE trail[k]]
  BY <1>2, <1>3
<1>5. Declined' = Declined /\ Over' = Over
  BY <1>1, <1>2 DEF Declined, Over, TypeOK, RequestTypes
<1>6. Log!Settling(r)
  BY <1>1, Unsettled
<1>7. QED BY <1>1, <1>3, <1>4, <1>5, <1>6 DEF Log!Append, Declined, Over

LEMMA DeclineMaps ==
    ASSUME IInv, NEW r \in Requests, Rollback(r) \/ AppendClosed(r)
    PROVE  Log!Decline(r)
<1>1. PICK res \in {"failed", "closed"} :
          /\ pc[r] \in {"audit", "append"} /\ pc' = [pc EXCEPT ![r] = "reply"]
          /\ audit' = [audit EXCEPT ![r] = res]
          /\ UNCHANGED <<trail, sequence, sent>>
  BY DEF Rollback, AppendClosed, Move, Audit, bucket, response
<1>2. Declined' = Declined \cup {r} /\ Over' = Over
  BY <1>1 DEF Declined, Over, IInv, TypeOK, RequestTypes
<1>3. Log!Settling(r)
  BY <1>1, Unsettled
<1>4. QED BY <1>1, <1>2, <1>3 DEF Log!Decline, Declined, Over

LEMMA FinishMaps ==
    ASSUME IInv, NEW r \in Requests, Finish(r)
    PROVE  Log!Finish(r)
<1>1. /\ pc[r] = "reply" /\ pc' = [pc EXCEPT ![r] = "over"]
      /\ UNCHANGED <<trail, sequence, sent, audit>>
  BY DEF Finish, Move, bucket, response
<1>2. Over' = Over \cup {r}
  BY <1>1 DEF Over, IInv, TypeOK, RequestTypes
<1>3. audit[r] \in {"stored", "failed", "closed"}
  BY <1>1 DEF IInv, RequestInv, TypeOK, RequestTypes
<1>4. Log!Recorded(r) \/ r \in Declined
  BY <1>3, RecordedIsStored DEF Declined
<1>5. QED BY <1>1, <1>2, <1>4 DEF Log!Finish, Declined, Over

LEMMA RequestMaps ==
    ASSUME IInv, NEW r \in Requests, RequestStep(r)
    PROVE  [Log!Next]_(Log!vars)
<1> USE DEF Move, response, bucket
<1>1. pc \in [Requests -> InChain \cup {"idle", "over", "killed"}]
  BY DEF IInv, TypeOK, RequestTypes
<1>2. CASE (\E p \in Procs : Arrive(r, p)) \/ Admit(r) \/ Return(r) \/ BeginAppend(r)
  <2>1. UNCHANGED <<trail, sequence, sent, audit>>
    BY <1>2 DEF Arrive, Admit, Return, BeginAppend
  <2>2. Over' = Over
    BY <1>1, <1>2 DEF Over, Arrive, Admit, Return, BeginAppend
  <2>3. QED BY <2>1, <2>2 DEF Log!vars, Over
<1>3. CASE Refuse(r) \/ Respond(r) \/ Panic(r)
  <2>1. /\ \E code \in Statuses \ {0} : WriteHeader(r, code)
        /\ UNCHANGED <<trail, sequence, audit>>
    BY <1>3 DEF Refuse, Respond, Panic, Statuses
  <2>2. Over' = Over
    BY <1>1, <1>3 DEF Over, Refuse, Respond, Panic
  <2>3. QED BY <2>1, <2>2, AnswerMaps
<1>4. CASE Commit(r)
  BY <1>4, CommitMaps DEF Log!Next
<1>5. CASE Rollback(r) \/ AppendClosed(r)
  BY <1>5, DeclineMaps DEF Log!Next
<1>6. CASE Finish(r)
  BY <1>6, FinishMaps DEF Log!Next
<1>7. QED BY <1>2, <1>3, <1>4, <1>5, <1>6 DEF RequestStep, AppendStep

\* A process has no step on the log; its end cuts off requests, none of which
\* was over.
LEMMA ProcMaps ==
    ASSUME IInv, NEW p \in Procs, ProcStep(p)
    PROVE  UNCHANGED Log!vars
<1> USE DEF bucket, response, handling
<1>1. UNCHANGED <<trail, sequence, sent, audit>>
  BY DEF ProcStep, MainStep, Start, InvalidConfig, Open, OpenFails, Listen, ServeFails,
         ServeStops, Signal, ServeError, CloseListener, Drained, DrainTimeout, Await,
         CloseStore, Exit, Crash
<1>2. Over' = Over
  <2>1. CASE Exit(p) \/ Crash(p)
    BY <2>1 DEF Exit, Crash, Kill, InFlight, InChain, Over
  <2>2. CASE ~(Exit(p) \/ Crash(p))
    BY <2>2 DEF Over, ProcStep, MainStep, Start, InvalidConfig, Open, OpenFails, Listen,
         ServeFails, ServeStops, Signal, ServeError, CloseListener, Drained, DrainTimeout,
         Await, CloseStore
  <2>3. QED BY <2>1, <2>2
<1>3. QED BY <1>1, <1>2 DEF Log!vars, Over

\* For any processes that stop, crash and take over from each other: one log
\* that only grows at its end and has, once, what each request that ended was
\* answered, unless the failure of its append was reported.
THEOREM ServerImplementsAuditLog == Spec => ImplementsAuditLog
<1>1. Init => Log!Init
  BY DEF Init, Log!Init
<1>2. IInv /\ [Next]_vars => [Log!Next]_(Log!vars)
  <2> SUFFICES ASSUME IInv, [Next]_vars PROVE [Log!Next]_(Log!vars)
    OBVIOUS
  <2>1. CASE \E p \in Procs : ProcStep(p)
    BY <2>1, ProcMaps
  <2>2. CASE \E r \in Requests : RequestStep(r)
    BY <2>2, RequestMaps
  <2>3. CASE UNCHANGED vars
    BY <2>3 DEF vars, bucket, handling, response, Log!vars
  <2>4. QED BY <2>1, <2>2, <2>3 DEF Next, Quiescent
<1>3. QED BY <1>1, <1>2, Inductive, PTL DEF Spec, ImplementsAuditLog, Log!Spec
=============================================================================
