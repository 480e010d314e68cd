------------------------------ MODULE RateLimit ------------------------------
(***************************************************************************)
(* RedisRateLimit (middleware.go): every HTTP request of a client address  *)
(* counts on a Redis key of its address and its minute, and is answered    *)
(* 429 above the limit. INCR and EXPIRE are two commands; the client       *)
(* library repeats an INCR whose reply it has not received; when Redis     *)
(* answers nothing at all the request is let through.                      *)
(*                                                                         *)
(* Time is a counter of ticks; a window has W of them (60 seconds).        *)
(***************************************************************************)
EXTENDS Integers, FiniteSets

CONSTANTS
    Clients,      \* remote addresses
    Requests,     \* the requests they send
    Limit,        \* cfg.RateLimitPerMinute
    W,            \* ticks in a window
    MaxRetries,   \* bound: INCRs of one request that run but whose reply is lost
    LastArrival,  \* bound: no request arrives after this tick
    LastTick,     \* bound: time stops here
    None          \* no key, no expiry

ASSUME RequestsAssumption == IsFiniteSet(Requests)
ASSUME LimitAssumption == Limit \in Nat \ {0}
ASSUME WindowAssumption == W \in Nat \ {0}
ASSUME BoundsAssumption == /\ MaxRetries \in Nat /\ LastArrival \in Nat
                           /\ LastTick \in Nat /\ LastArrival <= LastTick
                           /\ None \notin Int

Bucket(time) == time \div W

Key == [client : Clients, bucket : 0..Bucket(LastArrival)]

VARIABLES
    now,
    counter,  \* per key, its value in Redis; 0 when there is no such key
    expiry,   \* per key, the tick at which Redis drops it, or None
    pc,       \* per request, its next command, or how it ended
    from,     \* per request, the address it comes from
    key,      \* per request, its key
    arrived,  \* per request, when the key was built
    got,      \* per request, the count INCR returned
    retries,  \* per request, the INCRs that ran but whose reply was lost
    retryAt,  \* per refused request, the time its Retry-After points to
    orphans   \* history: keys whose creator never got to set their expiry

redis == <<counter, expiry>>
local == <<pc, from, key, arrived, got, retries, retryAt>>
vars == <<now, redis, local, orphans>>

Waiting == {"incr", "expire", "decide"}
Ended == {"served", "open", "limited"}  \* counted in, let through, 429

Init == /\ now = 0
        /\ counter = [k \in Key |-> 0]
        /\ expiry = [k \in Key |-> None]
        /\ pc = [t \in Requests |-> "idle"]
        /\ from = [t \in Requests |-> None]
        /\ key = [t \in Requests |-> None]
        /\ arrived = [t \in Requests |-> 0]
        /\ got = [t \in Requests |-> 0]
        /\ retries = [t \in Requests |-> 0]
        /\ retryAt = [t \in Requests |-> 0]
        /\ orphans = {}

-----------------------------------------------------------------------------

Goto(t, step) == pc' = [pc EXCEPT ![t] = step]

\* Mistake: one counter for all addresses.
KeyOfAnyone(c, time) == [client |-> CHOOSE d \in Clients : TRUE, bucket |-> Bucket(time)]

\* Mistake: the minute is not rounded.
KeyOfSecond(c, time) == [client |-> c, bucket |-> time]

KeyOf(c, time) == [client |-> c, bucket |-> Bucket(time)]

Arrive(t, c) == /\ pc[t] = "idle"
                /\ now <= LastArrival
                /\ from' = [from EXCEPT ![t] = c]
                /\ key' = [key EXCEPT ![t] = KeyOf(c, now)]
                /\ arrived' = [arrived EXCEPT ![t] = now]
                /\ Goto(t, "incr")
                /\ UNCHANGED <<now, redis, got, retries, retryAt, orphans>>

\* Mistake: the first hit is looked for before the increment.
FirstHitBefore(count) == count = 0

\* The request that created the key gives it its expiry.
FirstHit(count) == count = 1

Incr(t) == /\ pc[t] = "incr"
           /\ counter' = [counter EXCEPT ![key[t]] = @ + 1]
           /\ got' = [got EXCEPT ![t] = counter'[key[t]]]
           /\ Goto(t, IF FirstHit(got'[t]) THEN "expire" ELSE "decide")
           /\ UNCHANGED <<now, expiry, from, key, arrived, retries, retryAt, orphans>>

\* Redis counted, the reply was lost, and the client library sends it again.
IncrReplyLost(t) == /\ pc[t] = "incr"
                    /\ retries[t] < MaxRetries
                    /\ counter' = [counter EXCEPT ![key[t]] = @ + 1]
                    /\ retries' = [retries EXCEPT ![t] = @ + 1]
                    /\ orphans' = IF counter[key[t]] = 0 THEN orphans \cup {key[t]} ELSE orphans
                    /\ UNCHANGED <<now, expiry, pc, from, key, arrived, got, retryAt>>

\* No answer from Redis: fail-open.
IncrFails(t) == /\ pc[t] = "incr"
                /\ Goto(t, "open")
                /\ UNCHANGED <<now, redis, from, key, arrived, got, retries, retryAt, orphans>>

\* Mistake: the key lives for one window only.
KeyLifeOneWindow == W

KeyLife == 2 * W

SetExpiry(t) == /\ pc[t] = "expire"
                /\ expiry' = IF counter[key[t]] > 0
                             THEN [expiry EXCEPT ![key[t]] = now + KeyLife] ELSE expiry
                /\ Goto(t, "decide")
                /\ UNCHANGED <<now, counter, from, key, arrived, got, retries, retryAt, orphans>>

\* EXPIRE fails: logged, and forgotten.
ExpiryFails(t) == /\ pc[t] = "expire"
                  /\ orphans' = orphans \cup {key[t]}
                  /\ Goto(t, "decide")
                  /\ UNCHANGED <<now, redis, from, key, arrived, got, retries, retryAt>>

\* Mistake: Retry-After points to the last second of the window.
RetryAfterShort(time) == (W - 1) - (time % W)

RetryAfter(time) == W - (time % W)

\* Mistake: one request too many.
IsRateLimitedLate(count) == count > Limit + 1

IsRateLimited(count) == count > Limit

Serve(t) == /\ pc[t] = "decide"
            /\ ~IsRateLimited(got[t])
            /\ Goto(t, "served")
            /\ UNCHANGED <<now, redis, from, key, arrived, got, retries, retryAt, orphans>>

Refuse(t) == /\ pc[t] = "decide"
             /\ IsRateLimited(got[t])
             /\ Goto(t, "limited")
             /\ retryAt' = [retryAt EXCEPT ![t] = now + RetryAfter(now)]
             /\ UNCHANGED <<now, redis, from, key, arrived, got, retries, orphans>>

\* No request spends a whole window between time.Now and its answer: the
\* timeouts of the Redis client are seconds.
Prompt == \A t \in Requests : pc[t] \in Waiting => now - arrived[t] < W

Tick == /\ now < LastTick
        /\ Prompt
        /\ now' = now + 1
        /\ counter' = [k \in Key |-> IF expiry[k] = now' THEN 0 ELSE counter[k]]
        /\ expiry' = [k \in Key |-> IF expiry[k] = now' THEN None ELSE expiry[k]]
        /\ UNCHANGED <<local, orphans>>

\* The bounds are reached.
Quiescent == /\ now = LastTick
             /\ \A t \in Requests : pc[t] \notin Waiting
             /\ UNCHANGED vars

RequestStep(t) == Incr(t) \/ SetExpiry(t) \/ Serve(t) \/ Refuse(t)

Next == \/ \E t \in Requests : \/ \E c \in Clients : Arrive(t, c)
                               \/ RequestStep(t)
                               \/ IncrReplyLost(t) \/ IncrFails(t) \/ ExpiryFails(t)
        \/ Tick
        \/ Quiescent

Spec == Init /\ [][Next]_vars

-----------------------------------------------------------------------------
(* Properties.                                                             *)

\* Every variable has its type.
TypeOK == /\ now \in 0..LastTick
          /\ counter \in [Key -> Nat]
          /\ expiry \in [Key -> Nat \cup {None}]
          /\ pc \in [Requests -> {"idle"} \cup Waiting \cup Ended]
          /\ from \in [Requests -> Clients \cup {None}]
          /\ key \in [Requests -> Key \cup {None}]
          /\ arrived \in [Requests -> 0..LastTick]
          /\ got \in [Requests -> Nat]
          /\ retries \in [Requests -> 0..MaxRetries]
          /\ retryAt \in [Requests -> Nat]
          /\ orphans \subseteq Key

Served == {t \in Requests : pc[t] = "served"}

\* No minute serves an address more than the limit, however the requests'
\* commands interleave and however long one of them is delayed: the key
\* outlives the last request that may still count on it.
LimitHeld ==
    \A c \in Clients, b \in 0..Bucket(LastArrival) :
        Cardinality({t \in Served : from[t] = c /\ Bucket(arrived[t]) = b}) <= Limit

Within(t, first) == arrived[t] \in first..(first + W - 1)

ServedWithin(c, first) == {t \in Served : from[t] = c /\ Within(t, first)}

\* What the fixed windows guarantee of the "rolling 1-minute bucket"
\* (middleware.go:119): in any W consecutive ticks no more than twice the
\* limit, across the boundary of two windows.
TwiceTheLimit == \A c \in Clients, first \in 0..LastArrival :
                     Cardinality(ServedWithin(c, first)) <= 2 * Limit

Hits(t) == retries[t] + (IF got[t] > 0 THEN 1 ELSE 0)

SameMinute(t) == {u \in Requests : /\ from[u] = from[t]
                                   /\ Bucket(arrived[u]) = Bucket(arrived[t])}

\* The INCRs the requests of S have had run, each with its number.
Increments(S) == {i \in S \X (1..(MaxRetries + 1)) : i[2] <= Hits(i[1])}

\* A client is refused only for its own traffic of its own minute, counting
\* each repetition of an INCR by the Redis client.
RefusedForOwnTraffic ==
    \A t \in Requests : pc[t] = "limited" =>
        Cardinality(Increments(SameMinute(t))) > Limit

\* A refused client that comes back when Retry-After says counts on another
\* key than the one it exhausted.
RetryAfterEscapes == \A t \in Requests : pc[t] = "limited" =>
                         Bucket(retryAt[t]) > Bucket(arrived[t])

\* A key without an expiry is one whose creator is about to set it, or was
\* prevented: its INCR was repeated, or its EXPIRE failed.
ExpiryAccounted ==
    \A k \in Key : counter[k] > 0 /\ expiry[k] = None =>
        k \in orphans \/ \E t \in Requests : pc[t] = "expire" /\ key[t] = k

=============================================================================
