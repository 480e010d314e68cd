--------------------------- MODULE RateLimitProofs ---------------------------
(***************************************************************************)
(* RateLimit for any number of requests and addresses, any limit, and      *)
(* windows of any length. While a key can still be counted on it is not    *)
(* dropped: its expiry lies two windows after the start of its own, and a  *)
(* request that built it counts within a window of building it. So the     *)
(* requests of a key have got different counts, of which Limit are served. *)
(***************************************************************************)
EXTENDS RateLimit, FiniteSetTheorems, TLAPS

-----------------------------------------------------------------------------
(* Windows.                                                                *)

LEMMA BucketFacts ==
    ASSUME NEW time \in Nat
    PROVE  /\ Bucket(time) \in Nat
           /\ time % W \in 0..(W - 1)
           /\ time = W * Bucket(time) + (time % W)
BY WindowAssumption DEF Bucket

LEMMA Multiples ==
    ASSUME NEW b \in Nat, NEW c \in Nat, b < c
    PROVE  W * c >= W * b + W
<1>1. PICK d \in Nat : c = b + 1 + d
  <2>1. c - b - 1 \in Nat
    OBVIOUS
  <2>2. QED BY <2>1
<1>2. W * c = W * b + W + W * d /\ W * d \in Nat /\ W * b \in Nat
  BY <1>1, WindowAssumption
<1>3. QED BY <1>2, WindowAssumption

LEMMA BucketMonotone ==
    ASSUME NEW x \in Nat, NEW y \in Nat, x <= y
    PROVE  Bucket(x) <= Bucket(y)
<1>1. /\ Bucket(x) \in Nat /\ x % W \in 0..(W - 1) /\ x = W * Bucket(x) + (x % W)
      /\ Bucket(y) \in Nat /\ y % W \in 0..(W - 1) /\ y = W * Bucket(y) + (y % W)
  BY BucketFacts
<1>2. SUFFICES ASSUME Bucket(y) < Bucket(x) PROVE FALSE
  BY <1>1
<1>3. W * Bucket(x) >= W * Bucket(y) + W
  BY <1>1, <1>2, Multiples
<1>4. W * Bucket(x) \in Nat /\ W * Bucket(y) \in Nat
  BY <1>1, WindowAssumption
<1>5. QED BY <1>1, <1>3, <1>4, WindowAssumption

\* Retry-After points to the start of the next window.
LEMMA NextBucket ==
    ASSUME NEW time \in Nat
    PROVE  /\ time + RetryAfter(time) \in Nat
           /\ Bucket(time + RetryAfter(time)) > Bucket(time)
<1> DEFINE b == Bucket(time)
           next == time + RetryAfter(time)
<1>1. b \in Nat /\ time % W \in 0..(W - 1) /\ time = W * b + (time % W)
  BY BucketFacts
<1>2. W * b \in Nat /\ next = W * b + W /\ next \in Nat
  <2>1. W * b \in Nat
    BY <1>1, WindowAssumption
  <2>2. next = time + (W - (time % W))
    BY DEF RetryAfter
  <2>3. PICK p \in Nat : p = W * b
    BY <2>1
  <2>4. PICK m \in 0..(W - 1) : m = time % W
    BY <1>1
  <2>5. time = p + m /\ next = time + (W - m)
    BY <1>1, <2>2, <2>3, <2>4
  <2> HIDE DEF next, b
  <2>6. next = p + W
    BY <2>5, WindowAssumption
  <2>7. QED BY <2>3, <2>6, WindowAssumption
<1>3. /\ Bucket(next) \in Nat /\ next % W \in 0..(W - 1)
      /\ next = W * Bucket(next) + (next % W)
  BY <1>2, BucketFacts
<1>4. SUFFICES ASSUME Bucket(next) <= b PROVE FALSE
  BY <1>1, <1>2, <1>3
<1>5. W * Bucket(next) <= W * b /\ W * Bucket(next) \in Nat
  <2>1. CASE Bucket(next) < b
    BY <1>1, <1>3, <2>1, Multiples, WindowAssumption
  <2>2. CASE Bucket(next) = b
    BY <1>2, <2>2
  <2>3. QED BY <1>1, <1>3, <1>4, <2>1, <2>2
<1>6. QED BY <1>2, <1>3, <1>5, WindowAssumption

\* The last tick at which a key of window b may be counted on comes before.
Over(b) == W * b + 2 * W

LEMMA WindowOver ==
    ASSUME NEW time \in Nat, NEW at \in Nat, at <= time
    PROVE  /\ Over(Bucket(at)) \in Nat
           /\ time - at <= W => time < Over(Bucket(at))
           /\ time + KeyLife >= Over(Bucket(at))
<1>1. /\ Bucket(at) \in Nat /\ at % W \in 0..(W - 1)
      /\ at = W * Bucket(at) + (at % W) /\ W * Bucket(at) \in Nat
  BY BucketFacts, WindowAssumption
<1>2. QED BY <1>1, WindowAssumption DEF Over, KeyLife

-----------------------------------------------------------------------------
(* The invariant.                                                          *)

Counted == {"expire", "decide", "served", "limited"}

RequestInv(t) ==
    /\ pc[t] # "idle" => /\ from[t] \in Clients /\ key[t] \in Key
                         /\ key[t] = [client |-> from[t], bucket |-> Bucket(arrived[t])]
                         /\ arrived[t] <= now
    /\ pc[t] \in Waiting => now - arrived[t] <= W
    /\ pc[t] \in Counted => got[t] >= 1
    /\ pc[t] \in Counted /\ now < Over(key[t].bucket) => got[t] <= counter[key[t]]
    /\ pc[t] = "served" => got[t] <= Limit
    /\ pc[t] = "limited" => Bucket(retryAt[t]) > Bucket(arrived[t])

\* No two requests get the same count of a key.
Distinct == \A t, u \in Requests :
                t # u /\ pc[t] \in Counted /\ pc[u] \in Counted /\ key[t] = key[u]
                    => got[t] # got[u]

\* No key is dropped before its time.
Lasting == \A k \in Key : expiry[k] # None => expiry[k] >= Over(k.bucket)

IInv == /\ TypeOK
        /\ \A t \in Requests : RequestInv(t)
        /\ Distinct
        /\ Lasting
        /\ ExpiryAccounted

\* A request that counts does so while its key cannot be dropped.
LEMMA Counting ==
    ASSUME IInv, NEW t \in Requests, pc[t] \in Waiting
    PROVE  /\ now < Over(key[t].bucket)
           /\ now + KeyLife >= Over(key[t].bucket)
           /\ now + KeyLife \in Nat /\ key[t] \in Key
<1>1. /\ key[t].bucket = Bucket(arrived[t]) /\ key[t] \in Key
      /\ arrived[t] <= now /\ now - arrived[t] <= W
      /\ now \in Nat /\ arrived[t] \in Nat
  BY BoundsAssumption DEF IInv, RequestInv, TypeOK, Waiting
<1>2. QED BY <1>1, WindowOver, WindowAssumption DEF KeyLife

-----------------------------------------------------------------------------
(* The steps.                                                              *)

\* A step of t that does no more than move t on.
Moves(t, to) ==
    /\ to \in {"decide", "served", "open", "limited"} /\ pc[t] \in Waiting /\ Goto(t, to)
    /\ pc[t] = "expire" => expiry'[key[t]] # None \/ key[t] \in orphans' \/ counter[key[t]] = 0
    /\ pc[t] = "incr" => to = "open"
    /\ to = "served" => got[t] <= Limit
    /\ to = "limited" => Bucket(retryAt'[t]) > Bucket(arrived[t])
    /\ retryAt' \in [Requests -> Nat]
    /\ \A u \in Requests \ {t} : retryAt'[u] = retryAt[u]
    /\ expiry' \in [Key -> Nat \cup {None}]
    /\ \A k \in Key : expiry'[k] = expiry[k] \/ (expiry'[k] \in Nat /\ expiry'[k] >= Over(k.bucket))
    /\ orphans \subseteq orphans' /\ orphans' \subseteq Key
    /\ UNCHANGED <<now, counter, from, key, arrived, got, retries>>

LEMMA MoveStep ==
    ASSUME IInv, NEW t \in Requests, NEW to, Moves(t, to)
    PROVE  IInv'
<1> USE DEF IInv, Moves
<1>1. /\ pc' \in [Requests -> {"idle"} \cup Waiting \cup Ended] /\ pc'[t] = to
      /\ \A u \in Requests \ {t} : pc'[u] = pc[u]
  BY DEF Goto, TypeOK, Waiting, Ended
<1>2. TypeOK'
  BY <1>1 DEF TypeOK
<1>3. ASSUME NEW u \in Requests
      PROVE  RequestInv(u)'
  <2>1. RequestInv(u)
    OBVIOUS
  <2>2. CASE u = t
    BY <1>1, <2>1, <2>2 DEF RequestInv, Waiting, Counted
  <2>3. CASE u # t
    BY <1>1, <2>1, <2>3 DEF RequestInv
  <2>4. QED BY <2>2, <2>3
<1>4. Distinct'
  BY <1>1 DEF Distinct, Waiting, Counted
<1>5. Lasting'
  BY DEF Lasting
<1>6. ExpiryAccounted'
  <2> SUFFICES ASSUME NEW k \in Key, counter[k] > 0, expiry'[k] = None
               PROVE  k \in orphans' \/ \E u \in Requests : pc'[u] = "expire" /\ key[u] = k
    BY DEF ExpiryAccounted
  <2>1. expiry[k] = None
    BY BoundsAssumption
  <2>2. k \in orphans \/ \E u \in Requests : pc[u] = "expire" /\ key[u] = k
    BY <2>1 DEF ExpiryAccounted
  <2>3. CASE pc[t] = "expire" /\ key[t] = k
    BY <2>3
  <2>4. QED BY <1>1, <2>2, <2>3
<1>7. QED BY <1>2, <1>3, <1>4, <1>5, <1>6

LEMMA InitStep == Init => IInv
<1> SUFFICES ASSUME Init PROVE IInv
  OBVIOUS
<1>1. TypeOK
  BY BoundsAssumption DEF Init, TypeOK
<1>2. ASSUME NEW t \in Requests
      PROVE  RequestInv(t)
  BY DEF Init, RequestInv, Waiting, Counted
<1>3. Distinct /\ Lasting /\ ExpiryAccounted
  BY DEF Init, Distinct, Lasting, ExpiryAccounted, Counted
<1>4. QED BY <1>1, <1>2, <1>3 DEF IInv

LEMMA ArriveStep ==
    ASSUME IInv, NEW t \in Requests, NEW c \in Clients, Arrive(t, c)
    PROVE  IInv'
<1> USE DEF IInv
<1>1. /\ now \in Nat /\ now \in 0..LastTick /\ now <= LastArrival /\ pc[t] = "idle"
      /\ UNCHANGED <<now, counter, expiry, got, retries, retryAt, orphans>>
  BY BoundsAssumption DEF Arrive, TypeOK, redis
<1>2. KeyOf(c, now) \in Key
  <2>1. /\ Bucket(now) \in Nat /\ Bucket(LastArrival) \in Nat
        /\ Bucket(now) <= Bucket(LastArrival)
    BY <1>1, BucketFacts, BucketMonotone, BoundsAssumption
  <2>2. Bucket(now) \in 0..Bucket(LastArrival)
    BY <2>1
  <2>3. QED BY <2>2 DEF KeyOf, Key
<1>3. /\ pc' = [pc EXCEPT ![t] = "incr"] /\ from' = [from EXCEPT ![t] = c]
      /\ key' = [key EXCEPT ![t] = KeyOf(c, now)]
      /\ arrived' = [arrived EXCEPT ![t] = now]
  BY DEF Arrive, Goto
<1>4. /\ pc'[t] = "incr" /\ from'[t] = c /\ key'[t] = KeyOf(c, now) /\ arrived'[t] = now
      /\ \A u \in Requests \ {t} : /\ pc'[u] = pc[u] /\ from'[u] = from[u]
                                   /\ key'[u] = key[u] /\ arrived'[u] = arrived[u]
  BY <1>3 DEF TypeOK
<1>5. TypeOK'
  BY <1>1, <1>2, <1>3 DEF TypeOK, Waiting
<1>6. ASSUME NEW u \in Requests
      PROVE  RequestInv(u)'
  <2>1. CASE u = t
    BY <1>1, <1>2, <1>4, <2>1, WindowAssumption DEF RequestInv, Counted, Waiting, KeyOf
  <2>2. CASE u # t
    BY <1>1, <1>4, <2>2 DEF RequestInv
  <2>3. QED BY <2>1, <2>2
<1>7. Distinct'
  BY <1>1, <1>4 DEF Distinct, Counted
<1>8. Lasting'
  BY <1>1 DEF Lasting
<1>9. ExpiryAccounted'
  BY <1>1, <1>4 DEF ExpiryAccounted
<1>10. QED BY <1>5, <1>6, <1>7, <1>8, <1>9

LEMMA IncrStep ==
    ASSUME IInv, NEW t \in Requests, Incr(t)
    PROVE  IInv'
<1> USE DEF IInv
<1> DEFINE k == key[t]
           count == counter[k] + 1
<1>1. /\ pc[t] = "incr" /\ counter' = [counter EXCEPT ![k] = count]
      /\ UNCHANGED <<now, expiry, from, key, arrived, retries, retryAt, orphans>>
  BY DEF Incr
<1>2. k \in Key /\ now < Over(k.bucket)
  BY <1>1, Counting DEF Waiting
<1>3. count \in Nat /\ count >= 1 /\ counter[k] \in Nat
  BY <1>2 DEF TypeOK
<1>4. counter'[k] = count /\ \A j \in Key \ {k} : counter'[j] = counter[j]
  BY <1>1, <1>2 DEF TypeOK
<1>5. got' = [got EXCEPT ![t] = count]
  BY <1>1, <1>4 DEF Incr
<1>6. got'[t] = count /\ \A u \in Requests \ {t} : got'[u] = got[u]
  BY <1>5 DEF TypeOK
<1>7. PICK to \in {"expire", "decide"} :
          /\ pc' = [pc EXCEPT ![t] = to] /\ (count = 1 => to = "expire")
  BY <1>6 DEF Incr, Goto, FirstHit
<1>8. pc'[t] = to /\ \A u \in Requests \ {t} : pc'[u] = pc[u]
  BY <1>7 DEF TypeOK
<1>9. TypeOK'
  BY <1>1, <1>3, <1>5, <1>7 DEF TypeOK, Waiting
<1>10. \A j \in Key : counter'[j] \in Nat /\ counter'[j] >= counter[j]
  BY <1>3, <1>4 DEF TypeOK
<1>11. ASSUME NEW u \in Requests
       PROVE  RequestInv(u)'
  <2>1. RequestInv(u)
    OBVIOUS
  <2>2. CASE u = t
    BY <1>1, <1>3, <1>4, <1>6, <1>8, <2>1, <2>2 DEF RequestInv, Counted, Waiting
  <2>3. CASE u # t
    <3>1. /\ got'[u] = got[u] /\ pc'[u] = pc[u] /\ got[u] \in Nat
          /\ pc[u] \in Counted => key[u] \in Key
      BY <1>6, <1>8, <2>1, <2>3 DEF RequestInv, Counted, TypeOK
    <3>2. pc[u] \in Counted /\ now < Over(key[u].bucket) => got[u] <= counter'[key[u]]
      BY <1>10, <2>1, <3>1 DEF RequestInv, TypeOK
    <3>3. QED BY <1>1, <2>1, <3>1, <3>2 DEF RequestInv
  <2>4. QED BY <2>2, <2>3
<1>12. Distinct'
  <2>1. ASSUME NEW u \in Requests \ {t}, pc[u] \in Counted, key[u] = k
        PROVE  got[u] # count
    <3>1. got[u] <= counter[k] /\ got[u] \in Nat
      BY <1>2, <2>1 DEF RequestInv, TypeOK
    <3>2. QED BY <1>3, <3>1
  <2>2. QED BY <1>1, <1>6, <1>8, <2>1 DEF Distinct
<1>13. Lasting'
  BY <1>1 DEF Lasting
<1>14. ExpiryAccounted'
  <2> SUFFICES ASSUME NEW j \in Key, counter'[j] > 0, expiry[j] = None
               PROVE  j \in orphans \/ \E u \in Requests : pc'[u] = "expire" /\ key[u] = j
    BY <1>1 DEF ExpiryAccounted
  <2>1. CASE j = k /\ count = 1
    BY <1>7, <1>8, <2>1
  <2>2. CASE ~(j = k /\ count = 1)
    <3>1. counter[j] > 0
      BY <1>3, <1>4, <2>2
    <3>2. j \in orphans \/ \E u \in Requests : pc[u] = "expire" /\ key[u] = j
      BY <3>1 DEF ExpiryAccounted
    <3>3. QED BY <1>1, <1>8, <3>2
  <2>3. QED BY <2>1, <2>2
<1>15. QED BY <1>9, <1>11, <1>12, <1>13, <1>14

LEMMA ReplyLostStep ==
    ASSUME IInv, NEW t \in Requests, IncrReplyLost(t)
    PROVE  IInv'
<1> USE DEF IInv
<1> DEFINE k == key[t]
<1>1. /\ pc[t] = "incr" /\ counter' = [counter EXCEPT ![k] = @ + 1]
      /\ retries[t] < MaxRetries /\ retries' = [retries EXCEPT ![t] = @ + 1]
      /\ UNCHANGED <<now, expiry, pc, from, key, arrived, got, retryAt>>
  BY DEF IncrReplyLost
<1>2. k \in Key /\ counter[k] \in Nat
  BY <1>1, Counting DEF Waiting, TypeOK
<1>3. orphans' = IF counter[k] = 0 THEN orphans \cup {k} ELSE orphans
  BY DEF IncrReplyLost
<1>4. counter'[k] = counter[k] + 1 /\ \A j \in Key \ {k} : counter'[j] = counter[j]
  BY <1>1, <1>2 DEF TypeOK
<1>5. \A j \in Key : counter'[j] \in Nat /\ counter'[j] >= counter[j]
  BY <1>2, <1>4 DEF TypeOK
<1>6. TypeOK'
  <2>1. retries' \in [Requests -> 0..MaxRetries]
    BY <1>1, BoundsAssumption DEF TypeOK
  <2>2. counter' \in [Key -> Nat]
    BY <1>1, <1>2 DEF TypeOK
  <2>3. orphans' \subseteq Key
    BY <1>2, <1>3 DEF TypeOK
  <2>4. QED BY <1>1, <2>1, <2>2, <2>3 DEF TypeOK
<1>7. ASSUME NEW u \in Requests
      PROVE  RequestInv(u)'
  <2>1. RequestInv(u)
    OBVIOUS
  <2>2. pc[u] \in Counted => key[u] \in Key /\ got[u] \in Nat
    BY <2>1 DEF RequestInv, Counted, TypeOK
  <2>3. pc[u] \in Counted /\ now < Over(key[u].bucket) => got[u] <= counter'[key[u]]
    BY <1>5, <2>1, <2>2 DEF RequestInv, TypeOK
  <2>4. QED BY <1>1, <2>1, <2>3 DEF RequestInv
<1>8. Distinct' /\ Lasting'
  BY <1>1 DEF Distinct, Lasting
<1>9. ExpiryAccounted'
  <2> SUFFICES ASSUME NEW j \in Key, counter'[j] > 0, expiry[j] = None
               PROVE  j \in orphans' \/ \E u \in Requests : pc[u] = "expire" /\ key[u] = j
    BY <1>1 DEF ExpiryAccounted
  <2>1. CASE j = k /\ counter[k] = 0
    BY <1>3, <2>1
  <2>2. CASE ~(j = k /\ counter[k] = 0)
    <3>1. counter[j] > 0
      BY <1>2, <1>4, <2>2
    <3>2. QED BY <1>3, <3>1 DEF ExpiryAccounted
  <2>3. QED BY <2>1, <2>2
<1>10. QED BY <1>6, <1>7, <1>8, <1>9

LEMMA IncrFailsStep ==
    ASSUME IInv, NEW t \in Requests, IncrFails(t)
    PROVE  IInv'
<1>1. /\ pc[t] = "incr" /\ Goto(t, "open")
      /\ UNCHANGED <<now, counter, expiry, from, key, arrived, got, retries, retryAt, orphans>>
  BY DEF IncrFails, redis
<1>2. TypeOK
  BY DEF IInv
<1>3. Moves(t, "open")
  BY <1>1, <1>2 DEF Moves, TypeOK, Waiting
<1>4. QED BY <1>3, MoveStep

LEMMA SetExpiryStep ==
    ASSUME IInv, NEW t \in Requests, SetExpiry(t)
    PROVE  IInv'
<1> DEFINE k == key[t]
           then == now + KeyLife
<1>1. /\ pc[t] = "expire" /\ Goto(t, "decide")
      /\ expiry' = IF counter[k] > 0 THEN [expiry EXCEPT ![k] = then] ELSE expiry
      /\ UNCHANGED <<now, counter, from, key, arrived, got, retries, retryAt, orphans>>
  BY DEF SetExpiry
<1>2. TypeOK
  BY DEF IInv
<1>3. k \in Key /\ then \in Nat /\ then >= Over(k.bucket) /\ counter[k] \in Nat
  BY <1>1, <1>2, Counting DEF Waiting, TypeOK
<1>4. expiry \in [Key -> Nat \cup {None}] /\ expiry' \in [Key -> Nat \cup {None}]
  BY <1>1, <1>2, <1>3 DEF TypeOK
<1>5. ASSUME NEW j \in Key
      PROVE  expiry'[j] = expiry[j] \/ (expiry'[j] \in Nat /\ expiry'[j] >= Over(j.bucket))
  <2> HIDE DEF then, k
  <2>1. CASE counter[k] > 0 /\ j = k
    <3>1. expiry'[j] = then
      BY <1>1, <1>3, <1>4, <2>1
    <3>2. QED BY <1>3, <2>1, <3>1
  <2>2. CASE ~(counter[k] > 0 /\ j = k)
    BY <1>1, <1>3, <1>4, <2>2
  <2>3. QED BY <2>1, <2>2
<1>6. expiry'[k] # None \/ counter[k] = 0
  <2>1. CASE counter[k] > 0
    <3>1. expiry'[k] = then
      BY <1>1, <1>3, <1>4, <2>1
    <3>2. QED BY <1>3, <3>1, BoundsAssumption
  <2>2. QED BY <1>3, <2>1
<1>7. Moves(t, "decide")
  BY <1>1, <1>2, <1>4, <1>5, <1>6 DEF Moves, TypeOK, Waiting
<1>8. QED BY <1>7, MoveStep

LEMMA ExpiryFailsStep ==
    ASSUME IInv, NEW t \in Requests, ExpiryFails(t)
    PROVE  IInv'
<1>1. /\ pc[t] = "expire" /\ Goto(t, "decide") /\ orphans' = orphans \cup {key[t]}
      /\ UNCHANGED <<now, counter, expiry, from, key, arrived, got, retries, retryAt>>
  BY DEF ExpiryFails, redis
<1>2. TypeOK
  BY DEF IInv
<1>3. key[t] \in Key
  BY <1>1, Counting DEF Waiting
<1>4. Moves(t, "decide")
  BY <1>1, <1>2, <1>3 DEF Moves, TypeOK, Waiting
<1>5. QED BY <1>4, MoveStep

LEMMA ServeStep ==
    ASSUME IInv, NEW t \in Requests, Serve(t)
    PROVE  IInv'
<1>1. /\ pc[t] = "decide" /\ ~(got[t] > Limit) /\ Goto(t, "served")
      /\ UNCHANGED <<now, counter, expiry, from, key, arrived, got, retries, retryAt, orphans>>
  BY DEF Serve, IsRateLimited, redis
<1>2. TypeOK
  BY DEF IInv
<1>3. got[t] <= Limit
  BY <1>1, <1>2, LimitAssumption DEF TypeOK
<1>4. Moves(t, "served")
  BY <1>1, <1>2, <1>3 DEF Moves, TypeOK, Waiting
<1>5. QED BY <1>4, MoveStep

LEMMA RefuseStep ==
    ASSUME IInv, NEW t \in Requests, Refuse(t)
    PROVE  IInv'
<1> DEFINE at == now + RetryAfter(now)
<1>1. /\ pc[t] = "decide" /\ Goto(t, "limited") /\ retryAt' = [retryAt EXCEPT ![t] = at]
      /\ UNCHANGED <<now, counter, expiry, from, key, arrived, got, retries, orphans>>
  BY DEF Refuse, redis
<1>2. TypeOK /\ RequestInv(t)
  BY DEF IInv
<1>3. now \in Nat /\ arrived[t] \in Nat /\ arrived[t] <= now
  BY <1>1, <1>2, BoundsAssumption DEF TypeOK, RequestInv
<1>4. at \in Nat /\ Bucket(at) > Bucket(now)
  BY <1>3, NextBucket
<1>5. Bucket(at) > Bucket(arrived[t])
  <2>1. Bucket(arrived[t]) <= Bucket(now) /\ Bucket(now) \in Nat /\ Bucket(arrived[t]) \in Nat
    BY <1>3, BucketMonotone, BucketFacts
  <2>2. Bucket(at) \in Nat
    BY <1>4, BucketFacts
  <2>3. QED BY <1>4, <2>1, <2>2
<1>6. /\ retryAt' \in [Requests -> Nat] /\ retryAt'[t] = at
      /\ \A u \in Requests \ {t} : retryAt'[u] = retryAt[u]
  <2> HIDE DEF at
  <2>1. QED BY <1>1, <1>2, <1>4 DEF TypeOK
<1>7. Moves(t, "limited")
  BY <1>1, <1>2, <1>5, <1>6 DEF Moves, TypeOK, Waiting
<1>8. QED BY <1>7, MoveStep

LEMMA TickStep ==
    ASSUME IInv, Tick
    PROVE  IInv'
<1> USE DEF IInv
<1>1. /\ now \in Nat /\ now' = now + 1 /\ now' \in 0..LastTick
      /\ UNCHANGED <<pc, from, key, arrived, got, retries, retryAt, orphans>>
  BY BoundsAssumption DEF Tick, TypeOK, local
<1>2. /\ counter' = [k \in Key |-> IF expiry[k] = now' THEN 0 ELSE counter[k]]
      /\ expiry' = [k \in Key |-> IF expiry[k] = now' THEN None ELSE expiry[k]]
  BY DEF Tick
<1>3. TypeOK'
  <2>1. counter' \in [Key -> Nat] /\ expiry' \in [Key -> Nat \cup {None}]
    BY <1>2 DEF TypeOK
  <2>2. QED BY <1>1, <2>1 DEF TypeOK
<1>4. ASSUME NEW t \in Requests
      PROVE  RequestInv(t)'
  <2>1. RequestInv(t) /\ arrived[t] \in Nat
    BY BoundsAssumption DEF TypeOK
  <2>2. pc[t] \in Waiting => now' - arrived[t] <= W
    BY <1>1, <2>1, WindowAssumption DEF Tick, Prompt
  <2>3. ASSUME pc[t] \in Counted, now' < Over(key[t].bucket)
        PROVE  got[t] <= counter'[key[t]]
    <3>1. key[t] \in Key /\ pc[t] # "idle" /\ Over(key[t].bucket) \in Nat
      <4>1. /\ key[t] \in Key /\ pc[t] # "idle"
            /\ key[t].bucket = Bucket(arrived[t]) /\ arrived[t] <= now
        BY <2>1, <2>3 DEF RequestInv, Counted
      <4>2. QED BY <1>1, <2>1, <4>1, WindowOver
    <3>2. now < Over(key[t].bucket)
      BY <1>1, <2>3, <3>1
    <3>3. expiry[key[t]] # now'
      <4>1. SUFFICES ASSUME expiry[key[t]] = now' PROVE FALSE
        OBVIOUS
      <4>2. now' >= Over(key[t].bucket)
        BY <1>1, <3>1, <4>1, BoundsAssumption DEF Lasting
      <4>3. QED BY <1>1, <2>3, <3>1, <4>2
    <3>4. QED BY <1>2, <2>1, <2>3, <3>1, <3>2, <3>3 DEF RequestInv
  <2>4. pc[t] # "idle" => arrived[t] <= now'
    BY <1>1, <2>1 DEF RequestInv
  <2>5. QED BY <1>1, <2>1, <2>2, <2>3, <2>4 DEF RequestInv
<1>5. Distinct'
  BY <1>1 DEF Distinct
<1>6. Lasting'
  BY <1>2 DEF Lasting
<1>7. ExpiryAccounted'
  <2> SUFFICES ASSUME NEW k \in Key, counter'[k] > 0, expiry'[k] = None
               PROVE  k \in orphans \/ \E t \in Requests : pc[t] = "expire" /\ key[t] = k
    BY <1>1 DEF ExpiryAccounted
  <2>1. expiry[k] # now'
    <3>1. SUFFICES ASSUME expiry[k] = now' PROVE FALSE
      OBVIOUS
    <3>2. counter'[k] = 0
      BY <1>2, <3>1
    <3>3. QED BY <3>2
  <2>2. counter'[k] = counter[k] /\ expiry'[k] = expiry[k]
    BY <1>2, <2>1
  <2>3. QED BY <2>2 DEF ExpiryAccounted
<1>8. QED BY <1>3, <1>4, <1>5, <1>6, <1>7

LEMMA Inductive == IInv /\ [Next]_vars => IInv'
<1> SUFFICES ASSUME IInv, [Next]_vars PROVE IInv'
  OBVIOUS
<1>1. ASSUME UNCHANGED vars
      PROVE  IInv'
  BY <1>1 DEF IInv, TypeOK, RequestInv, Distinct, Lasting, ExpiryAccounted, vars, redis, local
<1>2. ASSUME NEW t \in Requests, NEW c \in Clients, Arrive(t, c)
      PROVE  IInv'
  BY <1>2, ArriveStep
<1>3. ASSUME NEW t \in Requests, RequestStep(t)
      PROVE  IInv'
  BY <1>3, IncrStep, SetExpiryStep, ServeStep, RefuseStep DEF RequestStep
<1>4. ASSUME NEW t \in Requests, IncrReplyLost(t) \/ IncrFails(t) \/ ExpiryFails(t)
      PROVE  IInv'
  BY <1>4, ReplyLostStep, IncrFailsStep, ExpiryFailsStep
<1>5. CASE Tick
  BY <1>5, TickStep
<1>6. QED BY <1>1, <1>2, <1>3, <1>4, <1>5 DEF Next, Quiescent

LEMMA Invariance == Spec => []IInv
BY InitStep, Inductive, PTL DEF Spec

-----------------------------------------------------------------------------
(* A count is the client's own. A key is counted on only by the requests    *)
(* that built it, so its counter never exceeds the INCRs they have had run *)
(* (it may fall behind them: the key is dropped, never they).              *)

OnKey(k) == {u \in Requests : pc[u] # "idle" /\ key[u] = k}

OwnHits(k) == Increments(OnKey(k))

TrafficInv ==
    /\ \A k \in Key : counter[k] <= Cardinality(OwnHits(k))
    /\ \A t \in Requests : /\ pc[t] \in {"idle", "incr"} => got[t] = 0
                           /\ got[t] > 0 => got[t] <= Cardinality(OwnHits(key[t]))
                           /\ pc[t] = "limited" => got[t] > Limit

LEMMA HitsMember ==
    ASSUME NEW k, NEW u, NEW n
    PROVE  <<u, n>> \in OwnHits(k) <=>
               /\ u \in Requests /\ pc[u] # "idle" /\ key[u] = k
               /\ n \in 1..(MaxRetries + 1) /\ n <= Hits(u)
BY DEF OwnHits, OnKey, Increments

\* The INCRs there can be.
Pairs == Requests \X (1..(MaxRetries + 1))

LEMMA HitsFinite ==
    ASSUME NEW I \in SUBSET Pairs
    PROVE  IsFiniteSet(I) /\ Cardinality(I) \in Nat
<1>1. IsFiniteSet(1..(MaxRetries + 1)) /\ IsFiniteSet(Requests)
  BY FS_Interval, RequestsAssumption, BoundsAssumption
<1>2. IsFiniteSet(Pairs)
  BY <1>1, FS_Product DEF Pairs
<1>3. QED BY <1>2, FS_Subset, FS_CardinalityType

\* The hits of a key are counted: none is taken back, and one more counts.
LEMMA HitsGrow ==
    ASSUME NEW k, OwnHits(k) \subseteq OwnHits(k)'
    PROVE  /\ Cardinality(OwnHits(k)) \in Nat /\ Cardinality(OwnHits(k))' \in Nat
           /\ Cardinality(OwnHits(k)) <= Cardinality(OwnHits(k))'
           /\ \A p : p \in OwnHits(k)' /\ p \notin OwnHits(k)
                 => Cardinality(OwnHits(k)) + 1 <= Cardinality(OwnHits(k))'
<1> DEFINE H == OwnHits(k)
           G == OwnHits(k)'
<1>1. H \subseteq Pairs /\ G \subseteq Pairs
  BY DEF OwnHits, OnKey, Increments, Pairs
<1>2. /\ IsFiniteSet(H) /\ Cardinality(H) \in Nat
      /\ IsFiniteSet(G) /\ Cardinality(G) \in Nat
  BY <1>1, HitsFinite
<1>3. H \subseteq G
  OBVIOUS
<1> HIDE DEF H, G
<1>4. Cardinality(H) <= Cardinality(G)
  BY <1>2, <1>3, FS_Subset
<1>5. ASSUME NEW p, p \in G, p \notin H
      PROVE  Cardinality(H) + 1 <= Cardinality(G)
  <2>1. H # G
    BY <1>5
  <2>2. Cardinality(H) < Cardinality(G)
    <3>1. Cardinality(H) # Cardinality(G)
      BY <1>2, <1>3, <2>1, FS_Subset
    <3>2. QED BY <1>2, <1>4, <3>1
  <2>3. QED BY <1>2, <2>2
<1>6. QED BY <1>2, <1>4, <1>5 DEF H, G

\* What a step of t leaves: every hit, and no counter above its hits.
Counts(t) ==
    /\ \A k \in Key : OwnHits(k) \subseteq OwnHits(k)'
    /\ \A k \in Key : counter'[k] <= counter[k]
                        \/ /\ counter'[k] <= counter[k] + 1
                           /\ \E p : p \in OwnHits(k)' /\ p \notin OwnHits(k)
    /\ \A u \in Requests \ {t} : pc'[u] = pc[u] /\ got'[u] = got[u] /\ key'[u] = key[u]
    /\ got'[t] > 0 => key'[t] = key[t]
    /\ got'[t] = got[t] \/ (key[t] \in Key /\ got'[t] = counter'[key[t]])
    /\ pc'[t] \in {"idle", "incr"} => got'[t] = 0
    /\ pc'[t] = "limited" => got'[t] > Limit

LEMMA CountsStep ==
    ASSUME IInv, TrafficInv, NEW t \in Requests, Counts(t), TypeOK'
    PROVE  TrafficInv'
<1> USE DEF TrafficInv, Counts
<1>1. ASSUME NEW k \in Key
      PROVE  /\ counter'[k] <= Cardinality(OwnHits(k))'
             /\ Cardinality(OwnHits(k)) <= Cardinality(OwnHits(k))'
             /\ Cardinality(OwnHits(k)) \in Nat /\ Cardinality(OwnHits(k))' \in Nat
  <2>1. counter[k] \in Nat /\ counter'[k] \in Nat /\ counter[k] <= Cardinality(OwnHits(k))
    BY DEF IInv, TypeOK
  <2>2. QED BY <2>1, HitsGrow
<1>2. ASSUME NEW u \in Requests, got'[u] > 0
      PROVE  got'[u] <= Cardinality(OwnHits(key[u]))'
  <2>1. got[u] \in Nat /\ got'[u] \in Nat /\ key'[u] = key[u]
    BY <1>2 DEF IInv, TypeOK
  <2>2. CASE got'[u] = got[u]
    <3>1. key[u] \in Key
      <4>1. RequestInv(u)
        BY DEF IInv
      <4>2. pc[u] # "idle"
        BY <1>2, <2>2
      <4>3. QED BY <4>1, <4>2 DEF RequestInv
    <3>2. QED BY <1>1, <1>2, <2>1, <2>2, <3>1
  <2>3. CASE got'[u] # got[u]
    BY <1>1, <2>1, <2>3
  <2>4. QED BY <2>2, <2>3
<1>3. QED BY <1>1, <1>2

\* The hits of a key do not depend on where its requests have got to.
LEMMA SameHits ==
    ASSUME NEW k,
           \A u \in Requests : pc[u] # "idle" /\ key[u] = k =>
               pc'[u] # "idle" /\ key'[u] = k /\ Hits(u)' >= Hits(u)
               /\ Hits(u) \in Nat /\ Hits(u)' \in Nat
    PROVE  OwnHits(k) \subseteq OwnHits(k)'
BY DEF OwnHits, OnKey, Increments

LEMMA TrafficStep ==
    ASSUME IInv, TrafficInv, [Next]_vars, TypeOK'
    PROVE  TrafficInv'
<1> USE DEF TrafficInv
<1>1. TypeOK
  BY DEF IInv
\* Steps that count nothing.
<1>2. ASSUME NEW t \in Requests,
             \A u \in Requests : pc[u] # "idle" => pc'[u] # "idle" /\ key'[u] = key[u],
             \A u \in Requests \ {t} : pc'[u] = pc[u] /\ key'[u] = key[u],
             pc'[t] \in {"idle", "incr"} => pc[t] \in {"idle", "incr"},
             pc'[t] = "limited" => pc[t] = "limited" \/ got[t] > Limit,
             \A k \in Key : counter'[k] <= counter[k],
             UNCHANGED <<got, retries>>
      PROVE  TrafficInv'
  <2>1. ASSUME NEW k \in Key
        PROVE  OwnHits(k) \subseteq OwnHits(k)'
    <3>1. \A u \in Requests : Hits(u)' = Hits(u) /\ Hits(u) \in Nat
      BY <1>1, <1>2, BoundsAssumption DEF Hits, TypeOK
    <3>2. QED BY <1>2, <3>1, SameHits
  <2>2. got[t] > 0 => key'[t] = key[t]
    BY <1>2
  <2>3. Counts(t)
    BY <1>2, <2>1, <2>2 DEF Counts
  <2>4. QED BY <2>3, CountsStep
\* One more hit of t on its key.
<1>3. ASSUME NEW t \in Requests, pc[t] = "incr",
             counter' = [counter EXCEPT ![key[t]] = @ + 1],
             UNCHANGED key,
             \A u \in Requests \ {t} :
                 pc'[u] = pc[u] /\ got'[u] = got[u] /\ retries'[u] = retries[u],
             pc'[t] \in {"incr", "expire", "decide"},
             pc'[t] = "incr" => got'[t] = 0,
             got'[t] = got[t] \/ got'[t] = counter'[key[t]],
             Hits(t)' = Hits(t) + 1, Hits(t)' <= MaxRetries + 1
      PROVE  TrafficInv'
  <2> DEFINE k == key[t]
             n == Hits(t) + 1
  <2>1. k \in Key
    BY <1>3, Counting DEF Waiting
  <2>2. /\ \A u \in Requests : Hits(u) \in Nat
        /\ \A u \in Requests \ {t} : Hits(u)' = Hits(u)
    BY <1>1, <1>3, BoundsAssumption DEF Hits, TypeOK
  <2>3. ASSUME NEW j \in Key
        PROVE  OwnHits(j) \subseteq OwnHits(j)'
    <3>1. \A u \in Requests : pc[u] # "idle" /\ key[u] = j =>
              pc'[u] # "idle" /\ key'[u] = j /\ Hits(u)' >= Hits(u)
              /\ Hits(u) \in Nat /\ Hits(u)' \in Nat
      BY <1>3, <2>2
    <3>2. QED BY <3>1, SameHits
  <2>4. /\ counter'[k] = counter[k] + 1
        /\ \A j \in Key \ {k} : counter'[j] = counter[j]
        /\ \A j \in Key : counter[j] \in Nat
    BY <1>1, <1>3, <2>1 DEF TypeOK
  <2>5. ASSUME NEW j \in Key
        PROVE  counter'[j] <= counter[j]
               \/ /\ counter'[j] <= counter[j] + 1
                  /\ \E p : p \in OwnHits(j)' /\ p \notin OwnHits(j)
    <3>1. CASE j = k
      <4>1. counter'[j] <= counter[j] + 1
        BY <2>1, <2>4, <3>1
      <4>2. \E p : p \in OwnHits(j)' /\ p \notin OwnHits(j)
        <5>1. <<t, n>> \in OwnHits(j)' /\ <<t, n>> \notin OwnHits(j)
          BY <1>3, <2>2, <3>1, BoundsAssumption DEF OwnHits, OnKey, Increments
        <5>2. QED BY <5>1
      <4>3. QED BY <4>1, <4>2
    <3>2. CASE j # k
      BY <2>4, <3>2
    <3>3. QED BY <3>1, <3>2
  <2>6. Counts(t)
    BY <1>3, <2>1, <2>3, <2>5 DEF Counts
  <2>7. QED BY <2>6, CountsStep
<1>4. ASSUME UNCHANGED <<pc, key, got, retries>>,
             \A k \in Key : counter'[k] <= counter[k]
      PROVE  TrafficInv'
  <2>1. CASE Requests = {}
    <3>1. \A k \in Key : OwnHits(k) = {} /\ OwnHits(k)' = {}
      BY <2>1 DEF OwnHits, OnKey, Increments
    <3>2. ASSUME NEW k \in Key
          PROVE  counter'[k] <= Cardinality(OwnHits(k))'
      <4>1. Cardinality(OwnHits(k)) = 0 /\ Cardinality(OwnHits(k))' = 0
        BY <3>1, FS_EmptySet, Zenon
      <4>2. counter[k] <= 0 /\ counter[k] \in Nat /\ counter'[k] \in Nat
        BY <1>1, <4>1 DEF IInv, TypeOK
      <4>3. QED BY <1>4, <4>1, <4>2
    <3>3. QED BY <2>1, <3>2
  <2>2. CASE Requests # {}
    BY <1>2, <1>4, <2>2
  <2>3. QED BY <2>1, <2>2
<1>5. ASSUME NEW t \in Requests, NEW c \in Clients, Arrive(t, c)
      PROVE  TrafficInv'
  BY <1>1, <1>2, <1>5 DEF Arrive, Goto, redis, TypeOK
<1>6. ASSUME NEW t \in Requests, Incr(t)
      PROVE  TrafficInv'
  <2>1. got[t] = 0 /\ retries[t] \in 0..MaxRetries
    BY <1>1, <1>6 DEF Incr, TypeOK
  <2>2. key[t] \in Key
    BY <1>6, Counting DEF Incr, Waiting
  <2>3. counter'[key[t]] \in Nat /\ counter'[key[t]] > 0
    BY <1>1, <1>6, <2>2 DEF Incr, TypeOK
  <2>4. got'[t] = counter'[key[t]] /\ pc'[t] \in {"expire", "decide"}
    BY <1>1, <1>6 DEF Incr, Goto, TypeOK
  <2>5. \A u \in Requests \ {t} : pc'[u] = pc[u] /\ got'[u] = got[u]
    BY <1>1, <1>6 DEF Incr, Goto, TypeOK
  <2>6. Hits(t)' = Hits(t) + 1 /\ Hits(t)' <= MaxRetries + 1
    BY <1>6, <2>1, <2>3, <2>4, BoundsAssumption DEF Incr, Hits
  <2>7. QED BY <1>3, <1>6, <2>4, <2>5, <2>6 DEF Incr
<1>7. ASSUME NEW t \in Requests, IncrReplyLost(t)
      PROVE  TrafficInv'
  <2>1. got[t] = 0 /\ retries[t] \in 0..MaxRetries
    BY <1>1, <1>7 DEF IncrReplyLost, TypeOK
  <2>2. /\ retries'[t] = retries[t] + 1
        /\ \A u \in Requests \ {t} : retries'[u] = retries[u]
    BY <1>1, <1>7 DEF IncrReplyLost, TypeOK
  <2>3. Hits(t)' = Hits(t) + 1 /\ Hits(t)' <= MaxRetries + 1
    BY <1>7, <2>1, <2>2, BoundsAssumption DEF IncrReplyLost, Hits
  <2>4. QED BY <1>3, <1>7, <2>1, <2>2, <2>3 DEF IncrReplyLost
<1>8. ASSUME NEW t \in Requests,
             SetExpiry(t) \/ Serve(t) \/ Refuse(t) \/ IncrFails(t) \/ ExpiryFails(t)
      PROVE  TrafficInv'
  <2>1. UNCHANGED <<counter, key, got, retries>>
    BY <1>8 DEF SetExpiry, Serve, Refuse, IncrFails, ExpiryFails, redis
  <2>2. /\ pc'[t] \in {"decide", "served", "limited", "open"}
        /\ \A u \in Requests \ {t} : pc'[u] = pc[u]
    BY <1>1, <1>8 DEF SetExpiry, Serve, Refuse, IncrFails, ExpiryFails, Goto, TypeOK
  <2>3. pc'[t] = "limited" => got[t] > Limit
    BY <1>1, <1>8 DEF SetExpiry, Serve, Refuse, IncrFails, ExpiryFails, Goto, TypeOK,
                      IsRateLimited
  <2>4. \A k \in Key : counter[k] \in Nat
    BY <1>1 DEF TypeOK
  <2>5. QED BY <1>2, <2>1, <2>2, <2>3, <2>4
<1>9. CASE Tick
  <2>1. \A k \in Key : counter'[k] <= counter[k] /\ counter[k] \in Nat
    BY <1>1, <1>9 DEF Tick, TypeOK
  <2>2. QED BY <1>4, <1>9, <2>1 DEF Tick, local
<1>10. CASE UNCHANGED vars
  <2>1. \A k \in Key : counter'[k] <= counter[k]
    BY <1>1, <1>10 DEF vars, redis, TypeOK
  <2>2. QED BY <1>4, <1>10, <2>1 DEF vars, local
<1>11. QED BY <1>5, <1>6, <1>7, <1>8, <1>9, <1>10 DEF Next, RequestStep, Quiescent

LEMMA TrafficInvariance == Spec => []TrafficInv
<1>1. Init => TrafficInv
  <2> SUFFICES ASSUME Init PROVE TrafficInv
    OBVIOUS
  <2>1. ASSUME NEW k \in Key
        PROVE  counter[k] <= Cardinality(OwnHits(k))
    <3>1. Cardinality(OwnHits(k)) \in Nat
      BY HitsGrow, HitsFinite DEF OwnHits, OnKey, Increments, Pairs
    <3>2. QED BY <3>1 DEF Init
  <2>2. QED BY <2>1 DEF Init, TrafficInv
<1>2. IInv /\ IInv' /\ TrafficInv /\ [Next]_vars => TrafficInv'
  BY TrafficStep DEF IInv
<1>3. QED BY <1>1, <1>2, Invariance, PTL DEF Spec

-----------------------------------------------------------------------------
(* What follows from it.                                                   *)

MinuteOf(c, b) == {t \in Served : from[t] = c /\ Bucket(arrived[t]) = b}

\* The requests served on one key have got different counts up to Limit.
LEMMA OneMinute ==
    ASSUME IInv, NEW c, NEW b
    PROVE  IsFiniteSet(MinuteOf(c, b)) /\ Cardinality(MinuteOf(c, b)) <= Limit
<1> DEFINE M == MinuteOf(c, b)
           count == [t \in M |-> got[t]]
<1>1. ASSUME NEW t \in M
      PROVE  /\ t \in Requests /\ pc[t] = "served" /\ pc[t] \in Counted
             /\ key[t] = [client |-> c, bucket |-> b] /\ got[t] \in 1..Limit
  <2>1. t \in Requests /\ pc[t] = "served" /\ from[t] = c /\ Bucket(arrived[t]) = b
    BY DEF MinuteOf, Served
  <2>2. RequestInv(t) /\ got[t] \in Nat
    BY <2>1 DEF IInv, TypeOK
  <2>3. QED BY <2>1, <2>2, LimitAssumption DEF RequestInv, Counted
<1>2. \A t, u \in M : t # u => got[t] # got[u]
  BY <1>1 DEF IInv, Distinct
<1>3. count \in Injection(M, 1..Limit)
  <2>1. count \in [M -> 1..Limit]
    BY <1>1
  <2>2. QED BY <1>2, <2>1 DEF Injection, IsInjective
<1>4. IsFiniteSet(1..Limit) /\ Cardinality(1..Limit) = Limit
  BY FS_Interval, LimitAssumption
<1> HIDE DEF M, count
<1>5. IsFiniteSet(M) /\ Cardinality(M) <= Limit
  BY <1>3, <1>4, FS_Injection
<1>6. QED BY <1>5 DEF M

\* Two ticks less than a window apart are in the same window or in two
\* adjacent ones.
LEMMA Adjacent ==
    ASSUME NEW first \in Nat, NEW at \in first..(first + W - 1)
    PROVE  Bucket(at) = Bucket(first) \/ Bucket(at) = Bucket(first) + 1
<1>1. at \in Nat /\ first <= at /\ at <= first + W - 1
  BY WindowAssumption
<1>2. /\ Bucket(at) \in Nat /\ at % W \in 0..(W - 1) /\ at = W * Bucket(at) + (at % W)
      /\ Bucket(first) \in Nat /\ first % W \in 0..(W - 1)
      /\ first = W * Bucket(first) + (first % W)
      /\ Bucket(first) <= Bucket(at)
  BY <1>1, BucketFacts, BucketMonotone
<1>3. SUFFICES ASSUME Bucket(first) + 1 < Bucket(at) PROVE FALSE
  BY <1>2
<1>4. W * Bucket(at) >= W * (Bucket(first) + 1) + W
  BY <1>2, <1>3, Multiples
<1>5. PICK p \in Nat : p = W * Bucket(first)
  BY <1>2, WindowAssumption
<1>6. W * (Bucket(first) + 1) = p + W
  BY <1>2, <1>5, WindowAssumption
<1>7. PICK q \in Nat : q = W * Bucket(at)
  BY <1>2, WindowAssumption
<1>8. PICK m \in 0..(W - 1) : m = first % W
  BY <1>2
<1>9. PICK n \in 0..(W - 1) : n = at % W
  BY <1>2
<1>10. first = p + m /\ at = q + n /\ q >= p + W + W
  BY <1>2, <1>4, <1>5, <1>6, <1>7, <1>8, <1>9
<1>11. QED BY <1>1, <1>10, WindowAssumption

LEMMA TwoMinutes == IInv => TwiceTheLimit
<1> SUFFICES ASSUME IInv, NEW c \in Clients, NEW first \in 0..LastArrival
             PROVE  Cardinality(ServedWithin(c, first)) <= 2 * Limit
  BY DEF TwiceTheLimit
<1> DEFINE b == Bucket(first)
           M == MinuteOf(c, b)
           N == MinuteOf(c, b + 1)
           S == ServedWithin(c, first)
<1>1. first \in Nat
  BY BoundsAssumption
<1>2. /\ IsFiniteSet(M) /\ Cardinality(M) <= Limit
      /\ IsFiniteSet(N) /\ Cardinality(N) <= Limit
  BY OneMinute
<1>3. S \subseteq M \cup N
  <2> SUFFICES ASSUME NEW t \in S PROVE t \in M \cup N
    OBVIOUS
  <2>1. t \in Served /\ arrived[t] \in first..(first + W - 1)
    BY DEF ServedWithin, Within
  <2>2. from[t] = c
    <3>1. t \in Requests /\ pc[t] = "served"
      BY <2>1 DEF Served
    <3>2. QED BY DEF ServedWithin
  <2>3. Bucket(arrived[t]) = b \/ Bucket(arrived[t]) = b + 1
    BY <1>1, <2>1, Adjacent
  <2>4. QED BY <2>1, <2>2, <2>3 DEF MinuteOf
<1> HIDE DEF M, N, S
<1>4. /\ IsFiniteSet(M \cup N) /\ IsFiniteSet(M \cap N)
      /\ Cardinality(M \cup N) = Cardinality(M) + Cardinality(N) - Cardinality(M \cap N)
  BY <1>2, FS_Union, FS_Subset
<1>5. /\ Cardinality(M) \in Nat /\ Cardinality(N) \in Nat /\ Cardinality(M \cap N) \in Nat
      /\ Cardinality(S) <= Cardinality(M \cup N) /\ Cardinality(S) \in Nat
  BY <1>2, <1>3, <1>4, FS_CardinalityType, FS_Subset
<1>6. Cardinality(S) <= 2 * Limit
  BY <1>2, <1>4, <1>5, LimitAssumption
<1>7. QED BY <1>6 DEF S

\* No minute serves an address more than the limit (middleware.go:126-157),
\* for any interleaving of the two Redis commands of any number of requests,
\* with repeated, failed and unanswered ones.
THEOREM LimitIsHeld == Spec => []LimitHeld
<1>1. IInv => LimitHeld
  BY OneMinute DEF LimitHeld, MinuteOf
<1>2. QED BY <1>1, Invariance, PTL

\* In any W consecutive ticks an address is served at most twice the limit:
\* all that fixed windows promise of a rolling minute.
THEOREM TwiceTheLimitAtMost == Spec => []TwiceTheLimit
BY TwoMinutes, Invariance, PTL

\* Retry-After names a moment of a later window than the one that is full.
THEOREM RetryAfterIsLater == Spec => []RetryAfterEscapes
<1>1. IInv => RetryAfterEscapes
  BY DEF IInv, RequestInv, RetryAfterEscapes
<1>2. QED BY <1>1, Invariance, PTL

\* A refused request's own address has had more than Limit INCRs run in its
\* minute: nobody is refused for the traffic of another (middleware.go:131-157),
\* even when replies are lost and INCRs repeated.
THEOREM RefusalsAreEarned == Spec => []RefusedForOwnTraffic
<1>1. IInv /\ TrafficInv => RefusedForOwnTraffic
  <2> SUFFICES ASSUME IInv, TrafficInv, NEW t \in Requests, pc[t] = "limited"
               PROVE  Cardinality(Increments(SameMinute(t))) > Limit
    BY DEF RefusedForOwnTraffic
  <2> DEFINE H == OwnHits(key[t])
             S == Increments(SameMinute(t))
  <2>1. /\ key[t] = [client |-> from[t], bucket |-> Bucket(arrived[t])]
        /\ got[t] > Limit /\ got[t] \in Nat
    BY DEF IInv, RequestInv, TrafficInv, TypeOK
  <2>2. got[t] <= Cardinality(H)
    BY <2>1, LimitAssumption DEF TrafficInv
  <2>3. ASSUME NEW u \in OnKey(key[t])
        PROVE  u \in SameMinute(t)
    <3>1. u \in Requests /\ pc[u] # "idle" /\ key[u] = key[t]
      BY DEF OnKey
    <3>2. key[u] = [client |-> from[u], bucket |-> Bucket(arrived[u])]
      BY <3>1 DEF IInv, RequestInv
    <3>3. from[u] = from[t] /\ Bucket(arrived[u]) = Bucket(arrived[t])
      BY <2>1, <3>1, <3>2
    <3>4. QED BY <3>1, <3>3 DEF SameMinute
  <2>4. H \subseteq S /\ S \subseteq Pairs
    BY <2>3 DEF OwnHits, Increments, SameMinute, Pairs
  <2> HIDE DEF H, S
  <2>5. /\ IsFiniteSet(S) /\ Cardinality(S) \in Nat /\ Cardinality(H) \in Nat
        /\ Cardinality(H) <= Cardinality(S)
    BY <2>4, HitsFinite, FS_Subset
  <2>6. Cardinality(S) > Limit
    BY <2>1, <2>2, <2>5, LimitAssumption
  <2>7. QED BY <2>6 DEF S
<1>2. QED BY <1>1, Invariance, TrafficInvariance, PTL

\* A key without expiry is about to get it, or its creator lost a reply or
\* had its EXPIRE refused.
THEOREM ExpiryIsAccounted == Spec => []ExpiryAccounted
<1>1. IInv => ExpiryAccounted
  BY DEF IInv
<1>2. QED BY <1>1, Invariance, PTL
=============================================================================
