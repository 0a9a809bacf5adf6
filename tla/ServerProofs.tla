---------------------------- MODULE ServerProofs ----------------------------
(***************************************************************************)
(* Proofs about Server for every number of requests, clients and proxies,  *)
(* every limit, window and capacity, and every time to live.  ServerInv is *)
(* shown inductive.  What a client has passed is bounded by the windows    *)
(* before that of its bucket, so the count may be forgotten only once the  *)
(* window is over for everyone who will still be counted in it.            *)
(***************************************************************************)
EXTENDS Server, FiniteSetTheorems, TLAPS

-----------------------------------------------------------------------------
(* Arithmetic. *)

\* Windows are counted in order, and a window later is one window more.
LEMMA Division ==
    ASSUME NEW w \in Nat \ {0}, NEW x \in Nat, NEW y \in Nat
    PROVE  /\ x \div w \in Nat
           /\ x <= y => x \div w <= y \div w
           /\ x + w <= y => (x \div w) + 1 <= y \div w
    <1> DEFINE a == x \div w
               b == y \div w
    <1>1. /\ a \in Int /\ x = w * a + (x % w) /\ x % w \in 0..(w - 1)
          /\ b \in Int /\ y = w * b + (y % w) /\ y % w \in 0..(w - 1)
        OBVIOUS
    <1> PICK r \in 0..(w - 1) : r = x % w
        BY <1>1
    <1> PICK s \in 0..(w - 1) : s = y % w
        BY <1>1
    <1>2. /\ a \in Int /\ x = w * a + r
          /\ b \in Int /\ y = w * b + s
        BY <1>1
    <1> HIDE DEF a, b
    <1>3. \A n, m \in Int : n < m => w * n + w <= w * m
        <2> SUFFICES ASSUME NEW n \in Int, NEW m \in Int, n < m PROVE w * n + w <= w * m
            OBVIOUS
        <2>1. PICK k \in Nat : m = n + 1 + k
            <3> WITNESS m - n - 1 \in Nat
            <3> QED OBVIOUS
        <2>2. w * m = w * n + w + w * k /\ w * k >= 0
            BY <2>1
        <2> QED BY <2>2
    <1>4. a >= 0
        <2> SUFFICES ASSUME a < 0 PROVE FALSE
            BY <1>2
        <2>1. w * a + w <= w * 0
            BY <1>2, <1>3
        <2> QED BY <1>2, <2>1
    <1>5. ASSUME x <= y PROVE a <= b
        <2> SUFFICES ASSUME b < a PROVE FALSE
            BY <1>2
        <2>1. w * b + w <= w * a
            BY <1>2, <1>3
        <2>2. w * a \in Int /\ w * b \in Int
            BY <1>2
        <2> QED BY <1>2, <1>5, <2>1, <2>2
    <1>6. ASSUME x + w <= y PROVE a + 1 <= b
        <2> SUFFICES ASSUME b < a + 1 PROVE FALSE
            BY <1>2
        <2>1. w * b <= w * a
            <3>1. CASE b = a
                BY <3>1, <1>2
            <3>2. CASE b < a
                BY <3>2, <1>2, <1>3
            <3> QED BY <3>1, <3>2, <1>2
        <2>2. w * a \in Int /\ w * b \in Int
            BY <1>2
        <2> QED BY <1>2, <1>6, <2>1, <2>2
    <1> QED BY <1>2, <1>4, <1>5, <1>6 DEF a, b

\* More windows let more requests through.
LEMMA Product ==
    ASSUME NEW l \in Nat, NEW x \in Nat, NEW y \in Nat
    PROVE  /\ l * x \in Nat
           /\ x <= y => l * x <= l * y
           /\ x + 1 <= y => l * x + l <= l * y
    <1>1. \A k \in Nat : l * k \in Nat
        OBVIOUS
    <1>2. ASSUME x <= y PROVE l * x <= l * y
        <2>1. PICK k \in Nat : y = x + k
            <3>1. y - x \in Nat /\ y = x + (y - x)
                BY <1>2
            <3> QED BY <3>1
        <2>2. l * y = l * x + l * k
            BY <2>1
        <2> QED BY <1>1, <2>2
    <1>3. ASSUME x + 1 <= y PROVE l * x + l <= l * y
        <2>1. PICK k \in Nat : y = x + 1 + k
            <3>1. y - x - 1 \in Nat /\ y = x + 1 + (y - x - 1)
                BY <1>3
            <3> QED BY <3>1
        <2>2. l * y = l * x + l + l * k
            BY <2>1
        <2> QED BY <1>1, <2>2
    <1> QED BY <1>1, <1>2, <1>3

-----------------------------------------------------------------------------
(* Buckets. *)

\* Nobody is counted in another one's bucket: the key of a request is the address of its client
\* (clientIP, whatever the client wrote into the headers).
LEMMA KeyIsClient ==
    ASSUME NEW r \in Offered
    PROVE  r.client \in Client /\ KeyOf(r) = r.client
    <1> DEFINE h == r.header
               u == Limiter!Usable(h)
    <1>1. r.client \in Client /\ r.client \notin Trusted /\ r.client \notin Malformed /\ h \in Seq(Client \union Trusted \union Malformed)
        BY ServerAssumption DEF Request
    <1>2. CASE r.remote = r.client
        BY <1>1, <1>2 DEF KeyOf, Limiter!clientIP
    <1>3. CASE r.remote \in Trusted /\ \E i \in u : h[i] = r.client /\ \A j \in u : j <= i
        <2>1. PICK i \in u : h[i] = r.client /\ \A j \in u : j <= i
            BY <1>3
        <2>2. u \subseteq Nat
            BY <1>1 DEF Limiter!Usable
        <2>3. \A k \in u : (\A j \in u : j <= k) => k = i
            BY <2>1, <2>2
        <2> DEFINE c == CHOOSE k \in u : \A j \in u : j <= k
        <2>4. c \in u /\ \A j \in u : j <= c
            BY <2>1
        <2>5. c = i
            BY <2>3, <2>4
        <2>6. Limiter!forwardedClientIP(h) = h[i]
            BY <2>5 DEF Limiter!forwardedClientIP
        <2>7. u # {} /\ r.remote \in Trusted
            BY <1>3, <2>1
        <2>8. KeyOf(r) = Limiter!forwardedClientIP(h)
            BY <2>7 DEF KeyOf, Limiter!clientIP
        <2> QED BY <1>1, <2>1, <2>6, <2>8
    <1>4. CASE r.remote \in Trusted /\ u = {} /\ r.real = r.client
        BY <1>1, <1>4 DEF KeyOf, Limiter!clientIP
    <1> QED BY <1>1, <1>2, <1>3, <1>4, ProxyAssumption

\* The limiter counts its buckets as everybody does.
LEMMA CountingIsCounting == \A S : Limiter!Cardinality(S) = Cardinality(S)
    BY Zenon DEF Limiter!Cardinality, Cardinality

\* A map is full when it holds the capacity.
LEMMA FullMaps == \A bs : Limiter!Full(bs) <=> Cardinality(DOMAIN bs) >= Limiter!rateLimitBucketCapacity
    BY CountingIsCounting DEF Limiter!Full

\* The map holds one bucket at least.
LEMMA CapacityPositive == Limiter!rateLimitBucketCapacity \in Nat \ {0}
    <1> DEFINE larger == IF Limit * 8 > MinBuckets THEN Limit * 8 ELSE MinBuckets
    <1>1. larger \in Nat \ {0}
        BY ServerAssumption
    <1> QED BY <1>1, ServerAssumption DEF Limiter!rateLimitBucketCapacity

\* What making room leaves: the buckets that stay are as they were, there is room for the key, and
\* a bucket that goes is expired at the time of the request, or is the oldest of a map in which
\* none is.
LEMMA Room ==
    ASSUME TypeOK, RoomInv, NEW key, NEW t \in Nat, NEW room \in Limiter!MakeRoom(key, t)
    PROVE  /\ DOMAIN room \subseteq DOMAIN buckets
           /\ \A k \in DOMAIN room : room[k] = buckets[k]
           /\ key \in DOMAIN buckets => room = buckets
           /\ IsFiniteSet(DOMAIN room \union {key})
           /\ Cardinality(DOMAIN room \union {key}) <= Limiter!rateLimitBucketCapacity
           /\ \A k \in DOMAIN buckets \ DOMAIN room :
                \/ Limiter!Expired(buckets[k], t)
                \/ /\ \A j \in DOMAIN buckets : ~Limiter!Expired(buckets[j], t) /\ buckets[k].start <= buckets[j].start
                   /\ Cardinality(DOMAIN buckets) = Limiter!rateLimitBucketCapacity
    <1> DEFINE cap == Limiter!rateLimitBucketCapacity
               gone == {k \in DOMAIN buckets : Limiter!Expired(buckets[k], t)}
               live == Limiter!removeExpiredRateLimitBuckets(buckets, t)
    <1>1. cap \in Nat \ {0}
        BY CapacityPositive
    <1>2. IsFiniteSet(DOMAIN buckets) /\ Cardinality(DOMAIN buckets) \in Nat /\ Cardinality(DOMAIN buckets) <= cap
        BY FS_CardinalityType DEF RoomInv
    <1>3. DOMAIN live = DOMAIN buckets \ gone /\ \A k \in DOMAIN live : live[k] = buckets[k]
        BY DEF Limiter!removeExpiredRateLimitBuckets, Limiter!Without
    <1>4. IsFiniteSet(DOMAIN live) /\ Cardinality(DOMAIN live) \in Nat /\ Cardinality(DOMAIN live) <= Cardinality(DOMAIN buckets)
        <2>1. DOMAIN live \subseteq DOMAIN buckets
            BY <1>3
        <2> QED BY <1>2, <2>1, FS_Subset, FS_CardinalityType
    <1> HIDE DEF cap, live
    <1>5. CASE key \in DOMAIN buckets
        <2>1. room = buckets
            BY <1>5 DEF Limiter!MakeRoom
        <2>2. DOMAIN room \union {key} = DOMAIN buckets
            BY <1>5, <2>1
        <2> QED BY <1>2, <2>1, <2>2 DEF cap
    <1>6. CASE key \notin DOMAIN buckets /\ ~Limiter!Full(buckets)
        <2>1. room = buckets
            BY <1>6 DEF Limiter!MakeRoom
        <2>2. Cardinality(DOMAIN buckets) + 1 <= cap
            BY <1>1, <1>2, <1>6, FullMaps DEF cap
        <2>3. IsFiniteSet(DOMAIN buckets \union {key}) /\ Cardinality(DOMAIN buckets \union {key}) = Cardinality(DOMAIN buckets) + 1
            BY <1>2, <1>6, FS_AddElement
        <2> QED BY <1>6, <2>1, <2>2, <2>3 DEF cap
    <1>7. CASE key \notin DOMAIN buckets /\ Limiter!Full(buckets) /\ ~Limiter!Full(live)
        <2>1. room = live
            BY <1>7 DEF Limiter!MakeRoom, live
        <2>2. Cardinality(DOMAIN live) + 1 <= cap
            BY <1>1, <1>4, <1>7, FullMaps DEF cap
        <2>3. IsFiniteSet(DOMAIN live \union {key}) /\ Cardinality(DOMAIN live \union {key}) = Cardinality(DOMAIN live) + 1
            BY <1>3, <1>4, <1>7, FS_AddElement
        <2>4. \A k \in DOMAIN buckets \ DOMAIN room : Limiter!Expired(buckets[k], t)
            BY <1>3, <2>1
        <2>5. DOMAIN room \subseteq DOMAIN buckets /\ \A k \in DOMAIN room : room[k] = buckets[k]
            BY <1>3, <2>1
        <2> QED BY <1>7, <2>1, <2>2, <2>3, <2>4, <2>5 DEF cap
    <1>8. CASE key \notin DOMAIN buckets /\ Limiter!Full(buckets) /\ Limiter!Full(live)
        <2>1. Cardinality(DOMAIN live) = Cardinality(DOMAIN buckets) /\ Cardinality(DOMAIN buckets) = cap
            BY <1>1, <1>2, <1>4, <1>8, FullMaps DEF cap
        <2>2. DOMAIN live = DOMAIN buckets
            <3>1. DOMAIN live \subseteq DOMAIN buckets
                BY <1>3
            <3> QED BY <1>2, <2>1, <3>1, FS_Subset
        <2>3. \A j \in DOMAIN buckets : ~Limiter!Expired(buckets[j], t) /\ live[j] = buckets[j]
            BY <1>3, <2>2
        <2>4. room \in Limiter!removeOldestRateLimitBucket(live)
            BY <1>8 DEF Limiter!MakeRoom, live
        <2>5. PICK k \in DOMAIN live : (\A i \in DOMAIN live : live[k].start <= live[i].start) /\ room = Limiter!Without(live, {k})
            BY <2>4 DEF Limiter!removeOldestRateLimitBucket
        <2>6. DOMAIN room = DOMAIN buckets \ {k} /\ \A j \in DOMAIN room : room[j] = buckets[j]
            BY <2>2, <2>3, <2>5 DEF Limiter!Without
        <2>7. IsFiniteSet(DOMAIN room) /\ Cardinality(DOMAIN room) = cap - 1
            BY <1>2, <2>1, <2>2, <2>6, FS_RemoveElement
        <2>8. IsFiniteSet(DOMAIN room \union {key}) /\ Cardinality(DOMAIN room \union {key}) = cap
            <3>1. key \notin DOMAIN room
                BY <1>8, <2>6
            <3> QED BY <1>1, <2>7, <3>1, FS_AddElement
        <2>9. \A j \in DOMAIN buckets : buckets[k].start <= buckets[j].start
            BY <2>2, <2>3, <2>5
        <2> QED BY <1>1, <1>8, <2>1, <2>3, <2>6, <2>8, <2>9 DEF cap
    <1> QED BY <1>5, <1>6, <1>7, <1>8

\* A request that waits for the limiter came after the start of the process.
LEMMA Limiting ==
    ASSUME TypeOK, NEW p \in Proc, pc[p] = "limit"
    PROVE  req[p] \in Offered /\ since <= seen[p] /\ Limiter!Enabled
    BY Zenon DEF TypeOK

\* What counting a request leaves of the map: the key has a bucket, new or counted up, and the
\* others that stay are as they were.
LEMMA CountedBuckets ==
    ASSUME TypeOK, RoomInv, NEW p \in Proc, CountRequest(p), NEW key, key = KeyOf(req[p]), NEW t, t = seen[p]
    PROVE  \E room \in Limiter!MakeRoom(key, t) :
             /\ DOMAIN buckets' = DOMAIN room \union {key}
             /\ \A k \in DOMAIN room : k # key => buckets'[k] = buckets[k]
             /\ buckets'[key] = IF key \notin DOMAIN buckets \/ Limiter!Expired(buckets[key], t)
                               THEN [start |-> t, count |-> 1] ELSE [buckets[key] EXCEPT !.count = @ + 1]
    <1>1. PICK room \in Limiter!MakeRoom(key, t) : buckets' = Limiter!Counted(room, key, t)
        BY DEF CountRequest, Limiter!Count
    <1>2. t \in Nat
        BY DEF TypeOK
    <1>3. /\ DOMAIN room \subseteq DOMAIN buckets
          /\ \A k \in DOMAIN room : room[k] = buckets[k]
          /\ key \in DOMAIN buckets => room = buckets
        BY <1>2, Room
    <1>4. /\ DOMAIN buckets' = DOMAIN room \union {key}
          /\ \A k \in DOMAIN room : k # key => buckets'[k] = room[k]
          /\ buckets'[key] = IF key \notin DOMAIN room \/ Limiter!Expired(room[key], t)
                            THEN [start |-> t, count |-> 1] ELSE [room[key] EXCEPT !.count = @ + 1]
        BY <1>1 DEF Limiter!Counted
    <1>5. key \in DOMAIN room <=> key \in DOMAIN buckets
        BY <1>3
    <1>6. key \in DOMAIN buckets => room[key] = buckets[key]
        BY <1>3
    <1> QED BY <1>3, <1>4, <1>5, <1>6

\* Buckets keep their type: a window starts at a time that the request has read.
LEMMA CountedTypes ==
    ASSUME TypeOK, RoomInv, NEW p \in Proc, CountRequest(p)
    PROVE  \A k \in DOMAIN buckets' : buckets'[k] \in [start : since..clock, count : Nat]
    <1> PICK key : key = KeyOf(req[p])
        OBVIOUS
    <1> PICK t : t = seen[p]
        OBVIOUS
    <1>1. t \in Nat /\ t \in since..clock
        <2>1. pc[p] = "limit"
            BY DEF CountRequest
        <2>2. seen[p] \in 0..clock /\ since \in Nat /\ clock \in Nat /\ since <= seen[p]
            BY <2>1, Limiting DEF TypeOK
        <2> QED BY <2>2
    <1>2. PICK room \in Limiter!MakeRoom(key, t) :
             /\ DOMAIN buckets' = DOMAIN room \union {key}
             /\ \A k \in DOMAIN room : k # key => buckets'[k] = buckets[k]
             /\ buckets'[key] = IF key \notin DOMAIN buckets \/ Limiter!Expired(buckets[key], t)
                               THEN [start |-> t, count |-> 1] ELSE [buckets[key] EXCEPT !.count = @ + 1]
        BY CountedBuckets
    <1>3. DOMAIN room \subseteq DOMAIN buckets
        BY <1>1, Room
    <1>4. \A k \in DOMAIN buckets : buckets[k] \in [start : since..clock, count : Nat]
        BY DEF TypeOK
    <1>5. buckets'[key] \in [start : since..clock, count : Nat]
        BY <1>1, <1>2, <1>4
    <1> QED BY <1>2, <1>3, <1>4, <1>5

-----------------------------------------------------------------------------
(* Types. *)

\* Every step keeps the types of the tables and of the requests.
LEMMA TypesStep ==
    ASSUME TypeOK, RoomInv, Next
    PROVE  TypeOK'
    <1>1. ASSUME NEW p \in Proc, NEW r \in Offered, Arrive(p, r)
          PROVE  TypeOK'
        <2>1. "limit" \in Stage /\ "convert" \in Stage
            BY DEF Stage
        <2> QED BY <1>1, <2>1 DEF TypeOK, Arrive, Goto
    <1>2. ASSUME NEW p \in Proc, CountRequest(p)
          PROVE  TypeOK'
        <2>1. "idle" \in Stage /\ "convert" \in Stage
            BY DEF Stage
        <2>2. \A k \in DOMAIN buckets' : buckets'[k] \in [start : since'..clock', count : Nat]
            BY <1>2, CountedTypes DEF CountRequest
        <2>3. req[p].client \in Client
            <3>1. pc[p] = "limit"
                BY <1>2 DEF CountRequest
            <3>2. req[p] \in Offered
                BY <3>1, Limiting
            <3> QED BY <3>2, KeyIsClient
        <2>4. /\ pc' \in [Proc -> Stage] /\ DOMAIN req' = Proc /\ seen' \in [Proc -> 0..clock] /\ DOMAIN rates' = Proc
              /\ \A q \in Proc : pc'[q] \in {"limit", "store", "use"} =>
                    pc'[q] = pc[q] /\ req'[q] = req[q] /\ seen'[q] = seen[q] /\ rates'[q] = rates[q]
            BY <1>2, <2>1 DEF TypeOK, CountRequest, Answer, Goto
        <2>5. admitted' \in [Client -> Nat]
            BY <1>2, <2>3 DEF TypeOK, CountRequest
        <2> QED BY <1>2, <2>2, <2>4, <2>5 DEF TypeOK, CountRequest
    <1>3. ASSUME NEW p \in Proc, SameCurrency(p) \/ FetchFails(p) \/ Use(p)
          PROVE  TypeOK'
        <2>1. "idle" \in Stage
            BY DEF Stage
        <2> QED BY <1>3, <2>1 DEF TypeOK, SameCurrency, FetchFails, Use, Answer, Goto
    <1>4. ASSUME NEW p \in Proc, ReadClock(p)
          PROVE  TypeOK'
        <2>1. "lookup" \in Stage
            BY DEF Stage
        <2> QED BY <1>4, <2>1 DEF TypeOK, ReadClock, Goto
    <1>5. ASSUME NEW p \in Proc, Lookup(p)
          PROVE  TypeOK'
        <2>1. "use" \in Stage /\ "fetch" \in Stage
            BY DEF Stage
        <2> QED BY <1>5, <2>1 DEF TypeOK, Lookup, Goto, Provider!Cached
    <1>6. ASSUME NEW p \in Proc, Fetch(p)
          PROVE  TypeOK'
        <2>1. "store" \in Stage
            BY DEF Stage
        <2>2. Provider!Fetched(seen[p], clock) \in Quote
            BY DEF TypeOK, Provider!Fetched, Quote
        <2> QED BY <1>6, <2>1, <2>2 DEF TypeOK, Fetch, Goto
    <1>7. ASSUME NEW p \in Proc, Store(p)
          PROVE  TypeOK'
        <2>1. "use" \in Stage
            BY DEF Stage
        <2>2. \A b \in DOMAIN cache' : cache'[b] \in [rates : Quote, expiresAt : Nat]
            BY <1>7, ServerAssumption DEF TypeOK, Store, Provider!Store, Provider!ExpiresAt
        <2> QED BY <1>7, <2>1, <2>2 DEF TypeOK, Store, Goto
    <1>8. ASSUME Tick PROVE TypeOK'
        BY <1>8 DEF TypeOK, Tick
    <1>9. ASSUME Restart PROVE TypeOK'
        <2>1. "idle" \in Stage
            BY DEF Stage
        <2>2. \A k \in DOMAIN Nothing : FALSE
            BY DEF Nothing
        <2> QED BY <1>9, <2>1, <2>2 DEF TypeOK, Restart, NoRequests, NoTimes, Nobody
    <1> QED BY <1>1, <1>2, <1>3, <1>4, <1>5, <1>6, <1>7, <1>8, <1>9 DEF Next, Step

-----------------------------------------------------------------------------
(* Rates. *)

\* Every step keeps the rates within their time to live.
LEMMA RatesStep ==
    ASSUME TypeOK, TypeOK', RatesInv, Next
    PROVE  RatesInv'
    <1> USE DEF RatesInv, RatesAreFresh
    <1>1. TTL \in Nat \ {0} /\ clock \in Nat /\ \A q \in Proc : seen[q] \in Nat /\ seen[q] <= clock
        BY ServerAssumption DEF TypeOK
    <1>2. ASSUME NEW p \in Proc, NEW r \in Offered, Arrive(p, r)
          PROVE  RatesInv'
        BY <1>2 DEF TypeOK, Arrive, Goto
    <1>3. ASSUME NEW p \in Proc, CountRequest(p)
          PROVE  RatesInv'
        BY <1>3 DEF TypeOK, CountRequest, Answer, Goto
    <1>4. ASSUME NEW p \in Proc, SameCurrency(p) \/ FetchFails(p) \/ Use(p)
          PROVE  RatesInv'
        BY <1>4 DEF TypeOK, SameCurrency, FetchFails, Use, Answer, Goto
    <1>5. ASSUME NEW p \in Proc, ReadClock(p)
          PROVE  RatesInv'
        BY <1>5 DEF TypeOK, ReadClock, Goto
    <1>6. ASSUME NEW p \in Proc, Lookup(p)
          PROVE  RatesInv'
        <2>1. CASE Provider!Cached(req[p].base, seen[p])
            <3> PICK b \in DOMAIN cache : b = req[p].base
                BY <2>1 DEF Provider!Cached
            <3>1. cache[b].rates.asOf \in Nat /\ cache[b].expiresAt \in Nat
                BY DEF TypeOK, Quote
            <3>2. cache[b].rates.asOf > seen[p] - TTL /\ cache[b].rates.asOf <= clock
                BY <1>1, <2>1, <3>1 DEF Provider!Cached
            <3> QED BY <1>6, <2>1, <3>2 DEF TypeOK, Lookup, Goto
        <2>2. CASE ~Provider!Cached(req[p].base, seen[p])
            BY <1>6, <2>2 DEF TypeOK, Lookup, Goto
        <2> QED BY <2>1, <2>2
    <1>7. ASSUME NEW p \in Proc, Fetch(p)
          PROVE  RatesInv'
        <2>1. Provider!Fetched(seen[p], clock).asOf = clock
            BY DEF Provider!Fetched
        <2> QED BY <1>1, <1>7, <2>1 DEF TypeOK, Fetch, Goto
    <1>8. ASSUME NEW p \in Proc, Store(p)
          PROVE  RatesInv'
        <2>1. pc[p] = "store" /\ rates[p] \in Quote
            BY <1>8 DEF TypeOK, Store
        <2>2. rates[p].asOf \in Nat /\ rates[p].asOf \in seen[p]..clock
            BY <2>1 DEF Quote
        <2>3. rates[p].asOf > seen[p] - TTL /\ seen[p] + TTL <= rates[p].asOf + TTL
            BY <1>1, <2>2
        <2>4. \A b \in DOMAIN cache' : /\ cache'[b].expiresAt <= cache'[b].rates.asOf + TTL
                                       /\ cache'[b].rates.asOf <= clock
            BY <1>8, <2>2, <2>3 DEF Store, Provider!Store, Provider!ExpiresAt
        <2> QED BY <1>1, <1>8, <2>1, <2>2, <2>3, <2>4 DEF TypeOK, Store, Goto
    <1>9. ASSUME Tick PROVE RatesInv'
        <2>1. \A b \in DOMAIN cache : cache[b].rates.asOf \in Nat
            BY DEF TypeOK, Quote
        <2>2. \A q \in Proc : pc[q] \in {"store", "use"} => rates[q].asOf \in Nat
            BY DEF TypeOK, Quote
        <2> QED BY <1>1, <1>9, <2>1, <2>2 DEF Tick
    <1>10. ASSUME Restart PROVE RatesInv'
        <2>1. \A k \in DOMAIN Nothing : FALSE
            BY DEF Nothing
        <2> QED BY <1>10, <2>1 DEF Restart
    <1> QED BY <1>2, <1>3, <1>4, <1>5, <1>6, <1>7, <1>8, <1>9, <1>10 DEF Next, Step

-----------------------------------------------------------------------------
(* The limiter. *)

\* Every step keeps the map within its capacity.
LEMMA RoomStep ==
    ASSUME TypeOK, RoomInv, Next
    PROVE  RoomInv'
    <1>1. ASSUME UNCHANGED buckets PROVE RoomInv'
        BY <1>1 DEF RoomInv
    <1>2. ASSUME NEW p \in Proc, CountRequest(p)
          PROVE  RoomInv'
        <2> PICK key : key = KeyOf(req[p])
            OBVIOUS
        <2> PICK t : t = seen[p]
            OBVIOUS
        <2>1. t \in Nat
            BY DEF TypeOK
        <2>2. PICK room \in Limiter!MakeRoom(key, t) : DOMAIN buckets' = DOMAIN room \union {key}
            BY <1>2, CountedBuckets
        <2>3. /\ IsFiniteSet(DOMAIN room \union {key})
              /\ Cardinality(DOMAIN room \union {key}) <= Limiter!rateLimitBucketCapacity
            BY <2>1, Room
        <2> QED BY <2>2, <2>3 DEF RoomInv
    <1>3. ASSUME Restart PROVE RoomInv'
        <2>1. DOMAIN Nothing = {}
            BY DEF Nothing
        <2>2. IsFiniteSet({}) /\ Cardinality({}) = 0
            BY FS_EmptySet
        <2> QED BY <1>3, <2>1, <2>2, CapacityPositive DEF Restart, RoomInv
    <1> QED BY <1>1, <1>2, <1>3 DEF Next, Step, Arrive, SameCurrency, ReadClock, Lookup, Fetch, FetchFails, Store, Use, Tick

\* A bucket that goes in a step of the limiter is expired by the clock, or the map held nothing
\* but running windows and as many as it may.
LEMMA WhatGoes ==
    ASSUME TypeOK, RoomInv, NEW p \in Proc, CountRequest(p), Dropped # {}
    PROVE  /\ \A k \in DOMAIN buckets : Live(buckets[k])
           /\ Cardinality(DOMAIN buckets) = Limiter!rateLimitBucketCapacity
    <1> PICK key : key = KeyOf(req[p])
        OBVIOUS
    <1> PICK t : t = seen[p]
        OBVIOUS
    <1>1. t \in Nat /\ clock \in Nat /\ t <= clock /\ Window \in Nat
        BY ServerAssumption DEF TypeOK
    <1>2. \A k \in DOMAIN buckets : buckets[k].start \in Nat
        BY DEF TypeOK
    <1>3. PICK room \in Limiter!MakeRoom(key, t) : DOMAIN buckets' = DOMAIN room \union {key}
        BY CountedBuckets
    <1>4. PICK k \in DOMAIN buckets \ DOMAIN buckets' : Live(buckets[k])
        BY DEF Dropped, Gone
    <1>5. ~Limiter!Expired(buckets[k], t)
        BY <1>1, <1>2, <1>4 DEF Live, Limiter!Expired
    <1>6. /\ \A j \in DOMAIN buckets : buckets[k].start <= buckets[j].start
          /\ Cardinality(DOMAIN buckets) = Limiter!rateLimitBucketCapacity
        BY <1>1, <1>3, <1>4, <1>5, Room
    <1>7. \A j \in DOMAIN buckets : Live(buckets[j])
        BY <1>1, <1>2, <1>4, <1>6 DEF Live, Limiter!Expired
    <1> QED BY <1>6, <1>7

\* Windows are counted from the start of the process.
LEMMA WindowCount ==
    ASSUME TypeOK, Limiter!Enabled, NEW x \in Nat, NEW y \in Nat, since <= x, since <= y
    PROVE  /\ Limit * Windows(x) \in Nat
           /\ x <= y => Limit * Windows(x) <= Limit * Windows(y)
           /\ x + Window <= y => Limit * Windows(x) + Limit <= Limit * Windows(y)
           /\ Limit * (1 + Windows(x)) = Limit * Windows(x) + Limit
    <1>1. Window \in Nat \ {0} /\ Limit \in Nat /\ since \in Nat
        BY ServerAssumption DEF TypeOK, Limiter!Enabled
    <1>2. x - since \in Nat /\ y - since \in Nat
        BY <1>1
    <1>3. /\ Windows(x) \in Nat /\ Windows(y) \in Nat
          /\ x <= y => Windows(x) <= Windows(y)
          /\ x + Window <= y => Windows(x) + 1 <= Windows(y)
        <2>1. x <= y => x - since <= y - since
            BY <1>1
        <2>2. x + Window <= y => (x - since) + Window <= y - since
            BY <1>1
        <2> QED BY <1>1, <1>2, <2>1, <2>2, Division DEF Windows
    <1> HIDE DEF Windows
    <1>4. Limit * (1 + Windows(x)) = Limit * Windows(x) + Limit
        BY <1>1, <1>3
    <1> QED BY <1>1, <1>3, <1>4, Product

\* What a client has passed when the window of its bucket is over.
LEMMA WindowOver ==
    ASSUME TypeOK, CountsInv, Limiter!Enabled, NEW c \in Client \ evicted, c \in DOMAIN buckets,
           NEW y \in Nat, buckets[c].start + Window <= y
    PROVE  admitted[c] <= Limit * Windows(y)
    <1> PICK x : x = buckets[c].start
        OBVIOUS
    <1>1. /\ x \in Nat /\ since \in Nat /\ since <= x /\ buckets[c].count \in Nat /\ admitted[c] \in Nat
          /\ Limit \in Nat /\ Window \in Nat
        BY ServerAssumption DEF TypeOK
    <1>2. since <= y
        BY <1>1
    <1>3. Limit * Windows(x) \in Nat /\ Limit * Windows(x) + Limit <= Limit * Windows(y) /\ Limit * Windows(y) \in Nat
        BY <1>1, <1>2, WindowCount
    <1>4. admitted[c] <= Limit * Windows(x) + Passed(buckets[c])
        BY DEF CountsInv
    <1>5. Passed(buckets[c]) \in Nat /\ Passed(buckets[c]) <= Limit
        BY <1>1 DEF Passed
    <1> HIDE DEF Windows, Passed
    <1> QED BY <1>1, <1>3, <1>4, <1>5

\* A step that does not touch the limiter and brings nobody to it keeps the counts.
LEMMA CountsKept ==
    ASSUME CountsInv, UNCHANGED <<clock, buckets, admitted, evicted, since>>,
           \A q \in Proc : pc'[q] = "limit" => pc[q] = "limit" /\ req'[q] = req[q] /\ seen'[q] = seen[q]
    PROVE  CountsInv'
    BY DEF CountsInv, Windows, Passed, KeyOf

\* The request that is counted keeps the count of its client.
LEMMA CountsOwn ==
    ASSUME TypeOK, RoomInv, CountsInv, NEW p \in Proc, CountRequest(p), Limiter!Enabled,
           NEW c \in Client \ evicted', c = KeyOf(req[p])
    PROVE  c \in DOMAIN buckets' /\ admitted'[c] <= Limit * Windows(buckets'[c].start) + Passed(buckets'[c])
    <1> PICK t : t = seen[p]
        OBVIOUS
    <1>1. pc[p] = "limit" /\ c \notin evicted
        BY DEF CountRequest
    <1>2. /\ t \in Nat /\ since \in Nat /\ since <= t /\ admitted \in [Client -> Nat] /\ Limit \in Nat \ {0} /\ Window \in Nat
          /\ \A k \in DOMAIN buckets : buckets[k] \in [start : since..clock, count : Nat]
        BY <1>1, ServerAssumption, Limiting DEF TypeOK, Limiter!Enabled
    <1>3. req[p].client = c
        BY <1>1, Limiting, KeyIsClient
    <1>4. /\ c \in DOMAIN buckets'
          /\ buckets'[c] = IF c \notin DOMAIN buckets \/ Limiter!Expired(buckets[c], t)
                          THEN [start |-> t, count |-> 1] ELSE [buckets[c] EXCEPT !.count = @ + 1]
        <2>1. \E room \in Limiter!MakeRoom(c, t) :
                /\ DOMAIN buckets' = DOMAIN room \union {c}
                /\ \A k \in DOMAIN room : k # c => buckets'[k] = buckets[k]
                /\ buckets'[c] = IF c \notin DOMAIN buckets \/ Limiter!Expired(buckets[c], t)
                                THEN [start |-> t, count |-> 1] ELSE [buckets[c] EXCEPT !.count = @ + 1]
            BY CountedBuckets
        <2> QED BY <2>1
    <1>5. admitted'[c] = IF buckets'[c].count <= Limit THEN admitted[c] + 1 ELSE admitted[c]
        BY <1>2, <1>3 DEF CountRequest, Limiter!Allowed
    <1>6. ASSUME admitted[c] <= Limit * Windows(t), buckets'[c] = [start |-> t, count |-> 1]
          PROVE  admitted'[c] <= Limit * Windows(buckets'[c].start) + Passed(buckets'[c])
        <2>1. admitted[c] \in Nat /\ Limit * Windows(t) \in Nat
            BY <1>2, WindowCount
        <2>2. Passed(buckets'[c]) = 1 /\ buckets'[c].start = t /\ admitted'[c] = admitted[c] + 1
            BY <1>2, <1>5, <1>6 DEF Passed
        <2> HIDE DEF Windows
        <2> QED BY <1>6, <2>1, <2>2
    <1>7. CASE c \notin DOMAIN buckets
        <2>1. admitted[c] <= Limit * Windows(t)
            BY <1>1, <1>7 DEF CountsInv
        <2> QED BY <1>4, <1>6, <1>7, <2>1
    <1>8. CASE c \in DOMAIN buckets /\ Limiter!Expired(buckets[c], t)
        <2>1. buckets[c].start + Window <= t
            BY <1>2, <1>8 DEF Limiter!Expired
        <2>2. admitted[c] <= Limit * Windows(t)
            BY <1>1, <1>2, <1>8, <2>1, WindowOver
        <2> QED BY <1>4, <1>6, <1>8, <2>2
    <1>9. CASE c \in DOMAIN buckets /\ ~Limiter!Expired(buckets[c], t)
        <2> PICK x : x = buckets[c].start
            OBVIOUS
        <2>1. x \in Nat /\ since <= x /\ buckets[c].count \in Nat /\ admitted[c] \in Nat
            BY <1>2, <1>9
        <2>2. buckets'[c].start = x /\ buckets'[c].count = buckets[c].count + 1
            BY <1>2, <1>4, <1>9
        <2>3. admitted[c] <= Limit * Windows(x) + Passed(buckets[c])
            BY <1>1, <1>9 DEF CountsInv
        <2>4. Limit * Windows(x) \in Nat
            BY <2>1, WindowCount
        <2> HIDE DEF Windows
        <2> QED BY <1>2, <1>4, <1>5, <2>1, <2>2, <2>3, <2>4 DEF Passed
    <1> QED BY <1>4, <1>7, <1>8, <1>9

\* And that of the others, whose bucket may go.
LEMMA CountsOthers ==
    ASSUME TypeOK, RoomInv, CountsInv, NEW p \in Proc, CountRequest(p), Limiter!Enabled,
           NEW c \in Client \ evicted', c # KeyOf(req[p])
    PROVE  IF c \in DOMAIN buckets'
           THEN admitted'[c] <= Limit * Windows(buckets'[c].start) + Passed(buckets'[c])
           ELSE /\ admitted'[c] <= Limit * Windows(clock)
                /\ \A q \in Proc : pc'[q] = "limit" /\ KeyOf(req'[q]) = c => admitted'[c] <= Limit * Windows(seen'[q])
    <1> PICK key : key = KeyOf(req[p])
        OBVIOUS
    <1> PICK t : t = seen[p]
        OBVIOUS
    <1>1. pc[p] = "limit" /\ c \notin evicted /\ c \notin Dropped /\ c \notin Awaited
        BY DEF CountRequest
    <1>2. t \in Nat /\ clock \in Nat /\ Window \in Nat /\ \A q \in Proc : seen[q] \in Nat
        BY ServerAssumption DEF TypeOK
    <1>3. admitted'[c] = admitted[c]
        <2>1. req[p].client # c
            BY <1>1, Limiting, KeyIsClient
        <2> QED BY <2>1 DEF CountRequest, TypeOK
    <1>4. PICK room \in Limiter!MakeRoom(key, t) :
             /\ DOMAIN buckets' = DOMAIN room \union {key}
             /\ \A k \in DOMAIN room : k # key => buckets'[k] = buckets[k]
             /\ buckets'[key] = IF key \notin DOMAIN buckets \/ Limiter!Expired(buckets[key], t)
                               THEN [start |-> t, count |-> 1] ELSE [buckets[key] EXCEPT !.count = @ + 1]
        BY CountedBuckets
    <1>5. DOMAIN room \subseteq DOMAIN buckets
        BY <1>2, Room
    <1>6. \A q \in Proc : pc'[q] = "limit" => pc[q] = "limit" /\ req'[q] = req[q] /\ seen'[q] = seen[q]
        BY DEF CountRequest, Answer, Goto, TypeOK
    <1>7. CASE c \in DOMAIN buckets'
        <2>1. c \in DOMAIN buckets /\ buckets'[c] = buckets[c]
            BY <1>4, <1>5, <1>7
        <2> QED BY <1>1, <1>3, <1>7, <2>1 DEF CountsInv
    <1>8. CASE c \notin DOMAIN buckets' /\ c \notin DOMAIN buckets
        BY <1>1, <1>3, <1>6, <1>8 DEF CountsInv
    <1>9. CASE c \notin DOMAIN buckets' /\ c \in DOMAIN buckets
        <2>1. buckets[c].start \in Nat
            BY <1>9 DEF TypeOK
        <2>2. buckets[c].start + Window <= clock
            BY <1>1, <1>2, <1>9, <2>1 DEF Dropped, Gone, Live, Limiter!Expired
        <2>3. ASSUME NEW q \in Proc, pc'[q] = "limit", KeyOf(req'[q]) = c
              PROVE  admitted'[c] <= Limit * Windows(seen'[q])
            <3>1. pc[q] = "limit" /\ req'[q] = req[q] /\ seen'[q] = seen[q]
                BY <1>6, <2>3
            <3>2. KeyOf(req[q]) = c
                BY <2>3, <3>1
            <3>3. Limiter!Expired(buckets[c], seen[q])
                BY <1>1, <1>9, <3>1, <3>2 DEF Awaited, Gone
            <3>4. buckets[c].start + Window <= seen[q]
                BY <1>2, <2>1, <3>3 DEF Limiter!Expired
            <3>5. admitted[c] <= Limit * Windows(seen[q])
                BY <1>1, <1>2, <1>9, <3>4, WindowOver
            <3> QED BY <1>3, <3>1, <3>5
        <2>4. admitted[c] <= Limit * Windows(clock)
            BY <1>1, <1>2, <1>9, <2>2, WindowOver
        <2> QED BY <1>3, <1>9, <2>3, <2>4
    <1> QED BY <1>7, <1>8, <1>9

\* Every step keeps the counts within the windows.
LEMMA CountsStep ==
    ASSUME TypeOK, TypeOK', RoomInv, CountsInv, Next
    PROVE  CountsInv'
    <1>1. ASSUME NEW p \in Proc, NEW r \in Offered, Arrive(p, r)
          PROVE  CountsInv'
        <2>1. /\ UNCHANGED <<clock, buckets, admitted, evicted, since>>
              /\ \A q \in Proc : pc'[q] = "limit" =>
                   \/ pc[q] = "limit" /\ req'[q] = req[q] /\ seen'[q] = seen[q]
                   \/ seen'[q] = clock
            BY <1>1 DEF Arrive, Goto, TypeOK
        <2> QED BY <2>1 DEF CountsInv, Windows, Passed, KeyOf
    <1>2. ASSUME NEW p \in Proc, CountRequest(p)
          PROVE  CountsInv'
        <2> SUFFICES ASSUME Limiter!Enabled, NEW c \in Client \ evicted'
                     PROVE  IF c \in DOMAIN buckets'
                            THEN admitted'[c] <= Limit * Windows(buckets'[c].start) + Passed(buckets'[c])
                            ELSE /\ admitted'[c] <= Limit * Windows(clock)
                                 /\ \A q \in Proc : pc'[q] = "limit" /\ KeyOf(req'[q]) = c => admitted'[c] <= Limit * Windows(seen'[q])
            <3>1. UNCHANGED <<clock, since>>
                BY <1>2 DEF CountRequest
            <3> QED BY <3>1 DEF CountsInv, Windows, Passed, KeyOf
        <2>1. CASE c = KeyOf(req[p])
            BY <1>2, <2>1, CountsOwn
        <2>2. CASE c # KeyOf(req[p])
            BY <1>2, <2>2, CountsOthers
        <2> QED BY <2>1, <2>2
    <1>3. ASSUME NEW p \in Proc, SameCurrency(p) \/ FetchFails(p) \/ Use(p) \/ ReadClock(p) \/ Lookup(p) \/ Fetch(p) \/ Store(p)
          PROVE  CountsInv'
        <2>1. /\ UNCHANGED <<clock, buckets, admitted, evicted, since>>
              /\ \A q \in Proc : pc'[q] = "limit" => pc[q] = "limit" /\ req'[q] = req[q] /\ seen'[q] = seen[q]
            BY <1>3 DEF TypeOK, SameCurrency, FetchFails, Use, ReadClock, Lookup, Fetch, Store, Answer, Goto
        <2> QED BY <2>1, CountsKept
    <1>4. ASSUME Tick PROVE CountsInv'
        <2>1. UNCHANGED <<buckets, pc, req, seen, admitted, evicted, since>> /\ clock' = clock + 1
            BY <1>4 DEF Tick
        <2>2. ASSUME Limiter!Enabled, NEW c \in Client \ evicted, c \notin DOMAIN buckets
              PROVE  admitted[c] <= Limit * Windows(clock + 1)
            <3>1. clock \in Nat /\ clock + 1 \in Nat /\ since \in Nat /\ since <= clock /\ since <= clock + 1 /\ clock <= clock + 1
                BY DEF TypeOK
            <3>2. /\ Limit * Windows(clock) \in Nat /\ Limit * Windows(clock + 1) \in Nat
                  /\ Limit * Windows(clock) <= Limit * Windows(clock + 1)
                BY <2>2, <3>1, WindowCount
            <3>3. admitted[c] \in Nat /\ admitted[c] <= Limit * Windows(clock)
                BY <2>2 DEF TypeOK, CountsInv
            <3> HIDE DEF Windows
            <3> QED BY <3>2, <3>3
        <2> QED BY <2>1, <2>2 DEF CountsInv, Windows, Passed, KeyOf
    <1>5. ASSUME Restart PROVE CountsInv'
        <2>1. /\ DOMAIN buckets' = {} /\ admitted' = [c \in Client |-> 0]
              /\ \A q \in Proc : pc'[q] # "limit"
            BY <1>5 DEF Restart, Nothing, Nobody
        <2> SUFFICES ASSUME Limiter!Enabled, NEW c \in Client
                     PROVE  0 <= (Limit * Windows(clock))'
            BY <2>1 DEF CountsInv
        <2>2. clock' \in Nat /\ since' = clock'
            BY <1>5 DEF Restart, TypeOK
        <2>3. Windows(clock)' \in Nat
            <3>1. clock' - since' = 0
                <4>1. \A n \in Nat : n - n = 0
                    OBVIOUS
                <4> QED BY <2>2, <4>1, Zenon
            <3>3. Window \in Nat \ {0}
                BY ServerAssumption DEF Limiter!Enabled
            <3>2. 0 \div Window \in Nat
                BY <3>3, Division
            <3> QED BY <3>1, <3>2 DEF Windows
        <2>4. Limit \in Nat
            BY ServerAssumption
        <2> QED BY <2>3, <2>4, Product
    <1> QED BY <1>1, <1>2, <1>3, <1>4, <1>5 DEF Next, Step

-----------------------------------------------------------------------------
(* The theorems. *)

\* A process that starts has nothing in memory.
LEMMA InitHolds == Init => ServerInv
    <1> SUFFICES ASSUME Init PROVE ServerInv
        OBVIOUS
    <1>1. /\ DOMAIN buckets = {} /\ DOMAIN cache = {} /\ clock = 0 /\ since = 0 /\ admitted = [c \in Client |-> 0]
          /\ pc = [p \in Proc |-> "idle"]
        BY DEF Init, Nothing, Nobody
    <1>2. TypeOK
        <2>1. "idle" \in Stage
            BY DEF Stage
        <2> QED BY <1>1, <2>1 DEF Init, TypeOK, NoRequests, NoTimes
    <1>3. RatesInv
        BY <1>1 DEF RatesInv, RatesAreFresh
    <1>4. RoomInv
        BY <1>1, FS_EmptySet, CapacityPositive DEF RoomInv
    <1>5. CountsInv
        <2> SUFFICES ASSUME Limiter!Enabled
                     PROVE  0 <= Limit * Windows(clock)
            BY <1>1 DEF CountsInv
        <2>1. Limit * Windows(0) \in Nat
            BY <1>1, <1>2, WindowCount
        <2> HIDE DEF Windows
        <2> QED BY <1>1, <2>1
    <1> QED BY <1>2, <1>3, <1>4, <1>5 DEF ServerInv

\* Every step of the server keeps the invariant.
LEMMA NextHolds == ServerInv /\ [Next]_vars => ServerInv'
    <1> SUFFICES ASSUME ServerInv, [Next]_vars PROVE ServerInv'
        OBVIOUS
    <1>1. CASE Next
        <2>1. TypeOK /\ RatesInv /\ RoomInv /\ CountsInv
            BY DEF ServerInv
        <2>2. TypeOK'
            BY <1>1, <2>1, TypesStep
        <2> QED BY <1>1, <2>1, <2>2, RatesStep, RoomStep, CountsStep DEF ServerInv
    <1>2. CASE UNCHANGED vars
        BY <1>2 DEF vars, ServerInv, TypeOK, RatesInv, RatesAreFresh, RoomInv, CountsInv, Windows, Passed, KeyOf
    <1> QED BY <1>1, <1>2

\* ServerInv holds in every reachable state: the map of the limiter within its capacity, what
\* clients have passed within their windows, and rates within their time to live.
THEOREM InvariantHolds == Spec => []ServerInv
    <1> QED BY InitHolds, NextHolds, PTL DEF Spec

\* No amount is converted at a rate that had been replaced a time to live before the request asked
\* (HTTPExchangeRateProvider.Latest), for any number of requests and answers in any order.
THEOREM RatesFresh == Spec => []RatesAreFresh
    <1>1. ServerInv => RatesAreFresh
        BY DEF ServerInv, RatesInv
    <1> QED BY <1>1, InvariantHolds, PTL

\* A client whose running window is not forgotten passes no more than its limit in every window
\* (rateLimitByIP), for every limit, window, capacity and number of requests in flight.
THEOREM LimitHolds == Spec => []AdmittedWithinLimit
    <1>1. ServerInv => AdmittedWithinLimit
        <2> SUFFICES ASSUME ServerInv, Limiter!Enabled, NEW c \in Client \ evicted
                     PROVE  admitted[c] <= Limit * (1 + Windows(clock))
            BY DEF AdmittedWithinLimit, Windows
        <2>1. /\ TypeOK /\ CountsInv /\ clock \in Nat /\ since \in Nat /\ since <= clock /\ Limit \in Nat
              /\ admitted[c] \in Nat
            BY ServerAssumption DEF ServerInv, TypeOK
        <2>2. /\ Limit * Windows(clock) \in Nat
              /\ Limit * (1 + Windows(clock)) = Limit * Windows(clock) + Limit
            BY <2>1, WindowCount
        <2>3. CASE c \notin DOMAIN buckets
            <3>1. admitted[c] <= Limit * Windows(clock)
                BY <2>1, <2>3 DEF CountsInv
            <3> HIDE DEF Windows
            <3> QED BY <2>1, <2>2, <3>1
        <2>4. CASE c \in DOMAIN buckets
            <3> PICK x : x = buckets[c].start
                OBVIOUS
            <3>1. x \in Nat /\ since <= x /\ x <= clock /\ buckets[c].count \in Nat
                BY <2>1, <2>4 DEF TypeOK
            <3>2. Limit * Windows(x) \in Nat /\ Limit * Windows(x) <= Limit * Windows(clock)
                BY <2>1, <3>1, WindowCount
            <3>3. Passed(buckets[c]) \in Nat /\ Passed(buckets[c]) <= Limit
                BY <2>1, <3>1 DEF Passed
            <3>4. admitted[c] <= Limit * Windows(x) + Passed(buckets[c])
                BY <2>1, <2>4 DEF CountsInv
            <3> HIDE DEF Windows, Passed
            <3> QED BY <2>1, <2>2, <3>2, <3>3, <3>4
        <2> QED BY <2>3, <2>4
    <1> QED BY <1>1, InvariantHolds, PTL

\* Room is made at the expense of a running window only when every bucket of a full map is one
\* (removeOldestRateLimitBucket), for every capacity.
THEOREM LiveBucketsStay == Spec => LiveBucketsKept
    <1>1. ServerInv /\ [Next]_vars =>
            [buckets' # Nothing /\ Dropped # {} =>
               /\ \A k \in DOMAIN buckets : Live(buckets[k])
               /\ Cardinality(DOMAIN buckets) = Limiter!rateLimitBucketCapacity]_vars
        <2> SUFFICES ASSUME ServerInv, Next, buckets' # Nothing, Dropped # {}
                     PROVE  /\ \A k \in DOMAIN buckets : Live(buckets[k])
                            /\ Cardinality(DOMAIN buckets) = Limiter!rateLimitBucketCapacity
            OBVIOUS
        <2>1. TypeOK /\ RoomInv
            BY DEF ServerInv
        <2>2. buckets' # buckets
            BY DEF Dropped, Gone
        <2>3. PICK p \in Proc : CountRequest(p)
            BY <2>2 DEF Next, Step, Arrive, SameCurrency, ReadClock, Lookup, Fetch, FetchFails, Store, Use, Tick, Restart
        <2> QED BY <2>1, <2>3, WhatGoes
    <1> QED BY <1>1, InvariantHolds, PTL DEF Spec, LiveBucketsKept
=============================================================================
