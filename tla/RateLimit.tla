----------------------------- MODULE RateLimit -----------------------------
(***************************************************************************)
(* The rate limiter of the HTTP server: a bucket for each client address   *)
(* with the start of its window and the requests counted in it, in a map   *)
(* of bounded size under one mutex.                                        *)
(***************************************************************************)
EXTENDS Integers, FiniteSets, Sequences

CONSTANTS
    Trusted,     \* addresses of trusted proxies
    Malformed,   \* header entries that do not parse
    Limit,       \* requests allowed in a window
    Window,      \* length of a window
    MinBuckets,  \* minRateLimitBuckets
    MaxBuckets   \* maxRateLimitBuckets

VARIABLE buckets \* from the keys counted to [start, count]

-----------------------------------------------------------------------------
(* Whose request it is. *)

Usable(header) == {i \in DOMAIN header : header[i] \notin Trusted \union Malformed}

\* Mutant: the first entry of X-Forwarded-For is believed.
forwardedLeftmost(header) == header[CHOOSE i \in Usable(header) : \A j \in Usable(header) : i <= j]

\* The rightmost address of X-Forwarded-For that is not a trusted proxy.
forwardedClientIP(header) == header[CHOOSE i \in Usable(header) : \A j \in Usable(header) : j <= i]

\* The headers X-Forwarded-For and X-Real-IP count only when the peer is a trusted proxy.
clientIP(remote, header, real) ==
    CASE remote \in Trusted /\ Usable(header) # {} -> forwardedClientIP(header)
      [] remote \in Trusted /\ Usable(header) = {} /\ real \notin Malformed -> real
      [] OTHER -> remote

-----------------------------------------------------------------------------
(* Counting. *)

Enabled == Limit > 0 /\ Window > 0

rateLimitBucketCapacity ==
    LET larger == IF Limit * 8 > MinBuckets THEN Limit * 8 ELSE MinBuckets
    IN IF Limit > MaxBuckets \div 8 \/ larger > MaxBuckets THEN MaxBuckets ELSE larger

\* t is the time the request read; another request may have read a later one.
Expired(bucket, t) == t - bucket.start >= Window

Full(bs) == Cardinality(DOMAIN bs) >= rateLimitBucketCapacity

Without(bs, keys) == [k \in DOMAIN bs \ keys |-> bs[k]]

removeExpiredRateLimitBuckets(bs, t) == Without(bs, {k \in DOMAIN bs : Expired(bs[k], t)})

\* Mutant: the smallest count goes.
removeLeastUsedBucket(bs) ==
    {Without(bs, {k}) : k \in {j \in DOMAIN bs : \A i \in DOMAIN bs : bs[j].count <= bs[i].count}}

\* Of several oldest ones, the first that the iteration over the map meets.
removeOldestRateLimitBucket(bs) ==
    {Without(bs, {k}) : k \in {j \in DOMAIN bs : \A i \in DOMAIN bs : bs[j].start <= bs[i].start}}

\* The maps in which a request of key may be counted.
MakeRoom(key, t) ==
    LET live == removeExpiredRateLimitBuckets(buckets, t)
    IN IF key \in DOMAIN buckets \/ ~Full(buckets) THEN {buckets}
       ELSE IF Full(live) THEN removeOldestRateLimitBucket(live) ELSE {live}

Counted(bs, key, t) ==
    [k \in DOMAIN bs \union {key} |->
        IF k # key THEN bs[k]
        ELSE IF key \notin DOMAIN bs \/ Expired(bs[key], t) THEN [start |-> t, count |-> 1]
        ELSE [bs[key] EXCEPT !.count = @ + 1]]

\* rateLimitByIP under its mutex, for a request of key that read the time t.
Count(key, t) == \E room \in MakeRoom(key, t) : buckets' = Counted(room, key, t)

Allowed(key) == buckets'[key].count <= Limit
=============================================================================
