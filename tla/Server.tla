------------------------------- MODULE Server -------------------------------
(***************************************************************************)
(* What the server process keeps in memory: the rate limiter and the cache *)
(* of exchange rates, both behind a mutex and both guided by times that a  *)
(* request reads before it takes the mutex.  A transfer passes the limiter *)
(* of mutations and converts its amount; GET /currency-rates asks for rates *)
(* without passing a limiter.  A restart loses everything.                 *)
(***************************************************************************)
EXTENDS Integers, FiniteSets, Sequences

CONSTANTS
    Proc,         \* requests in flight at the same time
    Client,       \* addresses of clients
    Trusted, Malformed, Limit, Window, MinBuckets, MaxBuckets, \* module RateLimit
    TTL,          \* module ExchangeRates
    Base,         \* base currencies of rates
    Offered,      \* the requests that clients send
    MaxTime,      \* bound: the last instant
    MaxRequests,  \* bound: requests in a behaviour
    None          \* no request, no rates

VARIABLES
    clock,     \* the wall clock
    buckets,   \* the limiter's map
    cache,     \* the provider's map
    pc, req,   \* the stage of a request and what it asks for
    seen,      \* the time it has read
    rates,     \* the rates it has been given
    admitted,  \* history: requests of a client passed since the process started
    evicted,   \* history: clients whose running window was forgotten since then
    since,     \* history: the start of the process
    started    \* requests so far

vars == <<clock, buckets, cache, pc, req, seen, rates, admitted, evicted, since, started>>

Limiter == INSTANCE RateLimit WITH buckets <- buckets
Provider == INSTANCE ExchangeRates WITH cache <- cache

\* A request: who sent it, what the connection shows of that, and the rates it needs, if any.
Request ==
    [client : Client, remote : Client \union Trusted, header : Seq(Client \union Trusted \union Malformed),
     real : Client \union Trusted \union Malformed, kind : {"transfer", "rates"},
     base : Base \union {None}]

ASSUME ServerAssumption ==
    /\ Offered \subseteq Request /\ MaxTime \in Nat /\ MaxRequests \in Nat
    /\ Client \intersect (Trusted \union Malformed) = {}
    /\ Limit \in Nat /\ Window \in Nat /\ TTL \in Nat \ {0}
    /\ MinBuckets \in Nat \ {0} /\ MaxBuckets \in Nat \ {0}

\* A client connects by itself, or through trusted proxies that pass on the address they see: the
\* client may write what it likes before it.
ASSUME ProxyAssumption ==
    \A r \in Offered :
        \/ r.remote = r.client
        \/ r.remote \in Trusted /\ \E i \in Limiter!Usable(r.header) :
              r.header[i] = r.client /\ \A j \in Limiter!Usable(r.header) : j <= i
        \/ r.remote \in Trusted /\ Limiter!Usable(r.header) = {} /\ r.real = r.client

-----------------------------------------------------------------------------
Goto(p, stage) == pc' = [pc EXCEPT ![p] = stage]

Answer(p) ==
    /\ Goto(p, "idle")
    /\ req' = [req EXCEPT ![p] = None] /\ seen' = [seen EXCEPT ![p] = 0]
    /\ rates' = [rates EXCEPT ![p] = None]

\* rateLimitByIP reads the clock before it takes the mutex.
Arrive(p, r) ==
    /\ pc[p] = "idle" /\ started < MaxRequests /\ started' = started + 1
    /\ Goto(p, IF r.kind = "transfer" /\ Limiter!Enabled THEN "limit" ELSE "convert")
    /\ req' = [req EXCEPT ![p] = r] /\ seen' = [seen EXCEPT ![p] = clock]
    /\ UNCHANGED <<clock, buckets, cache, rates, admitted, evicted, since>>

KeyOf(r) == Limiter!clientIP(r.remote, r.header, r.real)

\* The clients whose bucket is removed while its window still runs, by the clock, or by the time
\* of a request that waits to be counted in it.
Live(bucket) == ~Limiter!Expired(bucket, clock)
Gone == DOMAIN buckets \ DOMAIN buckets'
Dropped == {k \in Gone : Live(buckets[k])}
Awaited ==
    {k \in Gone : \E q \in Proc : /\ pc[q] = "limit" /\ KeyOf(req[q]) = k
                                  /\ ~Limiter!Expired(buckets[k], seen[q])}

CountRequest(p) ==
    LET r == req[p]
    IN /\ pc[p] = "limit"
       /\ Limiter!Count(KeyOf(r), seen[p])
       /\ evicted' = evicted \union Dropped \union Awaited
       /\ IF Limiter!Allowed(KeyOf(r))
          THEN /\ admitted' = [admitted EXCEPT ![r.client] = @ + 1]
               /\ Goto(p, "convert") /\ UNCHANGED <<req, seen, rates>>
          ELSE Answer(p) /\ UNCHANGED admitted
       /\ UNCHANGED <<clock, cache, since, started>>

\* ConvertDecimalAmount between accounts of one currency.
SameCurrency(p) ==
    /\ pc[p] = "convert" /\ req[p].base = None /\ Answer(p)
    /\ UNCHANGED <<clock, buckets, cache, admitted, evicted, since, started>>

\* CurrencyService.Latest, from a conversion or for the client: the provider reads the clock.
ReadClock(p) ==
    /\ pc[p] = "convert" /\ req[p].base # None
    /\ Goto(p, "lookup") /\ seen' = [seen EXCEPT ![p] = clock]
    /\ UNCHANGED <<clock, buckets, cache, req, rates, admitted, evicted, since, started>>

Lookup(p) ==
    /\ pc[p] = "lookup"
    /\ IF Provider!Cached(req[p].base, seen[p])
       THEN /\ rates' = [rates EXCEPT ![p] = cache[req[p].base].rates]
            /\ Goto(p, "use")
       ELSE Goto(p, "fetch") /\ UNCHANGED rates
    /\ UNCHANGED <<clock, buckets, cache, req, seen, admitted, evicted, since, started>>

\* The provider answers; the mutex is not held meanwhile.
Fetch(p) ==
    /\ pc[p] = "fetch"
    /\ rates' = [rates EXCEPT ![p] = Provider!Fetched(seen[p], clock)]
    /\ Goto(p, "store")
    /\ UNCHANGED <<clock, buckets, cache, req, seen, admitted, evicted, since, started>>

\* A timeout, another status than 2xx or an answer that does not parse: nothing is cached.
FetchFails(p) ==
    /\ pc[p] = "fetch" /\ Answer(p)
    /\ UNCHANGED <<clock, buckets, cache, admitted, evicted, since, started>>

Store(p) ==
    /\ pc[p] = "store"
    /\ Provider!Store(req[p].base, rates[p], seen[p], clock)
    /\ Goto(p, "use")
    /\ UNCHANGED <<clock, buckets, req, seen, rates, admitted, evicted, since, started>>

\* A conversion multiplies by the rate, or fails for the want of a usable one.
Use(p) ==
    /\ pc[p] = "use" /\ Answer(p)
    /\ UNCHANGED <<clock, buckets, cache, admitted, evicted, since, started>>

-----------------------------------------------------------------------------
Nothing == [k \in {} |-> None]
NoRequests == [p \in Proc |-> None]
NoTimes == [p \in Proc |-> 0]
Nobody == [c \in Client |-> 0]

Init ==
    /\ clock = 0 /\ since = 0 /\ started = 0
    /\ buckets = Nothing /\ cache = Nothing
    /\ pc = [p \in Proc |-> "idle"] /\ req = NoRequests /\ seen = NoTimes /\ rates = NoRequests
    /\ admitted = Nobody /\ evicted = {}

\* The process stops and starts again.
Restart ==
    /\ buckets' = Nothing /\ cache' = Nothing
    /\ pc' = [p \in Proc |-> "idle"] /\ req' = NoRequests /\ seen' = NoTimes /\ rates' = NoRequests
    /\ admitted' = Nobody /\ evicted' = {} /\ since' = clock
    /\ UNCHANGED <<clock, started>>

Tick ==
    /\ clock < MaxTime /\ clock' = clock + 1
    /\ UNCHANGED <<buckets, cache, pc, req, seen, rates, admitted, evicted, since, started>>

Step(p) ==
    \/ CountRequest(p) \/ SameCurrency(p) \/ ReadClock(p) \/ Lookup(p)
    \/ Fetch(p) \/ FetchFails(p) \/ Store(p) \/ Use(p)

Next ==
    \/ \E p \in Proc : (\E r \in Offered : Arrive(p, r)) \/ Step(p)
    \/ Tick
    \/ Restart

Spec == Init /\ [][Next]_vars

-----------------------------------------------------------------------------
(* Properties. *)

\* Since the process started a client has passed no more than Limit requests for each window that
\* can have begun, however many it has in flight, whatever addresses it writes into
\* X-Forwarded-For, and although the times at which requests arrived are counted out of order:
\* windows start at least Window apart.  Only a client whose bucket was removed while its window
\* ran, be it for an older request of its own alone, and a restart, start the count again
\* (rateLimitByIP).
AdmittedWithinLimit ==
    Limiter!Enabled => \A c \in Client \ evicted : admitted[c] <= Limit * (1 + (clock - since) \div Window)

\* Room is made at the expense of a running window only when as many windows as the map holds
\* are running: a request that waited for the mutex with an old time may find no bucket expired,
\* and still removes one that is (removeOldestRateLimitBucket).
LiveBucketsKept ==
    [][buckets' # Nothing /\ Dropped # {} =>
         /\ \A k \in DOMAIN buckets : Live(buckets[k])
         /\ Cardinality(DOMAIN buckets) = Limiter!rateLimitBucketCapacity]_vars

\* No amount is converted at a rate that the provider had replaced a time to live before the
\* request asked for it, although answers are stored in any order and an older one may replace
\* a newer (HTTPExchangeRateProvider.Latest).
RatesAreFresh ==
    \A p \in Proc : pc[p] = "use" => rates[p].asOf > seen[p] - TTL /\ rates[p].asOf <= clock

-----------------------------------------------------------------------------
(* The inductive invariants behind the theorems of ServerProofs. *)

Stage == {"idle", "limit", "convert", "lookup", "fetch", "store", "use"}
Quote == [fetchedAt : Nat, asOf : Nat]

\* Times lie between the start of the process and now, and a request has what its stage needs.
TypeOK ==
    /\ clock \in Nat /\ since \in 0..clock /\ started \in Nat
    /\ \A k \in DOMAIN buckets : buckets[k] \in [start : since..clock, count : Nat]
    /\ \A b \in DOMAIN cache : cache[b] \in [rates : Quote, expiresAt : Nat]
    /\ pc \in [Proc -> Stage] /\ DOMAIN req = Proc /\ seen \in [Proc -> 0..clock] /\ DOMAIN rates = Proc
    /\ admitted \in [Client -> Nat]
    /\ \A p \in Proc :
         /\ pc[p] = "limit" => req[p] \in Offered /\ since <= seen[p] /\ Limiter!Enabled
         /\ pc[p] \in {"store", "use"} => rates[p] \in Quote

\* Rates are known no longer than a time to live after they were the provider's.
RatesInv ==
    /\ \A b \in DOMAIN cache : LET rate == cache[b] IN
         rate.expiresAt <= rate.rates.asOf + TTL /\ rate.rates.asOf <= clock
    /\ \A p \in Proc : pc[p] = "store" => rates[p].asOf \in seen[p]..clock
    /\ RatesAreFresh

RoomInv ==
    /\ IsFiniteSet(DOMAIN buckets)
    /\ Cardinality(DOMAIN buckets) <= Limiter!rateLimitBucketCapacity

Windows(t) == (t - since) \div Window

\* The requests that a bucket has let through.
Passed(bucket) == IF bucket.count <= Limit THEN bucket.count ELSE Limit

\* What a client has passed, it has passed in the windows before that of its bucket and in this one;
\* and without a bucket in windows that are over for the clock and for all that wait.
CountsInv ==
    Limiter!Enabled => \A c \in Client \ evicted :
        IF c \in DOMAIN buckets
        THEN admitted[c] <= Limit * Windows(buckets[c].start) + Passed(buckets[c])
        ELSE /\ admitted[c] <= Limit * Windows(clock)
             /\ \A q \in Proc : pc[q] = "limit" /\ KeyOf(req[q]) = c => admitted[c] <= Limit * Windows(seen[q])

ServerInv == TypeOK /\ RatesInv /\ RoomInv /\ CountsInv
=============================================================================
