--------------------------- MODULE ExchangeRates ---------------------------
(***************************************************************************)
(* The exchange rates of an HTTP provider behind a cache.  Rates are known *)
(* by the time they were asked for and the time the provider answered;     *)
(* their values are in Ledger.                                             *)
(***************************************************************************)
EXTENDS Integers

CONSTANT TTL \* how long rates are cached

VARIABLE cache \* from base currencies to [rates, expiresAt]

\* Latest: t is the time read before the mutex was taken.
Cached(base, t) == base \in DOMAIN cache /\ t < cache[base].expiresAt

\* Mutant: the time to live starts when the rates are stored.
ExpiresAtStored(t, now) == now + TTL

\* The time to live starts when the request did, not when the provider answered.
ExpiresAt(t, now) == t + TTL

\* The answer replaces what is cached, newer or not.
Store(base, rates, t, now) ==
    cache' = [b \in DOMAIN cache \union {base} |->
                IF b = base THEN [rates |-> rates, expiresAt |-> ExpiresAt(t, now)] ELSE cache[b]]

\* fetch: the provider's rates of the moment, stamped with the time of the request.
Fetched(t, now) == [fetchedAt |-> t, asOf |-> now]
=============================================================================
