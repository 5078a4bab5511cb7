---------------------------- MODULE MemoryCache ----------------------------
(***************************************************************************)
(* The key-value port of the connector (internal/port/cache) as the        *)
(* in-memory adapter implements it.  A cache is a total function from keys *)
(* to values; None at a key means that the key is absent, which is also    *)
(* what a key looks like once its TTL has run out: ttlcache hides an       *)
(* expired item whether or not its janitor has removed it yet, so Forget   *)
(* is at once expiry and eviction.  Reads do not extend a TTL              *)
(* (WithDisableTouchOnHit), so a read leaves the cache as it is.           *)
(*                                                                         *)
(* Each operation takes the lock of the library for its own duration only: *)
(* a caller that reads and then deletes runs two steps.                    *)
(***************************************************************************)
CONSTANT None          \* the absent value

EmptyCache(keys) == [k \in keys |-> None]

Found(cache, key) == cache[key] # None

Put(cache, key, value) == [cache EXCEPT ![key] = value]

\* Mutant: Delete addresses a key that is not there.
ForgetNothing(cache, key) == cache

Forget(cache, key) == [cache EXCEPT ![key] = None]
=============================================================================
