--------------------------- MODULE ResponseCache ---------------------------
(***************************************************************************)
(* app/costs/cache.py: the in-process cache of agent replies.              *)
(*                                                                         *)
(* The module offers one operation per method of the class; AgentPipeline  *)
(* extends it and conjoins them to the handlers that call them.  `cache`   *)
(* is the dictionary `_store`, a function on the keys it holds.  A key is  *)
(* whatever the caller derives from (model, stripped lower-case query);    *)
(* the SHA-256 of it is taken to be injective.  `now` is time.time(), cut  *)
(* at MaxNow so that TLC sees finitely many clock values.                  *)
(***************************************************************************)
EXTENDS Integers

CONSTANTS
    TTL,       \* ttl_seconds, 3600 in the pipeline
    MaxNow     \* bound on the clock, for TLC only

ASSUME CacheAssumption == TTL \in Nat /\ MaxNow \in Nat

VARIABLES
    cache,     \* key -> [value, created]
    hits,      \* lookups answered, never reset
    misses,    \* lookups not answered, never reset
    now        \* the wall clock

cacheVars == <<cache, hits, misses, now>>

CacheEntry(V) == [value : V, created : Nat]

CacheTypeOK(K, V) ==
    /\ DOMAIN cache \subseteq K
    /\ cache \in [DOMAIN cache -> CacheEntry(V)]
    /\ hits \in Nat
    /\ misses \in Nat
    /\ now \in Nat

CacheInit ==
    /\ cache = [k \in {} |-> 0]
    /\ hits = 0
    /\ misses = 0
    /\ now = 0

\* Faulty: an entry dies when it reaches the TTL, not when it passes it.
ExpiredAtTTL(k) == now - cache[k].created >= TTL

\* is_expired: strictly older than the TTL.
Expired(k) == now - cache[k].created > TTL

\* An entry that get() would return.
Holds(k) == k \in DOMAIN cache /\ ~Expired(k)

\* Faulty: serving an entry renews it.
CacheGetHitRenewing(k) ==
    /\ Holds(k)
    /\ hits' = hits + 1
    /\ cache' = [cache EXCEPT ![k].created = now]
    /\ UNCHANGED <<misses, now>>

CacheGetHit(k) ==
    /\ Holds(k)
    /\ hits' = hits + 1
    /\ UNCHANGED <<cache, misses, now>>

\* Faulty: finding an expired entry is not counted as a miss.
CacheGetMissUncounted(k) ==
    /\ ~Holds(k)
    /\ misses' = IF k \in DOMAIN cache THEN misses ELSE misses + 1
    /\ cache' = [j \in DOMAIN cache \ {k} |-> cache[j]]
    /\ UNCHANGED <<hits, now>>

\* A lookup that fails; an expired entry is deleted on the way.
CacheGetMiss(k) ==
    /\ ~Holds(k)
    /\ misses' = misses + 1
    /\ cache' = [j \in DOMAIN cache \ {k} |-> cache[j]]
    /\ UNCHANGED <<hits, now>>

\* A new entry, or a new value and a new creation time for an old one.
CacheSet(k, v) ==
    /\ cache' = [j \in DOMAIN cache \cup {k} |->
                    IF j = k THEN [value |-> v, created |-> now] ELSE cache[j]]
    /\ UNCHANGED <<hits, misses, now>>

\* Faulty: only the expired entries go.
CacheClearExpired ==
    /\ cache' = [k \in {j \in DOMAIN cache : ~Expired(j)} |-> cache[k]]
    /\ UNCHANGED <<hits, misses, now>>

\* The entries go, the counters stay.
CacheClear ==
    /\ cache' = [k \in {} |-> 0]
    /\ UNCHANGED <<hits, misses, now>>

ClockTick ==
    /\ now < MaxNow
    /\ now' = now + 1
    /\ UNCHANGED <<cache, hits, misses>>
=============================================================================
