----------------------------- MODULE EmbedCache -----------------------------
(***************************************************************************)
(* The embedding cache of src/tools/cache: the three backends of cache.py  *)
(* under the replay of bench.py.  An entry stands for its key; two texts   *)
(* that differ in case or white space are one text, as normalize makes     *)
(* them, and what is stored is what embed gives for the key.               *)
(***************************************************************************)
EXTENDS Integers, Sequences, SequencesExt

CONSTANTS
    Text,         \* the pool of the workload
    Requests,     \* of a replay
    InvalidateAt, \* the request at which the model version changes
    Capacity      \* entries of the LRU

ASSUME CacheAssumption ==
    Requests \in Nat /\ InvalidateAt \in 0 .. Requests
        /\ Capacity \in Nat \ {0}

VARIABLES
    lru,          \* OrderedDict of LRUCache: the oldest key first
    redis,        \* the keys the Redis server holds
    counts,       \* hits, misses and evictions
    asked         \* the keys of this replay, the last one first, none twice

cacheVars == <<lru, redis, counts, asked>>

Zero == [hits |-> 0, misses |-> 0, evictions |-> 0]

CacheInit ==
    lru = << >> /\ redis = {} /\ counts = Zero /\ asked = << >>

Key(text, version) == <<text, version>>

\* replay: the version of request i.
VersionAt(i, invalidate) == IF invalidate /\ i >= InvalidateAt THEN 2 ELSE 1

Hit == [counts EXCEPT !.hits = @ + 1]
Miss == [counts EXCEPT !.misses = @ + 1]

\* A fresh cache of this backend; RedisCache flushes the database.
Make ==
    /\ lru' = << >> /\ redis' = {} /\ counts' = Zero /\ asked' = << >>

NoCacheRequest == counts' = Miss /\ UNCHANGED <<lru, redis>>

\* Mutant: a hit leaves the order of the entries alone.
StayInPlace(k) == lru

MoveToEnd(k) == Append(RemoveFirst(lru, k), k)

LruGet(k) ==
    /\ Contains(lru, k)
    /\ lru' = MoveToEnd(k) /\ counts' = Hit
    /\ UNCHANGED redis

\* get misses, put appends, and the oldest entries go.
LruPut(k) ==
    LET full == Append(lru, k)
        over == IF Len(full) > Capacity THEN Len(full) - Capacity ELSE 0
    IN  /\ ~Contains(lru, k)
        /\ lru' = SubSeq(full, over + 1, Len(full))
        /\ counts' = [Miss EXCEPT !.evictions = @ + over]
        /\ UNCHANGED redis

RedisGet(k) ==
    /\ k \in redis /\ counts' = Hit
    /\ UNCHANGED <<lru, redis>>

RedisPut(k) ==
    /\ k \notin redis /\ counts' = Miss
    /\ redis' = redis \cup {k}
    /\ UNCHANGED lru

\* maxmemory with allkeys-lru: the server drops a key of its choice.
RedisEvicts ==
    /\ \E k \in redis : redis' = redis \ {k}
    /\ counts' = [counts EXCEPT !.evictions = @ + 1]
    /\ UNCHANGED <<lru, asked>>

\* One request of the replay.
Request1(backend, k) ==
    /\ \/ backend = "none" /\ NoCacheRequest
       \/ backend = "lru" /\ (LruGet(k) \/ LruPut(k))
       \/ backend = "redis" /\ (RedisGet(k) \/ RedisPut(k))
    /\ asked' = << k >> \o RemoveFirst(asked, k)
=============================================================================
