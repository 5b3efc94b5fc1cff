------------------------------- MODULE Caches -------------------------------
(***************************************************************************)
(* The cache manager (cache/manager.py) over its in-memory backend         *)
(* (cache/memory.py, cache/backend.py) or over Redis (cache/redis_.py),    *)
(* and the older manager over a plain dict (utils/cache.py).  Callers ask  *)
(* for a result, compute it on a miss and store it, while time passes,     *)
(* entries are evicted or invalidated, and the Redis server may fail.      *)
(***************************************************************************)
EXTENDS Naturals, FiniteSets

CONSTANTS
    CacheKeys,      \* keys; two of one kind differ in their hash
    CacheTTL,       \* how long an entry lives
    MaxEntries,     \* max_size of the in-memory backend
    CacheCallers,   \* tasks that use Redis at a time
    MaxCacheTime,   \* bound on the clock
    MaxStores       \* bound: results stored, and calls made to Redis

ASSUME CacheAssumption ==
    /\ CacheTTL \in Nat
    /\ MaxEntries \in Nat \ {0} /\ MaxCacheTime \in Nat /\ MaxStores \in Nat

VARIABLES
    backend,    \* the backend _select_backend took, "plain" for utils/cache.py
    store,      \* the entry of each key that has one, here or on the server
    clock,
    stored,     \* results stored so far; a result is its number
    client,     \* RedisCache: _client (0 for none), _connect_failed, a close() waits
    opened,     \* Redis clients made so far, and those not closed
    asked,      \* what each caller of Redis awaits
    stats,      \* _hits, _misses
    answer,     \* history: what the latest get returned
    gets,       \* history: gets since the latest clear
    newest,     \* history: the result stored last for each key, and when
    muddled     \* history: close() ran while a client was being tested

cacheVars == <<backend, store, clock, stored, client, opened, asked,
               stats, answer, gets, newest, muddled>>

Results == 1..MaxStores
NoEntries == [k \in {} |-> {}]
NoStore == [result |-> 0, at |-> 0]
NotAsking == [what |-> "none", key |-> "none", result |-> 0, stage |-> "none", via |-> 0]

(* since is the place of its key in the dict: the result it was first stored with. *)
Entry == [result : Results, at : 0..MaxCacheTime, forever : BOOLEAN, since : Results]

CachesTypeOK ==
    /\ backend \in {"memory", "redis", "plain"}
    /\ DOMAIN store \subseteq CacheKeys /\ store \in [DOMAIN store -> Entry]
    /\ clock \in 0..MaxCacheTime
    /\ stored \in 0..MaxStores
    /\ client \in [id : Nat, failed : BOOLEAN, closing : BOOLEAN]
    /\ opened \in [made : Nat, live : SUBSET Nat]
    /\ opened.live \subseteq 1..opened.made
    /\ stats \in [hits : Nat, misses : Nat]

CachesInit ==
    /\ backend \in {"memory", "redis", "plain"}
    /\ store = NoEntries
    /\ clock = 0
    /\ stored = 0
    /\ client = [id |-> 0, failed |-> FALSE, closing |-> FALSE]
    /\ opened = [made |-> 0, live |-> {}]
    /\ asked = [c \in CacheCallers |-> NotAsking]
    /\ stats = [hits |-> 0, misses |-> 0]
    /\ answer = [key |-> "none", result |-> 0]
    /\ gets = 0
    /\ newest = [k \in CacheKeys |-> NoStore]
    /\ muddled = FALSE

Has(k) == k \in DOMAIN store
WithoutKeys(keys) == [k \in DOMAIN store \ keys |-> store[k]]

(* _is_expired, _get_value: an entry lives until its time is over. *)
IsExpired(e) == ~e.forever /\ clock > e.at + CacheTTL

(* A dict: a key keeps its place when its value changes. *)
Put(s, k, forever) ==
    [j \in DOMAIN s \cup {k} |->
        IF j # k THEN s[j]
        ELSE [result |-> stored + 1, at |-> clock, forever |-> forever,
              since |-> IF k \in DOMAIN s THEN s[k].since ELSE stored + 1]]

Before(k) == {j \in DOMAIN store : store[j].since < store[k].since}

(* InMemoryCache.set makes room: for the first expired entry, else for the
   oldest tenth, one at least. *)
EvictStale ==
    LET stale == {k \in DOMAIN store : IsExpired(store[k])}
    IN  WithoutKeys({k \in stale : Before(k) \cap stale = {}})

EvictOldest ==
    LET tenth == IF MaxEntries \div 10 = 0 THEN 1 ELSE MaxEntries \div 10
    IN  WithoutKeys({k \in DOMAIN store : Cardinality(Before(k)) < tenth})

IsFull(s) == Cardinality(DOMAIN s) >= MaxEntries

(* Wrong: a full cache of fresh entries drops none. *)
StaleRoom(k) == IF ~IsFull(store) \/ Has(k) THEN store ELSE EvictStale

MakeRoom(k) ==
    IF ~IsFull(store) \/ Has(k) THEN store
    ELSE IF ~IsFull(EvictStale) THEN EvictStale
    ELSE EvictOldest

Noted(k) ==
    /\ stored < MaxStores
    /\ stored' = stored + 1
    /\ newest' = [newest EXCEPT ![k] = [result |-> stored + 1, at |-> clock]]

CacheRest == UNCHANGED <<backend, clock, client, opened, asked, muddled>>

(* get: a hit, or a miss that drops an expired entry. *)
MemoryGet(k) ==
    LET hit == Has(k) /\ ~IsExpired(store[k])
    IN /\ backend = "memory"
       /\ gets < MaxStores /\ gets' = gets + 1
       /\ answer' = [key |-> k, result |-> IF hit THEN store[k].result ELSE 0]
       /\ stats' = IF hit THEN [stats EXCEPT !.hits = @ + 1]
                   ELSE [stats EXCEPT !.misses = @ + 1]
       /\ store' = IF hit THEN store ELSE WithoutKeys({k})
       /\ CacheRest /\ UNCHANGED <<stored, newest>>

(* set of a result that may be cached: failed tool results never come here. *)
MemorySet(k) ==
    /\ backend = "memory"
    /\ Noted(k)
    /\ store' = Put(MakeRoom(k), k, FALSE)
    /\ answer' = [key |-> "none", result |-> 0]
    /\ CacheRest /\ UNCHANGED <<stats, gets>>

(* delete, and exists of an expired entry. *)
MemoryDelete(k) ==
    /\ backend = "memory" /\ Has(k)
    /\ store' = WithoutKeys({k})
    /\ newest' = IF IsExpired(store[k]) THEN newest ELSE [newest EXCEPT ![k] = NoStore]
    /\ answer' = [key |-> "none", result |-> 0]
    /\ CacheRest /\ UNCHANGED <<stored, stats, gets>>

(* clear, and invalidate whatever the pattern. *)
MemoryClear ==
    /\ backend = "memory"
    /\ store' = NoEntries
    /\ stats' = [hits |-> 0, misses |-> 0]
    /\ gets' = 0
    /\ newest' = [k \in CacheKeys |-> NoStore]
    /\ answer' = [key |-> "none", result |-> 0]
    /\ CacheRest /\ UNCHANGED stored

(* utils/cache.py without Redis: a dict that neither ends nor evicts. *)
PlainGet(k) ==
    /\ backend = "plain"
    /\ answer' = [key |-> k, result |-> IF Has(k) THEN store[k].result ELSE 0]
    /\ CacheRest /\ UNCHANGED <<store, stored, stats, gets, newest>>
PlainSet(k) ==
    /\ backend = "plain"
    /\ Noted(k)
    /\ store' = Put(store, k, TRUE)
    /\ answer' = [key |-> "none", result |-> 0]
    /\ CacheRest /\ UNCHANGED <<stats, gets>>
PlainInvalidate(keys) ==
    /\ backend = "plain"
    /\ store' = WithoutKeys(keys)
    /\ newest' = [k \in CacheKeys |-> IF k \in keys THEN NoStore ELSE newest[k]]
    /\ answer' = [key |-> "none", result |-> 0]
    /\ CacheRest /\ UNCHANGED <<stored, stats, gets>>

(* A call of RedisCache: _get_client gives up for good after a failure, takes
   the client that is there, tested or not, or makes one and tests it. *)
AskRedis(c, what, k) ==
    /\ backend = "redis" /\ asked[c] = NotAsking
    /\ gets < MaxStores /\ gets' = gets + 1
    /\ ~client.failed
    /\ IF client.id # 0
       THEN /\ asked' = [asked EXCEPT ![c] = [what |-> what, key |-> k, result |-> 0,
                                              stage |-> "asking", via |-> client.id]]
            /\ UNCHANGED <<client, opened>>
       ELSE /\ opened' = [made |-> opened.made + 1, live |-> opened.live \cup {opened.made + 1}]
            /\ client' = [client EXCEPT !.id = opened.made + 1]
            /\ asked' = [asked EXCEPT ![c] = [what |-> what, key |-> k, result |-> 0,
                                              stage |-> "testing", via |-> opened.made + 1]]
    /\ UNCHANGED <<backend, store, clock, stored, stats, answer, newest, muddled>>

(* The ping returned; a close() meanwhile leaves no client, and the call
   ends.  Or it raised. *)
PingReturns(c, ok) ==
    /\ asked[c].stage = "testing"
    /\ ok => asked[c].via \in opened.live
    /\ client' = IF ok THEN client ELSE [client EXCEPT !.id = 0, !.failed = TRUE]
    /\ asked' = [asked EXCEPT ![c] =
          IF ~ok \/ client.id = 0 THEN NotAsking
          ELSE [@ EXCEPT !.stage = "asking", !.via = client.id]]
    /\ UNCHANGED <<backend, store, clock, stored, opened, stats, answer, gets, newest, muddled>>

(* The server did what it was asked; it drops expired keys itself. *)
RedisAnswers(c) ==
    LET v == asked[c]
        hit == Has(v.key) /\ ~IsExpired(store[v.key])
    IN /\ v.stage = "asking" /\ v.via \in opened.live
       /\ asked' = [asked EXCEPT ![c] = NotAsking]
       /\ CASE v.what = "get" ->
                 /\ answer' = [key |-> v.key, result |-> IF hit THEN store[v.key].result ELSE 0]
                 /\ stats' = IF hit THEN [stats EXCEPT !.hits = @ + 1]
                             ELSE [stats EXCEPT !.misses = @ + 1]
                 /\ UNCHANGED <<store, stored, newest, gets>>
            [] v.what = "set" ->
                 /\ Noted(v.key)
                 /\ store' = Put(store, v.key, FALSE)
                 /\ answer' = [key |-> "none", result |-> 0]
                 /\ UNCHANGED <<stats, gets>>
            [] v.what = "clear" ->
                 /\ store' = NoEntries
                 /\ stats' = [hits |-> 0, misses |-> 0]
                 /\ newest' = [k \in CacheKeys |-> NoStore]
                 /\ answer' = [key |-> "none", result |-> 0]
                 /\ UNCHANGED <<stored, gets>>
       /\ UNCHANGED <<backend, clock, client, opened, muddled>>

(* The request failed: every method logs it and answers as on a miss.  A
   timeout leaves open whether the server stored or dropped what it was told. *)
RedisFails(c) ==
    LET v == asked[c]
    IN /\ v.stage = "asking"
       /\ asked' = [asked EXCEPT ![c] = NotAsking]
       /\ answer' = [key |-> "none", result |-> 0]
       /\ \/ UNCHANGED <<store, stored, newest>>
          \/ v.what = "set" /\ Noted(v.key) /\ store' = Put(store, v.key, FALSE)
          \/ /\ v.what = "clear"
             /\ store' = NoEntries /\ newest' = [k \in CacheKeys |-> NoStore]
             /\ UNCHANGED stored
       /\ UNCHANGED <<backend, clock, client, opened, stats, gets, muddled>>

(* close, from reset_cache: the client closes first, and _client is forgotten
   when it has. *)
BeginClose ==
    /\ backend = "redis" /\ client.id # 0 /\ ~client.closing
    /\ opened' = [opened EXCEPT !.live = @ \ {client.id}]
    /\ client' = [client EXCEPT !.closing = TRUE]
    /\ UNCHANGED <<backend, store, clock, stored, asked, stats, answer, gets, newest, muddled>>
EndClose ==
    /\ client.closing
    /\ client' = [client EXCEPT !.id = 0, !.closing = FALSE]
    /\ muddled' = (muddled \/ \E c \in CacheCallers : asked[c].stage = "testing")
    /\ UNCHANGED <<backend, store, clock, stored, opened, asked, stats, answer, gets, newest>>

CacheTick ==
    /\ clock < MaxCacheTime
    /\ clock' = clock + 1
    /\ answer' = [key |-> "none", result |-> 0]
    /\ UNCHANGED <<backend, store, stored, client, opened, asked, stats, gets, newest, muddled>>

CachesNext ==
    \/ \E k \in CacheKeys : MemoryGet(k) \/ MemorySet(k) \/ MemoryDelete(k)
                            \/ PlainGet(k) \/ PlainSet(k)
    \/ MemoryClear
    \/ \E keys \in SUBSET CacheKeys : PlainInvalidate(keys)
    \/ \E c \in CacheCallers :
          \/ \E k \in CacheKeys, what \in {"get", "set", "clear"} : AskRedis(c, what, k)
          \/ \E ok \in BOOLEAN : PingReturns(c, ok)
          \/ RedisAnswers(c)
          \/ RedisFails(c)
    \/ BeginClose
    \/ EndClose
    \/ CacheTick

-----------------------------------------------------------------------------

\* The in-memory backend never holds more than max_size entries, however
\* entries expire and are stored again, and each get since the latest clear is
\* counted once, as a hit or as a miss.
CacheIsBounded ==
    backend = "memory" =>
        /\ Cardinality(DOMAIN store) <= MaxEntries
        /\ stats.hits + stats.misses = gets

\* A get returns what was stored last for its key, unless it was deleted or
\* cleared since, and never longer than its time to live.
HitsAreFresh ==
    answer.result # 0 =>
        /\ answer.result = newest[answer.key].result
        /\ backend # "plain" => clock <= newest[answer.key].at + CacheTTL

\* Callers that find no client make one between them: a second one, which
\* nobody closes, takes a close() in the middle of a connection test, and a
\* backend that failed its test has no client.
OneRedisClient ==
    backend = "redis" =>
        /\ client.failed => client.id = 0
        /\ Cardinality({c \in CacheCallers : asked[c].stage = "testing"}) > 1 => muddled

=============================================================================
