-------------------------------- MODULE Cache -------------------------------
(***************************************************************************)
(* What the services share that answer from Redis: cacheService, whose     *)
(* every call does nothing and answers nothing while Redis is unreachable, *)
(* and the requests in progress, of which each step is what happens        *)
(* between two awaits.                                                     *)
(***************************************************************************)
EXTENDS Naturals, FiniteSets, Sequences

CONSTANTS
    Requests,  \* bound: requests ever made
    Keys       \* the cache keys in use

ASSUME SomeKeys == Requests # {} /\ Keys # {}

VARIABLES
    cache,  \* the entries in Redis
    redis,  \* can Redis be reached
    req,    \* where each request is
    late    \* history: keys whose entry was wrong when stored, or whose deletion was lost

cacheVars == <<cache, redis, req, late>>

NoEntry == [value |-> "nothing"]
Idle == [op |-> "idle"]
Done == [op |-> "done"]

\* A mutation: the lifetime is not handed to Redis.
EntryForEver(value, ttl) == [value |-> value, expires |-> FALSE]

\* setex when a lifetime is given, set when not.
Entry(value, ttl) == [value |-> value, expires |-> ttl > 0]

\* A call, or what stands for its answer while Redis is not there.
withRedis(operation, fallback) == IF redis THEN operation ELSE fallback

Get(k) == withRedis(cache[k], NoEntry)

\* right: does the value agree with what it was computed from
Set(k, value, ttl, right) ==
    IF redis
    THEN /\ cache' = [cache EXCEPT ![k] = Entry(value, ttl)]
         /\ late' = IF right THEN late \ {k} ELSE late \union {k}
    ELSE UNCHANGED <<cache, late>>

Delete(k) ==
    IF redis
    THEN /\ cache' = [cache EXCEPT ![k] = NoEntry]
         /\ late' = late \ {k}
    ELSE /\ late' = IF cache[k] = NoEntry THEN late ELSE late \union {k}
         /\ UNCHANGED cache

\* Redis drops an entry whose lifetime is over, reached or not.
Expire(k) ==
    /\ cache[k] # NoEntry /\ cache[k].expires
    /\ cache' = [cache EXCEPT ![k] = NoEntry]
    /\ late' = late \ {k}
    /\ UNCHANGED <<redis, req>>

RedisChanges == redis' = ~redis /\ UNCHANGED <<cache, req, late>>

Goto(r, state) == req' = [req EXCEPT ![r] = state] /\ UNCHANGED redis

CacheInit ==
    /\ cache = [k \in Keys |-> NoEntry]
    /\ redis = TRUE
    /\ req = [r \in Requests |-> Idle]
    /\ late = {}
=============================================================================
