----------------------------- MODULE ShardedCache -----------------------------
(***************************************************************************)
(* The L1 cache of a replica (proxy/src/cache/ShardedCache.cpp): a fixed   *)
(* number of LRU shards, each with its own mutex.  Workers get and put one *)
(* key, in one shard; the Redis subscriber's purge and the periodic sweep  *)
(* of worker 0 go through the shards one by one and hold one mutex at a    *)
(* time, so that gets and puts happen between their steps.                 *)
(***************************************************************************)
EXTENDS LRUCache, CacheKeys, FiniteSets

CONSTANTS
    Requests,    \* requests, whose keys are in the cache
    Sizes,       \* sizes in bytes an entry can have; the size is also its value
    MaxBytes,    \* maxBytes
    NumShards,   \* shards
    ShardOf,     \* hash(key) % shards_.size() + 1
    Patterns     \* purge patterns

\* Requests of the methods that are looked up, as the parser splits them.
ASSUME RequestAssumption ==
    \A r \in Requests :
        /\ r.method \in {"GET", "HEAD"}
        /\ r.path \in Seq(STRING) /\ Mark \notin Range(r.path)
        /\ r.query \in Seq(Range(Params) \cup {NoText})

Keys == {FromRequest(r) : r \in Requests}

\* Which pattern takes which key: in L1, for the control plane in L2, and by the paths
\* of the requests that the keys come from.
Purged   == {pk \in Patterns \X Keys : PurgeMatches(pk[1], pk[2])}
PurgedL2 == {pk \in Patterns \X Keys : L2PathMatches(pk[2], pk[1])}
OfPath   == {pk \in Patterns \X Keys :
               \E r \in Requests : FromRequest(r) = pk[2] /\ Wildcard(pk[1], r.path)}

Shards == 1..(IF NumShards = 0 THEN 1 ELSE NumShards)

\* The constructor's division of the limit.
PerShard ==
    LET n == Cardinality(Shards)
    IN  IF MaxBytes \div n = 0 THEN MaxBytes ELSE MaxBytes \div n

\* At least a byte per shard (an entry is at least 64), so that the shards'
\* limits add up to no more than the whole.
ASSUME CacheAssumption ==
    /\ NumShards \in Nat
    /\ MaxBytes \in Nat
    /\ MaxBytes >= Cardinality(Shards)
    /\ Sizes \subseteq Nat \ {0}
    /\ ShardOf \in [Keys -> Shards]
    /\ <<>> \notin Patterns

VARIABLES
    shard,     \* shards_
    purge,     \* the purge under way: its pattern and the next shard (0: none)
    sweep,     \* the next shard of the sweep under way (0: none)
    usedLater, \* history: pairs of keys of a shard, the first used after the second
    putSince,  \* history: keys of its pattern put since the purge under way began
    lastPut    \* history: what was put last under each key that is there (0: nothing)

vars == <<shard, purge, sweep, usedLater, putSince, lastPut>>

NoPurge == [pattern |-> <<>>, next |-> 0]

Init ==
    /\ shard = [s \in Shards |-> EmptyShard]
    /\ purge = NoPurge
    /\ sweep = 0
    /\ usedLater = {}
    /\ putSince = {}
    /\ lastPut = [k \in Keys |-> 0]

Present(k) == k \in shard[ShardOf[k]].index

\* k is used: after all others of its shard.
Used(k) ==
    {p \in usedLater : k \notin {p[1], p[2]}} \cup ({k} \X (shard[ShardOf[k]].index \ {k}))

\* The histories after a step, of the keys that it leaves.
Recorded(used, put) ==
    /\ usedLater' = {p \in used : {p[1], p[2]} \subseteq shard'[ShardOf[p[1]]].index}
    /\ lastPut' = [k \in Keys |-> IF k \in shard'[ShardOf[k]].index THEN put[k] ELSE 0]

-----------------------------------------------------------------------------
Get(k) ==
    /\ shard' = [shard EXCEPT ![ShardOf[k]] = LruGet(@, k)]
    /\ Recorded(Used(k), lastPut)
    /\ UNCHANGED <<purge, sweep, putSince>>

Put(k, bytes) ==
    /\ shard' = [shard EXCEPT ![ShardOf[k]] = LruPut(@, k, bytes, PerShard)]
    /\ Recorded(Used(k), [lastPut EXCEPT ![k] = bytes])
    /\ putSince' = putSince \cup {j \in {k} : <<purge.pattern, j>> \in OfPath}
    /\ UNCHANGED <<purge, sweep>>

Erase(k) ==
    /\ shard' = [shard EXCEPT ![ShardOf[k]] = LruErase(@, k)]
    /\ Recorded(usedLater, lastPut)
    /\ UNCHANGED <<purge, sweep, putSince>>

\* Mutant: the loop starts at the second shard.
PurgeBeginLate(p) ==
    /\ purge = NoPurge
    /\ purge' = [pattern |-> p, next |-> Cardinality(Shards)]
    /\ putSince' = {}
    /\ UNCHANGED <<shard, sweep, usedLater, lastPut>>

\* A purge message arrives; the subscriber handles one at a time.
PurgeBegin(p) ==
    /\ purge = NoPurge
    /\ purge' = [pattern |-> p, next |-> 1]
    /\ putSince' = {}
    /\ UNCHANGED <<shard, sweep, usedLater, lastPut>>

PurgeShard ==
    LET s == purge.next
    IN  /\ purge # NoPurge
        /\ shard' = [shard EXCEPT ![s] = LruPurge(@, {k \in Keys : <<purge.pattern, k>> \in Purged})]
        /\ purge' = IF s + 1 \in Shards THEN [purge EXCEPT !.next = s + 1] ELSE NoPurge
        /\ putSince' = IF purge' = NoPurge THEN {} ELSE putSince
        /\ Recorded(usedLater, lastPut)
        /\ UNCHANGED sweep

SweepBegin ==
    /\ sweep = 0
    /\ sweep' = 1
    /\ UNCHANGED <<shard, purge, usedLater, putSince, lastPut>>

SweepShard ==
    /\ sweep # 0
    /\ shard' = [shard EXCEPT ![sweep] = LruSweepExpired(@)]
    /\ sweep' = IF sweep + 1 \in Shards THEN sweep + 1 ELSE 0
    /\ Recorded(usedLater, lastPut)
    /\ UNCHANGED <<purge, putSince>>

\* Time: an entry passes the end of its stale-while-revalidate window.
Expire(k) ==
    LET s == ShardOf[k]
    IN  /\ \E i \in DOMAIN shard[s].order :
             /\ shard[s].order[i].key = k
             /\ shard[s].order[i].live
             /\ shard' = [shard EXCEPT ![s].order[i].live = FALSE]
        /\ UNCHANGED <<purge, sweep, usedLater, putSince, lastPut>>

Next ==
    \/ \E k \in Keys : Get(k) \/ Erase(k) \/ Expire(k) \/ \E b \in Sizes : Put(k, b)
    \/ \E p \in Patterns : PurgeBegin(p)
    \/ PurgeShard \/ SweepBegin \/ SweepShard

Spec == Init /\ [][Next]_vars

-----------------------------------------------------------------------------
TypeOK ==
    /\ shard \in [Shards -> [order : Seq([key : Keys, bytes : Sizes, live : BOOLEAN]),
                             index : SUBSET Keys, curBytes : Nat]]
    /\ purge.pattern \in Patterns \cup {<<>>}
    /\ purge.next \in Shards \cup {0}
    /\ sweep \in Shards \cup {0}
    /\ usedLater \subseteq Keys \X Keys
    /\ putSince \subseteq Keys
    /\ lastPut \in [Keys -> Sizes \cup {0}]

\* The three fields of a shard describe the same entries after any sequence of
\* operations: the index maps exactly the listed keys, a key is listed once and
\* in the shard it hashes to, and curBytes_ (unsigned, adjusted by every
\* operation, never recomputed) is the total size.
ShardConsistent ==
    \A s \in Shards :
        LET order == shard[s].order
        IN  /\ shard[s].index = {order[i].key : i \in DOMAIN order}
            /\ Cardinality(shard[s].index) = Len(order)
            /\ \A k \in shard[s].index : ShardOf[k] = s
            /\ shard[s].curBytes = Bytes(order)

\* docs/FAILURE_MODES.md 5: the cache never holds more than its limit, an entry
\* larger than a shard included.
TotalBytes == Total([s \in Shards |-> shard[s].curBytes])
WithinLimit ==
    /\ \A s \in Shards : shard[s].curBytes <= PerShard
    /\ TotalBytes <= MaxBytes

\* A put of an entry that fits in a shard keeps that entry and drops another key
\* only if it would be too much together with the keys of its shard that were used
\* later, and with it all that were used before, whatever hits, overwrites and
\* removals the list has been through.  (An entry larger than a shard empties the
\* shard, itself included.)
SizeOf(k) == NodeOf(shard[ShardOf[k]].order, k).bytes
BytesOf(order, ks) ==
    Total([i \in DOMAIN order |-> IF order[i].key \in ks THEN order[i].bytes ELSE 0])
EvictedRightly(k, b) ==
    /\ (Present(k))'
    /\ \A j \in Keys \ {k} : Present(j) /\ ~(Present(j))' =>
         LET s == ShardOf[k]
             later == {i \in Keys \ {k} : <<i, j>> \in usedLater}
         IN  /\ ShardOf[j] = s
             /\ BytesOf(shard[s].order, later \cup {j}) + b > PerShard
             /\ shard'[s].index \ {k} \subseteq later
EvictsLeastRecent ==
    [][\A k \in {i \in Keys : shard'[ShardOf[i]] # shard[ShardOf[i]]}, b \in Sizes :
         EvictedRightly(k, b) \/ b > PerShard \/ ~Put(k, b)]_vars

\* Once a purge has been through all shards, the answer to a request whose path
\* matches is only there if it was put after the purge began, whatever its query and
\* although the shards are locked one at a time.
PurgeLeavesNothing ==
    [][purge # NoPurge /\ purge' = NoPurge =>
         \A k \in Keys : <<purge.pattern, k>> \in OfPath /\ (Present(k))' => k \in putSince]_vars

\* The key of a cached entry says what was asked for.  A purge takes it or leaves it
\* by the request's path alone, from L1 by pathOfKey as from L2 by the control plane's
\* own reading of the key; and requests share it exactly when method and path are the
\* same and so are the parameters, in whatever order, empty ones left out.
Bag(query) == [p \in Range(Params) |-> Cardinality({i \in DOMAIN query : query[i] = p})]
SameRequest(r, t) == r.method = t.method /\ r.path = t.path /\ Bag(r.query) = Bag(t.query)
ExactKeys == {k \in Keys : \A r, t \in Requests :
                FromRequest(r) = k => (SameRequest(r, t) <=> FromRequest(t) = k)}
KeysMeanRequests ==
    \A k \in {j \in Keys : Present(j)} :
        /\ \A p \in Patterns :
             /\ <<p, k>> \in Purged <=> <<p, k>> \in OfPath
             /\ <<p, k>> \in PurgedL2 <=> <<p, k>> \in OfPath
        /\ k \in ExactKeys

\* ShardedCache keeps BoundedCache's promise; the value of an entry is its size.
Cache == INSTANCE BoundedCache WITH
    Values <- Sizes,
    Absent <- 0,
    latest <- lastPut,
    content <- [k \in Keys |->
        IF Present(k) THEN SizeOf(k) ELSE 0]

\* get() never returns anything but the last put of its key.
ImplementsBoundedCache == Cache!Spec
=============================================================================
