# Verification of EdgeCache

TLA+ models of EdgeCache, an HTTP caching proxy fleet with a control plane: what is modelled, what TLC
checks on small instances, and what TLAPS proves for every instance. Paths are relative to the
repository's root.

## The system

A *proxy replica* (C++, `proxy/src`) has one event-loop thread per core; all share a sharded LRU cache
(L1), a registry that coalesces concurrent misses, a circuit breaker for the origin, and optionally a
second tier in Redis (L2). Detached threads revalidate stale entries in the background. A coordinator
with two threads listens to Redis for purges and rule changes. The *control plane* (TypeScript,
`control-plane/src`) writes rules and purges to Postgres and forwards them through Redis. The *analytics
consumer* (`analytics-consumer/src`) rolls access events up into Postgres.

| component | state | operations | interacts with | what makes it correct |
|---|---|---|---|---|
| CircuitBreaker | state, failure and probe counts, time of opening | allowRequest, recordSuccess, recordFailure | request handler, clock | limits and accounts for probes, full open time, recovers |
| InFlightRegistry | map key to slot; ready, success and response of a slot | acquire, publish (two critical sections), waitReady | request handler | one leader per key, no waiter left behind, no answer for another key |
| RequestHandler | program counters of threads | process, triggerRevalidation, fetchGuarded, storeTiers, maybeStore | all of the above, L1, L2, origin | one fetch per key at a time, only cacheable content stored, bounded age, everyone answered |
| LRUCache, ShardedCache | list, index and byte count per shard | get, put, erase, purge, sweepExpired | workers, purge and sweep | the three agree, limit, LRU order, complete purges |
| RedisL2Cache, RedisClient | one connection under a mutex; buffer and position of the parser | get, put; connect, command, subscribe, readReply, close | request handler, subscriber, poller | a reply reaches the call it belongs to, messages handled once and in order, expiry, degradation when Redis fails |
| RedisCoordinator, RuleStore | reload request, connection, rules | subscriber and poller loops, reloadRules | Redis, L1 | no rule change forgotten, converges |
| EventLoop, RequestParser | buffers of each connection | accept, read, parse, flush | request handler | answers in order, nothing lost, connections end |
| CachePolicy, RuleOverridePolicy, CacheKey | none | decide, fromRequest, normalizeQuery | request handler, rule store | longest rule first, HTTP caching rules otherwise; one key for equal requests |
| HttpOriginClient | one descriptor per fetch | fetch: connect, send, receive, parse | request handler, origin | nothing cut short is cached, no descriptor leaks, fetches end |
| control plane: rules | Postgres rows, Redis hash | POST, PUT, DELETE, reconcileAll | Redis, proxies | Postgres first, hash mirrors the table |
| control plane: purge | audit log | POST /purge, purgeL2, publishPurge | L2, proxies | purged content does not come back |
| analytics consumer | buckets, flushes under way | add, flush, timer, shutdown | Kafka, Postgres | every event counted once |

Hard to test: interleavings of workers, background threads, purge and sweep; messages lost while a
subscriber reconnects; failures and crashes between the steps of a control-plane request; overlapping
flushes; a Redis that hangs; answers that arrive after the state they were asked in. The hazards are
listed, each at its line and with the properties that would catch it, in `PROJECT.json`.

## Modules

| module | models | state | actions |
|---|---|---|---|
| `CircuitBreaker` | `origin/CircuitBreaker.cpp` and the callers `fetchGuarded` has let through | the fields of the class; time since opening up to `OpenMs`; who is fetching | one per outcome of allowRequest (`AdmitClosed`, `AdmitFirstProbe`, `AdmitNextProbe`, `Reject`), `RecordSuccess`, `RecordFailure`, `Tick` |
| `InFlightRegistry` | `coalesce/InFlightRegistry.cpp` | the map, the slots, what each thread holds | `Lead`, `Join` (acquire), `Unlink` and `Deliver` (the two critical sections of publish), `Collect` (waitReady returns). A slot is free again when nobody refers to it, as its `shared_ptr` has it |
| `RequestHandler` | `RequestHandler.cpp`, composed with the two above (`INSTANCE`), L1, L2, origin, clock | a program counter, key and response per thread; one L1 and one L2 entry per key | one step between two accesses to shared state |
| `PathPatterns`, `CacheKeys` | `RuleStore::patternMatches`, `pathOfKey` and `purgeMatches`, the control plane's `l2PathMatches`; `cache/CacheKey.cpp` | none: operators | none |
| `LRUCache`, `ShardedCache` | `cache/LRUCache.cpp`, `cache/ShardedCache.cpp`, with keys from `CacheKeys` | per shard the list, the index and the byte count | `Get`, `Put`, `Erase`, and purge and sweep one shard at a time |
| `BoundedCache` | nothing; what a cache promises: a map that may forget and never returns what was not put last | a map | put, forget |
| `PurgePropagation` | `routes/purge.ts`, `coordinator.ts`, `RedisCoordinator::subscriberLoop`, and fills | version of the origin's content, copies, what fillers hold, requests, messages | a fill in its steps, with the time between its stores and `PublishSlot` in which others join it (`Coalesce`), a purge request in its steps with failures, the subscriber connecting, losing its connection and handling a message |
| `RuleSync` | `routes/rules.ts`, `db/rules.ts`, `coordinator.ts`, `RedisCoordinator` and `RuleStore::replaceAll` | rows, hash, requests, reload request, poller, rules of each proxy | POST, PUT, DELETE in steps with a failure at each, reconcileAll, crash, restart of Redis, subscriber, poller |
| `HttpConnection` | `net/EventLoop.cpp`, `http/Http.cpp` | the `Conn`, epoll interest, position of the loop, the socket's queues, the client | `Accept`, `Wake`, `Recv`, `Serve`, `Send` and their other outcomes; the client sends, half-closes, resets, reads. A unit of a request says how much of the request `parse()` takes (`Erased`): all, or, if its length wraps, nothing or part |
| `RedisConnection` | `redis/RedisClient.cpp`, `redis/RedisL2Cache.cpp`, `RedisCoordinator::subscriberLoop` | the connection, what Redis has sent as tokens, the parse under way; the mutex, each worker's call, the keys in Redis; the subscriber and the messages | `Call`, `Lock`, `Send`, `Read` of a worker and their failures; `Subscribe`, `ReadToken`, `ReadAcross` (a bulk string whose length was a payload's text), `Timeout`, `SubscriberEof` of the subscriber; `NetworkFails`, `Publish`, `Expires` outside |
| `CachingDecision` | `policy/CachePolicy.cpp`, `policy/RuleOverridePolicy.h`, `RuleStore::replaceAll` and `match` | none: operators | none |
| `OriginExchange` | `origin/HttpOriginClient.cpp` and the decision of `storeTiers` | position in fetch, addresses left, descriptors, blocks received, the rules, the decision | one per system call and outcome; `Parse`, `MakeDecision`; `LoadRules` by the poller |
| `RollupBuffer` | `analytics-consumer/src/rollup.ts`, `index.ts` | buckets, flushes and their snapshots, the pool's clients, row locks, counts in Postgres, the shutdown of each signal | add, each await of flush, failures, deadlocks; a shutdown in its steps `Signal`, `LastFlush`, `EndPool`, `Exit` |

`X` is instantiated for TLC by `MCX`; `XProofs` holds its theorems, `OriginGuardsProofs` those of `InFlightRegistry`
and `CircuitBreaker`, `OriginContentProofs` those of `OriginExchange` and `PurgePropagation`, `ShardedCacheProofs` also
what is proved of `LRUCache`, `CacheKeys` and `PathPatterns`. An operator marked "Mutant" is a
plausible mistake in the operator after it: the definition is replaced by it to see that the property
notices. Variables and operators marked "history" or "external" are not in the code.

What is abstracted: a response's body is the version of the origin's content it carries; in `RequestHandler`,
`PurgePropagation` and `RuleSync` keys, patterns and rules are model values, and the policy a set of
uncacheable contents. Paths and keys are sequences of characters where they are matched (`PathPatterns`,
`CacheKeys`), with a query parameter as one character. A Cache-Control header is the sequence of its
directives. A reply of Redis is a sequence of the pieces that `readLine` and `readN` take, a published payload the
lines that it would be for `readLine`, each with what the parser would take it for, a stored blob its
entry and whether `deserialize` accepts it, an origin's answer a number of blocks. Time is counted in ticks
of one second; a request on the wire is a kind and a number of units. Metrics, logs and other headers are
left out. In `RequestHandler` an entry may be discarded at any time, which stands for eviction, sweep and
purge.

## Runs

| run | instance | shows |
|---|---|---|
| `breaker` | 3 callers, threshold 2, 2 probes, open time 2 | counts and limits probes, full open time, recovers |
| `registry` | 3 threads, 2 keys, 3 slots | one leader per key, every waiter has a producer and returns, slots are not shared between keys nor written while read |
| `handler` | 2 workers, 1 background thread, 1 key, ttl 2, stale time 1, clock 0..4, content changes once and becomes uncacheable | one fetch per key at a time, only cacheable content stored, each fetch reported to the breaker once, how old fresh content gets, and that the registry is used as its proofs assume (a refinement) |
| `handler_live` | as above, ttl 1, clock 0..1, Redis may hang | every request is answered and every revalidation ends, except what a hung Redis holds |
| `handler_blank` | ttl 1, no L2 | violation, see below |
| `cache` | 4 keys of 6 requests, 2 shards of 3 bytes, 3 keys in one of them, sizes 1, 2 and 4, an exact and a prefix pattern | list, index and bytes agree, limit, equal requests have one key and a purge goes by their path in both tiers, LRU eviction, complete purges, and that it implements `BoundedCache` |
| `purge` | 2 replicas, 3 filling threads, 2 purges at once, 2 versions | when a purge can be relied on, whoever joins a leader before it publishes |
| `rules` | 1 proxy, 2 requests at once, 2 patterns, 2 ttls, 2 writes, 1 crash or restart | no reload forgotten, only persisted rules applied, when the hash mirrors the table, convergence |
| `redis` | 2 workers, 2 keys, one with a value of an older format, 2 SETs; or a subscriber with 2 messages, one with plain text, one with the two lines `*1` and `$5`; 2 connections | a get returns what its key held during the call, whatever was given up before; messages are handled in order and once, a timeout within one costs that one and, if the rest of it looks like RESP, those behind it; the subscriber reconnects; the mutex is given back |
| `rollup` | 4 events of 2 keys, 3 overlapping flushes of the timer and one of each of 2 signals, a pool of 2 clients, 1 failure | events counted once, when none is missing, all written or lost |
| `origin` | 2 addresses, limit of 3 blocks, answers of 0 to 5 blocks with a head of 1 or 2, 3 rule sets, one with patterns of equal length, and 9 heads, one with a directive twice | nothing that a timeout or a reset cut short is cached, the longest rule of one rule set decides, no descriptor is left, the fetch ends |
| `connection` | 2 requests of every kind in 1 or 2 units, also with lengths that wrap, answers of 2 units, send buffer of 3 | answers whole and in order, none forgotten, connections end |

Why the bounds are enough to see the interesting cases. Three callers are two probes and a fetch from before the
outage. Three threads and two keys let a key's second leader start while a waiter still holds the first slot,
and let freed slots change keys. In `handler` two workers and a revalidation compete for one key, and content
can be fetched, expire, be promoted from L2 and be stored again by a waiter before the clock ends; keys interact
only through the breaker. In `cache` sizes 1 and 2 fit a shard together, 2 and 2 do not, 4 never does; three
keys in a shard give an eviction a choice. In `redis` the second worker's call meets what the first one's left
on the wire, and a message of seven tokens can be cut at each of them with another behind it; the lines `*1` and `$5` give
the parser, when it is out of step, both an array to fill with what follows and a length that runs across it. In `origin`
answers end before, at and beyond the head and the limit. In `purge` one replica has a leader and a waiter and
the other fills L2 behind their back. Proxies do not interact in `RuleSync`, so one is enough. Four events give
each of two flushes both keys, so that they can deadlock, or each of four flushes one, so that calls of the timer and
of both shutdowns compete for two clients and some are queued when the pool is ended. A send buffer of three units holds one and a half
answers.

Bounds that cut behaviours off are constants: `CountCap` (a failure count above the threshold),
`MaxTime`, `MaxVersion`, `Tasks` (background threads at once; the code has no limit), `MaxPurges`,
`MaxWrites`, `MaxRestarts`, `MaxFailures`, `MaxRequests`, `MaxOut`, `MaxPuts`, `MaxMessages`, `MaxConnects`,
`MaxAddrs`, `Cap` (for 32 MB). Three need a word:

* `PromptThreads` (handler): the clock advances only when no thread can run. `FreshContentAge` is about
  ages in seconds; a thread that is suspended for seconds between computing a lifetime and storing the
  entry can exceed any bound. The other properties do not mention time.
* `FirstRule` (rules): of the behaviours that differ only in the names of patterns and ttls, those are
  explored in which the first rule created has the first pattern and the first ttl. A `SYMMETRY` set
  would be unsound for the liveness property.
* `MaxOut` (connection): beyond this size of outBuf the loop is not woken before the client has read its
  answers, and a loop that serves one request for ever is not followed. Only the repeated 400 and the wrapped
  length described below make outBuf that large.

### Fairness

* breaker: time passes, fetches end (the origin client has timeouts), requests keep arriving.
* registry: a leader publishes and a notified waiter runs.
* handler: a runnable thread runs, the origin answers or the fetch times out, Redis answers or fails
  unless it hangs. Triggering a revalidation has strong fairness only because `Tasks` is bounded here.
* rules: the poller's timer expires and its Redis connection works again and again (strong fairness of
  the two steps that a failure may pre-empt). Nothing is assumed of the subscriber or of messages.
* rollup: the timer fires (strong fairness only because its calls are bounded here), Postgres answers, gives a row
  lock that is free again and again, breaks deadlocks, and a shutdown goes on. Failures are bounded.
* redis: threads run, what Redis has sent arrives, a poll ends when its time is up, a connection that Redis
  has closed is noticed, and connecting works while `MaxConnects` allows it. A write that fails is not fair.
* origin: the thread runs; connect and recv end at the latest with their timeouts. Sending has no timeout
  and need not end.
* connection: the loop's thread runs, the handler returns (`RequestsEnd`), and the client reads. There
  is no idle timeout, so a client that does not read keeps its connection for ever.

Deadlock is not checked in `handler_live` (a Redis that hangs stops the threads), `rollup` (the process
exits) and `connection` (the loop ends).

A module's `TypeOK` is not an invariant of a run: it is a lemma of the proofs, or states the types for a
reader.

## Proofs

Each inductive invariant `IInv` contains the property; the rest is what the property needs to survive a
step, the types of the variables included (proved here and not among the runs'
invariants). Constants are arbitrary up to the named assumptions.

* `OriginGuardsProofs`, the registry and the breaker each by itself. The registry, from `RegistryAssumption` (the
  three "none" values are distinct from the others): `LeadersMatchMap`, `NoOrphanWaiter`, `SlotServesOneKey` and the
  action property `ReadySlotIsFrozen`. The properties need one another: a thread that joins has a producer because the
  map's slot has a leader; unlinking keeps the map right because no two leaders share a slot (`OneProducer`).
  The breaker (`CBSpec`), from `ConstantsAssumption` (finitely many callers; the settings are any integers, as `envInt`
  reads them): types, `ProbesAccounted`, `ProbeLimit`, `ClosedBelowThreshold` (a step to the others, not in a run),
  and the action property `FullOpenWindow`, for which `WindowMeasured` is added: the breaker's own clock dates from
  its last transition into Open.
* `ShardedCacheProofs`, from `CacheAssumption`, `KeyAssumption` and `RequestAssumption` (types of keys and requests,
  distinct parameters, a path without the mark of a query), for any requests, sizes, limit, shards and patterns.
  The loops of the code are recursive functions; `RoundsExist` says that such a function has the values its body gives
  and `Induct` carries a fact from round to round, so `EvictToFitFacts` and `RemoveFacts` say what a whole loop does to
  list, index and total. `CacheInv` has every shard's fields agree, within the limit and of the shard's own keys: hence
  `ShardConsistent` and `WithinLimit`. `ImplementsBoundedCache` is the refinement: every step stores what was put,
  forgets keys, or leaves the content. `KeysMeanRequests`: path, query and method can be read back from a key
  (`PathInKey`), and the sorted query is determined by how often each parameter occurs and determines it
  (`PlacesBijective`, `NormalBag`, `SameNormalForm`). `PurgeLeavesNothing`: the shards that the purge has passed hold of
  its pattern only what was put since it began (`PurgeDone`). `EvictsLeastRecent`: the lists are in the order of the
  history `usedLater` (`UseOrder`), and `PutEvicts` has what a put takes from the back of a list.
* `RollupBufferProofs`, from `RollupAssumption`: `CountedOnce` and `NoneMissing` for any events, keys and
  overlapping flushes. `NothingInvented` makes a new event new everywhere; `Orderly` says what holds as long as nothing has
  failed and one signal came: nothing comes back into the buckets after the last flush, nothing is lost before the
  pool is ended, and what is queued for a client from then on was so when it was ended; `EndedByShutdown`, that the
  pool has been ended exactly when a shutdown waits for it.
* `RequestHandlerProofs`, from `HandlerAssumption`, `ValuesAssumption` (the four "none" values are distinct from the
  others) and `BreakerAssumption` (that of the breaker, for its threads), for any workers, background threads, keys and
  slots. The invariants of the registry and of the breaker are conjuncts of its own, and each of its steps is shown to
  be a step of the registry and of the breaker or to leave them alone (`HandlerUsesRegistry`, the refinement
  `UsesRegistry`, and `HandlerUsesBreaker`), so that their step lemmas, taken from `OriginGuardsProofs`, preserve them.
  `ActorsSound` says, for each program counter, what the thread holds of the registry (`RoleAt`) and what it or
  its slot carries and how old that can be (`CarriesAt`). From these follow `OneFetchPerKey` (whoever fetches
  leads the slot that the map has for the key), `OnlyCacheableStored`, `BreakerSeesEveryFetch`,
  `FreshContentAge`, and `WaiterIsServed`: for whoever waits, some thread is on a path that ends in publish.
  For the age, `L1Sound` and `L2Sound` bound the end of an entry's lifetime by when the origin sent it; a waiter's
  response is at most `Grace` old when it is stored.
* `RuleSyncProofs`, from `RuleAssumption`, for any proxies, concurrent requests, patterns, ttls, crashes and
  restarts: types, `NoSilentStaleness`, `OnlyPersistedRules`, `MirrorHolds`. `AllInformed` states the first at
  every moment: what a proxy works with or is about to apply is the hash, or something will make it reload, or a
  change of the hash is still to be announced. `AllPersisted` follows a rule from Postgres through the handler,
  the hash and the poller's snapshot. `MirrorPending` says that only the pattern of a request that has yet to
  write may differ, and that what it will write is right; `MirrorRebuilt` the same of a `reconcileAll` halfway.
* `OriginContentProofs`, how content gets into the caches and out of them again. The exchange (`Spec`), from
  `OriginAssumption` and `DecisionAssumption` (types of heads and rules; rule sets are finite), for any responses, rule
  sets and path: `NoDescriptorLeak`, `CachedIsSound`, `DecisionFollowsRules`. The operators come first: `MinIsLeast`
  (from the well-foundedness of `<`) makes `match` return a first hit, which in a sorted sequence is a longest one
  (`MatchIsLongest`); `HeaderFollows` compares `HeaderBasedPolicy::decide` with what the property says of a header.
  `Progress` then has what each position in fetch has established. The proof made the property exact in two places: of
  a directive that occurs twice the first counts, also when its value is 0, and the default ttl is used as it is
  configured. The purge (`PurgeSpec`), from `PurgeAssumption`: `SettledPurgeHolds` for any replicas, fillers and
  concurrent purges. `SourcesAreNew` says that whatever a copy can come from (origin, L2, a filler's
  hands) is at least as new as the newest settled deletion of L2, until it has published or its waiters have stored; `MessagesBehindL2` that no message or
  request claims more than that; so an eviction in an L1 can only be followed by newer copies. It is this
  argument that needs L2 to be deleted before the purge is published.
* `RedisConnectionProofs`, from `RedisAssumption`, for any workers, keys and numbers of calls and connections:
  `GetIsCurrent`. Replies carry no name of their call. `Wire` says that the connection holds nothing when no worker
  waits for a reply, and otherwise a part of the answer to the command of the one that does, the tokens that the
  parser has taken included; a call that gives up closes the connection, which is what keeps it so. `HandledExactly`
  for any messages on any channels, cut by timeouts and ends of connections anywhere: each token of the stream has a
  label, its message (or the confirmation of SUBSCRIBE) and its position in it, and successive labels follow one
  another (`Labelled`); a message whose last token is there is not lost, one whose first token is there is not cut, and
  none that is there has been acted upon (`Accounted`); the last message of the stream is whole or lost (`EndsWhole`);
  and the parser, which knows of no labels, is between messages, within one, or skipping the rest of a cut one
  (`Cursor`). When the rest of a cut message makes the parser read on across messages (`Misled`), none of this holds
  until it has read all that was sent; all that is sent meanwhile counts as cut (`Straying`), so that it does not
  matter what the parser makes of it.
* `HttpConnectionProofs`, from `ConstantsAssumption`, for any number of requests, units of requests and of answers and
  any send buffer: types and `AnswersInOrder`. What the client has got, the socket holds and flush() has still to send
  is one sequence (`Stream`), which send(), recv() and the client only move along, a close cuts and `Serve` extends.
  `Served` has the parser begin with the first unit of the request after those answered, as long as no answer has
  ended the connection and no length has wrapped (`Over`); `SentInOrder` then makes a whole request in the parser one that was wholly sent.

In all, every invariant and action property of `breaker`, `registry`, `purge`, `rollup`, `origin`, `redis`,
`connection` and `cache` is proved, every invariant of `handler` and `rules`, and the refinements `UsesRegistry` and
`ImplementsBoundedCache`.

Only model-checked: liveness, under fairness, which the prover does not handle.

## What the code does otherwise than documented

Shown by a run:

* `handler_blank`: a background revalidation whose fetch fails publishes a default-constructed response;
  a request that missed (the entry was evicted meanwhile) and joined that slot answers an empty 200.
  `docs/FAILURE_MODES.md:7-8` promises 502, 503 or 504.

Seen while modelling, with no run of their own (the models behave as the code does):

* A PUT that changes the pattern leaves the old pattern in the hash, where it has no row, until the next
  start of the control plane (`rules.ts:53`; `docs/DESIGN_DECISIONS.md:65`). `MirrorHolds` states when hash and
  table agree and excludes this case.
* A failing `pool.connect()` drops the snapshot of the flush, being outside the try (`rollup.ts:57`; the
  comment of `rollup.ts:77` says that nothing is lost). `NoneMissing` excludes it.
* Each signal runs `shutdown()` again (`index.ts:54-55`). The second call of `pool.end()` rejects at once, which is
  caught, and the process exits while a flush of the first shutdown or of the timer may be under way: its snapshot is
  lost although nothing failed. And `pool.end()` waits for the clients that are out, not for flushes that are queued
  for one of the four (`index.ts:8`), whose snapshots are lost even with one signal. `NoneMissing` excludes both.
* The read timeout of a fetch starts anew with every recv and the connect timeout with every address
  (`HttpOriginClient.cpp:46`, `:189`), so that an origin that drips holds a fetch until the limit of 32 MB, and
  one that does not read a large request holds it for ever; `docs/FAILURE_MODES.md:8` has the sum of the two
  timeouts as a bound. `timedOut` is set and never read: a timeout is answered 502, never 504.
* The origin's Content-Length is dropped before it is looked at (`HttpOriginClient.cpp:136`): an answer that
  the origin ends early by closing, or that exceeds 32 MB, is taken, and cached, as complete. The body of a
  request is forwarded without its length (`:170-178`).
* Rules of equal pattern length that match the same path apply in any order (`RuleStore.cpp:20`, `std::sort`).
  A rule caches any status below 500 and whatever the origin's Cache-Control says (`RuleOverridePolicy.h`).
* Of several Cache-Control lines the last counts (`HttpOriginClient.cpp:139`); a max-age without a number, or
  with one that does not fit, means that the answer is not cached (`CachePolicy.cpp`).
* A subscriber's connection that Redis or the network drops without closing is not noticed: readReply times
  out for ever (`RedisCoordinator.cpp:95-98`; `docs/FAILURE_MODES.md:21` says "recovers automatically"). A
  SUBSCRIBE that Redis refuses leaves the loop reading a connection that will bring nothing. A message that
  arrives more slowly than the timeout of one second is lost in part, and with it its effect.
* After such a timeout the parser begins within the message. A purge pattern or a rule's pattern may be any text
  (`purge.ts:7`, `rules.ts:7`), so that what is left of one can look like RESP: "*1" or "$5" makes the parser take the
  next messages for elements of an array or for the body of a bulk string, and they are swallowed
  (`RedisClient.cpp:154-175`). `HandledExactly` has the exact extent, and says nothing of what the subscriber acts upon
  until it has read all that was sent. A "*" with a number that no memory holds makes `resize` throw in the
  subscriber thread, which ends the process; that is not modelled.
* A purge message that a subscriber misses, reconnecting or after a timeout, is never repeated, and the copy stays in
  that replica's L1 until it expires (`RedisCoordinator.cpp:94-98`). `SettledPurgeHolds` is about replicas that have
  evicted; no property covers the others.
* A success of a fetch admitted before the outage closes an open breaker without a probe
  (`CircuitBreaker.cpp:37`; `docs/FAILURE_MODES.md:7` has it closed by a probe).
* A request that looked L1 up before a leader stored and acquires after it unlinked fetches again:
  fetches of a key never overlap, but a burst may cause two (`RequestHandler.cpp:188`;
  `docs/DESIGN_DECISIONS.md:41` and `test_coalescing.cpp:81` expect one).
* A waiter stores what its leader promoted from L2 with a full ttl of its own (`RequestHandler.cpp:242`),
  so that fresh content can be almost two ttls old; `edgecache_blueprint.md:22` expects one.
* A Redis that keeps the connection open and does not answer stops the leaders that talk to it and
  those that wait for them: `command()` has no timeout (`RedisClient.cpp:181`; `README.md:126`).
* A fill under way when the purge is made stores purged content after the eviction, in L1 and in L2; the
  purge settles only if there is none (`README.md:112-113`, `coordinator.ts:77-79`). A fill is under way until it has
  published: a miss after the eviction may join a leader that stored before it, and store its response once more
  (`RequestHandler.cpp:188`, `:240-243`).
* A Redis that restarts empty makes the proxies drop all rules at their next poll, until the control plane
  reconciles at its next start (`RedisCoordinator.cpp:77`; `docs/FAILURE_MODES.md:10`).
* A header block that is rejected stays in the parser, so every further event of that connection
  appends another 400 while output is pending. After a half-close epoll reports the connection at every
  turn, so that outBuf grows until the client has read all of it (`EventLoop.cpp:82`). Requests behind
  one with "Connection: close" are served too if its answer cannot be sent at once.
* A Content-Length may be negative or near 2^64 for `stoull`, and then the length of the request wraps (`Http.cpp:141-147`).
  If nothing is left of it, `parse()` returns the same request for ever, and the loop of `EventLoop.cpp:76`
  never ends, sends nothing and holds its thread and memory. Otherwise the rest of the header block is parsed as a
  further request, or rejected with the one behind it. The properties of `connection` hold up to such a request.
* The tick callback of worker 0 refers to `last`, a variable of a block that has ended when the loop runs
  (`ProxyServer.cpp:84-92`): the time of a sweep is undefined. In `ShardedCache` it may come at any time.
* Readiness is described differently in `docs/RUNBOOK.md:10`, `docs/DESIGN_DECISIONS.md:81-83`,
  `docs/FAILURE_MODES.md:21` and `README.md:130`; the code has `running_` (`ProxyServer.cpp:72`).

## Not modelled

* Metrics, the Kafka access log, configuration, the control plane's origins, statistics, authentication and
  migrations, the dummy origin, the dashboards and deployment: single calls, output that nothing reads
  back, or text; `PROJECT.json` has the reason for each.
* Start and stop of the proxy: one thread starts the others and joins them. The detached revalidation threads
  are not joined and may meet destroyed objects when the process exits, which is undefined behaviour after
  the last answer and has no effect on anything persisted.
* The text of RESP commands, HTTP headers and stored blobs, and the millisecond arithmetic of
  `RedisL2Cache::get` below a second.

## Plan

Done, in this order: circuit breaker and registry (the core of coalescing, with proofs); request handler
that composes them; L1 with its abstract specification; purge, rules and analytics across processes;
connections; the Redis connection; cache keys, patterns and the caching decision; the origin client.

Then proofs: the request handler from the proofs of the registry and the breaker; the rule synchronisation; the
origin exchange with the caching decision; the L2 cache on its connection; the subscriber's messages; the
client's answers.
