---------------------------- MODULE RequestHandler ----------------------------
(***************************************************************************)
(* RequestHandler::process and triggerRevalidation of one proxy replica    *)
(* (proxy/src/RequestHandler.cpp), composed with the in-flight registry    *)
(* and the circuit breaker.  Worker threads run requests to completion;    *)
(* detached threads (Tasks) run background revalidations.  An actor's step *)
(* is the code between two accesses to shared state: the L1 shard, the     *)
(* registry's map, a slot, the breaker, the origin or Redis.               *)
(*                                                                         *)
(* The body of a response is the version of the origin's content it        *)
(* carries.  L1 and L2 keep one entry per key; entries of other keys, the  *)
(* LRU order and the shards are in ShardedCache, and here an entry may be  *)
(* discarded at any time (evicted, swept or purged).                       *)
(***************************************************************************)
EXTENDS Integers, FiniteSets

CONSTANTS
    Workers,        \* event-loop threads
    Tasks,          \* bound on background revalidation threads alive at once
    Keys,           \* cache keys
    TTL, SWR,       \* ttlSeconds and staleWhileRevalidateSeconds of a decision
    Uncacheable,    \* versions the policy does not let be stored
    L2Enabled,      \* cfg_.l2Enabled: l2_ is set
    RedisMayHang,   \* whether Redis may stop answering without closing
    PromptThreads,  \* whether the clock waits for every runnable thread
    MaxTime,        \* bound on the clock
    MaxVersion,     \* bound on changes of the origin's content
    FailureThreshold, OpenMs, HalfOpenMaxProbes, CountCap,  \* the breaker's
    Slots, NoKey, NoSlot, NoResponse, NoEntry

Actors == Workers \cup Tasks

\* TTL is positive (a decision with ttl 0 is not cacheable), SWR may be zero.
ASSUME HandlerAssumption ==
    /\ Workers \cap Tasks = {}
    /\ TTL \in Nat \ {0}
    /\ SWR \in Nat
    /\ MaxTime \in Nat
    /\ MaxVersion \in Nat
    /\ Uncacheable \subseteq 0..MaxVersion
    /\ {L2Enabled, RedisMayHang, PromptThreads} \subseteq BOOLEAN

VARIABLES
    pc,         \* where each actor is
    req,        \* the key of the request each actor works on
    resp,       \* the response it carries
    l1,         \* ShardedCache, one entry per key
    l2,         \* RedisL2Cache, one entry per key
    now,        \* Clock::now(), in seconds
    version,    \* what the origin serves now
    redisHung,  \* Redis holds the connection and does not answer
    inflight, slot, acq,
    state, consecutiveFailures, halfOpenProbes, sinceOpened, fetching, probes, openFor

Versions == 0..MaxVersion
Times    == 0..MaxTime

\* fetched is history: when the origin sent the content.
Content(v, t) == [kind |-> "content", ver |-> v, fetched |-> t]
Failure(k)    == [kind |-> k, ver |-> 0, fetched |-> 0]
Responses ==
    [kind : {"content"}, ver : Versions, fetched : Times]
      \cup {Failure("e502"), Failure("e503"), Failure("blank")}
Entries == [ver : Versions, fetched : Times, storedAt : Times, ttl : 1..TTL]

\* The null values are none of the values they stand for the absence of, and the
\* breaker has the settings CircuitBreaker allows.
ASSUME ValuesAssumption ==
    /\ NoKey \notin Keys
    /\ NoSlot \notin Slots
    /\ NoResponse \notin Responses
    /\ NoEntry \notin Entries

ASSUME BreakerAssumption ==
    /\ IsFiniteSet(Actors)
    /\ FailureThreshold \in Int
    /\ OpenMs \in Int
    /\ HalfOpenMaxProbes \in Int
    /\ CountCap \in Nat \ {0}
    /\ CountCap >= FailureThreshold

CB  == INSTANCE CircuitBreaker WITH Callers <- Actors
IFR == INSTANCE InFlightRegistry

cbVars == <<state, consecutiveFailures, halfOpenProbes, sinceOpened, fetching,
            probes, openFor>>
ifVars == <<inflight, slot, acq>>
vars   == <<pc, req, resp, l1, l2, now, version, redisHung, ifVars, cbVars>>

-----------------------------------------------------------------------------
(* Cache entries.                                                          *)

Age(e) == now - e.storedAt
\* Mutant: an entry is fresh at the very end of its ttl.
IsFreshOneLonger(k) == l1[k] # NoEntry /\ Age(l1[k]) <= l1[k].ttl

IsFresh(k) == l1[k] # NoEntry /\ Age(l1[k]) < l1[k].ttl
IsServeableStale(k) == l1[k] # NoEntry /\ Age(l1[k]) < l1[k].ttl + SWR

\* policy_.decide
Cacheable(r) == r.kind = "content" /\ r.ver \notin Uncacheable

\* entryFrom: a response is stored with a full lifetime from the moment of
\* storing.
EntryFrom(r) == [ver |-> r.ver, fetched |-> r.fetched, storedAt |-> now, ttl |-> TTL]

\* The entry RedisL2Cache::get hands out: dated now, with what is left of its ttl.
L2Live(k) == l2[k] # NoEntry /\ Age(l2[k]) < l2[k].ttl
Promoted(k) == [l2[k] EXCEPT !.storedAt = now, !.ttl = l2[k].ttl - Age(l2[k])]

-----------------------------------------------------------------------------
Init ==
    /\ pc = [a \in Actors |-> "idle"]
    /\ req = [a \in Actors |-> NoKey]
    /\ resp = [a \in Actors |-> NoResponse]
    /\ l1 = [k \in Keys |-> NoEntry]
    /\ l2 = [k \in Keys |-> NoEntry]
    /\ now = 0
    /\ version = 0
    /\ redisHung = FALSE
    /\ IFR!Init
    /\ CB!CBInit

Goto(a, label) == pc' = [pc EXCEPT ![a] = label]
Carry(a, r)    == resp' = [resp EXCEPT ![a] = r]

\* The actor is done with its request, or its thread ends.
Finish(a) ==
    /\ pc' = [pc EXCEPT ![a] = "idle"]
    /\ req' = [req EXCEPT ![a] = NoKey]
    /\ resp' = [resp EXCEPT ![a] = NoResponse]

-----------------------------------------------------------------------------
(* process(): lookup, and the request that is not GET or HEAD.             *)

\* A fresh hit is answered at once; the answer changes nothing.
Hit(w, k) ==
    /\ pc[w] = "idle"
    /\ IsFresh(k)
    /\ UNCHANGED vars

\* A stale hit is answered after triggerRevalidation, a miss goes on to acquire.
Lookup(w, k) ==
    /\ pc[w] = "idle"
    /\ ~IsFresh(k)
    /\ req' = [req EXCEPT ![w] = k]
    /\ Goto(w, IF IsServeableStale(k) THEN "trigger" ELSE "acquire")
    /\ UNCHANGED <<resp, l1, l2, now, version, redisHung, ifVars, cbVars>>

Pass(w) ==
    /\ pc[w] = "idle"
    /\ Goto(w, "admit")
    /\ UNCHANGED <<req, resp, l1, l2, now, version, redisHung, ifVars, cbVars>>

-----------------------------------------------------------------------------
(* triggerRevalidation: the worker leads on behalf of a new thread t.      *)

\* Mutant: every stale hit starts a revalidation, whoever leads the key.
TriggerUnregistered(w, t) ==
    /\ pc[w] = "trigger"
    /\ pc[t] = "idle"
    /\ pc' = [pc EXCEPT ![w] = "idle", ![t] = "admit"]
    /\ req' = [req EXCEPT ![w] = NoKey, ![t] = req[w]]
    /\ UNCHANGED <<resp, l1, l2, now, version, redisHung, ifVars, cbVars>>

Trigger(w, t) ==
    /\ pc[w] = "trigger"
    /\ pc[t] = "idle"
    /\ IFR!Lead(t, req[w])
    /\ pc' = [pc EXCEPT ![w] = "idle", ![t] = "admit"]
    /\ req' = [req EXCEPT ![w] = NoKey, ![t] = req[w]]
    /\ UNCHANGED <<resp, l1, l2, now, version, redisHung, cbVars>>

TriggerNotLeader(w) ==
    /\ pc[w] = "trigger"
    /\ IFR!Decline(req[w])
    /\ Finish(w)
    /\ UNCHANGED <<l1, l2, now, version, redisHung, cbVars>>

-----------------------------------------------------------------------------
(* process(): the miss path of the leader.                                 *)

AcquireLead(w) ==
    /\ pc[w] = "acquire"
    /\ IFR!Lead(w, req[w])
    /\ Goto(w, IF L2Enabled THEN "l2get" ELSE "admit")
    /\ UNCHANGED <<req, resp, l1, l2, now, version, redisHung, cbVars>>

AcquireJoin(w) ==
    /\ pc[w] = "acquire"
    /\ IFR!Join(w, req[w])
    /\ Goto(w, "waiting")
    /\ UNCHANGED <<req, resp, l1, l2, now, version, redisHung, cbVars>>

\* l2_->get finds a live entry.  Its remaining life goes with it into L1.
L2Hit(w) ==
    /\ pc[w] = "l2get" /\ ~redisHung
    /\ L2Live(req[w])
    /\ Carry(w, Promoted(req[w]))
    /\ Goto(w, "promote")
    /\ UNCHANGED <<req, l1, l2, now, version, redisHung, ifVars, cbVars>>

\* No entry, an expired one, or Redis refuses or drops the connection.
L2Miss(w) ==
    /\ pc[w] = "l2get" /\ ~redisHung
    /\ Goto(w, "admit")
    /\ UNCHANGED <<req, resp, l1, l2, now, version, redisHung, ifVars, cbVars>>

\* cache.put of the L2 entry; what is published is its response.
Promote(w) ==
    /\ pc[w] = "promote"
    /\ l1' = [l1 EXCEPT ![req[w]] = resp[w]]
    /\ Carry(w, Content(resp[w].ver, resp[w].fetched))
    /\ Goto(w, "unlink")
    /\ UNCHANGED <<req, l2, now, version, redisHung, ifVars, cbVars>>

-----------------------------------------------------------------------------
(* fetchGuarded, for leaders, revalidations and passed requests alike.     *)

Admit(a) ==
    /\ pc[a] = "admit"
    /\ CB!Admit(a)
    /\ Goto(a, "origin")
    /\ UNCHANGED <<req, resp, l1, l2, now, version, redisHung, ifVars>>

\* Mutant: an early return that does not publish.
FailureUnpublished(a, error) == Finish(a)

\* What follows a failed fetch.  A worker answers 503 or 502: its other
\* alternative, the stale entry of line 218, was ruled out at lookup by the same
\* test on the same entry and time.  A revalidation publishes the HttpResponse it
\* default-constructed.
AfterFailure(a, error) ==
    IF req[a] = NoKey
      THEN Finish(a)
      ELSE /\ Carry(a, Failure(IF a \in Tasks THEN "blank" ELSE error))
           /\ Goto(a, "unlink")
           /\ UNCHANGED req

Rejected(a) ==
    /\ pc[a] = "admit"
    /\ CB!Reject(a)
    /\ AfterFailure(a, "e503")
    /\ UNCHANGED <<l1, l2, now, version, redisHung, ifVars>>

FetchFails(a) ==
    /\ pc[a] = "origin"
    /\ CB!RecordFailure(a)
    /\ AfterFailure(a, "e502")
    /\ UNCHANGED <<l1, l2, now, version, redisHung, ifVars>>

\* Mutant: a passed request's success is not reported.
PassUnreported(a) ==
    /\ pc[a] = "origin"
    /\ IF req[a] = NoKey
         THEN Finish(a) /\ UNCHANGED cbVars
         ELSE /\ CB!RecordSuccess(a)
              /\ Carry(a, Content(version, now))
              /\ Goto(a, "store")
              /\ UNCHANGED req
    /\ UNCHANGED <<l1, l2, now, version, redisHung, ifVars>>

FetchSucceeds(a) ==
    /\ pc[a] = "origin"
    /\ CB!RecordSuccess(a)
    /\ IF req[a] = NoKey
         THEN Finish(a)
         ELSE /\ Carry(a, Content(version, now))
              /\ Goto(a, "store")
              /\ UNCHANGED req
    /\ UNCHANGED <<l1, l2, now, version, redisHung, ifVars>>

\* storeTiers: L1 first, then L2; nothing if the policy says so.
StoreL1(a) ==
    /\ pc[a] = "store"
    /\ l1' = IF Cacheable(resp[a]) THEN [l1 EXCEPT ![req[a]] = EntryFrom(resp[a])] ELSE l1
    /\ Goto(a, IF Cacheable(resp[a]) /\ L2Enabled THEN "l2put" ELSE "unlink")
    /\ UNCHANGED <<req, resp, l2, now, version, redisHung, ifVars, cbVars>>

\* l2_->put: serialize() dates the entry anew.  Redis takes it, or the error closes
\* the connection.
StoreL2(a) ==
    /\ pc[a] = "l2put" /\ ~redisHung
    /\ \/ l2' = [l2 EXCEPT ![req[a]] = EntryFrom(resp[a])]
       \/ l2' = l2
    /\ Goto(a, "unlink")
    /\ UNCHANGED <<req, resp, l1, now, version, redisHung, ifVars, cbVars>>

PublishUnlink(a) ==
    /\ pc[a] = "unlink"
    /\ IFR!Unlink(a)
    /\ Goto(a, "deliver")
    /\ UNCHANGED <<req, resp, l1, l2, now, version, redisHung, cbVars>>

\* success is set exactly where the response came from the origin or from L2.
Success(a) == resp[a].kind = "content"

PublishDeliver(a) ==
    /\ pc[a] = "deliver"
    /\ IFR!Deliver(a, resp[a], Success(a))
    /\ Finish(a)
    /\ UNCHANGED <<l1, l2, now, version, redisHung, cbVars>>

-----------------------------------------------------------------------------
(* process(): the coalesced waiter.                                        *)

\* Mutant: a waiter gives up after a timeout.
WaiterGivesUp(w) ==
    /\ pc[w] = "waiting"
    /\ acq' = [acq EXCEPT ![w] = IFR!NoAcq]
    /\ Finish(w)
    /\ UNCHANGED <<inflight, slot, l1, l2, now, version, redisHung, cbVars>>

WaiterWakes(w) ==
    LET s == slot[acq[w].slot]
    IN  /\ pc[w] = "waiting"
        /\ IFR!Collect(w)
        /\ IF s.success
             THEN Carry(w, s.response) /\ Goto(w, "waiterStore") /\ UNCHANGED req
             ELSE Finish(w)
        /\ UNCHANGED <<l1, l2, now, version, redisHung, cbVars>>

\* Mutant: the waiter stores what it was given without asking the policy.
WaiterStoresAll(w) ==
    /\ pc[w] = "waiterStore"
    /\ l1' = [l1 EXCEPT ![req[w]] = EntryFrom(resp[w])]
    /\ Finish(w)
    /\ UNCHANGED <<l2, now, version, redisHung, ifVars, cbVars>>

\* maybeStore: L1 only.
WaiterStores(w) ==
    /\ pc[w] = "waiterStore"
    /\ l1' = IF Cacheable(resp[w]) THEN [l1 EXCEPT ![req[w]] = EntryFrom(resp[w])] ELSE l1
    /\ Finish(w)
    /\ UNCHANGED <<l2, now, version, redisHung, ifVars, cbVars>>

-----------------------------------------------------------------------------
(* The surroundings.                                                       *)

\* An L1 entry is evicted, swept or purged; an L2 entry is purged or flushed.
Discard(k) ==
    /\ \/ l1[k] # NoEntry /\ l1' = [l1 EXCEPT ![k] = NoEntry] /\ UNCHANGED l2
       \/ l2[k] # NoEntry /\ l2' = [l2 EXCEPT ![k] = NoEntry] /\ UNCHANGED l1
    /\ UNCHANGED <<pc, req, resp, now, version, redisHung, ifVars, cbVars>>

OriginChanges ==
    /\ version < MaxVersion
    /\ version' = version + 1
    /\ UNCHANGED <<pc, req, resp, l1, l2, now, redisHung, ifVars, cbVars>>

RedisHangs ==
    /\ RedisMayHang /\ ~redisHung
    /\ redisHung' = TRUE
    /\ UNCHANGED <<pc, req, resp, l1, l2, now, version, ifVars, cbVars>>

\* An actor that waits for something outside its thread.
Blocked(a) ==
    \/ pc[a] \in {"idle", "origin"}
    \/ pc[a] = "waiting" /\ ~slot[acq[a].slot].ready

Tick ==
    /\ now < MaxTime
    /\ PromptThreads => \A a \in Actors : Blocked(a)
    /\ now' = now + 1
    /\ CB!Tick
    /\ UNCHANGED <<pc, req, resp, l1, l2, version, redisHung, ifVars>>

-----------------------------------------------------------------------------
Fetch(a) ==
    \/ Admit(a) \/ Rejected(a) \/ FetchFails(a) \/ FetchSucceeds(a)
    \/ StoreL1(a) \/ StoreL2(a) \/ PublishUnlink(a) \/ PublishDeliver(a)

Revalidate(w) == TriggerNotLeader(w) \/ \E t \in Tasks : Trigger(w, t)

\* A worker that has a request goes on with it.
Work(w) ==
    \/ Revalidate(w) \/ AcquireLead(w) \/ AcquireJoin(w)
    \/ L2Hit(w) \/ L2Miss(w) \/ Promote(w)
    \/ Fetch(w) \/ WaiterWakes(w) \/ WaiterStores(w)

Next ==
    \/ \E w \in Workers, k \in Keys : Hit(w, k) \/ Lookup(w, k)
    \/ \E w \in Workers : Pass(w) \/ Work(w)
    \/ \E t \in Tasks : Fetch(t)
    \/ \E k \in Keys : Discard(k)
    \/ OriginChanges \/ RedisHangs \/ Tick

Spec == Init /\ [][Next]_vars

\* A runnable thread runs, the origin answers or the fetch times out, Redis
\* answers or the connection breaks (unless it hangs).  Nothing makes requests
\* arrive, entries expire or the clock advance.  Triggering a revalidation never
\* blocks in the code; in the model it may have to wait until one of the bounded
\* Tasks is idle, hence the strong fairness of that step.
Fairness ==
    /\ \A w \in Workers : WF_vars(Work(w)) /\ SF_vars(Revalidate(w))
    /\ \A t \in Tasks : WF_vars(Fetch(t))

FairSpec == Spec /\ Fairness

-----------------------------------------------------------------------------
TypeOK ==
    /\ pc \in [Actors -> {"idle", "trigger", "acquire", "l2get", "promote", "admit",
                          "origin", "store", "l2put", "unlink", "deliver", "waiting",
                          "waiterStore"}]
    /\ req \in [Actors -> Keys \cup {NoKey}]
    /\ resp \in [Actors -> Responses \cup Entries \cup {NoResponse}]
    /\ l1 \in [Keys -> Entries \cup {NoEntry}]
    /\ l2 \in [Keys -> Entries \cup {NoEntry}]
    /\ now \in Times
    /\ version \in Versions
    /\ redisHung \in BOOLEAN
    /\ IFR!TypeOK
    /\ CB!CBTypeOK

\* However lookups, background revalidations and publications interleave, a
\* replica has at most one origin fetch under way for a key (fetchGuarded is
\* called for a key only between acquire and publish).
OneFetchPerKey ==
    \A a, b \in Actors :
        pc[a] = "origin" /\ pc[b] = "origin" /\ req[a] = req[b] /\ req[a] # NoKey => a = b

\* What reaches a cache tier came from the origin and may be stored: not an error
\* page, not the placeholder a failed revalidation publishes, not content the
\* policy refuses, whether a leader, a revalidation, an L2 hit or a waiter stores it.
OnlyCacheableStored ==
    \A k \in Keys :
        /\ l1[k] # NoEntry => l1[k].ver \notin Uncacheable
        /\ l2[k] # NoEntry => l2[k].ver \notin Uncacheable

\* fetchGuarded reports every fetch the breaker admitted exactly once, on every
\* path: the breaker's view of what is out is what is out.
BreakerSeesEveryFetch == fetching = {a \in Actors : pc[a] = "origin"}

\* The handler uses the registry as InFlightRegistry requires (a leader publishes
\* once, with the key it acquired, and a waiter only collects), so what is proved
\* of the registry holds of the proxy.
UsesRegistry == IFR!Spec

\* How old fresh content can be, counted from when the origin sent it, if no thread
\* is delayed: younger than its ttl; with L2, where a waiter stores the answer its
\* leader has from L2 with a ttl of its own, less than two of them.  No chain of
\* promotions and stores adds up to more.
FreshContentAge ==
    PromptThreads =>
      \A k \in Keys : IsFresh(k) =>
        now - l1[k].fetched < IF L2Enabled THEN 2 * TTL - 1 ELSE TTL

\* Every request is answered and every background revalidation ends, and each gives
\* its key back so that it can be fetched again: leaders, waiters on a worker or on a
\* background thread, passed requests.  If Redis holds a connection without answering,
\* only those threads stop that talk to it or wait for a leader that does.  (A new
\* background thread never has to wait for another in the code; here they are
\* bounded.)
OnRedis(a) == redisHung /\ pc[a] \in {"l2get", "l2put"}
HeldByRedis(a) ==
    \/ OnRedis(a)
    \/ pc[a] = "waiting" /\ \E b \in Actors : OnRedis(b) /\ acq[b].slot = acq[a].slot
    \/ pc[a] = "trigger" /\ \A t \in Tasks : OnRedis(t)
Done(a) == pc[a] = "idle" /\ acq[a] = IFR!NoAcq
RequestsEnd == \A a \in Actors : pc[a] # "idle" ~> Done(a) \/ HeldByRedis(a)

-----------------------------------------------------------------------------
(* What the repository's documents say and the code does not do.           *)

\* docs/FAILURE_MODES.md: a request that needs the origin while it is down gets
\* 502 or 503, never an empty 200.
NoBlankAnswer ==
    \A w \in Workers :
        pc[w] = "waiting" /\ slot[acq[w].slot].ready
          => slot[acq[w].slot].response # Failure("blank")
=============================================================================
