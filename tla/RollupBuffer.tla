----------------------------- MODULE RollupBuffer -----------------------------
(***************************************************************************)
(* The analytics consumer (analytics-consumer/src/rollup.ts and index.ts). *)
(* Access events are folded into in-memory buckets, one per path and hour; *)
(* a timer flushes the buckets to Postgres, in one transaction that adds   *)
(* to the rows.  setInterval does not wait for a flush that is still       *)
(* running, so flushes overlap: with events that arrive, with each other,  *)
(* and with the last flush of a shutdown.  They share a pool of clients,   *)
(* which a shutdown ends.  Every SIGINT or SIGTERM starts a shutdown.      *)
(*                                                                         *)
(* A bucket is the set of events folded into it; an event is a number, and *)
(* KeyOf says which bucket it belongs to.                                  *)
(***************************************************************************)
EXTENDS Integers, FiniteSets

CONSTANTS
    Events,       \* events, 1 to n in the order of consumption
    Keys,         \* "path hour"
    KeyOf,        \* the key of an event
    Ticks,        \* the timer's calls of flush() that may be under way at once
    Signals,      \* the signals the process may get, each with its call of shutdown()
    PoolSize,     \* the pool's max
    MaxFailures   \* bound on failing connects, statements and lost answers

ASSUME RollupAssumption ==
    /\ Events \subseteq Nat \ {0}
    /\ KeyOf \in [Events -> Keys]
    /\ Ticks \cap Signals = {}
    /\ PoolSize \in Nat \ {0}
    /\ MaxFailures \in Nat

\* The calls of flush(): the timer's, and the one of each shutdown().
Calls == Ticks \cup Signals

VARIABLES
    exited,    \* whether the process has exited
    shutdown,  \* how far the shutdown() of each signal has come
    ended,     \* whether pool.end() has been called
    consumed,  \* events handed to add()
    buckets,   \* this.buckets, as the events in them
    flush,     \* the flush() calls
    db,        \* how often access_stats_rollup counts each event
    failures,  \* how many failures there have been
    victims,   \* history: the flushes Postgres has aborted to resolve a deadlock
    lost,      \* history: events that were dropped
    stranded,  \* history: events of flushes queued for a client when the pool was ended
    doubtful   \* history: events of a COMMIT whose answer was lost

proc == <<exited, shutdown, ended>>
history == <<victims, lost, stranded, doubtful>>
vars == <<proc, consumed, buckets, flush, db, failures, history>>

Idle == [phase |-> "idle", snapshot |-> {}, done |-> {}]
KeysIn(E) == {KeyOf[e] : e \in E}

Init ==
    /\ exited = FALSE
    /\ shutdown = [s \in Signals |-> "none"]
    /\ ended = FALSE
    /\ consumed = {}
    /\ buckets = {}
    /\ flush = [f \in Calls |-> Idle]
    /\ db = [e \in Events |-> 0]
    /\ failures = 0
    /\ victims = {}
    /\ lost = {}
    /\ stranded = {}
    /\ doubtful = {}

-----------------------------------------------------------------------------
\* eachMessage: until a shutdown has disconnected the consumer.
Add(e) ==
    /\ ~exited
    /\ \A s \in Signals : shutdown[s] \in {"none", "disconnecting"}
    /\ e \notin consumed /\ \A d \in Events : d < e => d \in consumed
    /\ consumed' = consumed \cup {e}
    /\ buckets' = buckets \cup {e}
    /\ UNCHANGED <<proc, flush, db, failures, history>>

\* A call has one of the pool's clients from when it is given one, or one is made
\* for it, until it ends.
ClientsOut == {f \in Calls : flush[f].phase \in {"connect", "txn"}}

Queued == {f \in Calls : flush[f].phase = "queued"}

\* The call holds the buckets.  It gets a client or is queued for one.
Started(f) ==
    [flush EXCEPT ![f] = [phase |-> IF Cardinality(ClientsOut) < PoolSize THEN "connect"
                                                                          ELSE "queued",
                          snapshot |-> buckets, done |-> {}]]

\* Mutant: the buckets are flushed and kept.
BeginKeepsBuckets(f) ==
    /\ flush[f] = Idle
    /\ buckets # {}
    /\ flush' = Started(f)
    /\ UNCHANGED buckets

\* flush() up to its first await.
Begin(f) ==
    /\ flush[f] = Idle
    /\ buckets # {}
    /\ flush' = Started(f)
    /\ buckets' = {}

TimerRuns == ~exited /\ \A s \in Signals : shutdown[s] = "none"

\* The timer's calls differ in nothing, so that any that is not under way will do.
Tick == CHOOSE f \in Ticks : flush[f] = Idle

\* Mutant: a small buffer is left for the next tick.
TimerBatches ==
    /\ TimerRuns
    /\ \E f \in Ticks : flush[f] = Idle
    /\ \E d, e \in buckets : d # e
    /\ Begin(Tick)
    /\ UNCHANGED <<proc, consumed, db, failures, history>>

TimerFlush ==
    /\ TimerRuns
    /\ \E f \in Ticks : flush[f] = Idle
    /\ Begin(Tick)
    /\ UNCHANGED <<proc, consumed, db, failures, history>>

Connected(f) ==
    /\ flush[f].phase = "connect"
    /\ flush' = [flush EXCEPT ![f].phase = "txn"]
    /\ UNCHANGED <<proc, consumed, buckets, db, failures, history>>

\* flush once f is over and its client is back in the pool, which passes it on to a
\* queued call unless the pool has been ended.
Freed(f) ==
    LET over == [flush EXCEPT ![f] = Idle]
    IN  IF ended \/ Queued = {} THEN {over}
        ELSE {[over EXCEPT ![g].phase = "connect"] : g \in Queued}

Fail ==
    /\ failures < MaxFailures
    /\ failures' = failures + 1

\* pool.connect() rejects.  It is outside the try: flush() rejects and the snapshot
\* is garbage.
ConnectFails(f) ==
    /\ flush[f].phase = "connect"
    /\ Fail
    /\ lost' = lost \cup flush[f].snapshot
    /\ flush' \in Freed(f)
    /\ UNCHANGED <<proc, consumed, buckets, db, victims, stranded, doubtful>>

-----------------------------------------------------------------------------
(* The transaction.  An upsert locks its row until the transaction ends.   *)

Left(f) == KeysIn(flush[f].snapshot) \ flush[f].done
LockedBy(g, k) == flush[g].phase = "txn" /\ k \in flush[g].done

Upsert(f, k) ==
    /\ flush[f].phase = "txn"
    /\ k \in Left(f)
    /\ \A g \in Calls \ {f} : ~LockedBy(g, k)
    /\ flush' = [flush EXCEPT ![f].done = @ \cup {k}]
    /\ UNCHANGED <<proc, consumed, buckets, db, failures, history>>

Counted(E) == db' = [e \in Events |-> IF e \in E THEN db[e] + 1 ELSE db[e]]

Commit(f) ==
    /\ flush[f].phase = "txn"
    /\ Left(f) = {}
    /\ Counted(flush[f].snapshot)
    /\ flush' \in Freed(f)
    /\ UNCHANGED <<proc, consumed, buckets, failures, history>>

\* Mutant: the snapshot's bucket replaces the one that has formed meanwhile.
RemergeReplaces(f) ==
    /\ buckets' = {e \in buckets : KeyOf[e] \notin KeysIn(flush[f].snapshot)}
                    \cup flush[f].snapshot
    /\ flush' \in Freed(f)

\* The catch block, after ROLLBACK: each bucket of the snapshot is added to the
\* bucket of its key, or becomes it.
Remerge(f) ==
    /\ buckets' = buckets \cup flush[f].snapshot
    /\ flush' \in Freed(f)

\* BEGIN, an upsert or COMMIT fails and the transaction has no effect.
StatementFails(f) ==
    /\ flush[f].phase = "txn"
    /\ Fail
    /\ Remerge(f)
    /\ UNCHANGED <<proc, consumed, db, history>>

\* COMMIT takes effect but the connection breaks before its answer.
CommitAnswerLost(f) ==
    /\ flush[f].phase = "txn"
    /\ Left(f) = {}
    /\ Fail
    /\ Counted(flush[f].snapshot)
    /\ doubtful' = doubtful \cup flush[f].snapshot
    /\ Remerge(f)
    /\ UNCHANGED <<proc, consumed, victims, lost, stranded>>

\* Each call of D waits for a row of another.
Waiting(D) == D # {} /\ \A f \in D : \E g \in D : \E k \in Left(f) : LockedBy(g, k)

\* Calls wait for each other in a circle; Postgres makes one of them fail.
DeadlockAborts(f) ==
    /\ flush[f].phase = "txn"
    /\ \E D \in SUBSET ClientsOut : /\ f \in D /\ Waiting(D)
                                   /\ \A E \in SUBSET D : Waiting(E) => E = D
    /\ Remerge(f)
    /\ victims' = victims \cup {f}
    /\ UNCHANGED <<proc, consumed, db, failures, lost, stranded, doubtful>>

-----------------------------------------------------------------------------
(* shutdown(), once for every signal: clearInterval, disconnect, one more  *)
(* flush whose result is ignored, pool.end(), exit.                        *)

Advance(s, phase) == shutdown' = [shutdown EXCEPT ![s] = phase]

Signal(s) ==
    /\ ~exited
    /\ shutdown[s] = "none"
    /\ Advance(s, "disconnecting")
    /\ UNCHANGED <<exited, ended, consumed, buckets, flush, db, failures, history>>

\* Of a pool that has been ended, connect() rejects at once and the snapshot is
\* garbage.
LastFlush(s) ==
    /\ ~exited
    /\ shutdown[s] = "disconnecting"
    /\ Advance(s, "flushing")
    /\ \/ buckets = {} /\ UNCHANGED <<buckets, flush, lost>>
       \/ ~ended /\ Begin(s) /\ UNCHANGED lost
       \/ ended /\ lost' = lost \cup buckets /\ buckets' = {} /\ UNCHANGED flush
    /\ UNCHANGED <<exited, ended, consumed, db, failures, victims, stranded, doubtful>>

Flushed(s) == shutdown[s] = "flushing" /\ flush[s] = Idle

Snapshots(C) == UNION {flush[f].snapshot : f \in C}

\* pool.end(), the first time: it will wait for the clients that are out, and nobody
\* gets another one.
EndPool(s) ==
    /\ ~exited
    /\ Flushed(s)
    /\ ~ended
    /\ ended' = TRUE
    /\ Advance(s, "ending")
    /\ stranded' = Snapshots(Queued)
    /\ UNCHANGED <<exited, consumed, buckets, flush, db, failures, victims, lost, doubtful>>

\* process.exit(0), when pool.end() has resolved, or has rejected because it had been
\* called before.  What is in memory is gone; a COMMIT on its way may still take effect.
Exit(s) ==
    /\ ~exited
    /\ \/ shutdown[s] = "ending" /\ ClientsOut = {}
       \/ Flushed(s) /\ ended
    /\ exited' = TRUE
    /\ \E C \in SUBSET {f \in Calls : flush[f].phase = "txn" /\ Left(f) = {}} :
         /\ Counted(Snapshots(C))
         /\ lost' = lost \cup buckets \cup Snapshots(Calls \ C)
    /\ buckets' = {}
    /\ flush' = [f \in Calls |-> Idle]
    /\ UNCHANGED <<shutdown, ended, consumed, failures, victims, stranded, doubtful>>

Next ==
    \/ \E e \in Events : Add(e)
    \/ TimerFlush
    \/ \E f \in Calls :
         \/ Connected(f) \/ Commit(f) \/ \E k \in Keys : Upsert(f, k)
         \/ ConnectFails(f) \/ StatementFails(f) \/ CommitAnswerLost(f) \/ DeadlockAborts(f)
    \/ \E s \in Signals : Signal(s) \/ LastFlush(s) \/ EndPool(s) \/ Exit(s)

Spec == Init /\ [][Next]_vars

\* The timer fires, Postgres answers, gives a row that becomes free to a call that waits
\* for it and resolves deadlocks, and a shutdown goes on.  Of the calls it is enough that
\* one goes on.  (The code starts a flush whatever others are under way; here they are
\* bounded, hence the strong fairness of the timer.)
Fairness ==
    /\ SF_vars(TimerFlush)
    /\ WF_vars(\E f \in Calls : Connected(f))
    /\ WF_vars(\E f \in Calls, k \in Keys : Upsert(f, k))
    /\ SF_vars(\E f \in Calls, k \in Keys : Left(f) = {k} /\ Upsert(f, k))
    /\ WF_vars(\E f \in Calls : Commit(f))
    /\ WF_vars(\E f \in Calls : DeadlockAborts(f))
    /\ WF_vars(\E s \in Signals : LastFlush(s) \/ EndPool(s) \/ Exit(s))

FairSpec == Spec /\ Fairness

-----------------------------------------------------------------------------
TypeOK ==
    /\ exited \in BOOLEAN
    /\ shutdown \in [Signals -> {"none", "disconnecting", "flushing", "ending"}]
    /\ ended \in BOOLEAN
    /\ consumed \subseteq Events
    /\ buckets \subseteq Events
    /\ flush \in [Calls -> {Idle} \cup
                    [phase : {"queued", "connect", "txn"}, snapshot : (SUBSET Events) \ {{}},
                     done : SUBSET Keys]]
    /\ db \in [Events -> Nat]
    /\ failures \in 0..MaxFailures
    /\ victims \subseteq Calls
    /\ lost \subseteq Events
    /\ stranded \subseteq Events
    /\ doubtful \subseteq Events

\* However flushes overlap, fail and give their snapshot back, an event is in at
\* most one place: a bucket, the snapshot of one flush, or counted in Postgres, and
\* there once.  The one exception is a COMMIT whose answer was lost.
CountedOnce ==
    \A e \in Events :
        /\ \A f \in Calls : e \in flush[f].snapshot =>
             /\ e \notin buckets
             /\ \A g \in Calls \ {f} : e \notin flush[g].snapshot
        /\ e \notin doubtful =>
             /\ db[e] <= 1
             /\ db[e] = 1 => e \notin buckets /\ \A f \in Calls : e \notin flush[f].snapshot

Kept(e) == db[e] >= 1 \/ e \in buckets \/ \E f \in Calls : e \in flush[f].snapshot

SignalledTwice == \E s, u \in Signals : s # u /\ shutdown[s] # "none" /\ shutdown[u] # "none"

\* An event is not lost by a statement that fails, by events that arrive meanwhile or
\* by overlapping flushes.  If one is missing, a connect or the last flush has failed,
\* a second signal has cut the first one's shutdown short, or the event was in a flush
\* still queued for a client when the pool was ended.
NoneMissing ==
    /\ \A e \in consumed \ lost : Kept(e)
    /\ failures = 0 /\ victims = {} /\ ~SignalledTwice => lost \subseteq stranded

\* If failures stop, every event is written, or was lost before: again and again there
\* is nothing consumed that is neither, and both are for good.
EventuallyWritten == []<>(\A e \in consumed : db[e] >= 1 \/ e \in lost)
=============================================================================
