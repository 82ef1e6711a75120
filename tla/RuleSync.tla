------------------------------- MODULE RuleSync -------------------------------
(***************************************************************************)
(* How a cache rule travels from the control plane to the proxies.         *)
(* control-plane/src/routes/rules.ts writes Postgres first, then the Redis *)
(* hash, then publishes; each proxy's subscriber thread turns a message    *)
(* into reloadRequested_, and its poller thread (RedisCoordinator::        *)
(* pollerLoop) reads the whole hash when that flag is set or a poll is     *)
(* due, and replaces its RuleStore.  Express interleaves request handlers  *)
(* at every await; Redis may restart, empty; the control plane may crash   *)
(* and rebuilds the hash when it starts.                                   *)
(***************************************************************************)
EXTENDS Integers, FiniteSets

CONSTANTS
    Replicas,
    Handlers,     \* rule requests the control plane works on at once
    Patterns,     \* path patterns
    Ttls,         \* what a rule says
    MaxWrites,    \* bound on rule requests
    MaxRestarts,  \* bound on Redis restarts and, apart, on control plane crashes
    None

ASSUME RuleAssumption ==
    /\ MaxWrites \in Nat
    /\ MaxRestarts \in Nat
    /\ None \notin Ttls
    /\ None \notin Patterns

VARIABLES
    db,         \* Postgres: the row of each id, in the order of creation
    hash,       \* Redis: the rules hash
    handler,    \* where each request handler is
    writes,     \* how many rule requests there have been
    restarts,   \* how many Redis restarts and control plane crashes
    cp,         \* the control plane's startup: what is left to reconcile
    sub,        \* whether a replica's subscriber is subscribed
    queue,      \* rule-update messages on their way to it
    reloadRequested,  \* reloadRequested_
    due,        \* now - lastPoll >= rulePollIntervalSeconds
    poll,       \* where the poller is
    snapshot,   \* the HGETALL reply it holds
    rules,      \* RuleStore
    persisted,  \* history: every rule Postgres has ever held
    signalLost, \* history: a message to the replica was lost since its last read
    diverged    \* history: a write that can leave hash and db apart

vars == <<db, hash, handler, writes, restarts, cp, sub, queue, reloadRequested, due,
          poll, snapshot, rules, persisted, signalLost, diverged>>
proxyVars == <<reloadRequested, due, poll, snapshot, rules>>
busVars == <<sub, queue, signalLost>>

NoRow    == [pattern |-> None, ttl |-> None]
Ids      == 1..MaxWrites
IdleH    == [phase |-> "idle", op |-> "none", pattern |-> None, ttl |-> None]
NoRules  == [p \in Patterns |-> None]
Running  == [phase |-> "running", left |-> {}]

RowsOf(p) == {i \in Ids : db[i].pattern = p}

\* The hash that agrees with the table: of several rows of a pattern the oldest is
\* the one reconcileAll sets last.
Image == [p \in Patterns |->
            IF RowsOf(p) = {} THEN None
            ELSE db[CHOOSE i \in RowsOf(p) : \A j \in RowsOf(p) : i <= j].ttl]

Init ==
    /\ db = [i \in Ids |-> NoRow]
    /\ hash = NoRules
    /\ handler = [h \in Handlers |-> IdleH]
    /\ writes = 0
    /\ restarts = [redis |-> 0, cp |-> 0]
    /\ cp = Running
    /\ sub = [r \in Replicas |-> FALSE]
    /\ queue = [r \in Replicas |-> 0]
    /\ reloadRequested = [r \in Replicas |-> TRUE]
    /\ due = [r \in Replicas |-> TRUE]
    /\ poll = [r \in Replicas |-> "closed"]
    /\ snapshot = [r \in Replicas |-> NoRules]
    /\ rules = [r \in Replicas |-> NoRules]
    /\ persisted = {}
    /\ signalLost = [r \in Replicas |-> FALSE]
    /\ diverged = FALSE

-----------------------------------------------------------------------------
(* Rule requests: the Postgres statement, then the best-effort mirror.     *)

\* History: two requests for one pattern at a time, a second row of a pattern, or
\* a changed pattern, may leave the hash and the table apart.
Risky(i, p) ==
    \/ \E g \in Handlers : handler[g].pattern \in {p, db[i].pattern} \ {None}
    \/ RowsOf(p) \ {i} # {}
    \/ db[i] # NoRow /\ db[i].pattern # p

Commit(h, i, row, step) ==
    /\ cp = Running
    /\ handler[h] = IdleH
    /\ writes < MaxWrites
    /\ writes' = writes + 1
    /\ db' = [db EXCEPT ![i] = row]
    /\ handler' = [handler EXCEPT ![h] = step]
    /\ UNCHANGED <<hash, restarts, cp, busVars, proxyVars>>

\* Mutant: Redis is written before Postgres, whose statement then fails.
UpsertRedisFirst(h, i, p, t) ==
    /\ Commit(h, i, db[i], [phase |-> "mirror", op |-> "set", pattern |-> p, ttl |-> t])
    /\ diverged' = TRUE
    /\ UNCHANGED persisted

Upsert(h, i, p, t) ==
    /\ Commit(h, i, [pattern |-> p, ttl |-> t],
              [phase |-> "mirror", op |-> "set", pattern |-> p, ttl |-> t])
    /\ persisted' = persisted \cup {<<p, t>>}
    /\ diverged' = (diverged \/ Risky(i, p))

\* POST /rules; nothing keeps a pattern from being used twice.
Post(h, i, p, t) ==
    /\ db[i] = NoRow /\ i = writes + 1
    /\ Upsert(h, i, p, t)

\* PUT /rules/:id; a field that is not given keeps its value.
Put(h, i, p, t) ==
    /\ db[i] # NoRow
    /\ Upsert(h, i, p, t)

\* DELETE /rules/:id
Delete(h, i) ==
    /\ db[i] # NoRow
    /\ Commit(h, i, NoRow, [phase |-> "mirror", op |-> "del",
                            pattern |-> db[i].pattern, ttl |-> None])
    /\ diverged' = (diverged \/ Risky(i, db[i].pattern))
    /\ UNCHANGED persisted

Mirrored(h) == [hash EXCEPT ![handler[h].pattern] = handler[h].ttl]

\* upsertRule or removeRule: hset or hdel, ...
Mirror(h) ==
    /\ handler[h].phase = "mirror"
    /\ hash' = Mirrored(h)
    /\ handler' = [handler EXCEPT ![h].phase = "publish"]
    /\ UNCHANGED <<db, writes, restarts, cp, busVars, proxyVars, persisted, diverged>>

\* ... which may fail, carried out or not: the error is logged and the request
\* answered, and nothing is published.
MirrorFails(h) ==
    /\ handler[h].phase = "mirror"
    /\ hash' \in {hash, Mirrored(h)}
    /\ handler' = [handler EXCEPT ![h] = IdleH]
    /\ diverged' = TRUE
    /\ signalLost' = [r \in Replicas |-> TRUE]
    /\ UNCHANGED <<db, writes, restarts, cp, sub, queue, proxyVars, persisted>>

\* A message reaches the replicas subscribed now.
Broadcast ==
    /\ queue' = [r \in Replicas |-> IF sub[r] THEN queue[r] + 1 ELSE queue[r]]
    /\ signalLost' = [r \in Replicas |-> signalLost[r] \/ ~sub[r]]
    /\ UNCHANGED sub

\* ... then publish.
Publish(h) ==
    /\ handler[h].phase = "publish"
    /\ Broadcast
    /\ handler' = [handler EXCEPT ![h] = IdleH]
    /\ UNCHANGED <<db, hash, writes, restarts, cp, proxyVars, persisted, diverged>>

PublishFails(h) ==
    /\ handler[h].phase = "publish"
    /\ signalLost' = [r \in Replicas |-> TRUE]
    /\ handler' = [handler EXCEPT ![h] = IdleH]
    /\ UNCHANGED <<db, hash, writes, restarts, cp, sub, queue, proxyVars, persisted, diverged>>

-----------------------------------------------------------------------------
(* The control plane crashes; when it starts, before it listens, it builds  *)
(* the hash anew: one DEL, one HSET per rule, each visible to the proxies, *)
(* and a message.                                                          *)

Crash ==
    /\ cp = Running
    /\ restarts.cp < MaxRestarts
    /\ restarts' = [restarts EXCEPT !.cp = @ + 1]
    /\ handler' = [h \in Handlers |-> IdleH]
    /\ cp' = [phase |-> "del", left |-> {}]
    /\ diverged' = TRUE
    /\ UNCHANGED <<db, hash, writes, busVars, proxyVars, persisted>>

\* Mutant: the old hash is not deleted first.
ReconcileKeepsOld ==
    /\ cp.phase = "del"
    /\ cp' = [phase |-> "set", left |-> {i \in Ids : db[i] # NoRow}]
    /\ diverged' = FALSE
    /\ UNCHANGED <<db, hash, handler, writes, restarts, busVars, proxyVars, persisted>>

ReconcileDel ==
    /\ cp.phase = "del"
    /\ hash' = NoRules
    /\ cp' = [phase |-> "set", left |-> {i \in Ids : db[i] # NoRow}]
    /\ diverged' = FALSE
    /\ UNCHANGED <<db, handler, writes, restarts, busVars, proxyVars, persisted>>

\* The rows come newest first.
ReconcileSet(i) ==
    /\ cp.phase = "set" /\ i \in cp.left
    /\ \A j \in cp.left : j <= i
    /\ hash' = [hash EXCEPT ![db[i].pattern] = db[i].ttl]
    /\ cp' = [cp EXCEPT !.left = @ \ {i}]
    /\ UNCHANGED <<db, handler, writes, restarts, busVars, proxyVars, persisted, diverged>>

\* pipeline.exec() resolves although commands of the pipeline have failed.
ReconcileCut ==
    /\ cp.phase \in {"del", "set"}
    /\ cp' = [phase |-> "set", left |-> {}]
    /\ diverged' = TRUE
    /\ UNCHANGED <<db, hash, handler, writes, restarts, busVars, proxyVars, persisted>>

ReconcilePublish ==
    /\ cp.phase = "set" /\ cp.left = {}
    /\ Broadcast
    /\ cp' = Running
    /\ UNCHANGED <<db, hash, handler, writes, restarts, proxyVars, persisted, diverged>>

\* The rules cannot be listed or the message not sent: "rule reconcile failed
\* (continuing)".
ReconcileFails ==
    /\ cp.phase \in {"del", "set"} /\ cp.left = {}
    /\ cp' = Running
    /\ diverged' = TRUE
    /\ signalLost' = [r \in Replicas |-> TRUE]
    /\ UNCHANGED <<db, hash, handler, writes, restarts, sub, queue, proxyVars, persisted>>

\* Redis runs without persistence.
RedisRestarts ==
    /\ restarts.redis < MaxRestarts
    /\ restarts' = [restarts EXCEPT !.redis = @ + 1]
    /\ hash' = NoRules
    /\ sub' = [r \in Replicas |-> FALSE]
    /\ queue' = [r \in Replicas |-> 0]
    /\ signalLost' = [r \in Replicas |-> TRUE]
    /\ diverged' = TRUE
    /\ UNCHANGED <<db, handler, writes, cp, proxyVars, persisted>>

-----------------------------------------------------------------------------
(* subscriberLoop.                                                         *)

Subscribe(r) ==
    /\ ~sub[r]
    /\ sub' = [sub EXCEPT ![r] = TRUE]
    /\ UNCHANGED <<db, hash, handler, writes, restarts, cp, queue, signalLost, proxyVars,
                   persisted, diverged>>

Unsubscribed(r) ==
    /\ sub[r]
    /\ sub' = [sub EXCEPT ![r] = FALSE]
    /\ queue' = [queue EXCEPT ![r] = 0]
    /\ signalLost' = [signalLost EXCEPT ![r] = @ \/ queue[r] > 0]
    /\ UNCHANGED <<db, hash, handler, writes, restarts, cp, proxyVars, persisted, diverged>>

RuleMessage(r) ==
    /\ queue[r] > 0
    /\ queue' = [queue EXCEPT ![r] = @ - 1]
    /\ reloadRequested' = [reloadRequested EXCEPT ![r] = TRUE]
    /\ UNCHANGED <<db, hash, handler, writes, restarts, cp, sub, signalLost, due, poll,
                   snapshot, rules, persisted, diverged>>

-----------------------------------------------------------------------------
(* pollerLoop.  A PING that succeeds only sets connected_, which is a metric.*)

ElseUnchanged == UNCHANGED <<db, hash, handler, writes, restarts, cp, sub, queue, persisted, diverged>>

Connect(r) ==
    /\ poll[r] = "closed"
    /\ poll' = [poll EXCEPT ![r] = "open"]
    /\ UNCHANGED <<reloadRequested, due, snapshot, rules, signalLost>>
    /\ ElseUnchanged

\* A connect, PING or HGETALL fails.  A reload that was requested is forgotten, but
\* lastPoll stays as it was.
PollerError(r) ==
    /\ poll[r] \in {"closed", "open", "reading"}
    /\ poll' = [poll EXCEPT ![r] = "closed"]
    /\ signalLost' = [signalLost EXCEPT ![r] = @ \/ poll[r] = "reading"]
    /\ UNCHANGED <<reloadRequested, due, snapshot, rules>>
    /\ ElseUnchanged

\* Mutant: there is no periodic poll.
PollOnlyWhenTold(r) ==
    /\ poll[r] = "open"
    /\ reloadRequested[r]
    /\ reloadRequested' = [reloadRequested EXCEPT ![r] = FALSE]
    /\ poll' = [poll EXCEPT ![r] = "reading"]
    /\ UNCHANGED <<due, snapshot, rules, signalLost>>
    /\ ElseUnchanged

\* reloadRequested_.exchange(false) || due
PollBegin(r) ==
    /\ poll[r] = "open"
    /\ reloadRequested[r] \/ due[r]
    /\ reloadRequested' = [reloadRequested EXCEPT ![r] = FALSE]
    /\ poll' = [poll EXCEPT ![r] = "reading"]
    /\ UNCHANGED <<due, snapshot, rules, signalLost>>
    /\ ElseUnchanged

\* Redis answers HGETALL.
PollRead(r) ==
    /\ poll[r] = "reading"
    /\ snapshot' = [snapshot EXCEPT ![r] = hash]
    /\ poll' = [poll EXCEPT ![r] = "apply"]
    /\ signalLost' = [signalLost EXCEPT ![r] = FALSE]
    /\ UNCHANGED <<reloadRequested, due, rules>>
    /\ ElseUnchanged

\* Mutant: the request is marked as served when the rules have been replaced.
FlagClearedLate(r) ==
    /\ poll[r] = "apply"
    /\ rules' = [rules EXCEPT ![r] = snapshot[r]]
    /\ snapshot' = [snapshot EXCEPT ![r] = NoRules]
    /\ due' = [due EXCEPT ![r] = FALSE]
    /\ reloadRequested' = [reloadRequested EXCEPT ![r] = FALSE]
    /\ poll' = [poll EXCEPT ![r] = "open"]
    /\ UNCHANGED signalLost
    /\ ElseUnchanged

\* replaceAll
PollApply(r) ==
    /\ poll[r] = "apply"
    /\ rules' = [rules EXCEPT ![r] = snapshot[r]]
    /\ snapshot' = [snapshot EXCEPT ![r] = NoRules]
    /\ due' = [due EXCEPT ![r] = FALSE]
    /\ poll' = [poll EXCEPT ![r] = "open"]
    /\ UNCHANGED <<reloadRequested, signalLost>>
    /\ ElseUnchanged

\* rulePollIntervalSeconds pass.
PollIsDue(r) ==
    /\ ~due[r]
    /\ due' = [due EXCEPT ![r] = TRUE]
    /\ UNCHANGED <<reloadRequested, poll, snapshot, rules, signalLost>>
    /\ ElseUnchanged

Reload(r) == PollBegin(r) \/ PollRead(r) \/ PollApply(r)

Next ==
    \/ \E h \in Handlers, i \in Ids :
         Delete(h, i) \/ \E p \in Patterns, t \in Ttls : Post(h, i, p, t) \/ Put(h, i, p, t)
    \/ \E h \in Handlers : Mirror(h) \/ MirrorFails(h) \/ Publish(h) \/ PublishFails(h)
    \/ Crash \/ ReconcileDel \/ ReconcileCut \/ ReconcilePublish \/ ReconcileFails
    \/ \E i \in Ids : ReconcileSet(i)
    \/ RedisRestarts
    \/ \E r \in Replicas :
         \/ Subscribe(r) \/ Unsubscribed(r) \/ RuleMessage(r)
         \/ Connect(r) \/ PollerError(r) \/ Reload(r) \/ PollIsDue(r)

Spec == Init /\ [][Next]_vars

\* Threads run and time passes.  Redis answers a poller again and again, if with
\* interruptions; nothing is assumed of the subscriber.
Fairness ==
    \A r \in Replicas :
        /\ WF_vars(Connect(r)) /\ WF_vars(PollIsDue(r)) /\ WF_vars(PollApply(r))
        /\ SF_vars(PollBegin(r)) /\ SF_vars(PollRead(r))

FairSpec == Spec /\ Fairness

-----------------------------------------------------------------------------
RuleSets == [Patterns -> Ttls \cup {None}]

TypeOK ==
    /\ db \in [Ids -> [pattern : Patterns, ttl : Ttls] \cup {NoRow}]
    /\ hash \in RuleSets
    /\ handler \in [Handlers -> [phase : {"mirror", "publish"}, op : {"set", "del"},
                                 pattern : Patterns, ttl : Ttls \cup {None}] \cup {IdleH}]
    /\ writes \in 0..MaxWrites
    /\ restarts \in [redis : 0..MaxRestarts, cp : 0..MaxRestarts]
    /\ cp \in [phase : {"running", "del", "set"}, left : SUBSET Ids]
    /\ sub \in [Replicas -> BOOLEAN]
    /\ queue \in [Replicas -> Nat]
    /\ reloadRequested \in [Replicas -> BOOLEAN]
    /\ due \in [Replicas -> BOOLEAN]
    /\ poll \in [Replicas -> {"closed", "open", "reading", "apply"}]
    /\ snapshot \in [Replicas -> RuleSets]
    /\ rules \in [Replicas -> RuleSets]
    /\ persisted \subseteq Patterns \X Ttls
    /\ signalLost \in [Replicas -> BOOLEAN]
    /\ diverged \in BOOLEAN

Quiet == cp = Running /\ \A h \in Handlers : handler[h] = IdleH

\* A proxy that works with other rules than the hash holds has a reload coming
\* without waiting for the periodic poll, unless a message to it was lost: an update
\* that lands while the poller is reading is not forgotten.
NoSilentStaleness ==
    \A r \in Replicas :
        \/ rules[r] = hash
        \/ signalLost[r] \/ queue[r] > 0 \/ reloadRequested[r]
        \/ poll[r] = "reading"
        \/ poll[r] = "apply" /\ snapshot[r] = hash
        \/ ~Quiet

\* Postgres first: whatever rule a proxy applies has been committed to Postgres,
\* even if a crash or a failure cut the request short.
OnlyPersistedRules ==
    \A r \in Replicas, p \in Patterns : rules[r][p] # None => <<p, rules[r][p]>> \in persisted

\* When the hash can be taken for the table: requests for a pattern came one at a
\* time and each to the end, each pattern had one row and kept it, and Redis kept
\* its memory; a completed reconcileAll makes up for all that went before.
MirrorHolds == Quiet /\ ~diverged => hash = Image

\* Whatever messages are lost and reloads fail, the proxies end up with what the
\* hash holds.
ProxiesConverge == \A r \in Replicas : <>[](rules[r] = hash)
=============================================================================
