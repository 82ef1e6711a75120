---------------------------- MODULE RuleSyncProofs ----------------------------
(***************************************************************************)
(* The way of a cache rule from Postgres to the proxies, for any number of *)
(* replicas, concurrent rule requests, patterns and ttls, and any number   *)
(* of crashes and restarts.                                                *)
(***************************************************************************)
EXTENDS RuleSync, TLAPS

-----------------------------------------------------------------------------
(* The invariant's parts.                                                  *)

\* A change of the hash whose message is still to be sent.
Unannounced == cp # Running \/ \E h \in Handlers : handler[h].phase = "publish"

\* What replica r works with, or will once it has applied the reply it holds.
Latest(r) == IF poll[r] = "apply" THEN snapshot[r] ELSE rules[r]

\* NoSilentStaleness at every moment, not only when the control plane is quiet.
Informed(r) ==
    \/ Latest(r) = hash
    \/ signalLost[r] \/ queue[r] > 0 \/ reloadRequested[r]
    \/ poll[r] = "reading"
    \/ Unannounced

AllInformed == \A r \in Replicas : Informed(r)

\* A rule goes from Postgres to a handler, to the hash, to a reply and to the
\* RuleStore: Postgres has held it at each stage.
Held(rs) == \A p \in Patterns : rs[p] # None => <<p, rs[p]>> \in persisted

AllPersisted ==
    /\ \A i \in Ids : db[i] # NoRow => <<db[i].pattern, db[i].ttl>> \in persisted
    /\ \A h \in Handlers : handler[h] # IdleH /\ handler[h].ttl # None =>
         <<handler[h].pattern, handler[h].ttl>> \in persisted
    /\ Held(hash)
    /\ \A r \in Replicas : Held(snapshot[r]) /\ Held(rules[r])

\* v is what the rows in S say of pattern p: the oldest of them wins.
Shows(S, p, v) ==
    \/ v = None /\ \A i \in S : db[i].pattern # p
    \/ \E i \in S : /\ db[i].pattern = p /\ db[i].ttl = v
                    /\ \A j \in S : db[j].pattern = p => i <= j

\* MirrorHolds while requests are under way: only the pattern of a request that has
\* yet to write the hash may differ, and what it is about to write is right.
MirrorPending ==
    ~diverged /\ cp = Running =>
      /\ \A g, h \in Handlers :
           handler[g] # IdleH /\ handler[h] # IdleH /\ handler[g].pattern = handler[h].pattern
             => g = h
      /\ \A h \in Handlers : handler[h].phase = "mirror" =>
           Shows(Ids, handler[h].pattern, handler[h].ttl)
      /\ \A p \in Patterns :
           \/ Shows(Ids, p, hash[p])
           \/ \E h \in Handlers : handler[h].phase = "mirror" /\ handler[h].pattern = p

\* MirrorHolds while reconcileAll is under way: the hash is right for the rows that
\* have been set, and they are newer than the rows left.
MirrorRebuilt ==
    /\ cp.phase = "del" => diverged
    /\ cp # Running => \A h \in Handlers : handler[h] = IdleH
    /\ ~diverged /\ cp # Running =>
         /\ \A p \in Patterns : Shows(Ids \ cp.left, p, hash[p])
         /\ \A i \in cp.left, j \in Ids \ cp.left : db[j] # NoRow => i < j

\* The inductive invariant.  NoSilentStaleness speaks of quiet states and of what is
\* applied; a step out of a busy state, or the poller's last step, keeps it because of
\* AllInformed.  OnlyPersistedRules needs the same of every place a rule passes.
\* MirrorHolds needs to know what a request under way has yet to write, and what a
\* rebuild has yet to set.
IInv ==
    /\ TypeOK
    /\ AllInformed
    /\ AllPersisted
    /\ MirrorPending
    /\ MirrorRebuilt

-----------------------------------------------------------------------------
(* The actions, by who takes them.                                         *)

\* Steps of the subscriber and the poller of one replica.
ReplicaStep(r) ==
    \/ Subscribe(r) \/ Unsubscribed(r) \/ RuleMessage(r)
    \/ Connect(r) \/ PollerError(r) \/ Reload(r) \/ PollIsDue(r)

\* Steps of the control plane's startup.
StartupStep ==
    \/ ReconcileDel \/ ReconcileCut \/ ReconcilePublish \/ ReconcileFails
    \/ \E i \in Ids : ReconcileSet(i)

\* The first statement of a rule request.
RequestStep(h, i) ==
    \/ Delete(h, i)
    \/ \E p \in Patterns, t \in Ttls : Post(h, i, p, t) \/ Put(h, i, p, t)

LEMMA NextCases ==
    ASSUME [Next]_vars
    PROVE  \/ \E h \in Handlers, i \in Ids : RequestStep(h, i)
           \/ \E h \in Handlers : Mirror(h) \/ MirrorFails(h)
           \/ \E h \in Handlers : Publish(h) \/ PublishFails(h)
           \/ Crash
           \/ StartupStep
           \/ RedisRestarts
           \/ \E r \in Replicas : ReplicaStep(r)
           \/ UNCHANGED vars
BY DEF Next, RequestStep, StartupStep, ReplicaStep

-----------------------------------------------------------------------------
(* Types.                                                                  *)

LEMMA RequestType ==
    ASSUME TypeOK, NEW h \in Handlers, NEW i \in Ids, RequestStep(h, i)
    PROVE  TypeOK'
<1> USE RuleAssumption DEF TypeOK
<1> DEFINE Rows  == [pattern : Patterns, ttl : Ttls] \cup {NoRow}
           Steps == [phase : {"mirror"}, op : {"set", "del"},
                     pattern : Patterns, ttl : Ttls \cup {None}]
           Done(row, step) == /\ Commit(h, i, row, step)
                              /\ persisted' \subseteq Patterns \X Ttls
                              /\ diverged' \in BOOLEAN
<1>1. PICK row \in Rows, step \in Steps : Done(row, step)
  <2>1. CASE Delete(h, i)
    <3> DEFINE step == [phase |-> "mirror", op |-> "del", pattern |-> db[i].pattern, ttl |-> None]
    <3>1. db[i].pattern \in Patterns
      BY <2>1 DEF Delete
    <3>2. NoRow \in Rows /\ step \in Steps
      BY <3>1
    <3>3. Done(NoRow, step)
      BY <2>1 DEF Delete
    <3>4. QED
      BY <3>2, <3>3
  <2>2. ASSUME NEW p \in Patterns, NEW t \in Ttls, Upsert(h, i, p, t)
        PROVE  \E row \in Rows, step \in Steps : Done(row, step)
    <3> DEFINE row  == [pattern |-> p, ttl |-> t]
               step == [phase |-> "mirror", op |-> "set", pattern |-> p, ttl |-> t]
    <3>1. row \in Rows /\ step \in Steps
      OBVIOUS
    <3>2. Done(row, step)
      BY <2>2 DEF Upsert
    <3>3. QED
      BY <3>1, <3>2
  <2>3. QED
    BY <2>1, <2>2 DEF RequestStep, Post, Put
<1>2. writes' \in 0..MaxWrites
  BY <1>1 DEF Commit
<1>3. QED
  BY <1>1, <1>2 DEF Commit, busVars, proxyVars

LEMMA HandlerType ==
    ASSUME TypeOK, NEW h \in Handlers,
           Mirror(h) \/ MirrorFails(h) \/ Publish(h) \/ PublishFails(h)
    PROVE  TypeOK'
<1> USE DEF TypeOK, busVars, proxyVars
<1>1. handler[h].phase \in {"mirror", "publish"} =>
        /\ handler[h] \in [phase : {"mirror", "publish"}, op : {"set", "del"},
                           pattern : Patterns, ttl : Ttls \cup {None}]
        /\ Mirrored(h) \in RuleSets
  BY DEF IdleH, Mirrored, RuleSets
<1>2. CASE Mirror(h)
  BY <1>1, <1>2 DEF Mirror
<1>3. CASE MirrorFails(h)
  BY <1>1, <1>3 DEF MirrorFails
<1>4. CASE Publish(h)
  BY <1>4 DEF Publish, Broadcast
<1>5. CASE PublishFails(h)
  BY <1>5 DEF PublishFails
<1>6. QED
  BY <1>2, <1>3, <1>4, <1>5

LEMMA StartupType ==
    ASSUME TypeOK, StartupStep \/ Crash \/ RedisRestarts
    PROVE  TypeOK'
<1> USE RuleAssumption DEF TypeOK, busVars, proxyVars, Running
<1>1. NoRules \in RuleSets
  BY DEF NoRules, RuleSets
<1>2. CASE ReconcileDel
  BY <1>1, <1>2 DEF ReconcileDel
<1>3. CASE ReconcileCut
  BY <1>3 DEF ReconcileCut
<1>4. CASE ReconcilePublish
  BY <1>4 DEF ReconcilePublish, Broadcast
<1>5. CASE ReconcileFails
  BY <1>5 DEF ReconcileFails
<1>6. ASSUME NEW i \in Ids, ReconcileSet(i) PROVE TypeOK'
  <2>1. hash' \in RuleSets
    <3>1. db[i].ttl \in Ttls \cup {None}
      BY DEF NoRow
    <3>2. QED
      BY <1>6, <3>1 DEF ReconcileSet, RuleSets
  <2>2. cp' \in [phase : {"running", "del", "set"}, left : SUBSET Ids]
    BY <1>6 DEF ReconcileSet
  <2>3. QED
    BY <1>6, <2>1, <2>2 DEF ReconcileSet
<1>7. CASE Crash
  BY <1>7 DEF Crash
<1>8. CASE RedisRestarts
  BY <1>1, <1>8 DEF RedisRestarts
<1>9. QED
  BY <1>2, <1>3, <1>4, <1>5, <1>6, <1>7, <1>8 DEF StartupStep

LEMMA ReplicaType ==
    ASSUME TypeOK, NEW r \in Replicas, ReplicaStep(r)
    PROVE  TypeOK'
<1> USE DEF TypeOK, proxyVars, ElseUnchanged
<1>1. CASE Subscribe(r)
  BY <1>1 DEF Subscribe
<1>2. CASE Unsubscribed(r)
  <2>1. (signalLost[r] \/ queue[r] > 0) \in BOOLEAN
    OBVIOUS
  <2>2. QED
    BY <1>2, <2>1 DEF Unsubscribed
<1>3. CASE RuleMessage(r)
  <2>1. queue[r] - 1 \in Nat
    BY <1>3 DEF RuleMessage
  <2>2. QED
    BY <1>3, <2>1 DEF RuleMessage
<1>4. CASE Connect(r)
  BY <1>4 DEF Connect
<1>5. CASE PollerError(r)
  <2>1. (signalLost[r] \/ poll[r] = "reading") \in BOOLEAN
    OBVIOUS
  <2>2. QED
    BY <1>5, <2>1 DEF PollerError
<1>6. CASE PollIsDue(r)
  BY <1>6 DEF PollIsDue
<1>7. CASE PollBegin(r)
  BY <1>7 DEF PollBegin
<1>8. CASE PollRead(r)
  BY <1>8 DEF PollRead
<1>9. CASE PollApply(r)
  <2>1. NoRules \in RuleSets
    BY DEF NoRules, RuleSets
  <2>2. QED
    BY <1>9, <2>1 DEF PollApply
<1>10. QED
  BY <1>1, <1>2, <1>3, <1>4, <1>5, <1>6, <1>7, <1>8, <1>9 DEF ReplicaStep, Reload

LEMMA TypeNext ==
    ASSUME TypeOK, [Next]_vars
    PROVE  TypeOK'
<1>1. CASE UNCHANGED vars
  BY <1>1 DEF vars, TypeOK
<1>2. QED
  BY <1>1, NextCases, RequestType, HandlerType, StartupType, ReplicaType

-----------------------------------------------------------------------------
(* No silent staleness.                                                    *)

\* A broadcast tells every replica, or is lost to it.
LEMMA BroadcastInforms ==
    ASSUME TypeOK, Broadcast, NEW r \in Replicas
    PROVE  signalLost'[r] \/ queue'[r] > 0
<1>1. CASE sub[r]
  <2>1. queue'[r] = queue[r] + 1 /\ queue[r] \in Nat
    BY <1>1 DEF Broadcast, TypeOK
  <2>2. QED
    BY <2>1
<1>2. CASE ~sub[r]
  <2>1. signalLost'[r] = (signalLost[r] \/ ~sub[r])
    BY DEF Broadcast
  <2>2. QED
    BY <1>2, <2>1
<1>3. QED
  BY <1>1, <1>2

\* A step that leaves the replicas and the hash alone, and takes no announcement away.
LEMMA InformedFrame ==
    ASSUME AllInformed, UNCHANGED <<hash, queue, signalLost>>, UNCHANGED proxyVars,
           Unannounced => Unannounced'
    PROVE  AllInformed'
BY DEF AllInformed, Informed, Latest, proxyVars

LEMMA RequestInformed ==
    ASSUME TypeOK, AllInformed, NEW h \in Handlers, NEW i \in Ids, RequestStep(h, i)
    PROVE  AllInformed'
<1>1. PICK row, step : Commit(h, i, row, step)
  BY DEF RequestStep, Delete, Post, Put, Upsert
<1>2. /\ handler[h] = IdleH /\ cp' = cp
      /\ \A g \in Handlers \ {h} : handler'[g] = handler[g]
  BY <1>1 DEF Commit, TypeOK
<1>3. Unannounced => Unannounced'
  BY <1>2 DEF Unannounced, IdleH
<1>4. QED
  BY <1>1, <1>3, InformedFrame DEF Commit, busVars

LEMMA HandlerInformed ==
    ASSUME TypeOK, AllInformed, NEW h \in Handlers,
           Mirror(h) \/ MirrorFails(h) \/ Publish(h) \/ PublishFails(h)
    PROVE  AllInformed'
<1>1. CASE Mirror(h)
  <2>1. handler'[h].phase = "publish"
    BY <1>1 DEF Mirror, TypeOK, IdleH
  <2>2. QED
    BY <2>1 DEF AllInformed, Informed, Unannounced
<1>2. CASE MirrorFails(h) \/ PublishFails(h)
  BY <1>2 DEF MirrorFails, PublishFails, AllInformed, Informed
<1>3. CASE Publish(h)
  BY <1>3, BroadcastInforms DEF Publish, AllInformed, Informed
<1>4. QED
  BY <1>1, <1>2, <1>3

LEMMA StartupInformed ==
    ASSUME TypeOK, AllInformed, StartupStep \/ Crash \/ RedisRestarts
    PROVE  AllInformed'
<1>1. CASE ReconcileDel \/ ReconcileCut \/ Crash
  <2>1. cp' # Running
    BY <1>1 DEF ReconcileDel, ReconcileCut, Crash, Running
  <2>2. QED
    BY <2>1 DEF AllInformed, Informed, Unannounced
<1>2. ASSUME NEW i \in Ids, ReconcileSet(i) PROVE AllInformed'
  <2>1. cp'.phase = "set"
    BY <1>2 DEF ReconcileSet, TypeOK
  <2>2. QED
    BY <2>1 DEF AllInformed, Informed, Unannounced, Running
<1>3. CASE ReconcilePublish
  BY <1>3, BroadcastInforms DEF ReconcilePublish, AllInformed, Informed
<1>4. CASE ReconcileFails \/ RedisRestarts
  BY <1>4 DEF ReconcileFails, RedisRestarts, AllInformed, Informed
<1>5. QED
  BY <1>1, <1>2, <1>3, <1>4 DEF StartupStep

\* The poller takes the flag before it asks Redis, and what it then reads is the hash
\* of that moment: an update between the two sets the flag again.
LEMMA ReplicaInformed ==
    ASSUME TypeOK, AllInformed, NEW r \in Replicas, ReplicaStep(r)
    PROVE  AllInformed'
<1>1. /\ UNCHANGED <<hash, cp, handler>>
      /\ \A q \in Replicas \ {r} :
           /\ signalLost'[q] = signalLost[q] /\ queue'[q] = queue[q]
           /\ reloadRequested'[q] = reloadRequested[q] /\ poll'[q] = poll[q]
           /\ snapshot'[q] = snapshot[q] /\ rules'[q] = rules[q]
  BY DEF TypeOK, ReplicaStep, Subscribe, Unsubscribed, RuleMessage, Connect, PollerError, Reload,
         PollBegin, PollRead, PollApply, PollIsDue, ElseUnchanged, proxyVars
<1>2. Unannounced' <=> Unannounced
  BY <1>1 DEF Unannounced
<1>3. Informed(r)
  BY DEF AllInformed
<1>4. Informed(r)'
  <2> USE DEF TypeOK
  <2>1. CASE Subscribe(r)
    BY <2>1, <1>2, <1>3 DEF Subscribe, proxyVars, Informed, Latest
  <2>2. CASE Unsubscribed(r)
    <3>1. signalLost'[r] = (signalLost[r] \/ queue[r] > 0)
      BY <2>2 DEF Unsubscribed
    <3>2. QED
      BY <2>2, <3>1, <1>2, <1>3 DEF Unsubscribed, proxyVars, Informed, Latest
  <2>3. CASE RuleMessage(r)
    BY <2>3 DEF RuleMessage, Informed
  <2>4. CASE Connect(r)
    BY <2>4, <1>2, <1>3 DEF Connect, ElseUnchanged, Informed, Latest
  <2>5. CASE PollerError(r)
    <3>1. signalLost'[r] = (signalLost[r] \/ poll[r] = "reading")
      BY <2>5 DEF PollerError
    <3>2. QED
      BY <2>5, <3>1, <1>2, <1>3 DEF PollerError, ElseUnchanged, Informed, Latest
  <2>6. CASE PollBegin(r)
    BY <2>6 DEF PollBegin, Informed
  <2>7. CASE PollRead(r)
    BY <2>7 DEF PollRead, ElseUnchanged, Informed, Latest
  <2>8. CASE PollApply(r)
    BY <2>8, <1>2, <1>3 DEF PollApply, ElseUnchanged, Informed, Latest
  <2>9. CASE PollIsDue(r)
    BY <2>9, <1>2, <1>3 DEF PollIsDue, ElseUnchanged, Informed, Latest
  <2>10. QED
    BY <2>1, <2>2, <2>3, <2>4, <2>5, <2>6, <2>7, <2>8, <2>9 DEF ReplicaStep, Reload
<1>5. ASSUME NEW q \in Replicas \ {r} PROVE Informed(q)'
  BY <1>1, <1>2 DEF AllInformed, Informed, Latest
<1>6. QED
  BY <1>4, <1>5 DEF AllInformed

LEMMA InformedNext ==
    ASSUME TypeOK, AllInformed, [Next]_vars
    PROVE  AllInformed'
<1>1. CASE UNCHANGED vars
  BY <1>1, InformedFrame DEF vars, proxyVars, Unannounced
<1>2. QED
  BY <1>1, NextCases, RequestInformed, HandlerInformed, StartupInformed, ReplicaInformed

-----------------------------------------------------------------------------
(* Postgres first.                                                         *)

LEMMA RequestPersisted ==
    ASSUME TypeOK, AllPersisted, NEW h \in Handlers, NEW i \in Ids, RequestStep(h, i)
    PROVE  AllPersisted'
<1> USE DEF TypeOK
<1> DEFINE Done(row, step) ==
             /\ Commit(h, i, row, step)
             /\ persisted \subseteq persisted'
             /\ row # NoRow => <<row.pattern, row.ttl>> \in persisted'
             /\ step.ttl # None => <<step.pattern, step.ttl>> \in persisted'
<1>1. PICK row, step : Done(row, step)
  <2>1. CASE Delete(h, i)
    <3> DEFINE step == [phase |-> "mirror", op |-> "del", pattern |-> db[i].pattern, ttl |-> None]
    <3>1. Done(NoRow, step)
      BY <2>1 DEF Delete
    <3>2. QED
      BY <3>1
  <2>2. ASSUME NEW p \in Patterns, NEW t \in Ttls, Upsert(h, i, p, t)
        PROVE  \E row, step : Done(row, step)
    <3> DEFINE row  == [pattern |-> p, ttl |-> t]
               step == [phase |-> "mirror", op |-> "set", pattern |-> p, ttl |-> t]
    <3>1. Done(row, step)
      BY <2>2 DEF Upsert
    <3>2. QED
      BY <3>1
  <2>3. QED
    BY <2>1, <2>2 DEF RequestStep, Post, Put
<1>2. /\ db'[i] = row /\ \A j \in Ids \ {i} : db'[j] = db[j]
      /\ handler'[h] = step /\ \A g \in Handlers \ {h} : handler'[g] = handler[g]
      /\ UNCHANGED <<hash, snapshot, rules>>
  BY <1>1 DEF Commit, proxyVars
<1>3. QED
  BY <1>1, <1>2 DEF AllPersisted, Held

LEMMA HandlerPersisted ==
    ASSUME TypeOK, AllPersisted, NEW h \in Handlers,
           Mirror(h) \/ MirrorFails(h) \/ Publish(h) \/ PublishFails(h)
    PROVE  AllPersisted'
<1> USE DEF TypeOK
<1>1. UNCHANGED <<db, snapshot, rules, persisted>>
  BY DEF Mirror, MirrorFails, Publish, PublishFails, proxyVars
<1>2. Held(hash)'
  <2>1. CASE hash' = hash
    BY <1>1, <2>1 DEF AllPersisted, Held
  <2>2. CASE handler[h].phase = "mirror" /\ hash' = Mirrored(h)
    <3>1. handler[h] # IdleH /\ handler[h].pattern \in Patterns
      BY <2>2 DEF IdleH
    <3>2. \A p \in Patterns : hash'[p] = IF p = handler[h].pattern THEN handler[h].ttl ELSE hash[p]
      BY <2>2, <3>1 DEF Mirrored, RuleSets
    <3>3. QED
      BY <1>1, <3>1, <3>2 DEF AllPersisted, Held
  <2>3. QED
    BY <2>1, <2>2 DEF Mirror, MirrorFails, Publish, PublishFails
<1>3. /\ \A g \in Handlers \ {h} : handler'[g] = handler[g]
      /\ \/ handler'[h] = IdleH
         \/ handler[h] # IdleH /\ handler'[h].pattern = handler[h].pattern
                               /\ handler'[h].ttl = handler[h].ttl
  BY DEF Mirror, MirrorFails, Publish, PublishFails, IdleH
<1>4. QED
  BY <1>1, <1>2, <1>3 DEF AllPersisted, Held

LEMMA StartupPersisted ==
    ASSUME TypeOK, AllPersisted, StartupStep \/ Crash \/ RedisRestarts
    PROVE  AllPersisted'
<1> USE DEF TypeOK
<1>1. UNCHANGED <<db, snapshot, rules, persisted>>
  BY DEF StartupStep, ReconcileDel, ReconcileCut, ReconcilePublish, ReconcileFails,
         ReconcileSet, Crash, RedisRestarts, proxyVars
<1>2. \A g \in Handlers : handler'[g] \in {handler[g], IdleH}
  BY DEF StartupStep, ReconcileDel, ReconcileCut, ReconcilePublish, ReconcileFails,
         ReconcileSet, Crash, RedisRestarts
<1>3. Held(hash)'
  <2>1. CASE hash' \in {hash, NoRules}
    BY <1>1, <2>1 DEF AllPersisted, Held, NoRules
  <2>2. ASSUME NEW i \in Ids, ReconcileSet(i) PROVE Held(hash)'
    <3>1. CASE db[i] = NoRow
      <4>1. hash' = [hash EXCEPT ![None] = None]
        BY <2>2, <3>1 DEF ReconcileSet, NoRow
      <4>2. \A p \in Patterns : hash'[p] = hash[p]
        BY <4>1, RuleAssumption DEF RuleSets
      <4>3. QED
        BY <1>1, <4>2 DEF AllPersisted, Held
    <3>2. CASE db[i] # NoRow
      <4>1. db[i].pattern \in Patterns /\ hash' = [hash EXCEPT ![db[i].pattern] = db[i].ttl]
        BY <2>2, <3>2 DEF ReconcileSet
      <4>2. \A p \in Patterns : hash'[p] = IF p = db[i].pattern THEN db[i].ttl ELSE hash[p]
        BY <4>1 DEF RuleSets
      <4>3. QED
        BY <1>1, <3>2, <4>2 DEF AllPersisted, Held
    <3>3. QED
      BY <3>1, <3>2
  <2>3. QED
    BY <2>1, <2>2 DEF StartupStep, ReconcileDel, ReconcileCut, ReconcilePublish,
                      ReconcileFails, Crash, RedisRestarts
<1>4. QED
  BY <1>1, <1>2, <1>3 DEF AllPersisted, Held

LEMMA ReplicaPersisted ==
    ASSUME TypeOK, AllPersisted, NEW r \in Replicas, ReplicaStep(r)
    PROVE  AllPersisted'
<1> USE DEF TypeOK
<1>1. UNCHANGED <<db, handler, hash, persisted>>
  BY DEF ReplicaStep, Subscribe, Unsubscribed, RuleMessage, Connect, PollerError, Reload,
         PollBegin, PollRead, PollApply, PollIsDue, ElseUnchanged, proxyVars
<1>2. \A q \in Replicas : /\ snapshot'[q] \in {snapshot[q], hash, NoRules}
                          /\ rules'[q] \in {rules[q], snapshot[q]}
  BY DEF ReplicaStep, Subscribe, Unsubscribed, RuleMessage, Connect, PollerError, Reload,
         PollBegin, PollRead, PollApply, PollIsDue, ElseUnchanged, proxyVars
<1>3. Held(NoRules) /\ Held(hash) /\ \A q \in Replicas : Held(snapshot[q]) /\ Held(rules[q])
  BY DEF AllPersisted, Held, NoRules
<1>4. \A q \in Replicas : Held(snapshot[q])' /\ Held(rules[q])'
  <2>1. TAKE q \in Replicas
  <2>2. Held(snapshot'[q]) /\ Held(rules'[q])
    BY <1>2, <1>3
  <2>3. QED
    BY <1>1, <2>2 DEF Held
<1>5. QED
  BY <1>1, <1>4 DEF AllPersisted, Held

LEMMA PersistedNext ==
    ASSUME TypeOK, AllPersisted, [Next]_vars
    PROVE  AllPersisted'
<1>1. CASE UNCHANGED vars
  BY <1>1 DEF vars, AllPersisted, Held
<1>2. QED
  BY <1>1, NextCases, RequestPersisted, HandlerPersisted, StartupPersisted, ReplicaPersisted

-----------------------------------------------------------------------------
(* The hash mirrors the table.                                             *)

Mirroring == MirrorPending /\ MirrorRebuilt

\* A request that is not risky is the only one for its pattern, and leaves the
\* pattern with the one row it wrote, or none.
LEMMA RequestMirroring ==
    ASSUME TypeOK, Mirroring, NEW h \in Handlers, NEW i \in Ids, RequestStep(h, i)
    PROVE  Mirroring'
<1> USE RuleAssumption DEF TypeOK
<1> DEFINE Done(row, step, p) ==
             /\ Commit(h, i, row, step)
             /\ step.pattern = p /\ step.phase = "mirror"
             /\ \/ row = NoRow /\ step.ttl = None
                \/ row.pattern = p /\ row.ttl = step.ttl
             /\ diverged' = (diverged \/ Risky(i, p))
<1>1. PICK p \in Patterns : \E row, step : Done(row, step, p)
  <2>1. CASE Delete(h, i)
    <3> DEFINE p == db[i].pattern
               step == [phase |-> "mirror", op |-> "del", pattern |-> p, ttl |-> None]
    <3>1. p \in Patterns
      BY <2>1 DEF Delete
    <3>2. Done(NoRow, step, p)
      BY <2>1 DEF Delete
    <3>3. QED
      BY <3>1, <3>2
  <2>2. ASSUME NEW p \in Patterns, NEW t \in Ttls, Upsert(h, i, p, t)
        PROVE  \E row, step : Done(row, step, p)
    <3> DEFINE row  == [pattern |-> p, ttl |-> t]
               step == [phase |-> "mirror", op |-> "set", pattern |-> p, ttl |-> t]
    <3>1. Done(row, step, p)
      BY <2>2 DEF Upsert
    <3>2. QED
      BY <3>1
  <2>3. QED
    BY <2>1, <2>2 DEF RequestStep, Post, Put
<1>2. PICK row, step : Done(row, step, p)
  BY <1>1
<1>3. /\ cp = Running /\ cp' = Running /\ hash' = hash /\ handler[h] = IdleH
      /\ db'[i] = row /\ \A j \in Ids \ {i} : db'[j] = db[j]
      /\ handler'[h] = step /\ \A g \in Handlers \ {h} : handler'[g] = handler[g]
  BY <1>2 DEF Commit
<1>4. MirrorRebuilt'
  BY <1>3 DEF MirrorRebuilt, Running
<1>5. MirrorPending'
  <2>1. SUFFICES ASSUME ~diverged'
                 PROVE  /\ \A f, g \in Handlers :
                             handler'[f] # IdleH /\ handler'[g] # IdleH
                             /\ handler'[f].pattern = handler'[g].pattern => f = g
                        /\ \A g \in Handlers : handler'[g].phase = "mirror" =>
                             Shows(Ids, handler[g].pattern, handler[g].ttl)'
                        /\ \A q \in Patterns :
                             \/ Shows(Ids, q, hash[q])'
                             \/ \E g \in Handlers : /\ handler'[g].phase = "mirror"
                                                    /\ handler'[g].pattern = q
    BY DEF MirrorPending
  <2>2. ~diverged /\ ~Risky(i, p)
    BY <1>2, <2>1
  <2>3. /\ \A g \in Handlers : handler[g].pattern # p
        /\ \A j \in Ids \ {i} : db[j].pattern # p
        /\ db[i].pattern \in {p, None}
    BY <2>2 DEF Risky, RowsOf, NoRow
  <2>4. Shows(Ids, p, step.ttl)'
    <3>1. CASE row = NoRow /\ step.ttl = None
      BY <1>3, <2>3, <3>1 DEF Shows, NoRow
    <3>2. CASE row.pattern = p /\ row.ttl = step.ttl
      <4>1. db'[i].pattern = p /\ db'[i].ttl = step.ttl
        BY <1>3, <3>2
      <4>2. \A j \in Ids : db'[j].pattern = p => i <= j
        <5>1. \A j \in Ids : db'[j].pattern = p => j = i
          BY <1>3, <2>3
        <5>2. i <= i
          BY DEF Ids
        <5>3. QED
          BY <5>1, <5>2
      <4>3. QED
        BY <4>1, <4>2 DEF Shows
    <3>3. QED
      BY <1>2, <3>1, <3>2
  <2>5. row.pattern \in {p, None}
    BY <1>2 DEF NoRow
  <2> DEFINE Shown(q, v) ==
               \/ v = None /\ \A j \in Ids : db'[j].pattern # q
               \/ \E k \in Ids : /\ db'[k].pattern = q /\ db'[k].ttl = v
                                 /\ \A j \in Ids : db'[j].pattern = q => k <= j
  <2>6. ASSUME NEW q \in Patterns, q # p, NEW v, Shows(Ids, q, v)
        PROVE  Shown(q, v)
    <3>1. \A j \in Ids : db'[j].pattern = q => j # i /\ db'[j] = db[j]
      BY <1>3, <2>5, <2>6
    <3>2. \A j \in Ids : db[j].pattern = q => j # i /\ db'[j] = db[j]
      BY <1>3, <2>3, <2>6
    <3>3. QED
      BY <2>6, <3>1, <3>2 DEF Shows
  <2>7. ASSUME NEW f \in Handlers, NEW g \in Handlers,
               handler'[f] # IdleH, handler'[g] # IdleH,
               handler'[f].pattern = handler'[g].pattern
        PROVE  f = g
    <3>1. CASE f = h \/ g = h
      BY <1>2, <1>3, <2>3, <2>7, <3>1
    <3>2. CASE f # h /\ g # h
      BY <1>3, <2>2, <2>7, <3>2 DEF Mirroring, MirrorPending
    <3>3. QED
      BY <3>1, <3>2
  <2>8. ASSUME NEW g \in Handlers, handler'[g].phase = "mirror"
        PROVE  Shows(Ids, handler[g].pattern, handler[g].ttl)'
    <3>1. CASE g = h
      BY <1>2, <1>3, <2>4, <3>1 DEF Shows
    <3>2. CASE g # h
      <4>1. handler'[g] = handler[g] /\ handler[g].pattern \in Patterns /\ handler[g].pattern # p
        BY <1>3, <2>3, <2>8, <3>2 DEF IdleH
      <4>2. Shows(Ids, handler[g].pattern, handler[g].ttl)
        BY <1>3, <2>2, <2>8, <4>1 DEF Mirroring, MirrorPending
      <4>3. Shown(handler[g].pattern, handler[g].ttl)
        <5> HIDE DEF Shown
        <5>1. QED
          BY <2>6, <4>1, <4>2
      <4>4. QED
        BY <4>1, <4>3 DEF Shows
    <3>3. QED
      BY <3>1, <3>2
  <2>9. ASSUME NEW q \in Patterns
        PROVE  \/ Shows(Ids, q, hash[q])'
               \/ \E g \in Handlers : handler'[g].phase = "mirror" /\ handler'[g].pattern = q
    <3>1. CASE q = p
      BY <1>2, <1>3, <3>1
    <3>2. CASE q # p /\ Shows(Ids, q, hash[q])
      <4>1. Shown(q, hash[q])
        <5> HIDE DEF Shown
        <5>1. QED
          BY <2>6, <3>2
      <4>2. QED
        BY <1>3, <4>1 DEF Shows
    <3>3. CASE \E g \in Handlers : handler[g].phase = "mirror" /\ handler[g].pattern = q
      BY <1>3, <3>3 DEF IdleH
    <3>4. QED
      BY <1>3, <2>2, <3>1, <3>2, <3>3 DEF Mirroring, MirrorPending
  <2>10. QED
    BY <2>7, <2>8, <2>9
<1>6. QED
  BY <1>4, <1>5 DEF Mirroring

LEMMA HandlerMirroring ==
    ASSUME TypeOK, Mirroring, NEW h \in Handlers,
           Mirror(h) \/ MirrorFails(h) \/ Publish(h) \/ PublishFails(h)
    PROVE  Mirroring'
<1> USE DEF TypeOK
<1>1. /\ handler[h] # IdleH /\ handler[h].pattern \in Patterns
      /\ handler[h] \in [phase : {"mirror", "publish"}, op : {"set", "del"},
                         pattern : Patterns, ttl : Ttls \cup {None}]
  BY DEF Mirror, MirrorFails, Publish, PublishFails, IdleH
<1>2. /\ cp = Running /\ cp' = Running /\ db' = db
      /\ \A g \in Handlers \ {h} : handler'[g] = handler[g]
      /\ handler'[h].phase # "mirror"
      /\ handler'[h] = IdleH \/ handler'[h].pattern = handler[h].pattern
  BY <1>1 DEF Mirror, MirrorFails, Publish, PublishFails, Mirroring, MirrorRebuilt, IdleH
<1>3. MirrorRebuilt'
  BY <1>2 DEF MirrorRebuilt, Running
<1>4. MirrorPending'
  <2>1. CASE MirrorFails(h)
    BY <2>1 DEF MirrorFails, MirrorPending
  <2>2. CASE diverged' = diverged
    <3>1. SUFFICES ASSUME ~diverged
                   PROVE  /\ \A f, g \in Handlers :
                               handler'[f] # IdleH /\ handler'[g] # IdleH
                               /\ handler'[f].pattern = handler'[g].pattern => f = g
                          /\ \A g \in Handlers : handler'[g].phase = "mirror" =>
                               Shows(Ids, handler[g].pattern, handler[g].ttl)'
                          /\ \A q \in Patterns :
                               \/ Shows(Ids, q, hash[q])'
                               \/ \E g \in Handlers : /\ handler'[g].phase = "mirror"
                                                      /\ handler'[g].pattern = q
      BY <2>2 DEF MirrorPending
    <3>2. /\ \A f, g \in Handlers :
               handler[f] # IdleH /\ handler[g] # IdleH
               /\ handler[f].pattern = handler[g].pattern => f = g
          /\ \A g \in Handlers : handler[g].phase = "mirror" =>
               Shows(Ids, handler[g].pattern, handler[g].ttl)
          /\ \A q \in Patterns :
               \/ Shows(Ids, q, hash[q])
               \/ \E g \in Handlers : handler[g].phase = "mirror" /\ handler[g].pattern = q
      BY <3>1, <1>2 DEF Mirroring, MirrorPending
    <3>3. \A f, g \in Handlers :
            handler'[f] # IdleH /\ handler'[g] # IdleH
            /\ handler'[f].pattern = handler'[g].pattern => f = g
      BY <1>1, <1>2, <3>2
    <3>4. \A g \in Handlers : handler'[g].phase = "mirror" =>
            Shows(Ids, handler[g].pattern, handler[g].ttl)'
      BY <1>2, <3>2 DEF Shows
    <3>5. ASSUME NEW q \in Patterns
          PROVE  \/ Shows(Ids, q, hash[q])'
                 \/ \E g \in Handlers : handler'[g].phase = "mirror" /\ handler'[g].pattern = q
      <4>1. CASE handler[h].phase = "mirror" /\ handler[h].pattern = q
        <5>1. hash' = Mirrored(h)
          BY <2>2, <3>1, <4>1 DEF Mirror, MirrorFails, Publish, PublishFails
        <5>2. hash'[q] = handler[h].ttl
          BY <1>1, <4>1, <5>1 DEF Mirrored, RuleSets
        <5>3. QED
          BY <1>2, <3>2, <4>1, <5>2 DEF Shows
      <4>2. CASE \E g \in Handlers \ {h} : handler[g].phase = "mirror" /\ handler[g].pattern = q
        BY <1>2, <4>2
      <4>3. CASE /\ Shows(Ids, q, hash[q])
                 /\ ~ (handler[h].phase = "mirror" /\ handler[h].pattern = q)
        <5>1. hash'[q] = hash[q]
          BY <2>2, <3>1, <4>3 DEF Mirror, MirrorFails, Publish, PublishFails, Mirrored, RuleSets
        <5>2. QED
          BY <1>2, <4>3, <5>1 DEF Shows
      <4>4. QED
        BY <3>2, <4>1, <4>2, <4>3
    <3>6. QED
      BY <3>3, <3>4, <3>5
  <2>3. QED
    BY <2>1, <2>2 DEF Mirror, Publish, PublishFails
<1>5. QED
  BY <1>3, <1>4 DEF Mirroring

\* reconcileAll sets the rows newest first, so that the oldest of a pattern's is the
\* one that stays.
LEMMA SetMirroring ==
    ASSUME TypeOK, Mirroring, NEW i \in Ids, ReconcileSet(i)
    PROVE  Mirroring'
<1> USE RuleAssumption DEF TypeOK
<1>1. /\ cp.phase = "set" /\ cp # Running /\ cp'.phase = "set" /\ cp' # Running
      /\ cp'.left = cp.left \ {i} /\ i \in cp.left /\ cp.left \subseteq Ids
      /\ \A j \in cp.left : j <= i
      /\ UNCHANGED <<db, handler, diverged>>
      /\ hash' = [hash EXCEPT ![db[i].pattern] = db[i].ttl]
  BY DEF ReconcileSet, Running
<1>2. MirrorPending'
  BY <1>1 DEF MirrorPending
<1>3. SUFFICES ASSUME ~diverged
               PROVE  /\ \A p \in Patterns : Shows(Ids \ cp.left, p, hash[p])'
                      /\ \A k \in cp'.left, j \in Ids \ cp'.left : db[j] # NoRow => k < j
  BY <1>1, <1>2 DEF Mirroring, MirrorRebuilt
<1>4. /\ \A p \in Patterns : Shows(Ids \ cp.left, p, hash[p])
      /\ \A k \in cp.left, j \in Ids \ cp.left : db[j] # NoRow => k < j
  BY <1>1, <1>3 DEF Mirroring, MirrorRebuilt
<1>5. Ids \ cp'.left = (Ids \ cp.left) \cup {i}
  BY <1>1
<1>6. ASSUME NEW k \in cp'.left, NEW j \in Ids \ cp'.left, db[j] # NoRow PROVE k < j
  <2>1. CASE j = i
    BY <1>1, <2>1 DEF Ids
  <2>2. CASE j # i
    BY <1>1, <1>4, <1>6, <2>2
  <2>3. QED
    BY <2>1, <2>2
<1>7. ASSUME NEW p \in Patterns PROVE Shows(Ids \ cp.left, p, hash[p])'
  <2>1. CASE db[i].pattern = p
    <3>1. hash'[p] = db[i].ttl
      BY <1>1, <2>1 DEF RuleSets
    <3>2. \A j \in Ids \ cp'.left : db[j].pattern = p => i <= j
      <4>1. SUFFICES ASSUME NEW j \in Ids \ cp'.left, db[j].pattern = p PROVE i <= j
        OBVIOUS
      <4>2. CASE j = i
        BY <4>2 DEF Ids
      <4>3. CASE j # i
        <5>1. db[j] # NoRow
          BY <4>1 DEF NoRow
        <5>2. i < j
          BY <1>1, <1>4, <4>1, <4>3, <5>1
        <5>3. QED
          BY <5>2 DEF Ids
      <4>4. QED
        BY <4>2, <4>3
    <3>3. i \in Ids \ cp'.left
      BY <1>1
    <3>4. QED
      BY <1>1, <2>1, <3>1, <3>2, <3>3 DEF Shows
  <2>2. CASE db[i].pattern # p
    <3>1. hash'[p] = hash[p]
      BY <1>1, <2>2 DEF RuleSets
    <3>2. Shows(Ids \ cp.left, p, hash[p])
      BY <1>4
    <3>3. QED
      BY <1>1, <1>5, <2>2, <3>1, <3>2 DEF Shows
  <2>3. QED
    BY <2>1, <2>2
<1>8. QED
  BY <1>6, <1>7

LEMMA StartupMirroring ==
    ASSUME TypeOK, Mirroring, StartupStep \/ Crash \/ RedisRestarts
    PROVE  Mirroring'
<1> USE RuleAssumption DEF TypeOK
<1>1. CASE Crash
  BY <1>1 DEF Crash, Mirroring, MirrorPending, MirrorRebuilt
<1>2. CASE RedisRestarts
  BY <1>2 DEF RedisRestarts, Mirroring, MirrorPending, MirrorRebuilt
<1>3. CASE ReconcileCut
  BY <1>3 DEF ReconcileCut, Mirroring, MirrorPending, MirrorRebuilt, Running
<1>4. CASE ReconcileFails
  BY <1>4 DEF ReconcileFails, Mirroring, MirrorPending, MirrorRebuilt, Running
<1>5. CASE ReconcileDel
  <2>1. /\ cp # Running /\ cp' # Running /\ cp'.phase = "set"
        /\ cp'.left = {j \in Ids : db[j] # NoRow} /\ hash' = NoRules
        /\ UNCHANGED <<db, handler>>
    BY <1>5 DEF ReconcileDel, Running
  <2>2. \A j \in Ids \ cp'.left : db[j] = NoRow
    BY <2>1
  <2>3. \A p \in Patterns : hash'[p] = None
    BY <2>1 DEF NoRules
  <2>4. \A p \in Patterns : Shows(Ids \ cp.left, p, hash[p])'
    BY <2>1, <2>2, <2>3 DEF Shows, NoRow
  <2>5. QED
    BY <2>1, <2>2, <2>4 DEF Mirroring, MirrorPending, MirrorRebuilt
<1>6. CASE ReconcilePublish
  <2>1. /\ cp # Running /\ cp' = Running /\ cp.left = {} /\ UNCHANGED <<db, hash, handler, diverged>>
    BY <1>6 DEF ReconcilePublish, Running
  <2>2. \A h \in Handlers : handler'[h] = IdleH
    BY <2>1 DEF Mirroring, MirrorRebuilt
  <2>3. ~diverged => \A p \in Patterns : Shows(Ids, p, hash[p])'
    <3>1. Ids \ cp.left = Ids
      BY <2>1
    <3>2. ~diverged => \A p \in Patterns : Shows(Ids, p, hash[p])
      BY <2>1, <3>1 DEF Mirroring, MirrorRebuilt
    <3>3. QED
      BY <2>1, <3>2 DEF Shows
  <2>4. MirrorPending'
    BY <2>1, <2>2, <2>3 DEF MirrorPending, IdleH
  <2>5. MirrorRebuilt'
    BY <2>1 DEF MirrorRebuilt, Running
  <2>6. QED
    BY <2>4, <2>5 DEF Mirroring
<1>7. QED
  BY <1>1, <1>2, <1>3, <1>4, <1>5, <1>6, SetMirroring DEF StartupStep

\* Nothing but the control plane and Redis touches the table, the hash or a request.
LEMMA MirroringFrame ==
    ASSUME Mirroring, UNCHANGED <<db, hash, handler, cp, diverged>>
    PROVE  Mirroring'
BY DEF Mirroring, MirrorPending, MirrorRebuilt, Shows

LEMMA MirroringNext ==
    ASSUME TypeOK, Mirroring, [Next]_vars
    PROVE  Mirroring'
<1>1. CASE UNCHANGED vars
  BY <1>1, MirroringFrame DEF vars
<1>2. CASE \E r \in Replicas : ReplicaStep(r)
  BY <1>2, MirroringFrame
     DEF ReplicaStep, Subscribe, Unsubscribed, RuleMessage, Connect, PollerError, Reload,
         PollBegin, PollRead, PollApply, PollIsDue, ElseUnchanged, proxyVars
<1>3. QED
  BY <1>1, <1>2, NextCases, RequestMirroring, HandlerMirroring, StartupMirroring

-----------------------------------------------------------------------------
(* The results.                                                            *)

LEMMA InitIInv == Init => IInv
<1> SUFFICES ASSUME Init PROVE IInv
  OBVIOUS
<1> USE RuleAssumption DEF Init
<1>1. TypeOK
  <2>1. NoRules \in RuleSets
    BY DEF RuleSets, NoRules
  <2>2. writes \in 0..MaxWrites /\ restarts \in [redis : 0..MaxRestarts, cp : 0..MaxRestarts]
    OBVIOUS
  <2>3. cp \in [phase : {"running", "del", "set"}, left : SUBSET Ids]
    BY DEF Running
  <2>4. QED
    BY <2>1, <2>2, <2>3 DEF TypeOK
<1>2. AllInformed
  BY DEF AllInformed, Informed
<1>3. AllPersisted
  BY DEF AllPersisted, Held, NoRules
<1>4. MirrorPending
  BY DEF MirrorPending, Shows, NoRules, NoRow, IdleH
<1>5. MirrorRebuilt
  BY DEF MirrorRebuilt, Running
<1>6. QED
  BY <1>1, <1>2, <1>3, <1>4, <1>5 DEF IInv

LEMMA SpecIInv == Spec => []IInv
<1>1. IInv /\ [Next]_vars => IInv'
  <2>1. SUFFICES ASSUME IInv, [Next]_vars PROVE IInv'
    OBVIOUS
  <2>2. TypeOK'
    BY <2>1, TypeNext DEF IInv
  <2>3. AllInformed'
    BY <2>1, InformedNext DEF IInv
  <2>4. AllPersisted'
    BY <2>1, PersistedNext DEF IInv
  <2>5. MirrorPending' /\ MirrorRebuilt'
    BY <2>1, MirroringNext DEF IInv, Mirroring
  <2>6. QED
    BY <2>2, <2>3, <2>4, <2>5 DEF IInv
<1>2. QED
  BY <1>1, InitIInv, PTL DEF Spec

\* The variables keep their types.
THEOREM TypeCorrect == Spec => []TypeOK
<1>1. IInv => TypeOK
  BY DEF IInv
<1>2. QED
  BY <1>1, SpecIInv, PTL

\* reloadRequested_, taken before HGETALL and set by every message, never leaves a
\* proxy behind the hash without a reload to come, except for a lost message.
THEOREM StalenessIsSignalled == Spec => []NoSilentStaleness
<1>1. IInv => NoSilentStaleness
  <2>1. SUFFICES ASSUME IInv, Quiet, NEW r \in Replicas
                 PROVE  \/ rules[r] = hash
                        \/ signalLost[r] \/ queue[r] > 0 \/ reloadRequested[r]
                        \/ poll[r] = "reading"
                        \/ poll[r] = "apply" /\ snapshot[r] = hash
    BY DEF NoSilentStaleness
  <2>2. ~Unannounced
    BY <2>1 DEF Quiet, Unannounced, IdleH
  <2>3. QED
    BY <2>1, <2>2 DEF IInv, AllInformed, Informed, Latest
<1>2. QED
  BY <1>1, SpecIInv, PTL

\* rules.ts commits a rule to Postgres before anything else sees it.
THEOREM ProxiesApplyPersisted == Spec => []OnlyPersistedRules
<1>1. IInv => OnlyPersistedRules
  BY DEF IInv, AllPersisted, Held, OnlyPersistedRules
<1>2. QED
  BY <1>1, SpecIInv, PTL

\* Rule requests that do not meet leave the hash as the table says, and so does a
\* completed reconcileAll, whatever the hash held before.
THEOREM HashMirrorsTable == Spec => []MirrorHolds
<1>1. IInv => MirrorHolds
  <2>1. SUFFICES ASSUME IInv, Quiet, ~diverged PROVE hash = Image
    BY DEF MirrorHolds
  <2> USE RuleAssumption
  <2>2. \A p \in Patterns : Shows(Ids, p, hash[p])
    BY <2>1 DEF IInv, MirrorPending, Quiet, IdleH
  <2>3. ASSUME NEW p \in Patterns PROVE hash[p] = Image[p]
    <3>1. CASE hash[p] = None /\ \A i \in Ids : db[i].pattern # p
      BY <3>1 DEF Image, RowsOf
    <3>2. ASSUME NEW i \in Ids, db[i].pattern = p, db[i].ttl = hash[p],
                 \A j \in Ids : db[j].pattern = p => i <= j
          PROVE  hash[p] = Image[p]
      <4> DEFINE m == CHOOSE k \in RowsOf(p) : \A j \in RowsOf(p) : k <= j
      <4>1. i \in RowsOf(p) /\ \A j \in RowsOf(p) : i <= j
        BY <3>2 DEF RowsOf
      <4>2. m \in RowsOf(p) /\ \A j \in RowsOf(p) : m <= j
        BY <4>1
      <4>3. m = i
        BY <4>1, <4>2 DEF RowsOf, Ids
      <4>4. Image[p] = db[m].ttl
        BY <4>1 DEF Image
      <4>5. QED
        BY <3>2, <4>3, <4>4
    <3>3. QED
      BY <2>2, <3>1, <3>2 DEF Shows
  <2>4. hash \in [Patterns -> Ttls \cup {None}] /\ Image = [p \in Patterns |-> Image[p]]
    BY <2>1 DEF IInv, TypeOK, RuleSets, Image
  <2>5. QED
    BY <2>3, <2>4
<1>2. QED
  BY <1>1, SpecIInv, PTL
=============================================================================
