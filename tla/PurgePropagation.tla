--------------------------- MODULE PurgePropagation ---------------------------
(***************************************************************************)
(* Purges of one URL across the fleet.   The control plane                 *)
(* (control-plane/src/routes/purge.ts) records it, deletes the shared L2   *)
(* copy, then publishes on Redis; each replica's subscriber thread         *)
(* (RedisCoordinator::subscriberLoop) evicts its L1 copy.  Meanwhile the   *)
(* replicas' threads fill L1 and L2, holding content they obtained before  *)
(* they store it (RequestHandler has the details of a fill).               *)
(*                                                                         *)
(* A copy is the version of the origin's content it was made from.         *)
(***************************************************************************)
EXTENDS Integers, Sequences

CONSTANTS
    Replicas,
    Fillers,     \* threads that fetch, promote or wait
    ReplicaOf,   \* the replica a filler belongs to
    Requests,    \* purge requests the control plane works on at once
    MaxVersion,  \* bound on changes of the origin's content
    MaxPurges    \* bound on purge requests altogether

ASSUME PurgeAssumption ==
    /\ ReplicaOf \in [Fillers -> Replicas]
    /\ MaxVersion \in Nat
    /\ MaxPurges \in Nat

VARIABLES
    version,   \* what the origin serves
    l1,        \* each replica's copy
    l2,        \* the shared copy
    fill,      \* what each filler is doing and the version it holds
    purge,     \* the purge requests the control plane is working on
    purges,    \* how many it has accepted
    sub,       \* whether each replica's subscriber is subscribed
    queue,     \* purge messages on their way to each subscriber
    settled,   \* history: newest settling purge each replica has carried out
    l2Settled  \* history: newest settling purge of L2

purgeVars == <<version, l1, l2, fill, purge, purges, sub, queue, settled, l2Settled>>

NoCopy == -1
Versions == 0..MaxVersion

\* A purge is identified by the version the origin served when it was accepted:
\* older content is what it is meant to remove.  It settles if its L2 deletion
\* succeeded while no filler held older content.
NoPurge == [phase |-> "none", floor |-> 0, settles |-> FALSE]
Idle    == [phase |-> "idle", ver |-> NoCopy]

Larger(m, n) == IF m > n THEN m ELSE n

PurgeInit ==
    /\ version = 0
    /\ l1 = [r \in Replicas |-> NoCopy]
    /\ l2 = NoCopy
    /\ fill = [f \in Fillers |-> Idle]
    /\ purge = [q \in Requests |-> NoPurge]
    /\ purges = 0
    /\ sub = [r \in Replicas |-> FALSE]
    /\ queue = [r \in Replicas |-> <<>>]
    /\ settled = [r \in Replicas |-> 0]
    /\ l2Settled = 0

\* The phases in which a filler leads: its response is, or will be, in the registry's
\* slot, which others can join until it is published.
Leading == {"fetched", "promote", "l2put", "publish"}

Leads(f, r) == ReplicaOf[f] = r /\ fill[f].phase \in Leading

history == <<settled, l2Settled>>
cpVars  == <<purge, purges>>
busVars == <<sub, queue>>

-----------------------------------------------------------------------------
(* Fills.  A miss or a stale hit can happen whatever L1 holds: its copy may *)
(* have expired.                                                           *)

\* The origin answers a leader or a background revalidation, of which a replica has
\* one at a time.  The answer may still be on the wire: the filler holds it from here on.
FetchOrigin(f) ==
    /\ fill[f] = Idle
    /\ \A g \in Fillers : ~Leads(g, ReplicaOf[f])
    /\ fill' = [fill EXCEPT ![f] = [phase |-> "fetched", ver |-> version]]
    /\ UNCHANGED <<version, l1, l2, cpVars, busVars, history>>

\* The leader finds a copy in L2.
ReadL2(f) ==
    /\ fill[f] = Idle
    /\ \A g \in Fillers : ~Leads(g, ReplicaOf[f])
    /\ l2 # NoCopy
    /\ fill' = [fill EXCEPT ![f] = [phase |-> "promote", ver |-> l2]]
    /\ UNCHANGED <<version, l1, l2, cpVars, busVars, history>>

\* A waiter joins its replica's leader, whose response it will get.  It can do so until
\* the leader publishes, after its stores too.
Coalesce(f, g) ==
    /\ fill[f] = Idle
    /\ Leads(g, ReplicaOf[f])
    /\ fill' = [fill EXCEPT ![f] = [phase |-> "waiting", ver |-> fill[g].ver]]
    /\ UNCHANGED <<version, l1, l2, cpVars, busVars, history>>

\* cache.put; only content fetched from the origin goes on to L2.  A waiter that has
\* stored is done.
StoreL1(f) ==
    /\ fill[f].phase \in {"fetched", "promote", "coalesced"}
    /\ l1' = [l1 EXCEPT ![ReplicaOf[f]] = fill[f].ver]
    /\ fill' = [fill EXCEPT ![f] = CASE @.phase = "fetched"   -> [@ EXCEPT !.phase = "l2put"]
                                     [] @.phase = "promote"   -> [@ EXCEPT !.phase = "publish"]
                                     [] @.phase = "coalesced" -> Idle]
    /\ UNCHANGED <<version, l2, cpVars, busVars, history>>

\* l2_->put succeeds or fails.
StoreL2(f) ==
    /\ fill[f].phase = "l2put"
    /\ l2' \in {fill[f].ver, l2}
    /\ fill' = [fill EXCEPT ![f].phase = "publish"]
    /\ UNCHANGED <<version, l1, cpVars, busVars, history>>

\* The rules in force do not let the thread cache what it holds.  Those in force when a
\* waiter decides may.
NotCacheable(f) ==
    /\ fill[f].phase \in {"fetched", "coalesced"}
    /\ fill' = [fill EXCEPT ![f] = IF @.phase = "fetched" THEN [@ EXCEPT !.phase = "publish"]
                                                          ELSE Idle]
    /\ UNCHANGED <<version, l1, l2, cpVars, busVars, history>>

\* inflight_.publish: the slot leaves the registry and the leader's waiters wake up with
\* the response, which they may store however much later.
PublishSlot(f) ==
    /\ fill[f].phase = "publish"
    /\ fill' = [g \in Fillers |->
                  IF g = f THEN Idle
                  ELSE IF ReplicaOf[g] = ReplicaOf[f] /\ fill[g].phase = "waiting"
                       THEN [fill[g] EXCEPT !.phase = "coalesced"] ELSE fill[g]]
    /\ UNCHANGED <<version, l1, l2, cpVars, busVars, history>>

\* A copy expires or is evicted.
ForgetL1(r) ==
    /\ l1[r] # NoCopy
    /\ l1' = [l1 EXCEPT ![r] = NoCopy]
    /\ UNCHANGED <<version, l2, fill, cpVars, busVars, history>>

ForgetL2 ==
    /\ l2 # NoCopy
    /\ l2' = NoCopy
    /\ UNCHANGED <<version, l1, fill, cpVars, busVars, history>>

OriginChanges ==
    /\ version < MaxVersion
    /\ version' = version + 1
    /\ UNCHANGED <<l1, l2, fill, cpVars, busVars, history>>

-----------------------------------------------------------------------------
(* POST /purge.  A crash of the control plane is a failure of every request *)
(* it works on.                                                            *)

\* repo.log has succeeded (if it fails nothing else happens).
PurgeAccepted(q) ==
    /\ purge[q] = NoPurge
    /\ purges < MaxPurges
    /\ purge' = [purge EXCEPT ![q] = [phase |-> "purgeL2", floor |-> version, settles |-> FALSE]]
    /\ purges' = purges + 1
    /\ UNCHANGED <<version, l1, l2, fill, busVars, history>>

PurgeL2(q) ==
    LET floor == purge[q].floor
        settles == \A f \in Fillers : fill[f] # Idle => fill[f].ver >= floor
    IN  /\ purge[q].phase = "purgeL2"
        /\ l2' = NoCopy
        /\ purge' = [purge EXCEPT ![q] = [phase |-> "publish", floor |-> floor,
                                          settles |-> settles]]
        /\ l2Settled' = IF settles THEN Larger(l2Settled, floor) ELSE l2Settled
        /\ UNCHANGED <<version, l1, fill, purges, busVars, settled>>

\* Redis errors are caught and the request goes on.
PurgeL2Fails(q) ==
    /\ purge[q].phase = "purgeL2"
    /\ purge' = [purge EXCEPT ![q].phase = "publish"]
    /\ UNCHANGED <<version, l1, l2, fill, purges, busVars, history>>

\* Redis hands the message to whoever is subscribed at that moment.
Publish(q) ==
    /\ purge[q].phase = "publish"
    /\ queue' = [r \in Replicas |-> IF sub[r] THEN Append(queue[r], purge[q]) ELSE queue[r]]
    /\ purge' = [purge EXCEPT ![q] = NoPurge]
    /\ UNCHANGED <<version, l1, l2, fill, purges, sub, history>>

PublishFails(q) ==
    /\ purge[q].phase = "publish"
    /\ purge' = [purge EXCEPT ![q] = NoPurge]
    /\ UNCHANGED <<version, l1, l2, fill, purges, busVars, history>>

-----------------------------------------------------------------------------
(* subscriberLoop.                                                         *)

Subscribe(r) ==
    /\ ~sub[r]
    /\ sub' = [sub EXCEPT ![r] = TRUE]
    /\ UNCHANGED <<version, l1, l2, fill, cpVars, queue, history>>

\* The connection breaks; what was on its way is lost and never sent again.
Disconnect(r) ==
    /\ sub[r]
    /\ sub' = [sub EXCEPT ![r] = FALSE]
    /\ queue' = [queue EXCEPT ![r] = <<>>]
    /\ UNCHANGED <<version, l1, l2, fill, cpVars, history>>

\* Mutant: the pattern does not match the key it is meant for.
EvictMisses(r) ==
    /\ queue[r] # <<>>
    /\ LET m == Head(queue[r])
       IN  settled' = [settled EXCEPT ![r] = IF m.settles THEN Larger(@, m.floor) ELSE @]
    /\ queue' = [queue EXCEPT ![r] = Tail(@)]
    /\ UNCHANGED <<version, l1, l2, fill, cpVars, sub, l2Settled>>

\* onPurge_
Evict(r) ==
    /\ queue[r] # <<>>
    /\ LET m == Head(queue[r])
       IN  /\ l1' = [l1 EXCEPT ![r] = NoCopy]
           /\ settled' = [settled EXCEPT ![r] = IF m.settles THEN Larger(@, m.floor) ELSE @]
    /\ queue' = [queue EXCEPT ![r] = Tail(@)]
    /\ UNCHANGED <<version, l2, fill, cpVars, sub, l2Settled>>

PurgeNext ==
    \/ \E f \in Fillers : \/ FetchOrigin(f) \/ ReadL2(f) \/ StoreL1(f) \/ StoreL2(f)
                          \/ NotCacheable(f) \/ PublishSlot(f)
    \/ \E f, g \in Fillers : Coalesce(f, g)
    \/ \E r \in Replicas : ForgetL1(r) \/ Subscribe(r) \/ Disconnect(r) \/ Evict(r)
    \/ ForgetL2 \/ OriginChanges
    \/ \E q \in Requests :
         PurgeAccepted(q) \/ PurgeL2(q) \/ PurgeL2Fails(q) \/ Publish(q) \/ PublishFails(q)

PurgeSpec == PurgeInit /\ [][PurgeNext]_purgeVars

-----------------------------------------------------------------------------
Copies == Versions \cup {NoCopy}
Held == [phase : Leading \cup {"waiting", "coalesced"}, ver : Versions]
Messages == [phase : {"publish"}, floor : Versions, settles : BOOLEAN]

TypeOK ==
    /\ version \in Versions
    /\ l1 \in [Replicas -> Copies]
    /\ l2 \in Copies
    /\ fill \in [Fillers -> {Idle} \cup Held]
    /\ purge \in [Requests -> [phase : {"none", "purgeL2", "publish"}, floor : Versions,
                               settles : BOOLEAN]]
    /\ purges \in 0..MaxPurges
    /\ sub \in [Replicas -> BOOLEAN]
    /\ queue \in [Replicas -> Seq(Messages)]
    /\ settled \in [Replicas -> Versions]
    /\ l2Settled \in Versions

\* When a purge can be relied on: if its L2 deletion succeeded and at that moment no
\* thread of any replica, from the origin's answer until it has published or, woken by
\* its leader, stored, was holding older content, then a replica that has
\* evicted never again has a purged copy in L1, whatever other replicas still hold
\* in their L1 or have missed, and neither has L2.  This is what deleting L2 before
\* publishing is for.
SettledPurgeHolds ==
    /\ \A r \in Replicas : l1[r] # NoCopy => l1[r] >= settled[r]
    /\ l2 # NoCopy => l2 >= l2Settled

=============================================================================
