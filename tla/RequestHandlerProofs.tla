------------------------- MODULE RequestHandlerProofs -------------------------
(***************************************************************************)
(* The request handler, composed with the registry and the breaker, for    *)
(* any number of workers, background threads, keys and slots.  What is     *)
(* proved of the registry and of the breaker alone is used through the     *)
(* module of their proofs.                                                 *)
(***************************************************************************)
EXTENDS RequestHandler, TLAPS

Guards == INSTANCE OriginGuardsProofs WITH Callers <- Actors

-----------------------------------------------------------------------------
(* The invariant's parts.                                                  *)

\* How long after the origin sent it a response may still be stored with a full
\* ttl, if no thread is delayed.
Grace == IF L2Enabled THEN TTL - 1 ELSE 0

Contents == [kind : {"content"}, ver : Versions, fetched : Times]

\* A response that is on its way to a waiter, or in a waiter's hands to be stored.
Young(r) ==
    /\ r \in Responses
    /\ r.kind = "content" /\ PromptThreads => now <= r.fetched + Grace

\* A response the origin sent while the clock stood still.
JustFetched(r) == r \in Contents /\ (PromptThreads => r.fetched = now)

\* An entry that may be in a tier, or promoted from one: it expires within limit of
\* when the origin sent it.
Sound(e, limit) ==
    /\ e \in Entries
    /\ e.ver \notin Uncacheable
    /\ e.storedAt <= now
    /\ PromptThreads => e.storedAt + e.ttl <= e.fetched + limit

L1Sound == \A k \in Keys : l1[k] # NoEntry => Sound(l1[k], TTL + Grace)
L2Sound == \A k \in Keys : l2[k] # NoEntry => Sound(l2[k], TTL)

Leads(a) == acq[a].role = "leader" /\ acq[a].key = req[a] /\ req[a] \in Keys

\* What an actor holds of the registry at each point of process().
RoleAt(a) ==
    /\ pc[a] \in {"idle", "trigger", "acquire", "waiterStore"} => acq[a] = IFR!NoAcq
    /\ pc[a] = "idle" => req[a] = NoKey
    /\ pc[a] \in {"trigger", "acquire", "waiting", "waiterStore"} => req[a] \in Keys
    /\ pc[a] \in {"l2get", "promote", "store", "l2put", "unlink"} => Leads(a)
    /\ pc[a] \in {"admit", "origin"} => Leads(a) \/ (req[a] = NoKey /\ acq[a] = IFR!NoAcq)
    /\ pc[a] = "deliver" => acq[a].role = "publishing"
    /\ pc[a] = "waiting" => acq[a].role = "waiter"

\* What it carries.
CarriesAt(a) ==
    /\ pc[a] \in {"l2get", "promote", "l2put"} => L2Enabled
    /\ pc[a] = "promote" => Sound(resp[a], TTL) /\ (PromptThreads => resp[a].storedAt = now)
    /\ pc[a] \in {"store", "l2put"} => JustFetched(resp[a])
    /\ pc[a] = "l2put" => resp[a].ver \notin Uncacheable
    /\ pc[a] \in {"unlink", "deliver", "waiterStore"} => Young(resp[a])
    /\ pc[a] = "waiterStore" => resp[a].kind = "content"
    /\ pc[a] = "waiting" /\ slot[acq[a].slot].ready /\ slot[acq[a].slot].success =>
         Young(slot[acq[a].slot].response) /\ slot[acq[a].slot].response.kind = "content"

\* The part of TypeOK that is about the handler's own variables.
OwnTypes ==
    /\ pc \in [Actors -> {"idle", "trigger", "acquire", "l2get", "promote", "admit",
                          "origin", "store", "l2put", "unlink", "deliver", "waiting",
                          "waiterStore"}]
    /\ req \in [Actors -> Keys \cup {NoKey}]
    /\ resp \in [Actors -> Responses \cup Entries \cup {NoResponse}]
    /\ l1 \in [Keys -> Entries \cup {NoEntry}]
    /\ l2 \in [Keys -> Entries \cup {NoEntry}]
    /\ now \in Times
    /\ version \in Versions
    /\ redisHung \in BOOLEAN

ActorsSound == \A a \in Actors : RoleAt(a) /\ CarriesAt(a)

\* The inductive invariant.  OneFetchPerKey is not inductive: that two actors fetch
\* the same key is excluded by what RoleAt ties each point of process() to, a lead in
\* the registry, and by the registry's own invariant.  OnlyCacheableStored needs to
\* know what is carried, by actors and by the slots waiters will read (CarriesAt);
\* FreshContentAge needs in addition how old that is, since storing dates it anew.
IInv ==
    /\ OwnTypes
    /\ Guards!RegistryInv
    /\ Guards!BreakerInv
    /\ L1Sound
    /\ L2Sound
    /\ ActorsSound
    /\ BreakerSeesEveryFetch

-----------------------------------------------------------------------------
(* The registry, as it is used here, is the one of InFlightRegistryProofs. *)

LEMMA RegistryConstants == Guards!RegistryAssumption
BY ValuesAssumption DEF Guards!RegistryAssumption

LEMMA BreakerConstants == Guards!ConstantsAssumption
BY BreakerAssumption DEF Guards!ConstantsAssumption, IsFiniteSet, Guards!IsFiniteSet

LEMMA RegistryInit == IFR!Init => Guards!RegistryInv
<1>1. IFR!Init => Guards!Init
  BY DEF IFR!Init, Guards!Init, IFR!EmptySlot, Guards!EmptySlot, IFR!NoAcq, Guards!NoAcq
<1>2. QED
  BY <1>1, Guards!RegistryInitInv, RegistryConstants, BreakerConstants

LEMMA RegistryNext ==
    ASSUME Guards!RegistryInv, [IFR!Next]_ifVars
    PROVE  Guards!RegistryInv'
<1> USE DEF IFR!Release, Guards!Release, IFR!NoAcq, Guards!NoAcq, IFR!EmptySlot, Guards!EmptySlot
<1>1. ASSUME NEW a \in Actors, NEW k \in Keys, IFR!Lead(a, k) PROVE Guards!Lead(a, k)
  BY <1>1 DEF IFR!Lead, Guards!Lead, IFR!FreeSlots, Guards!FreeSlots, IFR!Referenced, Guards!Referenced
<1>2. ASSUME NEW a \in Actors, NEW k \in Keys, IFR!Join(a, k) PROVE Guards!Join(a, k)
  BY <1>2 DEF IFR!Join, Guards!Join
<1>3. ASSUME NEW k \in Keys, IFR!Decline(k) PROVE Guards!Decline(k)
  BY <1>3 DEF IFR!Decline, Guards!Decline, IFR!ifVars, Guards!ifVars
<1>4. ASSUME NEW a \in Actors, IFR!Unlink(a) PROVE Guards!Unlink(a)
  BY <1>4 DEF IFR!Unlink, Guards!Unlink
<1>5. ASSUME NEW a \in Actors, IFR!Collect(a) PROVE Guards!Collect(a)
  BY <1>5 DEF IFR!Collect, Guards!Collect
<1>6. ASSUME NEW a \in Actors, NEW r \in Responses, NEW ok \in BOOLEAN, IFR!Deliver(a, r, ok)
      PROVE  Guards!Deliver(a, r, ok)
  BY <1>6 DEF IFR!Deliver, Guards!Deliver
<1>7. [Guards!Next]_(Guards!ifVars)
  BY <1>1, <1>2, <1>3, <1>4, <1>5, <1>6 DEF IFR!Next, Guards!Next, ifVars, Guards!ifVars
<1>8. QED
  BY <1>7, Guards!RegistryNextInv, RegistryConstants, BreakerConstants


\* What the registry's operations do to an actor's acquisition, and that they
\* leave the others', and the slots these wait on, alone.
OthersKeep(a) ==
    \A b \in Actors \ {a} :
        /\ acq'[b] = acq[b]
        /\ acq[b].role = "waiter" => slot'[acq[b].slot] = slot[acq[b].slot]

\* An actor with a role has a key and a slot.
LEMMA WaiterSlot ==
    ASSUME Guards!RegistryInv, NEW b \in Actors, acq[b].role # "none"
    PROVE  acq[b].slot \in Slots /\ acq[b].key \in Keys
BY DEF Guards!RegistryInv, Guards!AcqShape, Guards!NoAcq

LEMMA LeadFacts ==
    ASSUME Guards!RegistryInv, NEW a \in Actors, NEW k \in Keys, IFR!Lead(a, k)
    PROVE  /\ acq[a] = IFR!NoAcq
           /\ acq'[a].role = "leader" /\ acq'[a].key = k
           /\ OthersKeep(a)
<1>1. PICK s \in Slots :
        /\ \A b \in Actors : acq[b].slot # s
        /\ slot' = [slot EXCEPT ![s] = IFR!EmptySlot]
        /\ acq' = [acq EXCEPT ![a] = [role |-> "leader", key |-> k, slot |-> s]]
  BY DEF IFR!Lead, IFR!FreeSlots, IFR!Referenced
<1>2. acq[a] = IFR!NoAcq
  BY DEF IFR!Lead
<1>3. acq'[a] = [role |-> "leader", key |-> k, slot |-> s] /\ \A b \in Actors \ {a} : acq'[b] = acq[b]
  BY <1>1 DEF Guards!RegistryInv, Guards!TypeOK
<1>4. \A b \in Actors : acq[b].role = "waiter" => slot'[acq[b].slot] = slot[acq[b].slot]
  BY <1>1, WaiterSlot DEF Guards!RegistryInv, Guards!TypeOK
<1>5. QED
  BY <1>2, <1>3, <1>4 DEF OthersKeep

LEMMA JoinFacts ==
    ASSUME Guards!RegistryInv, NEW a \in Actors, NEW k \in Keys, IFR!Join(a, k)
    PROVE  /\ acq'[a].role = "waiter" /\ ~slot'[acq'[a].slot].ready
           /\ OthersKeep(a)
<1>1. /\ acq' = [acq EXCEPT ![a] = [role |-> "waiter", key |-> k, slot |-> inflight[k]]]
      /\ slot' = slot /\ inflight[k] # NoSlot
  BY DEF IFR!Join
<1>2. /\ acq'[a] = [role |-> "waiter", key |-> k, slot |-> inflight[k]]
      /\ \A b \in Actors \ {a} : acq'[b] = acq[b]
  BY <1>1 DEF Guards!RegistryInv, Guards!TypeOK
<1>3. PICK b \in Actors : acq[b] = [role |-> "leader", key |-> k, slot |-> inflight[k]]
  BY <1>1 DEF Guards!RegistryInv, Guards!LeadersMatchMap
<1>4. ~slot[inflight[k]].ready
  BY <1>3 DEF Guards!RegistryInv, Guards!OneProducer, Guards!Producing
<1>5. QED
  BY <1>1, <1>2, <1>4 DEF OthersKeep

LEMMA UnlinkFacts ==
    ASSUME Guards!RegistryInv, NEW a \in Actors, IFR!Unlink(a)
    PROVE  acq'[a].role = "publishing" /\ OthersKeep(a)
<1>1. acq[a].role = "leader" /\ acq[a].slot \in Slots /\ acq[a].key \in Keys
  BY WaiterSlot DEF IFR!Unlink
<1>2. inflight[acq[a].key] = acq[a].slot
  BY <1>1 DEF Guards!RegistryInv, Guards!LeadersMatchMap
<1>3. inflight[acq[a].key] # NoSlot
  BY <1>1, <1>2, ValuesAssumption
<1>4. /\ slot' = slot
      /\ acq' = [acq EXCEPT ![a].role = "publishing", ![a].slot = acq[a].slot]
  BY <1>2, <1>3 DEF IFR!Unlink
<1>5. acq[a] \in [role : Guards!Roles, key : Keys, slot : Slots]
  BY <1>1 DEF Guards!RegistryInv, Guards!TypeOK, Guards!NoAcq
<1>6. QED
  BY <1>4, <1>5 DEF OthersKeep, Guards!RegistryInv, Guards!TypeOK

LEMMA DeliverFacts ==
    ASSUME Guards!RegistryInv, NEW a \in Actors, NEW r, NEW ok, IFR!Deliver(a, r, ok)
    PROVE  /\ acq'[a] = IFR!NoAcq
           /\ \A b \in Actors \ {a} :
                /\ acq'[b] = acq[b]
                /\ acq[b].role = "waiter" =>
                     \/ slot'[acq[b].slot] = slot[acq[b].slot]
                     \/ slot'[acq[b].slot] = [ready |-> TRUE, success |-> ok, response |-> r]
<1> DEFINE value == [ready |-> TRUE, success |-> ok, response |-> r]
           slots == [slot EXCEPT ![acq[a].slot] = value]
<1>1. acq[a].slot \in Slots /\ IFR!Release(a, slots)
  BY WaiterSlot DEF IFR!Deliver
<1>2. acq' = [acq EXCEPT ![a] = IFR!NoAcq]
  BY <1>1 DEF IFR!Release
<1>3. acq'[a] = IFR!NoAcq /\ \A b \in Actors \ {a} : acq'[b] = acq[b]
  BY <1>2 DEF Guards!RegistryInv, Guards!TypeOK
<1>4. \/ slot' = slots
      \/ /\ slot' = [slots EXCEPT ![acq[a].slot] = IFR!EmptySlot]
         /\ \A b \in Actors \ {a} : acq[b].slot # acq[a].slot
  BY <1>1 DEF IFR!Release
<1>5. ASSUME NEW b \in Actors \ {a}, acq[b].role = "waiter"
      PROVE  \/ slot'[acq[b].slot] = slot[acq[b].slot]
             \/ slot'[acq[b].slot] = value
  <2>1. acq[b].slot \in Slots
    BY <1>5, WaiterSlot
  <2>2. QED
    BY <2>1, <1>1, <1>4 DEF Guards!RegistryInv, Guards!TypeOK
<1>6. QED
  BY <1>3, <1>5

LEMMA CollectFacts ==
    ASSUME Guards!RegistryInv, NEW a \in Actors, IFR!Collect(a)
    PROVE  acq'[a] = IFR!NoAcq /\ OthersKeep(a)
<1>1. acq[a].slot \in Slots /\ IFR!Release(a, slot)
  BY WaiterSlot DEF IFR!Collect
<1>2. acq' = [acq EXCEPT ![a] = IFR!NoAcq]
  BY <1>1 DEF IFR!Release
<1>3. acq'[a] = IFR!NoAcq /\ \A b \in Actors \ {a} : acq'[b] = acq[b]
  BY <1>2 DEF Guards!RegistryInv, Guards!TypeOK
<1>4. \/ slot' = slot
      \/ /\ slot' = [slot EXCEPT ![acq[a].slot] = IFR!EmptySlot]
         /\ \A b \in Actors \ {a} : acq[b].slot # acq[a].slot
  BY <1>1 DEF IFR!Release
<1>5. ASSUME NEW b \in Actors \ {a}, acq[b].role = "waiter"
      PROVE  slot'[acq[b].slot] = slot[acq[b].slot]
  <2>1. acq[b].slot \in Slots
    BY <1>5, WaiterSlot
  <2>2. QED
    BY <2>1, <1>1, <1>4 DEF Guards!RegistryInv, Guards!TypeOK
<1>6. QED
  BY <1>3, <1>5 DEF OthersKeep

-----------------------------------------------------------------------------
(* The invariant is inductive, action by action.                           *)

\* A step of one actor that holds the clock.
LEMMA OneMoves ==
    ASSUME ActorsSound, NEW a \in Actors, now' = now,
           \A b \in Actors \ {a} : /\ pc'[b] = pc[b]
                                   /\ req'[b] = req[b]
                                   /\ resp'[b] = resp[b],
           OthersKeep(a), RoleAt(a)', CarriesAt(a)'
    PROVE  ActorsSound'
<1>1. SUFFICES ASSUME NEW b \in Actors \ {a} PROVE RoleAt(b)' /\ CarriesAt(b)'
  BY DEF ActorsSound
<1>2. /\ RoleAt(b) /\ CarriesAt(b)
      /\ pc'[b] = pc[b] /\ req'[b] = req[b] /\ resp'[b] = resp[b] /\ acq'[b] = acq[b]
      /\ acq[b].role = "waiter" => slot'[acq[b].slot] = slot[acq[b].slot]
  BY <1>1 DEF ActorsSound, OthersKeep
<1>3. RoleAt(b)'
  BY <1>2 DEF RoleAt, Leads
<1>4. CarriesAt(b)'
  BY <1>2 DEF RoleAt, CarriesAt, Sound, JustFetched, Young
<1>5. QED
  BY <1>3, <1>4

\* An actor that leaves the registry alone.
LEMMA RegistryAlone ==
    ASSUME UNCHANGED ifVars, NEW a \in Actors
    PROVE  OthersKeep(a)
BY DEF ifVars, OthersKeep

LEMMA InitIInv == Init => IInv
<1> SUFFICES ASSUME Init PROVE IInv
  OBVIOUS
<1>1. Guards!RegistryInv
  BY RegistryInit DEF Init
<1>2. Guards!BreakerInv
  <2>1. Guards!CBInit
    BY DEF Init, CB!CBInit, Guards!CBInit
  <2>2. QED
    BY <2>1, Guards!BreakerInitInv, BreakerConstants, RegistryConstants
<1>3. OwnTypes
  <2>1. now \in Times /\ version \in Versions
    BY HandlerAssumption DEF Init, Times, Versions
  <2>2. QED
    BY <2>1 DEF Init, OwnTypes
<1>4. L1Sound /\ L2Sound
  BY DEF Init, L1Sound, L2Sound
<1>5. ActorsSound
  BY DEF Init, ActorsSound, RoleAt, CarriesAt, IFR!Init
<1>6. BreakerSeesEveryFetch
  BY DEF Init, CB!CBInit, BreakerSeesEveryFetch
<1>7. QED
  BY <1>1, <1>2, <1>3, <1>4, <1>5, <1>6 DEF IInv

\* What the steps of Own are responsible for: everything but the registry and the
\* breaker.
Own ==
    /\ OwnTypes
    /\ L1Sound
    /\ L2Sound
    /\ ActorsSound
    /\ BreakerSeesEveryFetch

\* A step of one actor that leaves the caches and the clock alone.
LEMMA ActorStep ==
    ASSUME IInv, NEW a \in Actors, OwnTypes',
           l1' = l1, l2' = l2, now' = now,
           \A b \in Actors \ {a} : /\ pc'[b] = pc[b]
                                   /\ req'[b] = req[b]
                                   /\ resp'[b] = resp[b],
           OthersKeep(a), RoleAt(a)', CarriesAt(a)', BreakerSeesEveryFetch'
    PROVE  Own'
<1>1. L1Sound' /\ L2Sound'
  BY DEF IInv, L1Sound, L2Sound, Sound
<1>2. ActorsSound'
  BY OneMoves DEF IInv
<1>3. QED
  BY <1>1, <1>2 DEF Own

\* The breaker's view does not change when no fetch begins or ends.
LEMMA NoFetchMoves ==
    ASSUME IInv, NEW a \in Actors, pc[a] # "origin", pc'[a] # "origin",
           \A b \in Actors \ {a} : pc'[b] = pc[b], fetching' = fetching
    PROVE  BreakerSeesEveryFetch'
BY DEF IInv, BreakerSeesEveryFetch

LEMMA LookupOwn ==
    ASSUME IInv, NEW w \in Workers, NEW k \in Keys, Lookup(w, k)
    PROVE  Own'
<1> USE DEF IInv
<1>1. w \in Actors /\ pc[w] = "idle"
  BY DEF Lookup, Actors
<1>2. /\ pc'[w] \in {"trigger", "acquire"} /\ req'[w] = k
      /\ \A b \in Actors \ {w} : pc'[b] = pc[b] /\ req'[b] = req[b]
      /\ UNCHANGED <<resp, l1, l2, now, version, redisHung, ifVars, cbVars>>
  BY <1>1 DEF Lookup, Goto, OwnTypes
<1>3. OwnTypes'
  BY <1>1 DEF Lookup, Goto, OwnTypes
<1>4. RoleAt(w)' /\ CarriesAt(w)'
  BY <1>1, <1>2 DEF RoleAt, CarriesAt, ActorsSound, ifVars
<1>5. BreakerSeesEveryFetch'
  BY <1>1, <1>2, NoFetchMoves DEF cbVars
<1>6. QED
  BY <1>1, <1>2, <1>3, <1>4, <1>5, RegistryAlone, ActorStep

LEMMA PassOwn ==
    ASSUME IInv, NEW w \in Workers, Pass(w)
    PROVE  Own'
<1> USE DEF IInv
<1>1. w \in Actors /\ pc[w] = "idle" /\ RoleAt(w)
  BY DEF Pass, Actors, ActorsSound
<1>2. /\ pc'[w] = "admit"
      /\ \A b \in Actors \ {w} : pc'[b] = pc[b]
      /\ UNCHANGED <<req, resp, l1, l2, now, version, redisHung, ifVars, cbVars>>
  BY <1>1 DEF Pass, Goto, OwnTypes
<1>3. OwnTypes'
  BY <1>1 DEF Pass, Goto, OwnTypes
<1>4. RoleAt(w)' /\ CarriesAt(w)'
  BY <1>1, <1>2 DEF RoleAt, CarriesAt, ifVars
<1>5. BreakerSeesEveryFetch'
  BY <1>1, <1>2, NoFetchMoves DEF cbVars
<1>6. QED
  BY <1>1, <1>2, <1>3, <1>4, <1>5, RegistryAlone, ActorStep

\* Two actors move: the worker goes back to idle, the new thread leads.
LEMMA TriggerOwn ==
    ASSUME IInv, NEW w \in Workers, NEW t \in Tasks, Trigger(w, t)
    PROVE  Own'
<1> USE DEF IInv
<1>1. /\ w \in Actors /\ t \in Actors /\ w # t
      /\ pc[w] = "trigger" /\ RoleAt(w) /\ req[w] \in Keys /\ acq[w] = IFR!NoAcq
      /\ pc[t] = "idle"
  BY DEF Trigger, Actors, ActorsSound, RoleAt
<1>2. /\ pc'[w] = "idle" /\ pc'[t] = "admit"
      /\ req'[w] = NoKey /\ req'[t] = req[w]
      /\ \A b \in Actors \ {w, t} : pc'[b] = pc[b] /\ req'[b] = req[b]
      /\ UNCHANGED <<resp, l1, l2, now, version, redisHung, cbVars>>
  BY <1>1 DEF Trigger, OwnTypes
<1>3. acq'[t].role = "leader" /\ acq'[t].key = req[w] /\ OthersKeep(t)
  BY <1>1, LeadFacts DEF Trigger
<1>4. OwnTypes'
  BY <1>1 DEF Trigger, OwnTypes
<1>5. L1Sound' /\ L2Sound'
  BY <1>2 DEF L1Sound, L2Sound, Sound
<1>6. RoleAt(t)' /\ CarriesAt(t)'
  BY <1>1, <1>2, <1>3 DEF RoleAt, CarriesAt, Leads
<1>7. RoleAt(w)' /\ CarriesAt(w)'
  BY <1>1, <1>2, <1>3 DEF RoleAt, CarriesAt, OthersKeep
<1>8. ASSUME NEW b \in Actors \ {w, t} PROVE RoleAt(b)' /\ CarriesAt(b)'
  <2>1. /\ RoleAt(b) /\ CarriesAt(b) /\ acq'[b] = acq[b]
        /\ acq[b].role = "waiter" => slot'[acq[b].slot] = slot[acq[b].slot]
    BY <1>3, <1>8 DEF ActorsSound, OthersKeep
  <2>2. QED
    BY <1>2, <1>8, <2>1 DEF RoleAt, CarriesAt, Leads, Sound, JustFetched, Young
<1>9. ActorsSound'
  BY <1>6, <1>7, <1>8 DEF ActorsSound
<1>10. BreakerSeesEveryFetch'
  BY <1>1, <1>2 DEF BreakerSeesEveryFetch, cbVars
<1>11. QED
  BY <1>4, <1>5, <1>9, <1>10 DEF Own

LEMMA TriggerNotLeaderOwn ==
    ASSUME IInv, NEW w \in Workers, TriggerNotLeader(w)
    PROVE  Own'
<1> USE DEF IInv
<1>1. w \in Actors /\ pc[w] = "trigger" /\ RoleAt(w)
  BY DEF TriggerNotLeader, Actors, ActorsSound
<1>2. /\ pc'[w] = "idle" /\ req'[w] = NoKey
      /\ \A b \in Actors \ {w} : pc'[b] = pc[b] /\ req'[b] = req[b] /\ resp'[b] = resp[b]
      /\ UNCHANGED <<l1, l2, now, version, redisHung, ifVars, cbVars>>
  BY <1>1 DEF TriggerNotLeader, IFR!Decline, IFR!ifVars, ifVars, Finish, OwnTypes
<1>3. OwnTypes'
  BY <1>1 DEF TriggerNotLeader, Finish, OwnTypes
<1>4. RoleAt(w)' /\ CarriesAt(w)'
  BY <1>1, <1>2 DEF RoleAt, CarriesAt, ifVars
<1>5. BreakerSeesEveryFetch'
  BY <1>1, <1>2, NoFetchMoves DEF cbVars
<1>6. QED
  BY <1>1, <1>2, <1>3, <1>4, <1>5, RegistryAlone, ActorStep

LEMMA AcquireLeadOwn ==
    ASSUME IInv, NEW w \in Workers, AcquireLead(w)
    PROVE  Own'
<1> USE DEF IInv
<1>1. w \in Actors /\ pc[w] = "acquire" /\ RoleAt(w) /\ req[w] \in Keys
  BY DEF AcquireLead, Actors, ActorsSound, RoleAt
<1>2. /\ pc'[w] \in {"l2get", "admit"} /\ (pc'[w] = "l2get" => L2Enabled)
      /\ \A b \in Actors \ {w} : pc'[b] = pc[b]
      /\ UNCHANGED <<req, resp, l1, l2, now, version, redisHung, cbVars>>
  BY <1>1 DEF AcquireLead, Goto, OwnTypes
<1>3. acq'[w].role = "leader" /\ acq'[w].key = req[w] /\ OthersKeep(w)
  BY <1>1, LeadFacts DEF AcquireLead
<1>4. OwnTypes'
  BY <1>1 DEF AcquireLead, Goto, OwnTypes
<1>5. RoleAt(w)' /\ CarriesAt(w)'
  BY <1>1, <1>2, <1>3 DEF RoleAt, CarriesAt, Leads
<1>6. BreakerSeesEveryFetch'
  BY <1>1, <1>2, NoFetchMoves DEF cbVars
<1>7. QED
  BY <1>1, <1>2, <1>3, <1>4, <1>5, <1>6, ActorStep

LEMMA AcquireJoinOwn ==
    ASSUME IInv, NEW w \in Workers, AcquireJoin(w)
    PROVE  Own'
<1> USE DEF IInv
<1>1. w \in Actors /\ pc[w] = "acquire" /\ RoleAt(w) /\ req[w] \in Keys
  BY DEF AcquireJoin, Actors, ActorsSound, RoleAt
<1>2. /\ pc'[w] = "waiting"
      /\ \A b \in Actors \ {w} : pc'[b] = pc[b]
      /\ UNCHANGED <<req, resp, l1, l2, now, version, redisHung, cbVars>>
  BY <1>1 DEF AcquireJoin, Goto, OwnTypes
<1>3. acq'[w].role = "waiter" /\ ~slot'[acq'[w].slot].ready /\ OthersKeep(w)
  BY <1>1, JoinFacts DEF AcquireJoin
<1>4. OwnTypes'
  BY <1>1 DEF AcquireJoin, Goto, OwnTypes
<1>5. RoleAt(w)' /\ CarriesAt(w)'
  BY <1>1, <1>2, <1>3 DEF RoleAt, CarriesAt, Leads
<1>6. BreakerSeesEveryFetch'
  BY <1>1, <1>2, NoFetchMoves DEF cbVars
<1>7. QED
  BY <1>1, <1>2, <1>3, <1>4, <1>5, <1>6, ActorStep

\* l2_->get hands out what is left of an entry's life.
LEMMA PromotedSound ==
    ASSUME IInv, NEW k \in Keys, L2Live(k)
    PROVE  /\ Sound(Promoted(k), TTL)
           /\ Promoted(k).storedAt = now
<1> DEFINE e == l2[k]
<1>1. e \in Entries /\ Sound(e, TTL) /\ now \in Times /\ now - e.storedAt < e.ttl
  BY DEF IInv, OwnTypes, L2Sound, L2Live, Age, Sound
<1>2. /\ e.storedAt \in Nat /\ e.fetched \in Nat /\ e.ttl \in Nat
      /\ e.ttl <= TTL /\ e.storedAt <= now /\ now \in Nat /\ TTL \in Nat
      /\ PromptThreads => e.storedAt + e.ttl <= e.fetched + TTL
  BY <1>1, HandlerAssumption DEF Sound, Entries, Times
<1>3. e.ttl - (now - e.storedAt) \in 1..TTL
  BY <1>1, <1>2
<1>4. /\ Promoted(k) \in Entries
      /\ Promoted(k).ver = e.ver /\ Promoted(k).fetched = e.fetched
      /\ Promoted(k).storedAt = now /\ Promoted(k).ttl = e.ttl - (now - e.storedAt)
  BY <1>1, <1>3 DEF Promoted, Age, Entries
<1>5. PromptThreads => now + (e.ttl - (now - e.storedAt)) <= e.fetched + TTL
  BY <1>2
<1>6. QED
  BY <1>1, <1>2, <1>4, <1>5 DEF Sound

LEMMA L2HitOwn ==
    ASSUME IInv, NEW w \in Workers, L2Hit(w)
    PROVE  Own'
<1> USE DEF IInv
<1>1. w \in Actors /\ pc[w] = "l2get" /\ RoleAt(w) /\ CarriesAt(w) /\ req[w] \in Keys
  BY DEF L2Hit, Actors, ActorsSound, RoleAt, Leads
<1>2. /\ pc'[w] = "promote" /\ resp'[w] = Promoted(req[w])
      /\ \A b \in Actors \ {w} : pc'[b] = pc[b] /\ resp'[b] = resp[b]
      /\ UNCHANGED <<req, l1, l2, now, version, redisHung, ifVars, cbVars>>
  BY <1>1 DEF L2Hit, Goto, Carry, OwnTypes
<1>3. /\ Sound(Promoted(req[w]), TTL)
      /\ Promoted(req[w]).storedAt = now
  BY <1>1, PromotedSound DEF L2Hit
<1>4. OwnTypes'
  BY <1>1, <1>3 DEF L2Hit, Goto, Carry, OwnTypes, Sound
<1>5. RoleAt(w)'
  BY <1>1, <1>2 DEF RoleAt, Leads, ifVars
<1>6. Sound(resp[w], TTL)' /\ resp'[w].storedAt = now' /\ L2Enabled
  BY <1>1, <1>2, <1>3 DEF Sound, CarriesAt
<1>7. CarriesAt(w)'
  BY <1>2, <1>6 DEF CarriesAt
<1>8. BreakerSeesEveryFetch'
  BY <1>1, <1>2, NoFetchMoves DEF cbVars
<1>9. QED
  BY <1>1, <1>2, <1>4, <1>5, <1>7, <1>8, RegistryAlone, ActorStep

LEMMA L2MissOwn ==
    ASSUME IInv, NEW w \in Workers, L2Miss(w)
    PROVE  Own'
<1> USE DEF IInv
<1>1. w \in Actors /\ pc[w] = "l2get" /\ RoleAt(w)
  BY DEF L2Miss, Actors, ActorsSound
<1>2. /\ pc'[w] = "admit"
      /\ \A b \in Actors \ {w} : pc'[b] = pc[b]
      /\ UNCHANGED <<req, resp, l1, l2, now, version, redisHung, ifVars, cbVars>>
  BY <1>1 DEF L2Miss, Goto, OwnTypes
<1>3. OwnTypes'
  BY <1>1 DEF L2Miss, Goto, OwnTypes
<1>4. RoleAt(w)' /\ CarriesAt(w)'
  BY <1>1, <1>2 DEF RoleAt, CarriesAt, Leads, ifVars
<1>5. BreakerSeesEveryFetch'
  BY <1>1, <1>2, NoFetchMoves DEF cbVars
<1>6. QED
  BY <1>1, <1>2, <1>3, <1>4, <1>5, RegistryAlone, ActorStep

\* A store into a tier.
LEMMA L1Store ==
    ASSUME IInv, NEW k \in Keys, NEW e, Sound(e, TTL + Grace), now' = now,
           l1' = [l1 EXCEPT ![k] = e]
    PROVE  L1Sound'
BY DEF IInv, OwnTypes, L1Sound, Sound

LEMMA L2Store ==
    ASSUME IInv, NEW k \in Keys, NEW e, Sound(e, TTL), now' = now,
           l2' = [l2 EXCEPT ![k] = e]
    PROVE  L2Sound'
BY DEF IInv, OwnTypes, L2Sound, Sound

LEMMA GraceFacts == TTL \in Nat \ {0} /\ Grace \in Nat /\ (L2Enabled => Grace = TTL - 1)
BY HandlerAssumption DEF Grace

LEMMA PromoteOwn ==
    ASSUME IInv, NEW w \in Workers, Promote(w)
    PROVE  Own'
<1> USE DEF IInv
<1> DEFINE e == resp[w]
<1>1. /\ w \in Actors /\ pc[w] = "promote" /\ RoleAt(w) /\ req[w] \in Keys
      /\ L2Enabled /\ Sound(e, TTL) /\ (PromptThreads => e.storedAt = now)
  BY DEF Promote, Actors, ActorsSound, RoleAt, CarriesAt, Leads
<1>2. /\ pc'[w] = "unlink" /\ resp'[w] = Content(e.ver, e.fetched)
      /\ l1' = [l1 EXCEPT ![req[w]] = e]
      /\ \A b \in Actors \ {w} : pc'[b] = pc[b] /\ resp'[b] = resp[b]
      /\ UNCHANGED <<req, l2, now, version, redisHung, ifVars, cbVars>>
  BY <1>1 DEF Promote, Goto, Carry, OwnTypes
<1>3. /\ e \in Entries /\ e.fetched \in Nat /\ e.storedAt \in Nat /\ e.ttl \in Nat
      /\ e.ttl >= 1 /\ now \in Nat
  BY <1>1, HandlerAssumption DEF Sound, Entries, Times, OwnTypes
<1>4. Sound(e, TTL + Grace)
  BY <1>1, <1>3, GraceFacts DEF Sound
<1>5. Content(e.ver, e.fetched) \in Contents /\ Contents \subseteq Responses
  BY <1>3 DEF Content, Contents, Entries, Responses
<1>6. PromptThreads => now <= e.fetched + Grace
  BY <1>1, <1>3, GraceFacts DEF Sound
<1>7. Young(Content(e.ver, e.fetched))
  BY <1>5, <1>6 DEF Young, Content
<1>8. OwnTypes'
  BY <1>1, <1>3, <1>5 DEF Promote, Goto, Carry, OwnTypes
<1>9. RoleAt(w)'
  BY <1>1, <1>2 DEF RoleAt, Leads, ifVars
<1>10. CarriesAt(w)'
  BY <1>2, <1>7 DEF CarriesAt, Young
<1>11. L1Sound'
  BY <1>1, <1>2, <1>4, L1Store
<1>12. L2Sound'
  BY <1>2 DEF L2Sound, Sound
<1>13. ActorsSound'
  BY <1>1, <1>2, <1>9, <1>10, RegistryAlone, OneMoves
<1>14. BreakerSeesEveryFetch'
  BY <1>1, <1>2, NoFetchMoves DEF cbVars
<1>15. QED
  BY <1>8, <1>11, <1>12, <1>13, <1>14 DEF Own

\* What the breaker's operations do to the set of fetches under way.
LEMMA BreakerFetches ==
    ASSUME NEW a \in Actors
    PROVE  /\ CB!Admit(a) => fetching' = fetching \cup {a}
           /\ CB!Reject(a) => fetching' = fetching
           /\ CB!RecordSuccess(a) \/ CB!RecordFailure(a) => fetching' = fetching \ {a}
BY DEF CB!Admit, CB!AdmitClosed, CB!AdmitFirstProbe, CB!AdmitNextProbe, CB!Reject, CB!cbVars,
       CB!RecordSuccess, CB!RecordFailure, CB!Reported

LEMMA AdmitOwn ==
    ASSUME IInv, NEW a \in Actors, Admit(a)
    PROVE  Own'
<1> USE DEF IInv
<1>1. pc[a] = "admit" /\ RoleAt(a) /\ fetching' = fetching \cup {a}
  BY BreakerFetches DEF Admit, ActorsSound
<1>2. /\ pc'[a] = "origin"
      /\ \A b \in Actors \ {a} : pc'[b] = pc[b]
      /\ UNCHANGED <<req, resp, l1, l2, now, version, redisHung, ifVars>>
  BY <1>1 DEF Admit, Goto, OwnTypes
<1>3. OwnTypes'
  BY <1>1 DEF Admit, Goto, OwnTypes
<1>4. RoleAt(a)' /\ CarriesAt(a)'
  BY <1>1, <1>2 DEF RoleAt, CarriesAt, Leads, ifVars
<1>5. BreakerSeesEveryFetch'
  BY <1>1, <1>2 DEF BreakerSeesEveryFetch
<1>6. QED
  BY <1>2, <1>3, <1>4, <1>5, RegistryAlone, ActorStep

\* A failed fetch ends a passed request and is published by a leader.
LEMMA AfterFailureFacts ==
    ASSUME IInv, NEW a \in Actors, pc[a] \in {"admit", "origin"},
           NEW error \in {"e502", "e503"}, AfterFailure(a, error),
           UNCHANGED <<l1, l2, now, version, redisHung, ifVars>>
    PROVE  /\ pc'[a] \in {"idle", "unlink"}
           /\ \A b \in Actors \ {a} : pc'[b] = pc[b] /\ req'[b] = req[b] /\ resp'[b] = resp[b]
           /\ OwnTypes' /\ RoleAt(a)' /\ CarriesAt(a)'
<1> USE DEF IInv
<1>1. RoleAt(a)
  BY DEF ActorsSound
<1>2. CASE req[a] = NoKey
  <2>1. /\ pc'[a] = "idle" /\ req'[a] = NoKey
        /\ \A b \in Actors \ {a} : pc'[b] = pc[b] /\ req'[b] = req[b] /\ resp'[b] = resp[b]
    BY <1>2 DEF AfterFailure, Finish, OwnTypes
  <2>2. acq'[a] = IFR!NoAcq
    BY <1>1, <1>2, ValuesAssumption DEF RoleAt, Leads, ifVars
  <2>3. OwnTypes'
    BY <1>2 DEF AfterFailure, Finish, OwnTypes
  <2>4. RoleAt(a)' /\ CarriesAt(a)'
    BY <2>1, <2>2 DEF RoleAt, CarriesAt
  <2>5. QED
    BY <2>1, <2>3, <2>4
<1>3. CASE req[a] # NoKey
  <2> DEFINE r == Failure(IF a \in Tasks THEN "blank" ELSE error)
  <2>1. /\ pc'[a] = "unlink" /\ req' = req /\ resp'[a] = r
        /\ \A b \in Actors \ {a} : pc'[b] = pc[b] /\ req'[b] = req[b] /\ resp'[b] = resp[b]
    BY <1>3 DEF AfterFailure, Goto, Carry, OwnTypes
  <2>2. r \in Responses /\ r.kind # "content"
    BY DEF Responses, Failure
  <2>3. OwnTypes'
    BY <1>3, <2>2 DEF AfterFailure, Goto, Carry, OwnTypes
  <2>4. RoleAt(a)'
    BY <1>1, <1>3, <2>1 DEF RoleAt, Leads, ifVars
  <2>5. CarriesAt(a)'
    BY <2>1, <2>2 DEF CarriesAt, Young
  <2>6. QED
    BY <2>1, <2>3, <2>4, <2>5
<1>4. QED
  BY <1>2, <1>3

LEMMA FailureOwn ==
    ASSUME IInv, NEW a \in Actors, Rejected(a) \/ FetchFails(a)
    PROVE  Own'
<1>1. /\ \/ pc[a] = "admit" /\ fetching' = fetching
         \/ pc[a] = "origin" /\ fetching' = fetching \ {a}
      /\ AfterFailure(a, "e502") \/ AfterFailure(a, "e503")
      /\ UNCHANGED <<l1, l2, now, version, redisHung, ifVars>>
  BY BreakerFetches DEF Rejected, FetchFails
<1>2. /\ pc'[a] \in {"idle", "unlink"}
      /\ \A b \in Actors \ {a} : pc'[b] = pc[b] /\ req'[b] = req[b] /\ resp'[b] = resp[b]
      /\ OwnTypes' /\ RoleAt(a)' /\ CarriesAt(a)'
  BY <1>1, AfterFailureFacts
<1>3. BreakerSeesEveryFetch'
  BY <1>1, <1>2 DEF IInv, BreakerSeesEveryFetch
<1>4. QED
  BY <1>1, <1>2, <1>3, RegistryAlone, ActorStep

LEMMA FetchSucceedsOwn ==
    ASSUME IInv, NEW a \in Actors, FetchSucceeds(a)
    PROVE  Own'
<1> USE DEF IInv
<1>1. /\ pc[a] = "origin" /\ RoleAt(a) /\ fetching' = fetching \ {a}
      /\ UNCHANGED <<l1, l2, now, version, redisHung, ifVars>>
  BY BreakerFetches DEF FetchSucceeds, ActorsSound
<1>2. CASE req[a] = NoKey
  <2>1. /\ pc'[a] = "idle" /\ req'[a] = NoKey
        /\ \A b \in Actors \ {a} : pc'[b] = pc[b] /\ req'[b] = req[b] /\ resp'[b] = resp[b]
    BY <1>2 DEF FetchSucceeds, Finish, OwnTypes
  <2>2. acq'[a] = IFR!NoAcq
    BY <1>1, <1>2, ValuesAssumption DEF RoleAt, Leads, ifVars
  <2>3. OwnTypes'
    BY <1>2 DEF FetchSucceeds, Finish, OwnTypes
  <2>4. RoleAt(a)' /\ CarriesAt(a)'
    BY <2>1, <2>2 DEF RoleAt, CarriesAt
  <2>5. BreakerSeesEveryFetch'
    BY <1>1, <2>1 DEF BreakerSeesEveryFetch
  <2>6. QED
    BY <1>1, <2>1, <2>3, <2>4, <2>5, RegistryAlone, ActorStep
<1>3. CASE req[a] # NoKey
  <2> DEFINE r == Content(version, now)
  <2>1. /\ pc'[a] = "store" /\ req' = req /\ resp'[a] = r
        /\ \A b \in Actors \ {a} : pc'[b] = pc[b] /\ req'[b] = req[b] /\ resp'[b] = resp[b]
    BY <1>3 DEF FetchSucceeds, Goto, Carry, OwnTypes
  <2>2. r \in Contents /\ r \in Responses /\ r.fetched = now
    BY DEF Content, Contents, Responses, OwnTypes
  <2>3. OwnTypes'
    BY <1>3, <2>2 DEF FetchSucceeds, Goto, Carry, OwnTypes
  <2>4. RoleAt(a)'
    BY <1>1, <1>3, <2>1 DEF RoleAt, Leads, ifVars
  <2>5. CarriesAt(a)'
    BY <1>1, <2>1, <2>2 DEF CarriesAt, JustFetched
  <2>6. BreakerSeesEveryFetch'
    BY <1>1, <2>1 DEF BreakerSeesEveryFetch
  <2>7. QED
    BY <1>1, <2>1, <2>3, <2>4, <2>5, <2>6, RegistryAlone, ActorStep
<1>4. QED
  BY <1>2, <1>3

\* entryFrom dates a response anew, which only a response that is not old enough
\* to exceed the limit may be.
LEMMA EntryFromSound ==
    ASSUME IInv, NEW r \in Contents, r.ver \notin Uncacheable, NEW limit,
           PromptThreads => now + TTL <= r.fetched + limit
    PROVE  Sound(EntryFrom(r), limit)
<1>1. now \in Nat /\ TTL \in 1..TTL
  BY HandlerAssumption DEF IInv, OwnTypes, Times
<1>2. EntryFrom(r) \in Entries
  BY <1>1 DEF EntryFrom, Entries, Contents, IInv, OwnTypes
<1>3. QED
  BY <1>1, <1>2 DEF EntryFrom, Sound

LEMMA ContentResponse ==
    ASSUME NEW r \in Responses, r.kind = "content"
    PROVE  r \in Contents
BY DEF Responses, Contents, Failure

LEMMA ContentTimes ==
    ASSUME NEW r \in Contents
    PROVE  r \in Responses /\ r.kind = "content" /\ r.fetched \in Nat
BY HandlerAssumption DEF Contents, Responses, Times

LEMMA StoreL1Own ==
    ASSUME IInv, NEW a \in Actors, StoreL1(a)
    PROVE  Own'
<1> USE DEF IInv
<1> DEFINE r == resp[a]
<1>1. pc[a] = "store" /\ RoleAt(a) /\ req[a] \in Keys /\ JustFetched(r)
  BY DEF StoreL1, ActorsSound, RoleAt, CarriesAt, Leads
<1>2. /\ pc'[a] \in {"l2put", "unlink"}
      /\ pc'[a] = "l2put" => L2Enabled /\ Cacheable(r)
      /\ \A b \in Actors \ {a} : pc'[b] = pc[b]
      /\ UNCHANGED <<req, resp, l2, now, version, redisHung, ifVars, cbVars>>
  BY <1>1 DEF StoreL1, Goto, OwnTypes
<1>3. r \in Contents /\ r \in Responses /\ r.fetched \in Nat /\ now \in Nat
  BY <1>1, ContentTimes, HandlerAssumption DEF JustFetched, OwnTypes, Times
<1>4. Cacheable(r) => Sound(EntryFrom(r), TTL + Grace)
  <2>1. PromptThreads => now + TTL <= r.fetched + (TTL + Grace)
    BY <1>1, <1>3, GraceFacts DEF JustFetched
  <2>2. QED
    BY <2>1, <1>3, EntryFromSound DEF Cacheable
<1>5. L1Sound'
  <2>1. CASE Cacheable(r)
    BY <2>1, <1>1, <1>2, <1>4, L1Store DEF StoreL1
  <2>2. CASE ~Cacheable(r)
    BY <2>2, <1>2 DEF StoreL1, L1Sound, Sound
  <2>3. QED
    BY <2>1, <2>2
<1>6. Young(r)
  BY <1>1, <1>3, GraceFacts DEF Young, JustFetched
<1>7. OwnTypes'
  <2>1. Cacheable(r) => EntryFrom(r) \in Entries
    BY <1>4 DEF Sound
  <2>2. QED
    BY <1>1, <2>1 DEF StoreL1, Goto, OwnTypes
<1>8. RoleAt(a)'
  BY <1>1, <1>2 DEF RoleAt, Leads, ifVars
<1>9. CarriesAt(a)'
  BY <1>1, <1>2, <1>6 DEF CarriesAt, JustFetched, Young, Cacheable
<1>10. ActorsSound'
  BY <1>2, <1>8, <1>9, RegistryAlone, OneMoves
<1>11. L2Sound'
  BY <1>2 DEF L2Sound, Sound
<1>12. BreakerSeesEveryFetch'
  BY <1>1, <1>2, NoFetchMoves DEF cbVars
<1>13. QED
  BY <1>5, <1>7, <1>10, <1>11, <1>12 DEF Own

LEMMA StoreL2Own ==
    ASSUME IInv, NEW a \in Actors, StoreL2(a)
    PROVE  Own'
<1> USE DEF IInv
<1> DEFINE r == resp[a]
<1>1. /\ pc[a] = "l2put" /\ RoleAt(a) /\ req[a] \in Keys /\ JustFetched(r)
      /\ r.ver \notin Uncacheable
  BY DEF StoreL2, ActorsSound, RoleAt, CarriesAt, Leads
<1>2. /\ pc'[a] = "unlink"
      /\ \A b \in Actors \ {a} : pc'[b] = pc[b]
      /\ UNCHANGED <<req, resp, l1, now, version, redisHung, ifVars, cbVars>>
  BY <1>1 DEF StoreL2, Goto, OwnTypes
<1>3. r \in Contents /\ r \in Responses /\ r.fetched \in Nat /\ now \in Nat
  BY <1>1, ContentTimes, HandlerAssumption DEF JustFetched, OwnTypes, Times
<1>4. Sound(EntryFrom(r), TTL)
  <2>1. PromptThreads => now + TTL <= r.fetched + TTL
    BY <1>1, <1>3, GraceFacts DEF JustFetched
  <2>2. QED
    BY <2>1, <1>1, <1>3, EntryFromSound
<1>5. L2Sound'
  <2>1. CASE l2' = [l2 EXCEPT ![req[a]] = EntryFrom(r)]
    BY <2>1, <1>1, <1>2, <1>4, L2Store
  <2>2. CASE l2' = l2
    BY <2>2, <1>2 DEF L2Sound, Sound
  <2>3. QED
    BY <2>1, <2>2 DEF StoreL2
<1>6. Young(r)
  BY <1>1, <1>3, GraceFacts DEF Young, JustFetched
<1>7. OwnTypes'
  <2>1. EntryFrom(r) \in Entries
    BY <1>4 DEF Sound
  <2>2. QED
    BY <1>1, <2>1 DEF StoreL2, Goto, OwnTypes
<1>8. RoleAt(a)'
  BY <1>1, <1>2 DEF RoleAt, Leads, ifVars
<1>9. CarriesAt(a)'
  BY <1>1, <1>2, <1>6 DEF CarriesAt, Young
<1>10. ActorsSound'
  BY <1>2, <1>8, <1>9, RegistryAlone, OneMoves
<1>11. L1Sound'
  BY <1>2 DEF L1Sound, Sound
<1>12. BreakerSeesEveryFetch'
  BY <1>1, <1>2, NoFetchMoves DEF cbVars
<1>13. QED
  BY <1>5, <1>7, <1>10, <1>11, <1>12 DEF Own

LEMMA PublishUnlinkOwn ==
    ASSUME IInv, NEW a \in Actors, PublishUnlink(a)
    PROVE  Own'
<1> USE DEF IInv
<1>1. pc[a] = "unlink" /\ RoleAt(a) /\ Young(resp[a])
  BY DEF PublishUnlink, ActorsSound, CarriesAt
<1>2. /\ pc'[a] = "deliver"
      /\ \A b \in Actors \ {a} : pc'[b] = pc[b]
      /\ UNCHANGED <<req, resp, l1, l2, now, version, redisHung, cbVars>>
  BY <1>1 DEF PublishUnlink, Goto, OwnTypes
<1>3. acq'[a].role = "publishing" /\ OthersKeep(a)
  BY UnlinkFacts DEF PublishUnlink
<1>4. OwnTypes'
  BY <1>1 DEF PublishUnlink, Goto, OwnTypes
<1>5. RoleAt(a)' /\ CarriesAt(a)'
  BY <1>1, <1>2, <1>3 DEF RoleAt, CarriesAt, Young
<1>6. BreakerSeesEveryFetch'
  BY <1>1, <1>2, NoFetchMoves DEF cbVars
<1>7. QED
  BY <1>2, <1>3, <1>4, <1>5, <1>6, ActorStep

\* Only here does an actor change what others will read: the slot of its waiters.
LEMMA PublishDeliverOwn ==
    ASSUME IInv, NEW a \in Actors, PublishDeliver(a)
    PROVE  Own'
<1> USE DEF IInv
<1> DEFINE r == resp[a]
           value == [ready |-> TRUE, success |-> Success(a), response |-> r]
<1>1. pc[a] = "deliver" /\ Young(r)
  BY DEF PublishDeliver, ActorsSound, CarriesAt
<1>2. /\ pc'[a] = "idle" /\ req'[a] = NoKey
      /\ \A b \in Actors \ {a} : pc'[b] = pc[b] /\ req'[b] = req[b] /\ resp'[b] = resp[b]
      /\ UNCHANGED <<l1, l2, now, version, redisHung, cbVars>>
  BY <1>1 DEF PublishDeliver, Finish, OwnTypes
<1>3. /\ acq'[a] = IFR!NoAcq
      /\ \A b \in Actors \ {a} :
           /\ acq'[b] = acq[b]
           /\ acq[b].role = "waiter" => \/ slot'[acq[b].slot] = slot[acq[b].slot]
                                        \/ slot'[acq[b].slot] = value
  BY DeliverFacts DEF PublishDeliver
<1>4. OwnTypes'
  BY <1>1 DEF PublishDeliver, Finish, OwnTypes
<1>5. L1Sound' /\ L2Sound'
  BY <1>2 DEF L1Sound, L2Sound, Sound
<1>6. RoleAt(a)' /\ CarriesAt(a)'
  BY <1>2, <1>3 DEF RoleAt, CarriesAt
<1>7. ASSUME NEW b \in Actors \ {a} PROVE RoleAt(b)' /\ CarriesAt(b)'
  <2>1. /\ RoleAt(b) /\ CarriesAt(b) /\ acq'[b] = acq[b]
        /\ pc'[b] = pc[b] /\ req'[b] = req[b] /\ resp'[b] = resp[b] /\ now' = now
    BY <1>2, <1>3, <1>7 DEF ActorsSound
  <2>2. RoleAt(b)'
    BY <2>1 DEF RoleAt, Leads
  <2>3. CASE pc[b] # "waiting"
    BY <2>1, <2>2, <2>3 DEF CarriesAt, Sound, JustFetched, Young
  <2>4. CASE pc[b] = "waiting" /\ slot'[acq[b].slot] = slot[acq[b].slot]
    BY <2>1, <2>2, <2>4 DEF CarriesAt, Young
  <2>5. CASE pc[b] = "waiting" /\ slot'[acq[b].slot] = value
    <3>1. r.kind # "content" => slot'[acq'[b].slot].success = FALSE
      <4>1. r.kind # "content" => Success(a) = FALSE
        BY DEF Success
      <4>2. slot'[acq'[b].slot].success = Success(a)
        BY <2>1, <2>5
      <4>3. QED
        BY <4>1, <4>2
    <3>2. slot'[acq'[b].slot].response = r /\ pc'[b] = "waiting"
      BY <2>1, <2>5
    <3>3. r \in Responses /\ (r.kind = "content" /\ PromptThreads => now' <= r.fetched + Grace)
      BY <1>1, <1>2 DEF Young
    <3>4. CarriesAt(b)'
      BY <3>1, <3>2, <3>3 DEF CarriesAt, Young
    <3>5. QED
      BY <2>2, <3>4
  <2>6. QED
    BY <1>3, <1>7, <2>1, <2>2, <2>3, <2>4, <2>5 DEF RoleAt
<1>8. ActorsSound'
  BY <1>6, <1>7 DEF ActorsSound
<1>9. BreakerSeesEveryFetch'
  BY <1>1, <1>2, NoFetchMoves DEF cbVars
<1>10. QED
  BY <1>4, <1>5, <1>8, <1>9 DEF Own

LEMMA WaiterWakesOwn ==
    ASSUME IInv, NEW w \in Workers, WaiterWakes(w)
    PROVE  Own'
<1> USE DEF IInv
<1> DEFINE s == slot[acq[w].slot]
<1>1. /\ w \in Actors /\ pc[w] = "waiting" /\ RoleAt(w) /\ s.ready
      /\ s.success => Young(s.response) /\ s.response.kind = "content"
  BY DEF WaiterWakes, IFR!Collect, Actors, ActorsSound, CarriesAt
<1>2. acq'[w] = IFR!NoAcq /\ OthersKeep(w)
  BY <1>1, CollectFacts DEF WaiterWakes
<1>3. UNCHANGED <<l1, l2, now, version, redisHung, cbVars>>
  BY DEF WaiterWakes
<1>4. CASE s.success
  <2>1. /\ pc'[w] = "waiterStore" /\ req' = req /\ resp'[w] = s.response
        /\ \A b \in Actors \ {w} : pc'[b] = pc[b] /\ resp'[b] = resp[b]
    BY <1>1, <1>4 DEF WaiterWakes, Goto, Carry, OwnTypes
  <2>2. OwnTypes'
    BY <1>1, <1>4 DEF WaiterWakes, Goto, Carry, OwnTypes, Young
  <2>3. RoleAt(w)' /\ CarriesAt(w)'
    BY <1>1, <1>2, <1>3, <1>4, <2>1 DEF RoleAt, CarriesAt, Young
  <2>4. BreakerSeesEveryFetch'
    BY <1>1, <1>3, <2>1, NoFetchMoves DEF cbVars
  <2>5. QED
    BY <1>1, <1>2, <1>3, <2>1, <2>2, <2>3, <2>4, ActorStep
<1>5. CASE ~s.success
  <2>1. /\ pc'[w] = "idle" /\ req'[w] = NoKey
        /\ \A b \in Actors \ {w} : pc'[b] = pc[b] /\ req'[b] = req[b] /\ resp'[b] = resp[b]
    BY <1>1, <1>5 DEF WaiterWakes, Finish, OwnTypes
  <2>2. OwnTypes'
    BY <1>1, <1>5 DEF WaiterWakes, Finish, OwnTypes
  <2>3. RoleAt(w)' /\ CarriesAt(w)'
    BY <1>2, <2>1 DEF RoleAt, CarriesAt
  <2>4. BreakerSeesEveryFetch'
    BY <1>1, <1>3, <2>1, NoFetchMoves DEF cbVars
  <2>5. QED
    BY <1>1, <1>2, <1>3, <2>1, <2>2, <2>3, <2>4, ActorStep
<1>6. QED
  BY <1>4, <1>5

\* The waiter's store is where content gets a second ttl, and why Grace is needed.
LEMMA WaiterStoresOwn ==
    ASSUME IInv, NEW w \in Workers, WaiterStores(w)
    PROVE  Own'
<1> USE DEF IInv
<1> DEFINE r == resp[w]
<1>1. /\ w \in Actors /\ pc[w] = "waiterStore" /\ RoleAt(w) /\ req[w] \in Keys
      /\ Young(r) /\ r.kind = "content"
  BY DEF WaiterStores, Actors, ActorsSound, RoleAt, CarriesAt
<1>2. /\ pc'[w] = "idle" /\ req'[w] = NoKey
      /\ \A b \in Actors \ {w} : pc'[b] = pc[b] /\ req'[b] = req[b] /\ resp'[b] = resp[b]
      /\ UNCHANGED <<l2, now, version, redisHung, ifVars, cbVars>>
  BY <1>1 DEF WaiterStores, Finish, OwnTypes
<1>3. r \in Contents /\ r.fetched \in Nat /\ now \in Nat
  BY <1>1, ContentResponse, ContentTimes, HandlerAssumption DEF Young, OwnTypes, Times
<1>4. Cacheable(r) => Sound(EntryFrom(r), TTL + Grace)
  <2>1. PromptThreads => now + TTL <= r.fetched + (TTL + Grace)
    BY <1>1, <1>3, GraceFacts DEF Young
  <2>2. QED
    BY <2>1, <1>3, EntryFromSound DEF Cacheable
<1>5. L1Sound'
  <2>1. CASE Cacheable(r)
    BY <2>1, <1>1, <1>2, <1>4, L1Store DEF WaiterStores
  <2>2. CASE ~Cacheable(r)
    BY <2>2, <1>2 DEF WaiterStores, L1Sound, Sound
  <2>3. QED
    BY <2>1, <2>2
<1>6. OwnTypes'
  <2>1. Cacheable(r) => EntryFrom(r) \in Entries
    BY <1>4 DEF Sound
  <2>2. QED
    BY <1>1, <2>1 DEF WaiterStores, Finish, OwnTypes
<1>7. RoleAt(w)' /\ CarriesAt(w)'
  BY <1>1, <1>2 DEF RoleAt, CarriesAt, ifVars
<1>8. ActorsSound'
  BY <1>1, <1>2, <1>7, RegistryAlone, OneMoves
<1>9. L2Sound'
  BY <1>2 DEF L2Sound, Sound
<1>10. BreakerSeesEveryFetch'
  BY <1>1, <1>2, NoFetchMoves DEF cbVars
<1>11. QED
  BY <1>5, <1>6, <1>8, <1>9, <1>10 DEF Own

\* Steps of the surroundings that hold the clock.
LEMMA SurroundingsOwn ==
    ASSUME IInv, (\E k \in Keys : Discard(k)) \/ OriginChanges \/ RedisHangs
    PROVE  Own'
<1> USE DEF IInv
<1>1. /\ UNCHANGED <<pc, req, resp, now, ifVars, cbVars>>
      /\ version' \in Versions /\ redisHung' \in BOOLEAN
  <2>1. CASE \E k \in Keys : Discard(k)
    BY <2>1 DEF Discard, OwnTypes
  <2>2. CASE OriginChanges
    BY <2>2, HandlerAssumption DEF OriginChanges, OwnTypes, Versions
  <2>3. CASE RedisHangs
    BY <2>3 DEF RedisHangs, OwnTypes
  <2>4. QED
    BY <2>1, <2>2, <2>3
<1>2. /\ \A k \in Keys : l1'[k] = l1[k] \/ l1'[k] = NoEntry
      /\ \A k \in Keys : l2'[k] = l2[k] \/ l2'[k] = NoEntry
      /\ l1' \in [Keys -> Entries \cup {NoEntry}]
      /\ l2' \in [Keys -> Entries \cup {NoEntry}]
  BY DEF Discard, OriginChanges, RedisHangs, OwnTypes
<1>3. OwnTypes'
  BY <1>1, <1>2 DEF OwnTypes
<1>4. L1Sound' /\ L2Sound'
  BY <1>1, <1>2 DEF L1Sound, L2Sound, Sound
<1>5. ActorsSound'
  BY <1>1 DEF ActorsSound, RoleAt, CarriesAt, Leads, Sound, JustFetched, Young, ifVars
<1>6. BreakerSeesEveryFetch'
  BY <1>1 DEF BreakerSeesEveryFetch, cbVars
<1>7. QED
  BY <1>3, <1>4, <1>5, <1>6 DEF Own

\* The clock: if threads are prompt, nobody is between a fetch and a store.
LEMMA TickOwn ==
    ASSUME IInv, Tick
    PROVE  Own'
<1> USE DEF IInv
<1>1. /\ UNCHANGED <<pc, req, resp, l1, l2, version, redisHung, ifVars>>
      /\ now' = now + 1 /\ now \in Nat /\ now' \in Times /\ fetching' = fetching
      /\ PromptThreads => \A a \in Actors : Blocked(a)
  BY HandlerAssumption DEF Tick, CB!Tick, OwnTypes, Times
<1>2. OwnTypes'
  BY <1>1 DEF OwnTypes
<1>3. ASSUME NEW e, NEW limit, Sound(e, limit) PROVE Sound(e, limit)'
  BY <1>1, <1>3, HandlerAssumption DEF Sound, Entries, Times
<1>4. L1Sound' /\ L2Sound'
  BY <1>1, <1>3 DEF L1Sound, L2Sound
<1>5. ASSUME NEW a \in Actors PROVE RoleAt(a)' /\ CarriesAt(a)'
  <2>1. RoleAt(a)'
    BY <1>1 DEF ActorsSound, RoleAt, Leads, ifVars
  <2>2. CarriesAt(a)'
    <3>1. CASE PromptThreads
      BY <1>1, <3>1 DEF Blocked, CarriesAt, ifVars
    <3>2. CASE ~PromptThreads
      BY <1>1, <1>3, <3>2 DEF ActorsSound, CarriesAt, JustFetched, Young, ifVars
    <3>3. QED
      BY <3>1, <3>2
  <2>3. QED
    BY <2>1, <2>2
<1>6. BreakerSeesEveryFetch'
  BY <1>1 DEF BreakerSeesEveryFetch
<1>7. QED
  BY <1>2, <1>4, <1>5, <1>6 DEF Own, ActorsSound

-----------------------------------------------------------------------------
(* The steps, as steps of the registry and of the breaker.                 *)

\* Every step of the handler uses the registry by its rules: acquire with a real
\* key, publish by a leader and with a real response, collect by a waiter.
LEMMA RegistryStep ==
    ASSUME IInv, [Next]_vars
    PROVE  [IFR!Next]_ifVars
<1> USE DEF IInv
<1>1. ASSUME NEW w \in Workers, pc[w] \in {"trigger", "acquire"}
      PROVE  w \in Actors /\ req[w] \in Keys
  BY <1>1 DEF Actors, ActorsSound, RoleAt
<1>2. ASSUME NEW w \in Workers, Revalidate(w) PROVE IFR!Next
  <2>1. CASE TriggerNotLeader(w)
    BY <2>1, <1>1 DEF TriggerNotLeader, IFR!Next
  <2>2. ASSUME NEW t \in Tasks, Trigger(w, t) PROVE IFR!Next
    BY <2>2, <1>1 DEF Trigger, IFR!Next, Actors
  <2>3. QED
    BY <1>2, <2>1, <2>2 DEF Revalidate
<1>3. ASSUME NEW w \in Workers, AcquireLead(w) \/ AcquireJoin(w) PROVE IFR!Next
  BY <1>1, <1>3 DEF AcquireLead, AcquireJoin, IFR!Next
<1>4. ASSUME NEW a \in Actors, PublishUnlink(a) PROVE IFR!Next
  BY <1>4 DEF PublishUnlink, IFR!Next
<1>5. ASSUME NEW a \in Actors, PublishDeliver(a) PROVE IFR!Next
  <2>1. resp[a] \in Responses
    BY <1>5 DEF PublishDeliver, ActorsSound, CarriesAt, Young
  <2>2. Success(a) \in BOOLEAN
    BY DEF Success
  <2>3. QED
    BY <1>5, <2>1, <2>2 DEF PublishDeliver, IFR!Next
<1>6. ASSUME NEW w \in Workers, WaiterWakes(w) PROVE IFR!Next
  BY <1>6 DEF WaiterWakes, IFR!Next, Actors
<1>7. ASSUME NEW a \in Actors, Fetch(a) PROVE [IFR!Next]_ifVars
  BY <1>4, <1>5, <1>7 DEF Fetch, Admit, Rejected, FetchFails, FetchSucceeds, StoreL1, StoreL2
<1>8. ASSUME NEW w \in Workers, Work(w) PROVE [IFR!Next]_ifVars
  <2>1. w \in Actors
    BY DEF Actors
  <2>2. QED
    BY <1>2, <1>3, <1>6, <1>7, <1>8, <2>1
       DEF Work, L2Hit, L2Miss, Promote, WaiterStores
<1>9. ASSUME NEW w \in Workers, NEW k \in Keys, Hit(w, k) \/ Lookup(w, k)
      PROVE  UNCHANGED ifVars
  BY <1>9 DEF Hit, Lookup, vars
<1>10. ASSUME NEW w \in Workers, Pass(w) PROVE UNCHANGED ifVars
  BY <1>10 DEF Pass
<1>11. CASE (\E k \in Keys : Discard(k)) \/ OriginChanges \/ RedisHangs \/ Tick
  BY <1>11 DEF Discard, OriginChanges, RedisHangs, Tick
<1>12. CASE UNCHANGED vars
  BY <1>12 DEF vars
<1>13. ASSUME NEW t \in Tasks, Fetch(t) PROVE [IFR!Next]_ifVars
  BY <1>7, <1>13 DEF Actors
<1>14. QED
  BY <1>8, <1>9, <1>10, <1>11, <1>12, <1>13 DEF Next

\* Every step is one of the breaker's, or leaves it alone: fetchGuarded asks it
\* before a fetch and reports after it.
LEMMA BreakerStep ==
    ASSUME [Next]_vars
    PROVE  [CB!CBNext]_cbVars
<1>1. ASSUME NEW a \in Actors, Fetch(a) PROVE [CB!CBNext]_cbVars
  BY <1>1 DEF Fetch, Admit, Rejected, FetchFails, FetchSucceeds, StoreL1, StoreL2,
              PublishUnlink, PublishDeliver, CB!CBNext, CB!Report
<1>2. ASSUME NEW w \in Workers, Work(w) PROVE [CB!CBNext]_cbVars
  <2>1. w \in Actors
    BY DEF Actors
  <2>2. QED
    BY <1>1, <1>2, <2>1
       DEF Work, Revalidate, Trigger, TriggerNotLeader, AcquireLead, AcquireJoin,
           L2Hit, L2Miss, Promote, WaiterWakes, WaiterStores
<1>3. ASSUME NEW w \in Workers, NEW k \in Keys, Hit(w, k) \/ Lookup(w, k)
      PROVE  UNCHANGED cbVars
  BY <1>3 DEF Hit, Lookup, vars
<1>4. ASSUME NEW w \in Workers, Pass(w) PROVE UNCHANGED cbVars
  BY <1>4 DEF Pass
<1>5. CASE (\E k \in Keys : Discard(k)) \/ OriginChanges \/ RedisHangs
  BY <1>5 DEF Discard, OriginChanges, RedisHangs
<1>6. CASE Tick
  BY <1>6 DEF Tick, CB!CBNext
<1>7. CASE UNCHANGED vars
  BY <1>7 DEF vars
<1>8. ASSUME NEW t \in Tasks, Fetch(t) PROVE [CB!CBNext]_cbVars
  BY <1>1, <1>8 DEF Actors
<1>9. QED
  BY <1>2, <1>3, <1>4, <1>5, <1>6, <1>7, <1>8 DEF Next

LEMMA BreakerNext ==
    ASSUME Guards!BreakerInv, [CB!CBNext]_cbVars
    PROVE  Guards!BreakerInv'
<1> USE DEF CB!Reported, Guards!Reported, CB!TransitionToOpen, Guards!TransitionToOpen
<1>1. ASSUME NEW c \in Actors, CB!Admit(c) PROVE Guards!Admit(c)
  BY <1>1 DEF CB!Admit, Guards!Admit, CB!AdmitClosed, Guards!AdmitClosed, CB!AdmitFirstProbe,
              Guards!AdmitFirstProbe, CB!AdmitNextProbe, Guards!AdmitNextProbe
<1>2. ASSUME NEW c \in Actors, CB!Reject(c) PROVE Guards!Reject(c)
  BY <1>2 DEF CB!Reject, Guards!Reject, CB!cbVars, Guards!cbVars
<1>3. ASSUME NEW c \in Actors, CB!Report(c) PROVE Guards!Report(c)
  BY <1>3 DEF CB!Report, Guards!Report, CB!RecordSuccess, Guards!RecordSuccess,
              CB!RecordFailure, Guards!RecordFailure, CB!FailProbing, Guards!FailProbing,
              CB!FailCounted, Guards!FailCounted
<1>4. CB!Tick => Guards!Tick
  BY DEF CB!Tick, Guards!Tick, CB!Advance, Guards!Advance
<1>5. [Guards!CBNext]_(Guards!cbVars)
  BY <1>1, <1>2, <1>3, <1>4 DEF CB!CBNext, Guards!CBNext, cbVars, Guards!cbVars
<1>6. QED
  BY <1>5, Guards!BreakerNextInv, BreakerConstants, RegistryConstants

LEMMA NextIInv ==
    ASSUME IInv, [Next]_vars
    PROVE  IInv'
<1>1. Guards!RegistryInv'
  BY RegistryStep, RegistryNext DEF IInv
<1>2. Guards!BreakerInv'
  BY BreakerStep, BreakerNext DEF IInv
<1>3. ASSUME NEW a \in Actors, Fetch(a) PROVE Own'
  BY <1>3, AdmitOwn, FailureOwn, FetchSucceedsOwn, StoreL1Own, StoreL2Own,
     PublishUnlinkOwn, PublishDeliverOwn DEF Fetch
<1>4. ASSUME NEW w \in Workers, Work(w) PROVE Own'
  <2>1. w \in Actors
    BY DEF Actors
  <2>2. QED
    BY <1>3, <1>4, <2>1, TriggerOwn, TriggerNotLeaderOwn, AcquireLeadOwn, AcquireJoinOwn,
       L2HitOwn, L2MissOwn, PromoteOwn, WaiterWakesOwn, WaiterStoresOwn
       DEF Work, Revalidate
<1>5. CASE UNCHANGED vars
  <2>1. UNCHANGED <<pc, req, resp, l1, l2, now, version, redisHung, ifVars, cbVars>>
    BY <1>5 DEF vars
  <2>2. OwnTypes' /\ L1Sound' /\ L2Sound' /\ BreakerSeesEveryFetch'
    BY <2>1 DEF IInv, OwnTypes, L1Sound, L2Sound, Sound, BreakerSeesEveryFetch, cbVars
  <2>3. ActorsSound'
    BY <2>1 DEF IInv, ActorsSound, RoleAt, CarriesAt, Leads, Sound, JustFetched, Young, ifVars
  <2>4. QED
    BY <2>2, <2>3, <1>1, <1>2 DEF IInv
<1>6. ASSUME NEW w \in Workers, NEW k \in Keys, Hit(w, k) \/ Lookup(w, k) PROVE IInv'
  BY <1>1, <1>2, <1>5, <1>6, LookupOwn DEF Hit, Own, IInv
<1>7. ASSUME NEW w \in Workers, Pass(w) PROVE Own'
  BY <1>7, PassOwn
<1>8. CASE (\E k \in Keys : Discard(k)) \/ OriginChanges \/ RedisHangs \/ Tick
  BY <1>1, <1>2, <1>8, SurroundingsOwn, TickOwn DEF Own, IInv
<1>9. ASSUME NEW t \in Tasks, Fetch(t) PROVE Own'
  BY <1>3, <1>9 DEF Actors
<1>10. Own' => IInv'
  BY <1>1, <1>2 DEF Own, IInv
<1>11. QED
  BY <1>4, <1>5, <1>6, <1>7, <1>8, <1>9, <1>10 DEF Next

LEMMA SpecIInv == Spec => []IInv
<1>1. IInv /\ [Next]_vars => IInv'
  BY NextIInv
<1>2. QED
  BY <1>1, InitIInv, PTL DEF Spec

-----------------------------------------------------------------------------
(* The results.                                                            *)

\* The variables of the handler, the registry and the breaker keep their types.
THEOREM TypeCorrect == Spec => []TypeOK
<1>1. IInv => TypeOK
  <2>1. Guards!RegistryInv => IFR!TypeOK
    BY DEF Guards!RegistryInv, Guards!TypeOK, IFR!TypeOK, Guards!NoAcq, IFR!NoAcq, Guards!Roles, IFR!Roles
  <2>2. Guards!BreakerInv => CB!CBTypeOK
    BY DEF Guards!BreakerInv, Guards!CBTypeOK, CB!CBTypeOK, Guards!States, CB!States
  <2>3. QED
    BY <2>1, <2>2 DEF IInv, OwnTypes, TypeOK
<1>2. QED
  BY <1>1, SpecIInv, PTL

\* However many workers and background threads look up, revalidate and publish, a
\* replica fetches a key at most once at a time: two that fetch it would both lead
\* it, with the one slot inflight_ has for it, and a slot has one producer.
THEOREM FetchesCoalesced == Spec => []OneFetchPerKey
<1>1. IInv => OneFetchPerKey
  <2>1. SUFFICES ASSUME IInv, NEW a \in Actors, NEW b \in Actors,
                        pc[a] = "origin", pc[b] = "origin", req[a] = req[b], req[a] # NoKey
                 PROVE  a = b
    BY DEF OneFetchPerKey
  <2>2. Leads(a) /\ Leads(b)
    BY <2>1 DEF IInv, ActorsSound, RoleAt
  <2>3. acq[a].slot = inflight[req[a]] /\ acq[b].slot = inflight[req[a]]
    BY <2>1, <2>2 DEF Leads, IInv, Guards!RegistryInv, Guards!LeadersMatchMap
  <2>4. Guards!Producing(a) /\ Guards!Producing(b)
    BY <2>2 DEF Leads, Guards!Producing
  <2>5. QED
    BY <2>1, <2>3, <2>4 DEF IInv, Guards!RegistryInv, Guards!OneProducer
<1>2. QED
  BY <1>1, SpecIInv, PTL

\* No path of process(), triggerRevalidation or storeTiers puts into a tier what
\* the policy refuses, or what did not come from the origin.
THEOREM OnlyCacheableReachesATier == Spec => []OnlyCacheableStored
<1>1. IInv => OnlyCacheableStored
  BY DEF IInv, OnlyCacheableStored, L1Sound, L2Sound, Sound
<1>2. QED
  BY <1>1, SpecIInv, PTL

\* fetchGuarded reports exactly the fetches the breaker admitted.
THEOREM FetchesReported == Spec => []BreakerSeesEveryFetch
<1>1. IInv => BreakerSeesEveryFetch
  BY DEF IInv
<1>2. QED
  BY <1>1, SpecIInv, PTL

\* For every ttl, any number of promotions and stores: content that process()
\* serves as fresh left the origin less than a ttl ago, or, with L2, less than two.
THEOREM FreshContentIsYoung == Spec => []FreshContentAge
<1>1. IInv => FreshContentAge
  <2>1. SUFFICES ASSUME IInv, PromptThreads, NEW k \in Keys, IsFresh(k)
                 PROVE  now - l1[k].fetched < IF L2Enabled THEN 2 * TTL - 1 ELSE TTL
    BY DEF FreshContentAge
  <2>2. Sound(l1[k], TTL + Grace) /\ now - l1[k].storedAt < l1[k].ttl
    BY <2>1 DEF IInv, L1Sound, IsFresh, Age
  <2>3. /\ l1[k].storedAt \in Nat /\ l1[k].fetched \in Nat /\ l1[k].ttl \in Nat
        /\ now \in Nat
    BY <2>1, <2>2, HandlerAssumption DEF Sound, Entries, Times, IInv, OwnTypes
  <2>4. l1[k].storedAt + l1[k].ttl <= l1[k].fetched + (TTL + Grace)
    BY <2>1, <2>2 DEF Sound
  <2>5. now - l1[k].fetched < TTL + Grace
    BY <2>2, <2>3, <2>4, GraceFacts
  <2>6. QED
    BY <2>5, HandlerAssumption DEF Grace
<1>2. QED
  BY <1>1, SpecIInv, PTL

\* The handler implements what InFlightRegistry asks of its users, so every result
\* of InFlightRegistryProofs holds of the proxy.
THEOREM HandlerUsesRegistry == Spec => UsesRegistry
<1>1. Init => IFR!Init
  BY DEF Init
<1>2. IInv /\ [Next]_vars => [IFR!Next]_(IFR!ifVars)
  BY RegistryStep DEF ifVars, IFR!ifVars
<1>3. QED
  BY <1>1, <1>2, SpecIInv, PTL DEF Spec, UsesRegistry, IFR!Spec

\* The same for the breaker.
THEOREM HandlerUsesBreaker == Spec => CB!CBSpec
<1>1. Init => CB!CBInit
  BY DEF Init
<1>2. [Next]_vars => [CB!CBNext]_(CB!cbVars)
  BY BreakerStep DEF cbVars, CB!cbVars
<1>3. QED
  BY <1>1, <1>2, PTL DEF Spec, CB!CBSpec

\* A worker in waitReady(), which has no timeout, has its answer or a thread at work
\* on it: one that is somewhere between acquire and publish with the same slot and
\* for the same key, on whatever path of process() or triggerRevalidation.
WaiterIsServed ==
    \A w \in Workers : pc[w] = "waiting" =>
        \/ slot[acq[w].slot].ready
        \/ \E b \in Actors :
              /\ acq[b].slot = acq[w].slot /\ acq[b].key = acq[w].key
              /\ pc[b] \in {"l2get", "promote", "admit", "origin", "store", "l2put",
                            "unlink", "deliver"}

\* No early return, failure or rejection leaves a waiter behind.
THEOREM WaitersAreServed == Spec => []WaiterIsServed
<1>1. IInv => WaiterIsServed
  <2>1. SUFFICES ASSUME IInv, NEW w \in Workers, pc[w] = "waiting", ~slot[acq[w].slot].ready
                 PROVE  \E b \in Actors :
                          /\ acq[b].slot = acq[w].slot /\ acq[b].key = acq[w].key
                          /\ pc[b] \in {"l2get", "promote", "admit", "origin", "store",
                                        "l2put", "unlink", "deliver"}
    BY DEF WaiterIsServed
  <2>2. w \in Actors /\ acq[w].role = "waiter" /\ acq[w].slot \in Slots
    BY <2>1, WaiterSlot DEF Actors, IInv, ActorsSound, RoleAt
  <2>3. PICK b \in Actors : Guards!Producing(b) /\ acq[b].slot = acq[w].slot
    BY <2>1, <2>2 DEF IInv, Guards!RegistryInv, Guards!NoOrphanWaiter
  <2>4. acq[b].key = acq[w].key
    BY <2>1, <2>2, <2>3, ValuesAssumption DEF IInv, Guards!RegistryInv, Guards!SlotServesOneKey
  <2>5. pc[b] \in {"l2get", "promote", "admit", "origin", "store", "l2put", "unlink", "deliver"}
    BY <2>1, <2>3
       DEF IInv, OwnTypes, ActorsSound, RoleAt, Guards!Producing, IFR!NoAcq
  <2>6. QED
    BY <2>3, <2>4, <2>5
<1>2. QED
  BY <1>1, SpecIInv, PTL
=============================================================================
