-------------------------- MODULE OriginGuardsProofs --------------------------
(***************************************************************************)
(* The two objects that stand between a miss and the origin, each behind   *)
(* its own mutex: request coalescing is safe for any number of actors,     *)
(* keys and slots, and the circuit breaker for every number of callers and *)
(* every setting, zero and negative ones included.                         *)
(***************************************************************************)
EXTENDS InFlightRegistry, CircuitBreaker, FiniteSetTheorems, TLAPS

-----------------------------------------------------------------------------
(* The registry.                                                           *)

\* An actor with a role has a key and a slot, and one without has neither.
AcqShape ==
    \A a \in Actors :
        \/ acq[a] = NoAcq
        \/ acq[a].role # "none" /\ acq[a].key \in Keys /\ acq[a].slot \in Slots

\* A slot has one producer, and it is not ready before that one delivers.
OneProducer ==
    \A a \in Actors : Producing(a) =>
        /\ ~slot[acq[a].slot].ready
        /\ \A b \in Actors : Producing(b) /\ acq[b].slot = acq[a].slot => b = a

\* The inductive invariant of the registry.  The properties need one another: Join keeps
\* NoOrphanWaiter because the map's slot has a leader (LeadersMatchMap); Unlink
\* keeps LeadersMatchMap because no other leader shares the slot (OneProducer);
\* Deliver and Collect free a slot only when SlotServesOneKey and the map let go.
RegistryInv ==
    /\ TypeOK
    /\ AcqShape
    /\ LeadersMatchMap
    /\ NoOrphanWaiter
    /\ SlotServesOneKey
    /\ OneProducer

\* What Release does to the other actors and to the slots they hold.
LEMMA ReleaseFacts ==
    ASSUME TypeOK, NEW a \in Actors, acq[a].slot \in Slots, NEW slots,
           slots \in [Slots -> [ready : BOOLEAN, success : BOOLEAN,
                                response : Responses \cup {NoResponse}]],
           Release(a, slots)
    PROVE  /\ acq' \in [Actors -> {NoAcq} \cup [role : Roles, key : Keys, slot : Slots]]
           /\ slot' \in [Slots -> [ready : BOOLEAN, success : BOOLEAN,
                                   response : Responses \cup {NoResponse}]]
           /\ acq'[a] = NoAcq
           /\ \A b \in Actors \ {a} : acq'[b] = acq[b]
           /\ \A b \in Actors \ {a} :
                acq[b].slot \in Slots => slot'[acq[b].slot] = slots[acq[b].slot]
<1>1. acq' = [acq EXCEPT ![a] = NoAcq]
  BY DEF Release
<1>2. EmptySlot \in [ready : BOOLEAN, success : BOOLEAN,
                     response : Responses \cup {NoResponse}]
  BY DEF EmptySlot
<1>3. \/ slot' = slots
      \/ /\ slot' = [slots EXCEPT ![acq[a].slot] = EmptySlot]
         /\ \A b \in Actors \ {a} : acq[b].slot # acq[a].slot
  BY DEF Release
<1>4. QED
  BY <1>1, <1>2, <1>3 DEF TypeOK

LEMMA RegistryInitInv == Init => RegistryInv
BY RegistryAssumption
   DEF Init, RegistryInv, TypeOK, AcqShape, LeadersMatchMap, NoOrphanWaiter, SlotServesOneKey,
       OneProducer, Producing, Roles, NoAcq, EmptySlot

LEMMA RegistryLeadInv ==
    ASSUME RegistryInv, NEW a \in Actors, NEW k \in Keys, Lead(a, k)
    PROVE  RegistryInv'
<1> USE RegistryAssumption DEF RegistryInv
<1>1. PICK s \in Slots :
        /\ ~Referenced(s)
        /\ inflight' = [inflight EXCEPT ![k] = s]
        /\ slot' = [slot EXCEPT ![s] = EmptySlot]
        /\ acq' = [acq EXCEPT ![a] = [role |-> "leader", key |-> k, slot |-> s]]
  BY DEF Lead, FreeSlots
<1>2. acq[a] = NoAcq /\ inflight[k] = NoSlot
  BY DEF Lead
<1>3. \A b \in Actors : acq[b].slot # s
  BY <1>1 DEF Referenced
<1>4. /\ acq'[a] = [role |-> "leader", key |-> k, slot |-> s]
      /\ \A b \in Actors : b # a => acq'[b] = acq[b]
      /\ inflight'[k] = s
      /\ \A j \in Keys : j # k => inflight'[j] = inflight[j]
      /\ slot'[s] = EmptySlot
      /\ \A t \in Slots : t # s => slot'[t] = slot[t]
  BY <1>1 DEF TypeOK
<1>5. TypeOK'
  BY <1>1 DEF TypeOK, Roles, EmptySlot
<1>6. AcqShape'
  BY <1>4 DEF AcqShape
<1>7. LeadersMatchMap'
  <2>1. ASSUME NEW j \in Keys, inflight'[j] # NoSlot
        PROVE  \E b \in Actors :
                 acq'[b] = [role |-> "leader", key |-> j, slot |-> inflight'[j]]
    <3>1. CASE j = k
      BY <3>1, <1>4
    <3>2. CASE j # k
      <4>1. PICK b \in Actors :
              acq[b] = [role |-> "leader", key |-> j, slot |-> inflight[j]]
        BY <2>1, <3>2, <1>4 DEF LeadersMatchMap
      <4>2. b # a
        BY <4>1, <1>2 DEF NoAcq
      <4>3. QED
        BY <4>1, <4>2, <3>2, <1>4
    <3>3. QED
      BY <3>1, <3>2
  <2>2. ASSUME NEW b \in Actors, acq'[b].role = "leader"
        PROVE  inflight'[acq'[b].key] = acq'[b].slot
    <3>1. CASE b = a
      BY <3>1, <1>4
    <3>2. CASE b # a
      <4>1. acq[b].key \in Keys /\ acq[b].slot # NoSlot
        BY <2>2, <3>2, <1>4 DEF AcqShape, NoAcq
      <4>2. QED
        BY <4>1, <2>2, <3>2, <1>2, <1>4 DEF LeadersMatchMap
    <3>3. QED
      BY <3>1, <3>2
  <2>3. QED
    BY <2>1, <2>2 DEF LeadersMatchMap
<1>8. NoOrphanWaiter'
  <2>1. SUFFICES ASSUME NEW b \in Actors, acq'[b].role = "waiter"
                 PROVE  \/ slot'[acq'[b].slot].ready
                        \/ \E c \in Actors : Producing(c)' /\ acq'[c].slot = acq'[b].slot
    BY DEF NoOrphanWaiter
  <2>2. b # a /\ acq'[b] = acq[b] /\ acq[b].slot \in Slots
    BY <2>1, <1>4 DEF AcqShape, NoAcq
  <2>3. CASE slot[acq[b].slot].ready
    BY <2>2, <2>3, <1>3, <1>4
  <2>4. CASE \E c \in Actors : Producing(c) /\ acq[c].slot = acq[b].slot
    BY <2>2, <2>4, <1>2, <1>4 DEF Producing, NoAcq
  <2>5. QED
    BY <2>1, <2>2, <2>3, <2>4 DEF NoOrphanWaiter
<1>9. SlotServesOneKey'
  BY <1>3, <1>4 DEF SlotServesOneKey
<1>10. OneProducer'
  <2>1. SUFFICES ASSUME NEW b \in Actors, Producing(b)'
                 PROVE  /\ ~slot'[acq'[b].slot].ready
                        /\ \A c \in Actors :
                             Producing(c)' /\ acq'[c].slot = acq'[b].slot => c = b
    BY DEF OneProducer
  <2>2. CASE b = a
    BY <2>2, <1>3, <1>4 DEF EmptySlot, Producing
  <2>3. CASE b # a
    <3>1. Producing(b) /\ acq[b].slot \in Slots /\ acq'[b] = acq[b]
      BY <2>1, <2>3, <1>4 DEF Producing, AcqShape, NoAcq
    <3>2. QED
      BY <3>1, <1>3, <1>4 DEF OneProducer, Producing
  <2>4. QED
    BY <2>2, <2>3
<1>11. QED
  BY <1>5, <1>6, <1>7, <1>8, <1>9, <1>10

LEMMA RegistryJoinInv ==
    ASSUME RegistryInv, NEW a \in Actors, NEW k \in Keys, Join(a, k)
    PROVE  RegistryInv'
<1> USE RegistryAssumption DEF RegistryInv
<1>1. /\ acq[a] = NoAcq
      /\ inflight[k] \in Slots
      /\ inflight' = inflight /\ slot' = slot
      /\ acq' = [acq EXCEPT ![a] = [role |-> "waiter", key |-> k, slot |-> inflight[k]]]
  BY DEF Join, TypeOK
<1>2. /\ acq'[a] = [role |-> "waiter", key |-> k, slot |-> inflight[k]]
      /\ \A b \in Actors : b # a => acq'[b] = acq[b]
  BY <1>1 DEF TypeOK
<1>3. PICK l \in Actors : acq[l] = [role |-> "leader", key |-> k, slot |-> inflight[k]]
  BY <1>1 DEF LeadersMatchMap
<1>4. l # a
  BY <1>1, <1>3 DEF NoAcq
<1>5. TypeOK'
  BY <1>1 DEF TypeOK, Roles
<1>6. AcqShape'
  BY <1>1, <1>2 DEF AcqShape
<1>7. LeadersMatchMap'
  BY <1>1, <1>2 DEF LeadersMatchMap, NoAcq
<1>8. NoOrphanWaiter'
  <2>1. ASSUME NEW b \in Actors, Producing(b) PROVE Producing(b)' /\ acq'[b] = acq[b]
    BY <2>1, <1>1, <1>2 DEF Producing, NoAcq
  <2>2. QED
    BY <2>1, <1>1, <1>2, <1>3, <1>4 DEF NoOrphanWaiter, Producing
<1>9. SlotServesOneKey'
  BY <1>1, <1>2, <1>3 DEF SlotServesOneKey
<1>10. OneProducer'
  BY <1>1, <1>2 DEF OneProducer, Producing
<1>11. QED
  BY <1>5, <1>6, <1>7, <1>8, <1>9, <1>10

LEMMA RegistryUnlinkInv ==
    ASSUME RegistryInv, NEW a \in Actors, Unlink(a)
    PROVE  RegistryInv'
<1> USE RegistryAssumption DEF RegistryInv
<1> DEFINE k == acq[a].key
           s == acq[a].slot
<1>1. /\ acq[a].role = "leader" /\ k \in Keys /\ s \in Slots /\ inflight[k] = s
      /\ acq[a] \in [role : Roles, key : Keys, slot : Slots]
  BY DEF Unlink, TypeOK, AcqShape, NoAcq, LeadersMatchMap
<1>2. /\ inflight' = [inflight EXCEPT ![k] = NoSlot]
      /\ acq' = [acq EXCEPT ![a].role = "publishing", ![a].slot = s]
      /\ slot' = slot
  BY <1>1 DEF Unlink
<1>3. /\ acq'[a] = [role |-> "publishing", key |-> k, slot |-> s]
      /\ \A b \in Actors : b # a => acq'[b] = acq[b]
      /\ inflight'[k] = NoSlot
      /\ \A j \in Keys : j # k => inflight'[j] = inflight[j]
  BY <1>1, <1>2 DEF TypeOK
<1>4. TypeOK'
  BY <1>1, <1>2 DEF TypeOK, Roles
<1>5. AcqShape'
  BY <1>1, <1>3 DEF AcqShape
<1>6. LeadersMatchMap'
  <2>1. ASSUME NEW j \in Keys, inflight'[j] # NoSlot
        PROVE  \E b \in Actors :
                 acq'[b] = [role |-> "leader", key |-> j, slot |-> inflight'[j]]
    <3>1. j # k
      BY <2>1, <1>3
    <3>2. PICK b \in Actors :
            acq[b] = [role |-> "leader", key |-> j, slot |-> inflight[j]]
      BY <2>1, <3>1, <1>3 DEF LeadersMatchMap
    <3>3. b # a
      BY <3>1, <3>2
    <3>4. QED
      BY <3>1, <3>2, <3>3, <1>3
  <2>2. ASSUME NEW b \in Actors, acq'[b].role = "leader"
        PROVE  inflight'[acq'[b].key] = acq'[b].slot
    <3>1. b # a /\ acq'[b] = acq[b] /\ acq[b].role = "leader"
      BY <2>2, <1>3
    <3>2. acq[b].key \in Keys /\ inflight[acq[b].key] = acq[b].slot
      BY <3>1 DEF AcqShape, NoAcq, LeadersMatchMap
    <3>3. acq[b].slot # s
      BY <3>1, <1>1 DEF OneProducer, Producing
    <3>4. QED
      BY <3>1, <3>2, <3>3, <1>1, <1>3
  <2>3. QED
    BY <2>1, <2>2 DEF LeadersMatchMap
<1>7. \A b \in Actors : /\ acq'[b].slot = acq[b].slot
                        /\ acq'[b].key = acq[b].key
                        /\ Producing(b)' <=> Producing(b)
                        /\ acq'[b].role = "waiter" <=> acq[b].role = "waiter"
  BY <1>1, <1>3 DEF Producing
<1>8. NoOrphanWaiter'
  <2>1. SUFFICES ASSUME NEW b \in Actors, acq'[b].role = "waiter"
                 PROVE  \/ slot'[acq'[b].slot].ready
                        \/ \E c \in Actors : Producing(c)' /\ acq'[c].slot = acq'[b].slot
    BY DEF NoOrphanWaiter
  <2>2. acq[b].role = "waiter" /\ acq'[b].slot = acq[b].slot
    BY <2>1, <1>7
  <2>3. CASE slot[acq[b].slot].ready
    BY <2>2, <2>3, <1>2
  <2>4. CASE \E c \in Actors : Producing(c) /\ acq[c].slot = acq[b].slot
    BY <2>2, <2>4, <1>7
  <2>5. QED
    BY <2>2, <2>3, <2>4 DEF NoOrphanWaiter
<1>9. SlotServesOneKey'
  BY <1>7 DEF SlotServesOneKey
<1>10. OneProducer'
  BY <1>2, <1>7 DEF OneProducer
<1>11. QED
  BY <1>4, <1>5, <1>6, <1>8, <1>9, <1>10

LEMMA RegistryDeliverInv ==
    ASSUME RegistryInv, NEW a \in Actors, NEW r \in Responses, NEW ok \in BOOLEAN,
           Deliver(a, r, ok)
    PROVE  RegistryInv'
<1> USE RegistryAssumption DEF RegistryInv
<1> DEFINE s == acq[a].slot
           value == [ready |-> TRUE, success |-> ok, response |-> r]
           slots == [slot EXCEPT ![s] = value]
<1>1. acq[a].role = "publishing" /\ s \in Slots /\ Release(a, slots) /\ inflight' = inflight
  BY DEF Deliver, AcqShape, NoAcq
<1>2. slots \in [Slots -> [ready : BOOLEAN, success : BOOLEAN,
                           response : Responses \cup {NoResponse}]]
  BY DEF TypeOK
<1>3. /\ TypeOK'
      /\ acq'[a] = NoAcq
      /\ \A b \in Actors \ {a} : acq'[b] = acq[b]
      /\ \A b \in Actors \ {a} : acq[b].slot \in Slots => slot'[acq[b].slot] = slots[acq[b].slot]
  <2> HIDE DEF slots
  <2>1. QED
    BY <1>1, <1>2, ReleaseFacts DEF TypeOK
<1>4. AcqShape'
  BY <1>3 DEF AcqShape
<1>5. LeadersMatchMap'
  BY <1>1, <1>3 DEF LeadersMatchMap, NoAcq
<1>6. NoOrphanWaiter'
  <2>1. SUFFICES ASSUME NEW b \in Actors, acq'[b].role = "waiter"
                 PROVE  \/ slot'[acq'[b].slot].ready
                        \/ \E c \in Actors : Producing(c)' /\ acq'[c].slot = acq'[b].slot
    BY DEF NoOrphanWaiter
  <2>2. b # a /\ acq'[b] = acq[b] /\ acq[b].slot \in Slots
    BY <2>1, <1>3 DEF AcqShape, NoAcq
  <2>3. slot'[acq[b].slot] = slots[acq[b].slot]
    BY <2>2, <1>3
  <2>4. CASE acq[b].slot = s
    BY <2>2, <2>3, <2>4, <1>1 DEF TypeOK
  <2>5. CASE acq[b].slot # s /\ slot[acq[b].slot].ready
    BY <2>2, <2>3, <2>5
  <2>6. CASE acq[b].slot # s /\ \E c \in Actors : Producing(c) /\ acq[c].slot = acq[b].slot
    BY <2>2, <2>6, <1>3 DEF Producing
  <2>7. QED
    BY <2>1, <2>2, <2>4, <2>5, <2>6 DEF NoOrphanWaiter
<1>7. SlotServesOneKey'
  BY <1>3 DEF SlotServesOneKey, NoAcq
<1>8. OneProducer'
  <2>1. SUFFICES ASSUME NEW b \in Actors, Producing(b)'
                 PROVE  /\ ~slot'[acq'[b].slot].ready
                        /\ \A c \in Actors :
                             Producing(c)' /\ acq'[c].slot = acq'[b].slot => c = b
    BY DEF OneProducer
  <2>2. b # a /\ acq'[b] = acq[b] /\ Producing(b) /\ acq[b].slot \in Slots
    BY <2>1, <1>3 DEF Producing, AcqShape, NoAcq
  <2>3. acq[b].slot # s
    BY <2>2, <1>1 DEF OneProducer, Producing
  <2>4. ~slot'[acq'[b].slot].ready
    BY <2>2, <2>3, <1>3 DEF OneProducer
  <2>5. ASSUME NEW c \in Actors, Producing(c)', acq'[c].slot = acq'[b].slot PROVE c = b
    BY <2>2, <2>5, <1>3 DEF OneProducer, Producing, NoAcq
  <2>6. QED
    BY <2>4, <2>5
<1>9. QED
  BY <1>3, <1>4, <1>5, <1>6, <1>7, <1>8

LEMMA RegistryCollectInv ==
    ASSUME RegistryInv, NEW a \in Actors, Collect(a)
    PROVE  RegistryInv'
<1> USE RegistryAssumption DEF RegistryInv
<1>1. /\ acq[a].role = "waiter" /\ acq[a].slot \in Slots
      /\ Release(a, slot) /\ inflight' = inflight
  BY DEF Collect, AcqShape, NoAcq
<1>2. /\ TypeOK'
      /\ acq'[a] = NoAcq
      /\ \A b \in Actors \ {a} : acq'[b] = acq[b]
      /\ \A b \in Actors \ {a} : acq[b].slot \in Slots => slot'[acq[b].slot] = slot[acq[b].slot]
  BY <1>1, ReleaseFacts DEF TypeOK
<1>3. AcqShape'
  BY <1>2 DEF AcqShape
<1>4. LeadersMatchMap'
  BY <1>1, <1>2 DEF LeadersMatchMap, NoAcq
<1>5. \A b \in Actors : Producing(b)' <=> Producing(b)
  BY <1>1, <1>2 DEF Producing, NoAcq
<1>6. \A b \in Actors : Producing(b) =>
        acq'[b] = acq[b] /\ slot'[acq[b].slot] = slot[acq[b].slot]
  BY <1>1, <1>2 DEF Producing, AcqShape, NoAcq
<1>7. \A b \in Actors : acq'[b].role = "waiter" =>
        /\ acq'[b] = acq[b] /\ slot'[acq[b].slot] = slot[acq[b].slot]
  BY <1>1, <1>2 DEF AcqShape, NoAcq
<1>8. NoOrphanWaiter'
  BY <1>5, <1>6, <1>7 DEF NoOrphanWaiter
<1>9. SlotServesOneKey'
  BY <1>2 DEF SlotServesOneKey, NoAcq
<1>10. OneProducer'
  BY <1>5, <1>6 DEF OneProducer
<1>11. QED
  BY <1>2, <1>3, <1>4, <1>8, <1>9, <1>10

LEMMA RegistryNextInv == RegistryInv /\ [Next]_ifVars => RegistryInv'
<1>1. SUFFICES ASSUME RegistryInv, [Next]_ifVars PROVE RegistryInv'
  OBVIOUS
<1>2. CASE \E a \in Actors, k \in Keys : Lead(a, k) \/ Join(a, k)
  BY <1>1, <1>2, RegistryLeadInv, RegistryJoinInv
<1>3. CASE \E a \in Actors : Unlink(a) \/ Collect(a)
  BY <1>1, <1>3, RegistryUnlinkInv, RegistryCollectInv
<1>4. CASE \E a \in Actors, r \in Responses, ok \in BOOLEAN : Deliver(a, r, ok)
  BY <1>1, <1>4, RegistryDeliverInv
<1>5. CASE UNCHANGED ifVars
  BY <1>1, <1>5 DEF ifVars, RegistryInv, TypeOK, AcqShape, LeadersMatchMap, NoOrphanWaiter,
                    SlotServesOneKey, OneProducer, Producing
<1>6. QED
  BY <1>1, <1>2, <1>3, <1>4, <1>5 DEF Next, Decline

LEMMA RegistrySpecInv == Spec => []RegistryInv
BY RegistryInitInv, RegistryNextInv, PTL DEF Spec

\* acquire() and publish() keep the map and the leaders in step, so no key stays
\* blocked and publish() always finds the slot its caller created.
THEOREM RegistryConsistent == Spec => []LeadersMatchMap
<1>1. RegistryInv => LeadersMatchMap
  BY DEF RegistryInv
<1>2. QED
  BY <1>1, RegistrySpecInv, PTL

\* waitReady() is never entered on, or left with, a slot without a producer.
THEOREM WaitersHaveProducer == Spec => []NoOrphanWaiter
<1>1. RegistryInv => NoOrphanWaiter
  BY DEF RegistryInv
<1>2. QED
  BY <1>1, RegistrySpecInv, PTL

\* A slot, however often its memory is reused, answers one key's requests.
THEOREM NoCrossKeyAnswer == Spec => []SlotServesOneKey
<1>1. RegistryInv => SlotServesOneKey
  BY DEF RegistryInv
<1>2. QED
  BY <1>1, RegistrySpecInv, PTL

\* A waiter reads its slot after the slot's mutex is released: nothing changes the
\* slot from the moment it is ready until the waiter lets go of it.
THEOREM WaitersReadStableSlot == Spec => ReadySlotIsFrozen
<1> DEFINE Frozen == \A a \in Actors :
             /\ acq[a].role = "waiter" /\ slot[acq[a].slot].ready
             /\ acq'[a] = acq[a]
             => slot'[acq[a].slot] = slot[acq[a].slot]
<1>1. RegistryInv /\ [Next]_ifVars => Frozen
  <2>1. SUFFICES ASSUME RegistryInv, [Next]_ifVars, NEW a \in Actors,
                        acq[a].role = "waiter", slot[acq[a].slot].ready, acq'[a] = acq[a]
                 PROVE  slot'[acq[a].slot] = slot[acq[a].slot]
    OBVIOUS
  <2> USE RegistryAssumption DEF RegistryInv
  <2>2. acq[a] # NoAcq /\ acq[a].slot \in Slots
    BY <2>1 DEF AcqShape, NoAcq
  <2>3. ASSUME NEW b \in Actors, NEW k \in Keys, Lead(b, k)
        PROVE  slot'[acq[a].slot] = slot[acq[a].slot]
    <3>1. PICK s \in Slots : ~Referenced(s) /\ slot' = [slot EXCEPT ![s] = EmptySlot]
      BY <2>3 DEF Lead, FreeSlots
    <3>2. QED
      BY <2>1, <2>2, <3>1 DEF Referenced, TypeOK
  <2>4. ASSUME NEW b \in Actors, Unlink(b)
        PROVE  slot'[acq[a].slot] = slot[acq[a].slot]
    <3>1. acq[b].role = "leader" /\ acq[b].slot \in Slots
      BY <2>1, <2>4 DEF Unlink, AcqShape, NoAcq
    <3>2. slot' = slot
      BY <2>1, <2>4, <3>1 DEF Unlink, LeadersMatchMap
    <3>3. QED
      BY <3>2
  <2>5. ASSUME NEW b \in Actors, NEW r \in Responses, NEW ok \in BOOLEAN, Deliver(b, r, ok)
        PROVE  slot'[acq[a].slot] = slot[acq[a].slot]
    <3> DEFINE value == [ready |-> TRUE, success |-> ok, response |-> r]
               slots == [slot EXCEPT ![acq[b].slot] = value]
    <3>1. acq[b].role = "publishing" /\ acq[b].slot \in Slots /\ Release(b, slots)
      BY <2>1, <2>5 DEF Deliver, AcqShape, NoAcq
    <3>2. slots \in [Slots -> [ready : BOOLEAN, success : BOOLEAN,
                               response : Responses \cup {NoResponse}]]
      BY <2>1 DEF TypeOK
    <3>3. a # b /\ acq[a].slot # acq[b].slot
      BY <2>1, <3>1 DEF OneProducer, Producing
    <3>4. slots[acq[a].slot] = slot[acq[a].slot]
      BY <2>1, <2>2, <3>3 DEF TypeOK
    <3>5. slot'[acq[a].slot] = slots[acq[a].slot]
      <4> HIDE DEF slots
      <4>1. QED
        BY <2>1, <2>2, <3>1, <3>2, <3>3, ReleaseFacts
    <3>6. QED
      BY <3>4, <3>5
  <2>6. ASSUME NEW b \in Actors, Collect(b)
        PROVE  slot'[acq[a].slot] = slot[acq[a].slot]
    <3>1. acq[b].slot \in Slots /\ Release(b, slot)
      BY <2>1, <2>6 DEF Collect, AcqShape, NoAcq
    <3>2. acq'[b] = NoAcq /\ \A c \in Actors \ {b} :
            acq[c].slot \in Slots => slot'[acq[c].slot] = slot[acq[c].slot]
      BY <2>1, <3>1, ReleaseFacts DEF TypeOK
    <3>3. QED
      BY <2>1, <2>2, <3>2
  <2>7. CASE UNCHANGED slot
    BY <2>7
  <2>8. QED
    BY <2>1, <2>3, <2>4, <2>5, <2>6, <2>7 DEF Next, Decline, Join, ifVars
<1>2. QED
  BY <1>1, RegistrySpecInv, PTL DEF Spec, ReadySlotIsFrozen

-----------------------------------------------------------------------------
(* The breaker.                                                            *)

\* The inductive invariant of the breaker.  ProbesAccounted needs CBTypeOK for the arithmetic on
\* halfOpenProbes; ProbeLimit follows a step of AdmitNextProbe only because
\* halfOpenProbes, which the guard reads, is the number of probes; a step of
\* FailCounted keeps ClosedBelowThreshold because CountCap >= FailureThreshold.
\* WindowMeasured, that openedAt_ dates from the last transition into Open, is what
\* FullOpenWindow rests on.
WindowMeasured == openFor = sinceOpened

BreakerInv ==
    /\ CBTypeOK
    /\ ProbesAccounted
    /\ ProbeLimit
    /\ ClosedBelowThreshold
    /\ WindowMeasured

\* A set of probes is a finite set, and a new probe adds one to its size.
LEMMA ProbeCount ==
    ASSUME NEW P \in SUBSET Callers, NEW c \in Callers
    PROVE  /\ IsFiniteSet(P)
           /\ Cardinality(P) \in Nat
           /\ c \notin P => Cardinality(P \cup {c}) = Cardinality(P) + 1
           /\ Cardinality({c}) = 1
           /\ Cardinality({}) = 0
<1>1. IsFiniteSet(P)
  BY FS_Subset, ConstantsAssumption
<1>2. Cardinality(P) \in Nat
  BY <1>1, FS_CardinalityType
<1>3. c \notin P => Cardinality(P \cup {c}) = Cardinality(P) + 1
  BY <1>1, FS_AddElement
<1>4. Cardinality({c}) = 1 /\ Cardinality({}) = 0
  BY FS_Singleton, FS_EmptySet
<1>5. QED
  BY <1>1, <1>2, <1>3, <1>4

LEMMA BreakerInitInv == CBInit => BreakerInv
<1>1. SUFFICES ASSUME CBInit PROVE BreakerInv
  OBVIOUS
<1>2. CBTypeOK
  BY <1>1, ConstantsAssumption DEF CBInit, CBTypeOK, States
<1>3. ProbesAccounted
  BY <1>1 DEF CBInit, ProbesAccounted
<1>4. ProbeLimit
  BY <1>1, FS_EmptySet, ConstantsAssumption DEF CBInit, ProbeLimit, AtLeastOne
<1>5. ClosedBelowThreshold
  BY <1>1, ConstantsAssumption DEF CBInit, ClosedBelowThreshold, AtLeastOne
<1>6. WindowMeasured
  BY <1>1 DEF CBInit, WindowMeasured
<1>7. QED
  BY <1>2, <1>3, <1>4, <1>5, <1>6 DEF BreakerInv

LEMMA BreakerAdmitInv ==
    ASSUME BreakerInv, NEW c \in Callers, Admit(c)
    PROVE  BreakerInv'
<1> USE DEF BreakerInv, CBTypeOK, States, WindowMeasured
<1>1. CASE AdmitClosed(c)
  BY <1>1 DEF AdmitClosed, ProbesAccounted, ProbeLimit, ClosedBelowThreshold
<1>2. CASE AdmitFirstProbe(c)
  <2>1. Cardinality(probes') = 1
    BY <1>2, ProbeCount DEF AdmitFirstProbe
  <2>2. CBTypeOK' /\ ProbesAccounted'
    BY <1>2, <2>1 DEF AdmitFirstProbe, ProbesAccounted
  <2>3. ProbeLimit'
    BY <2>1, ConstantsAssumption DEF ProbeLimit, AtLeastOne
  <2>4. ClosedBelowThreshold' /\ WindowMeasured'
    BY <1>2 DEF AdmitFirstProbe, ClosedBelowThreshold
  <2>5. QED
    BY <2>2, <2>3, <2>4
<1>3. CASE AdmitNextProbe(c)
  <2>1. c \notin probes
    BY <1>3 DEF AdmitNextProbe, ProbesAccounted
  <2>2. Cardinality(probes') = halfOpenProbes + 1
    BY <1>3, <2>1, ProbeCount DEF AdmitNextProbe, ProbesAccounted
  <2>3. CBTypeOK' /\ ProbesAccounted'
    BY <1>3, <2>2 DEF AdmitNextProbe, ProbesAccounted
  <2>4. ProbeLimit'
    BY <1>3, <2>2, ConstantsAssumption DEF AdmitNextProbe, ProbeLimit, AtLeastOne
  <2>5. ClosedBelowThreshold' /\ WindowMeasured'
    BY <1>3 DEF AdmitNextProbe, ClosedBelowThreshold
  <2>6. QED
    BY <2>3, <2>4, <2>5
<1>4. QED
  BY <1>1, <1>2, <1>3 DEF Admit

\* Every report leaves HalfOpen, so it ends the half-open period.
LEMMA BreakerReportInv ==
    ASSUME BreakerInv, NEW c \in Callers, Report(c)
    PROVE  BreakerInv'
<1> USE ConstantsAssumption DEF BreakerInv, CBTypeOK, States
<1>1. state' # "HalfOpen" /\ halfOpenProbes' = 0
  BY DEF Report, RecordSuccess, RecordFailure, FailProbing, FailCounted,
         TransitionToOpen, ProbesAccounted
<1>2. probes' = {} /\ fetching' = fetching \ {c}
  BY <1>1 DEF Report, RecordSuccess, RecordFailure, Reported
<1>3. CBTypeOK' /\ ClosedBelowThreshold'
  <2>1. CASE RecordSuccess(c)
    BY <2>1, <1>1, <1>2 DEF RecordSuccess, ClosedBelowThreshold, AtLeastOne
  <2>2. CASE FailProbing
    BY <2>2, <1>1, <1>2 DEF FailProbing, TransitionToOpen, ClosedBelowThreshold
  <2>3. CASE FailCounted
    BY <2>3, <1>1, <1>2 DEF FailCounted, TransitionToOpen, ClosedBelowThreshold, AtLeastOne
  <2>4. QED
    BY <2>1, <2>2, <2>3 DEF Report, RecordFailure
<1>4. ProbesAccounted'
  BY <1>1, <1>2 DEF ProbesAccounted
<1>5. ProbeLimit'
  BY <1>2, FS_EmptySet DEF ProbeLimit, AtLeastOne
<1>6. WindowMeasured'
  BY DEF Report, RecordSuccess, RecordFailure, FailProbing, FailCounted,
         TransitionToOpen, WindowMeasured
<1>7. QED
  BY <1>3, <1>4, <1>5, <1>6

LEMMA BreakerNextInv == BreakerInv /\ [CBNext]_cbVars => BreakerInv'
<1>1. SUFFICES ASSUME BreakerInv, [CBNext]_cbVars PROVE BreakerInv'
  OBVIOUS
<1>2. CASE \E c \in Callers : Admit(c)
  BY <1>1, <1>2, BreakerAdmitInv
<1>3. CASE \E c \in Callers : Report(c)
  BY <1>1, <1>3, BreakerReportInv
<1>4. CASE Tick
  BY <1>1, <1>4, ConstantsAssumption
     DEF Tick, Advance, BreakerInv, CBTypeOK, ProbesAccounted, ProbeLimit, ClosedBelowThreshold,
         WindowMeasured
<1>5. CASE UNCHANGED cbVars
  BY <1>1, <1>5 DEF cbVars, BreakerInv, CBTypeOK, ProbesAccounted, ProbeLimit,
                        ClosedBelowThreshold, WindowMeasured
<1>6. QED
  BY <1>1, <1>2, <1>3, <1>4, <1>5 DEF CBNext, Reject

LEMMA BreakerSpecInv == CBSpec => []BreakerInv
BY BreakerInitInv, BreakerNextInv, PTL DEF CBSpec

\* The variables keep their types, for every number of callers and setting.
THEOREM BreakerTypeCorrect == CBSpec => []CBTypeOK
<1>1. BreakerInv => CBTypeOK
  BY DEF BreakerInv
<1>2. QED
  BY <1>1, BreakerSpecInv, PTL

\* The breaker is never wedged in HalfOpen: allowRequest() and the two record
\* methods keep halfOpenProbes_ equal to the probes that are out.
THEOREM NeverWedged == CBSpec => []ProbesAccounted
<1>1. BreakerInv => ProbesAccounted
  BY DEF BreakerInv
<1>2. QED
  BY <1>1, BreakerSpecInv, PTL

\* allowRequest() lets at most max(1, halfOpenMaxProbes_) fetches through in a
\* half-open period.
THEOREM ProbesLimited == CBSpec => []ProbeLimit
<1>1. BreakerInv => ProbeLimit
  BY DEF BreakerInv
<1>2. QED
  BY <1>1, BreakerSpecInv, PTL

\* Every way back to Closed starts from a clean failure count.
THEOREM ClosedHasRoom == CBSpec => []ClosedBelowThreshold
<1>1. BreakerInv => ClosedBelowThreshold
  BY DEF BreakerInv
<1>2. QED
  BY <1>1, BreakerSpecInv, PTL

\* allowRequest() admits nobody before openMs_ has passed since the last
\* transition into Open.
THEOREM WindowIsFull == CBSpec => FullOpenWindow
<1>1. ASSUME BreakerInv, [CBNext]_cbVars
      PROVE  [state = "Open" /\ openFor < OpenMs => fetching' \subseteq fetching]_cbVars
  <2>1. SUFFICES ASSUME state = "Open", openFor < OpenMs, CBNext
                 PROVE  fetching' \subseteq fetching
    BY <1>1
  <2>2. ASSUME NEW c \in Callers PROVE ~Admit(c)
    BY <1>1, <2>1, ConstantsAssumption
       DEF BreakerInv, CBTypeOK, WindowMeasured, Admit, AdmitClosed, AdmitFirstProbe, AdmitNextProbe
  <2>3. ASSUME NEW c \in Callers, Reject(c) \/ Report(c) PROVE fetching' \subseteq fetching
    BY <2>3 DEF Reject, Report, RecordSuccess, RecordFailure, Reported, cbVars
  <2>4. CASE Tick
    BY <2>4 DEF Tick
  <2>5. QED
    BY <2>1, <2>2, <2>3, <2>4 DEF CBNext
<1>2. QED
  BY <1>1, BreakerSpecInv, PTL DEF CBSpec, FullOpenWindow
=============================================================================
