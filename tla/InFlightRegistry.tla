--------------------------- MODULE InFlightRegistry ---------------------------
(***************************************************************************)
(* Request coalescing (proxy/src/coalesce/InFlightRegistry.{h,cpp}).  The  *)
(* first actor to acquire a key leads: it creates the key's slot and must  *)
(* publish a response.  Later actors join the same slot and wait on its    *)
(* condition variable, without a timeout.  publish() has two critical      *)
(* sections: the slot leaves the map under mapMutex_ (Unlink), and only    *)
(* then does it become ready under its own mutex (Deliver), so that a new  *)
(* leader for the key can start between the two.                           *)
(*                                                                         *)
(* A slot is a shared_ptr: it lives while the map or an actor refers to it *)
(* and its memory may then be used for another slot.  An actor refers to   *)
(* at most one slot, so as many slots as actors are always enough.         *)
(***************************************************************************)
EXTENDS FiniteSets

CONSTANTS
    Actors,     \* worker threads and background revalidation threads
    Keys,       \* cache keys
    Responses,  \* what can be published
    Slots,      \* addresses of InFlight objects
    NoKey, NoSlot, NoResponse

ASSUME RegistryAssumption ==
    /\ NoKey \notin Keys
    /\ NoSlot \notin Slots
    /\ NoResponse \notin Responses

VARIABLES
    inflight,  \* inflight_: key -> slot
    slot,      \* the InFlight objects
    acq        \* the Acquisition each actor holds

ifVars == <<inflight, slot, acq>>

\* leader: acquired and not yet published; publishing: between the two critical
\* sections of publish(); waiter: inside waitReady().
Roles == {"leader", "publishing", "waiter"}

EmptySlot == [ready |-> FALSE, success |-> FALSE, response |-> NoResponse]
NoAcq     == [role |-> "none", key |-> NoKey, slot |-> NoSlot]

Init ==
    /\ inflight = [k \in Keys |-> NoSlot]
    /\ slot = [s \in Slots |-> EmptySlot]
    /\ acq = [a \in Actors |-> NoAcq]

Referenced(s) == (\E k \in Keys : inflight[k] = s) \/ (\E a \in Actors : acq[a].slot = s)
FreeSlots == {s \in Slots : ~Referenced(s)}

\* An actor lets go of its slot; the last reference frees it.
Release(a, slots) ==
    LET s == acq[a].slot
        last == /\ \A b \in Actors \ {a} : acq[b].slot # s
                /\ \A k \in Keys : inflight[k] # s
    IN  /\ acq' = [acq EXCEPT ![a] = NoAcq]
        /\ slot' = IF last THEN [slots EXCEPT ![s] = EmptySlot] ELSE slots

-----------------------------------------------------------------------------
\* Mutant: acquire() looks the key up and inserts in two critical sections.
LeadUnchecked(a, k) ==
    /\ acq[a] = NoAcq
    /\ FreeSlots # {}
    /\ LET s == CHOOSE f \in FreeSlots : TRUE
       IN  /\ inflight' = [inflight EXCEPT ![k] = s]
           /\ slot' = [slot EXCEPT ![s] = EmptySlot]
           /\ acq' = [acq EXCEPT ![a] = [role |-> "leader", key |-> k, slot |-> s]]

\* acquire() of a key nobody leads: the caller is the leader of a new slot.
Lead(a, k) ==
    /\ acq[a] = NoAcq
    /\ inflight[k] = NoSlot
    /\ FreeSlots # {}
    /\ LET s == CHOOSE f \in FreeSlots : TRUE
       IN  /\ inflight' = [inflight EXCEPT ![k] = s]
           /\ slot' = [slot EXCEPT ![s] = EmptySlot]
           /\ acq' = [acq EXCEPT ![a] = [role |-> "leader", key |-> k, slot |-> s]]

\* Mutant: a waiter may get the slot of another key.
JoinAnySlot(a, k) ==
    /\ acq[a] = NoAcq
    /\ \E j \in Keys : /\ inflight[j] # NoSlot
                       /\ acq' = [acq EXCEPT ![a] =
                                    [role |-> "waiter", key |-> k, slot |-> inflight[j]]]
    /\ UNCHANGED <<inflight, slot>>

\* acquire() of a key that is led: the caller shares the leader's slot.
Join(a, k) ==
    /\ acq[a] = NoAcq
    /\ inflight[k] # NoSlot
    /\ acq' = [acq EXCEPT ![a] = [role |-> "waiter", key |-> k, slot |-> inflight[k]]]
    /\ UNCHANGED <<inflight, slot>>

\* acquire() by a caller that only cares about leading and drops the slot.
Decline(k) ==
    /\ inflight[k] # NoSlot
    /\ UNCHANGED ifVars

\* publish(), first critical section: whatever slot the key has in the map is
\* taken out of it; if there is none, publish() returns.
Unlink(a) ==
    LET found == inflight[acq[a].key]
    IN  /\ acq[a].role = "leader"
        /\ inflight' = [inflight EXCEPT ![acq[a].key] = NoSlot]
        /\ IF found = NoSlot
             THEN Release(a, slot)
             ELSE /\ acq' = [acq EXCEPT ![a].role = "publishing", ![a].slot = found]
                  /\ UNCHANGED slot

\* Mutant: the slot is never made ready.
DeliverForgotten(a, response, success) ==
    /\ acq[a].role = "publishing"
    /\ Release(a, slot)
    /\ UNCHANGED inflight

\* publish(), second critical section and notify_all().
Deliver(a, response, success) ==
    /\ acq[a].role = "publishing"
    /\ Release(a, [slot EXCEPT ![acq[a].slot] =
                     [ready |-> TRUE, success |-> success, response |-> response]])
    /\ UNCHANGED inflight

\* Mutant: the first waiter moves the response out of the slot.
CollectMoves(a) ==
    /\ acq[a].role = "waiter"
    /\ slot[acq[a].slot].ready
    /\ Release(a, [slot EXCEPT ![acq[a].slot].response = NoResponse])
    /\ UNCHANGED inflight

\* Mutant: the condition a waiter sleeps on is the success of the fetch.
CollectOnSuccess(a) ==
    /\ acq[a].role = "waiter"
    /\ slot[acq[a].slot].success
    /\ Release(a, slot)
    /\ UNCHANGED inflight

\* waitReady() returns and the waiter copies the response.
Collect(a) ==
    /\ acq[a].role = "waiter"
    /\ slot[acq[a].slot].ready
    /\ Release(a, slot)
    /\ UNCHANGED inflight

Next ==
    \/ \E a \in Actors, k \in Keys : Lead(a, k) \/ Join(a, k)
    \/ \E k \in Keys : Decline(k)
    \/ \E a \in Actors : Unlink(a) \/ Collect(a)
    \/ \E a \in Actors, r \in Responses, ok \in BOOLEAN : Deliver(a, r, ok)

Spec == Init /\ [][Next]_ifVars

\* Every leader publishes (RequestHandler has no path that does not) and a
\* notified waiter runs.
Fairness ==
    \A a \in Actors :
        /\ WF_ifVars(Unlink(a))
        /\ WF_ifVars(\E r \in Responses, ok \in BOOLEAN : Deliver(a, r, ok))
        /\ WF_ifVars(Collect(a))

FairSpec == Spec /\ Fairness

-----------------------------------------------------------------------------
TypeOK ==
    /\ inflight \in [Keys -> Slots \cup {NoSlot}]
    /\ slot \in [Slots -> [ready : BOOLEAN, success : BOOLEAN,
                           response : Responses \cup {NoResponse}]]
    /\ acq \in [Actors -> {NoAcq} \cup [role : Roles, key : Keys, slot : Slots]]

Producing(a) == acq[a].role \in {"leader", "publishing"}

\* The map and the leaders agree: a key in inflight_ has a leader that still owes
\* a publish() of that very slot (no key stays blocked), and every leader finds
\* its own slot when it publishes (publish() never takes the early return, nor
\* another leader's slot).
LeadersMatchMap ==
    /\ \A k \in Keys : inflight[k] # NoSlot =>
         \E a \in Actors : acq[a] = [role |-> "leader", key |-> k, slot |-> inflight[k]]
    /\ \A a \in Actors : acq[a].role = "leader" => inflight[acq[a].key] = acq[a].slot

\* waitReady() has no timeout, so a waiter must never be left with a slot that
\* nobody is going to make ready.
NoOrphanWaiter ==
    \A a \in Actors : acq[a].role = "waiter" =>
        \/ slot[acq[a].slot].ready
        \/ \E b \in Actors : Producing(b) /\ acq[b].slot = acq[a].slot

\* Two actors that share a slot asked for the same key, whatever slots were
\* freed and reused in between: a response never answers another key's request.
SlotServesOneKey ==
    \A a, b \in Actors :
        acq[a].slot = acq[b].slot /\ acq[a].slot # NoSlot => acq[a].key = acq[b].key

\* What a waiter reads after waitReady() is stable: response and success are read
\* after the slot's mutex is released, and nobody writes the slot again while a
\* waiter holds it.
ReadySlotIsFrozen ==
    [][\A a \in Actors :
         /\ acq[a].role = "waiter" /\ slot[acq[a].slot].ready
         /\ acq'[a] = acq[a]
         => slot'[acq[a].slot] = slot[acq[a].slot]]_ifVars

\* Every waiter is eventually answered.
WaitersReturn == \A a \in Actors : acq[a].role = "waiter" ~> acq[a].role # "waiter"
=============================================================================
