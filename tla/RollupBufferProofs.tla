-------------------------- MODULE RollupBufferProofs --------------------------
(***************************************************************************)
(* The analytics consumer counts every event once, for any events, keys    *)
(* and overlapping flushes.                                                *)
(***************************************************************************)
EXTENDS RollupBuffer, TLAPS

\* What has been counted or is held was consumed, so that an event that arrives is
\* nowhere yet.
NothingInvented ==
    /\ buckets \subseteq consumed
    /\ \A f \in Calls : flush[f].snapshot \subseteq consumed
    /\ \A e \in Events : db[e] >= 1 => e \in consumed

EndedByShutdown == ended <=> \E s \in Signals : shutdown[s] = "ending"

\* In a shutdown after one signal and without failures, nothing comes back into the
\* buckets after the last flush, nothing is lost before the pool is ended, and what is
\* queued for a client from then on was so when the pool was ended.
Orderly ==
    failures = 0 /\ victims = {} /\ ~SignalledTwice =>
        /\ (\E s \in Signals : shutdown[s] \in {"flushing", "ending"}) => buckets = {}
        /\ ~ended => lost = {}
        /\ ended => \A f \in Calls : flush[f].phase = "queued" => flush[f].snapshot \subseteq stranded

\* The inductive invariant.
IInv ==
    /\ TypeOK
    /\ NothingInvented
    /\ EndedByShutdown
    /\ Orderly
    /\ CountedOnce
    /\ NoneMissing

LEMMA InitIInv == Init => IInv
<1>1. SUFFICES ASSUME Init PROVE IInv
  OBVIOUS
<1> USE RollupAssumption DEF Init, Idle
<1>2. TypeOK
  <2>1. exited \in BOOLEAN /\ ended \in BOOLEAN
    BY <1>1
  <2>2. shutdown \in [Signals -> {"none", "disconnecting", "flushing", "ending"}]
    BY <1>1
  <2>3. flush \in [Calls -> {Idle}]
    BY <1>1
  <2>4. db \in [Events -> Nat] /\ failures \in 0..MaxFailures
    BY <1>1
  <2>5. QED
    BY <1>1, <2>1, <2>2, <2>3, <2>4 DEF TypeOK
<1>3. NothingInvented /\ EndedByShutdown /\ Orderly /\ CountedOnce /\ NoneMissing
  BY <1>1 DEF NothingInvented, EndedByShutdown, Orderly, CountedOnce, NoneMissing, Kept
<1>4. QED
  BY <1>2, <1>3 DEF IInv

\* An active flush has the shape TypeOK gives it.
LEMMA ActiveFlush ==
    ASSUME TypeOK, NEW f \in Calls, flush[f].phase # "idle"
    PROVE  flush[f] \in [phase : {"queued", "connect", "txn"}, snapshot : (SUBSET Events) \ {{}},
                         done : SUBSET Keys]
BY DEF TypeOK, Idle

\* When f is over, its client may go to a queued call, which keeps its snapshot.
LEMMA FreedFlush ==
    ASSUME TypeOK, NEW f \in Calls, flush[f].phase \in {"connect", "txn"}, flush' \in Freed(f)
    PROVE  /\ flush' \in [Calls -> {Idle} \cup
                            [phase : {"queued", "connect", "txn"},
                             snapshot : (SUBSET Events) \ {{}}, done : SUBSET Keys]]
           /\ flush'[f] = Idle
           /\ \A g \in Calls : g # f => flush'[g].snapshot = flush[g].snapshot
           /\ \A g \in Calls : flush'[g].phase = "queued" => flush[g].phase = "queued"
<1> DEFINE over == [flush EXCEPT ![f] = Idle]
           Shape == [phase : {"queued", "connect", "txn"}, snapshot : (SUBSET Events) \ {{}},
                     done : SUBSET Keys]
<1>1. over \in [Calls -> {Idle} \cup Shape] /\ over[f] = Idle
  BY DEF TypeOK
<1>2. \A g \in Calls : g # f => over[g] = flush[g]
  BY DEF TypeOK
<1>3. CASE flush' = over
  BY <1>1, <1>2, <1>3 DEF Idle
<1>4. CASE \E g \in Queued : flush' = [over EXCEPT ![g].phase = "connect"]
  <2>1. PICK g \in Queued : flush' = [over EXCEPT ![g].phase = "connect"]
    BY <1>4
  <2>2. g \in Calls /\ g # f /\ flush[g].phase = "queued"
    BY DEF Queued
  <2>3. over[g] \in Shape
    BY <1>2, <2>2, ActiveFlush
  <2>4. [over[g] EXCEPT !.phase = "connect"] \in Shape
    BY <2>3
  <2>5. /\ flush'[g] = [over[g] EXCEPT !.phase = "connect"]
        /\ \A h \in Calls : h # g => flush'[h] = over[h]
    BY <1>1, <2>1, <2>2
  <2>6. flush' \in [Calls -> {Idle} \cup Shape]
    <3> HIDE DEF over, Shape
    <3>1. QED
      BY <1>1, <2>1, <2>4
  <2>7. flush'[g].snapshot = flush[g].snapshot /\ flush'[g].phase # "queued"
    BY <1>2, <2>2, <2>3, <2>5
  <2>8. QED
    BY <1>1, <1>2, <2>2, <2>5, <2>6, <2>7 DEF Idle
<1>5. QED
  BY <1>3, <1>4 DEF Freed

LEMMA AddIInv ==
    ASSUME IInv, NEW e \in Events, Add(e)
    PROVE  IInv'
<1> USE RollupAssumption DEF IInv, history, proc
<1>1. e \notin consumed /\ db[e] = 0 /\ \A f \in Calls : e \notin flush[f].snapshot
  BY DEF Add, NothingInvented, TypeOK
<1>2. TypeOK'
  BY DEF Add, TypeOK
<1>3. NothingInvented' /\ EndedByShutdown' /\ Orderly'
  BY DEF Add, NothingInvented, EndedByShutdown, Orderly, SignalledTwice
<1>4. CountedOnce'
  BY <1>1 DEF Add, CountedOnce
<1>5. NoneMissing'
  BY DEF Add, NoneMissing, Kept, SignalledTwice
<1>6. QED
  BY <1>2, <1>3, <1>4, <1>5

\* The buckets become the snapshot of f, in a timer's flush or in the last one.
LEMMA BeginIInv ==
    ASSUME IInv, NEW f \in Calls, Begin(f), ~ended,
           shutdown' \in [Signals -> {"none", "disconnecting", "flushing", "ending"}],
           EndedByShutdown', SignalledTwice => SignalledTwice',
           UNCHANGED <<exited, ended, consumed, db, failures, history>>
    PROVE  IInv'
<1> USE RollupAssumption DEF IInv, history
<1> DEFINE started == [phase |-> IF Cardinality(ClientsOut) < PoolSize THEN "connect"
                                                                       ELSE "queued",
                       snapshot |-> buckets, done |-> {}]
<1>1. /\ flush[f] = Idle /\ buckets # {} /\ buckets' = {}
      /\ flush'[f] = started
      /\ \A g \in Calls : g # f => flush'[g] = flush[g]
  BY DEF Begin, Started, TypeOK
<1>2. flush'[f].snapshot = buckets /\ flush[f].snapshot = {}
  BY <1>1 DEF Idle
<1>3. TypeOK'
  <2>1. started \in
          [phase : {"queued", "connect", "txn"}, snapshot : (SUBSET Events) \ {{}}, done : SUBSET Keys]
    BY <1>1 DEF TypeOK
  <2>2. flush' = [flush EXCEPT ![f] = started]
    BY DEF Begin, Started
  <2>3. flush' \in [Calls -> {Idle} \cup
                      [phase : {"queued", "connect", "txn"}, snapshot : (SUBSET Events) \ {{}},
                       done : SUBSET Keys]]
    <3> HIDE DEF started
    <3>1. QED
      BY <2>1, <2>2 DEF TypeOK
  <2>4. QED
    BY <1>1, <2>3 DEF TypeOK
<1> HIDE DEF started
<1>4. NothingInvented' /\ Orderly'
  BY <1>1, <1>2 DEF NothingInvented, Orderly
<1>5. CountedOnce'
  BY <1>1, <1>2 DEF CountedOnce
<1>6. NoneMissing'
  BY <1>1, <1>2 DEF NoneMissing, Kept
<1>7. QED
  BY <1>3, <1>4, <1>5, <1>6

\* The snapshot of f goes back into the buckets; it may or may not have been counted.
LEMMA RemergeIInv ==
    ASSUME IInv, NEW f \in Calls, flush[f].phase = "txn", Remerge(f),
           failures' \in 0..MaxFailures, failures' >= failures,
           victims' \subseteq Calls, victims \subseteq victims',
           failures' > 0 \/ victims' # {},
           UNCHANGED <<proc, consumed, lost, stranded>>,
           \/ UNCHANGED <<db, doubtful>>
           \/ Counted(flush[f].snapshot) /\ doubtful' = doubtful \cup flush[f].snapshot
    PROVE  IInv'
<1> USE RollupAssumption DEF IInv, proc
<1> DEFINE S == flush[f].snapshot
<1>1. S \subseteq Events
  BY ActiveFlush
<1>2. /\ buckets' = buckets \cup S
      /\ flush'[f] = Idle
      /\ \A g \in Calls : g # f => flush'[g].snapshot = flush[g].snapshot
      /\ flush' \in [Calls -> {Idle} \cup
                       [phase : {"queued", "connect", "txn"}, snapshot : (SUBSET Events) \ {{}},
                        done : SUBSET Keys]]
  BY FreedFlush DEF Remerge
<1>3. flush'[f].snapshot = {}
  BY <1>2 DEF Idle
<1>4. /\ db' \in [Events -> Nat]
      /\ doubtful' \subseteq Events
      /\ doubtful \subseteq doubtful'
      /\ \A e \in Events : db'[e] >= db[e]
      /\ \A e \in Events : e \notin doubtful' => db'[e] = db[e]
      /\ \A e \in Events : db'[e] # db[e] => e \in S
  <2> HIDE DEF IInv
  <2>1. db \in [Events -> Nat] /\ doubtful \subseteq Events
    BY DEF IInv, TypeOK
  <2>2. CASE UNCHANGED <<db, doubtful>>
    BY <2>1, <2>2
  <2>3. CASE Counted(S) /\ doubtful' = doubtful \cup S
    <3>1. \A e \in Events : db[e] \in Nat /\ db[e] + 1 \in Nat /\ db[e] + 1 >= db[e]
      BY <2>1
    <3>2. /\ db' \in [Events -> Nat]
          /\ \A e \in Events : db'[e] = IF e \in S THEN db[e] + 1 ELSE db[e]
      BY <2>3, <3>1 DEF Counted
    <3> HIDE DEF S
    <3>3. /\ \A e \in Events : db'[e] >= db[e]
          /\ \A e \in Events : db'[e] # db[e] => e \in S
      BY <3>1, <3>2
    <3>4. QED
      BY <1>1, <2>1, <2>3, <3>2, <3>3
  <2>4. QED
    BY <2>2, <2>3
<1>5. TypeOK'
  BY <1>1, <1>2, <1>4 DEF TypeOK
<1>6. NothingInvented'
  BY <1>1, <1>2, <1>3, <1>4 DEF NothingInvented, TypeOK
<1>7. EndedByShutdown' /\ Orderly'
  BY DEF EndedByShutdown, Orderly, TypeOK
<1>8. CountedOnce'
  <2>1. SUFFICES ASSUME NEW e \in Events
        PROVE /\ \A g \in Calls : e \in flush'[g].snapshot =>
                   /\ e \notin buckets'
                   /\ \A h \in Calls \ {g} : e \notin flush'[h].snapshot
              /\ e \notin doubtful' =>
                   /\ db'[e] <= 1
                   /\ db'[e] = 1 => /\ e \notin buckets'
                                    /\ \A g \in Calls : e \notin flush'[g].snapshot
    BY DEF CountedOnce
  <2>2. ASSUME NEW g \in Calls, e \in flush'[g].snapshot
        PROVE  /\ e \notin buckets'
               /\ \A h \in Calls \ {g} : e \notin flush'[h].snapshot
    <3>1. g # f /\ e \in flush[g].snapshot
      BY <2>2, <1>2, <1>3
    <3>2. QED
      BY <3>1, <1>2, <1>3 DEF CountedOnce
  <2>3. ASSUME e \notin doubtful'
        PROVE  /\ db'[e] <= 1
               /\ db'[e] = 1 => /\ e \notin buckets'
                                /\ \A g \in Calls : e \notin flush'[g].snapshot
    BY <2>3, <1>2, <1>3, <1>4 DEF CountedOnce
  <2>4. QED
    BY <2>2, <2>3
<1>9. NoneMissing'
  <2>1. ASSUME NEW e \in consumed' \ lost' PROVE Kept(e)'
    <3>1. e \in Events /\ Kept(e)
      BY <2>1 DEF NoneMissing, TypeOK
    <3>2. CASE db[e] >= 1
      BY <3>1, <3>2, <1>4 DEF Kept, TypeOK
    <3>3. CASE e \in buckets \/ e \in S
      BY <3>3, <1>2 DEF Kept
    <3>4. CASE \E g \in Calls : g # f /\ e \in flush[g].snapshot
      BY <3>4, <1>2 DEF Kept
    <3>5. QED
      BY <3>1, <3>2, <3>3, <3>4 DEF Kept
  <2>2. ~(failures' = 0 /\ victims' = {})
    BY DEF TypeOK
  <2>3. QED
    BY <2>1, <2>2 DEF NoneMissing
<1>10. QED
  BY <1>5, <1>6, <1>7, <1>8, <1>9

\* Steps of one flush that change neither its snapshot nor what is counted.
LEMMA ProgressIInv ==
    ASSUME IInv, NEW f \in Calls, NEW k \in Keys, Connected(f) \/ Upsert(f, k)
    PROVE  IInv'
<1> USE RollupAssumption DEF IInv, history, proc
<1>1. flush[f].phase # "idle"
  BY DEF Connected, Upsert
<1>2. flush[f] \in [phase : {"queued", "connect", "txn"}, snapshot : (SUBSET Events) \ {{}},
                    done : SUBSET Keys]
  BY <1>1, ActiveFlush
<1>3. \/ flush' = [flush EXCEPT ![f].phase = "txn"]
      \/ flush' = [flush EXCEPT ![f].done = @ \cup {k}]
  BY DEF Connected, Upsert
<1>4. UNCHANGED <<exited, shutdown, ended, consumed, buckets, db, failures, victims, lost,
                  stranded, doubtful>>
  BY DEF Connected, Upsert
<1>5. flush' \in [Calls -> {Idle} \cup
                    [phase : {"queued", "connect", "txn"}, snapshot : (SUBSET Events) \ {{}},
                     done : SUBSET Keys]]
  BY <1>2, <1>3 DEF TypeOK
<1>6. /\ \A g \in Calls : flush'[g].snapshot = flush[g].snapshot
      /\ \A g \in Calls : flush'[g].phase = "queued" => flush[g].phase = "queued"
  BY <1>2, <1>3 DEF TypeOK
<1>7. TypeOK' /\ NothingInvented' /\ EndedByShutdown' /\ Orderly'
  <2>1. TypeOK' /\ NothingInvented'
    <3>1. TypeOK'
      BY <1>4, <1>5 DEF TypeOK
    <3>2. NothingInvented'
      BY <1>4, <1>6 DEF NothingInvented
    <3>3. QED
      BY <3>1, <3>2
  <2>2. EndedByShutdown' /\ (SignalledTwice <=> SignalledTwice')
    BY <1>4 DEF EndedByShutdown, SignalledTwice
  <2>3. Orderly'
    BY <1>4, <1>6, <2>2 DEF Orderly
  <2>4. QED
    BY <2>1, <2>2, <2>3
<1>8. CountedOnce' /\ NoneMissing'
  <2>1. CountedOnce'
    BY <1>4, <1>6 DEF CountedOnce
  <2>2. NoneMissing'
    BY <1>4, <1>6 DEF NoneMissing, Kept, SignalledTwice
  <2>3. QED
    BY <2>1, <2>2
<1>9. QED
  BY <1>7, <1>8

LEMMA CommitIInv ==
    ASSUME IInv, NEW f \in Calls, Commit(f)
    PROVE  IInv'
<1> USE RollupAssumption DEF IInv, history, proc
<1> DEFINE S == flush[f].snapshot
<1>1. S \subseteq Events
  BY ActiveFlush DEF Commit
<1>2. /\ flush' \in [Calls -> {Idle} \cup
                       [phase : {"queued", "connect", "txn"}, snapshot : (SUBSET Events) \ {{}},
                        done : SUBSET Keys]]
      /\ flush'[f] = Idle
      /\ \A g \in Calls : g # f => flush'[g].snapshot = flush[g].snapshot
      /\ \A g \in Calls : flush'[g].phase = "queued" => flush[g].phase = "queued"
      /\ UNCHANGED <<proc, consumed, buckets, failures, history>>
  BY FreedFlush DEF Commit
<1>3. flush'[f].snapshot = {}
  BY <1>2 DEF Idle
<1>4. /\ db' \in [Events -> Nat]
      /\ \A e \in Events : e \in S => db'[e] = db[e] + 1
      /\ \A e \in Events : e \notin S => db'[e] = db[e]
  BY DEF Commit, Counted, TypeOK
<1>5. TypeOK'
  BY <1>2, <1>4 DEF TypeOK
<1>6. NothingInvented' /\ EndedByShutdown' /\ Orderly'
  <2>1. NothingInvented'
    BY <1>1, <1>2, <1>3, <1>4 DEF NothingInvented
  <2>2. EndedByShutdown' /\ (SignalledTwice <=> SignalledTwice')
    BY <1>2 DEF EndedByShutdown, SignalledTwice
  <2>3. \A g \in Calls : flush'[g].phase = "queued" => /\ flush[g].phase = "queued"
                                                       /\ flush'[g].snapshot = flush[g].snapshot
    BY <1>2 DEF Idle
  <2>4. Orderly'
    BY <1>2, <2>2, <2>3 DEF Orderly
  <2>5. QED
    BY <2>1, <2>2, <2>4
<1>7. CountedOnce'
  <2>1. ASSUME NEW e \in Events, NEW g \in Calls, e \in flush'[g].snapshot
        PROVE  /\ g # f /\ e \in flush[g].snapshot /\ e \notin S
               /\ e \notin buckets'
               /\ \A h \in Calls \ {g} : e \notin flush'[h].snapshot
    BY <2>1, <1>2, <1>3 DEF CountedOnce
  <2>2. ASSUME NEW e \in Events, e \notin doubtful'
        PROVE  /\ db'[e] <= 1
               /\ db'[e] = 1 => /\ e \notin buckets'
                                /\ \A g \in Calls : e \notin flush'[g].snapshot
    <3>1. CASE e \in S
      <4>1. db[e] = 0 /\ e \notin buckets
        BY <2>2, <3>1, <1>2 DEF CountedOnce, TypeOK
      <4>2. db'[e] = 1
        BY <4>1, <3>1, <1>4
      <4>3. e \notin buckets' /\ \A g \in Calls : e \notin flush'[g].snapshot
        BY <4>1, <3>1, <2>1, <1>2
      <4>4. QED
        BY <4>2, <4>3
    <3>2. CASE e \notin S
      BY <2>2, <3>2, <2>1, <1>2, <1>4 DEF CountedOnce
    <3>3. QED
      BY <3>1, <3>2
  <2>3. QED
    BY <2>1, <2>2 DEF CountedOnce
<1>8. NoneMissing'
  <2>1. ASSUME NEW e \in consumed' \ lost' PROVE Kept(e)'
    <3>1. e \in Events /\ Kept(e)
      BY <2>1, <1>2 DEF NoneMissing, TypeOK
    <3>2. CASE e \in S
      BY <3>1, <3>2, <1>4 DEF Kept, TypeOK
    <3>3. CASE e \notin S
      BY <3>1, <3>3, <1>2, <1>4 DEF Kept
    <3>4. QED
      BY <3>2, <3>3
  <2>2. QED
    BY <2>1, <1>2 DEF NoneMissing, SignalledTwice
<1>9. QED
  BY <1>5, <1>6, <1>7, <1>8

LEMMA ConnectFailsIInv ==
    ASSUME IInv, NEW f \in Calls, ConnectFails(f)
    PROVE  IInv'
<1> USE RollupAssumption DEF IInv
<1> DEFINE S == flush[f].snapshot
<1>1. S \subseteq Events
  BY ActiveFlush DEF ConnectFails
<1>2. /\ flush' \in [Calls -> {Idle} \cup
                       [phase : {"queued", "connect", "txn"}, snapshot : (SUBSET Events) \ {{}},
                        done : SUBSET Keys]]
      /\ flush'[f] = Idle
      /\ \A g \in Calls : g # f => flush'[g].snapshot = flush[g].snapshot
      /\ failures' = failures + 1 /\ failures < MaxFailures
      /\ lost' = lost \cup S
      /\ UNCHANGED <<exited, shutdown, ended, consumed, buckets, db, victims, stranded, doubtful>>
  BY FreedFlush DEF ConnectFails, Fail, proc
<1>3. flush'[f].snapshot = {}
  BY <1>2 DEF Idle
<1>4. TypeOK'
  <2>1. failures' \in 0..MaxFailures
    BY <1>2 DEF TypeOK
  <2>2. QED
    BY <1>1, <1>2, <2>1 DEF TypeOK
<1>5. NothingInvented' /\ EndedByShutdown' /\ Orderly'
  BY <1>2, <1>3 DEF NothingInvented, EndedByShutdown, Orderly, TypeOK
<1>6. CountedOnce'
  BY <1>2, <1>3 DEF CountedOnce
<1>7. NoneMissing'
  BY <1>2 DEF NoneMissing, Kept, TypeOK
<1>8. QED
  BY <1>4, <1>5, <1>6, <1>7

\* A second signal stays one.
LEMMA StaysSignalled ==
    ASSUME TypeOK, NEW s \in Signals, NEW phase \in {"disconnecting", "flushing", "ending"},
           Advance(s, phase), SignalledTwice
    PROVE  SignalledTwice'
<1>1. \A u \in Signals : shutdown[u] # "none" => shutdown'[u] # "none"
  BY DEF Advance, TypeOK
<1>2. QED
  BY <1>1 DEF SignalledTwice

LEMMA SignalIInv ==
    ASSUME IInv, NEW s \in Signals, Signal(s)
    PROVE  IInv'
<1> USE RollupAssumption DEF IInv, history
<1>1. /\ shutdown[s] = "none"
      /\ shutdown' = [shutdown EXCEPT ![s] = "disconnecting"]
      /\ SignalledTwice => SignalledTwice'
      /\ UNCHANGED <<exited, ended, consumed, buckets, flush, db, failures, history>>
  BY StaysSignalled DEF Signal, Advance
<1>2. /\ shutdown'[s] = "disconnecting"
      /\ \A u \in Signals : u # s => shutdown'[u] = shutdown[u]
  BY <1>1 DEF TypeOK
<1>3. TypeOK' /\ NothingInvented' /\ CountedOnce' /\ NoneMissing'
  BY <1>1 DEF TypeOK, NothingInvented, CountedOnce, NoneMissing, Kept
<1>4. EndedByShutdown' /\ Orderly'
  BY <1>1, <1>2 DEF EndedByShutdown, Orderly
<1>5. QED
  BY <1>3, <1>4

LEMMA LastFlushIInv ==
    ASSUME IInv, NEW s \in Signals, LastFlush(s)
    PROVE  IInv'
<1> USE RollupAssumption DEF IInv, history
<1>1. /\ shutdown[s] = "disconnecting"
      /\ shutdown' = [shutdown EXCEPT ![s] = "flushing"]
      /\ SignalledTwice => SignalledTwice'
      /\ UNCHANGED <<exited, ended, consumed, db, failures, victims, stranded, doubtful>>
  BY StaysSignalled DEF LastFlush, Advance
<1>2. /\ shutdown'[s] = "flushing"
      /\ \A u \in Signals : u # s => shutdown'[u] = shutdown[u]
      /\ shutdown' \in [Signals -> {"none", "disconnecting", "flushing", "ending"}]
  BY <1>1 DEF TypeOK
<1>3. EndedByShutdown'
  BY <1>1, <1>2 DEF EndedByShutdown
<1>4. CASE buckets = {} /\ UNCHANGED <<buckets, flush, lost>>
  BY <1>1, <1>2, <1>3, <1>4 DEF TypeOK, NothingInvented, CountedOnce, NoneMissing, Kept, Orderly
<1>5. CASE ~ended /\ Begin(s) /\ UNCHANGED lost
  <2>1. s \in Calls
    BY DEF Calls
  <2>2. QED
    BY <1>1, <1>2, <1>3, <1>5, <2>1, BeginIInv
<1>6. CASE ended /\ lost' = lost \cup buckets /\ buckets' = {} /\ UNCHANGED flush
  \* Somebody else has ended the pool.
  <2>1. SignalledTwice'
    <3>1. PICK u \in Signals : shutdown[u] = "ending"
      BY <1>6 DEF EndedByShutdown
    <3>2. u # s /\ shutdown'[u] # "none" /\ shutdown'[s] # "none"
      BY <1>1, <1>2, <3>1
    <3>3. QED
      BY <3>2 DEF SignalledTwice
  <2>2. TypeOK' /\ NothingInvented' /\ Orderly'
    BY <1>1, <1>2, <1>6, <2>1 DEF TypeOK, NothingInvented, Orderly
  <2>3. CountedOnce'
    BY <1>1, <1>6 DEF CountedOnce
  <2>4. NoneMissing'
    BY <1>1, <1>6, <2>1 DEF NoneMissing, Kept
  <2>5. QED
    BY <1>3, <2>2, <2>3, <2>4
<1>7. QED
  BY <1>4, <1>5, <1>6 DEF LastFlush

LEMMA EndPoolIInv ==
    ASSUME IInv, NEW s \in Signals, EndPool(s)
    PROVE  IInv'
<1> USE RollupAssumption DEF IInv, history
<1>1. /\ shutdown[s] = "flushing" /\ ~ended /\ ended' = TRUE
      /\ shutdown' = [shutdown EXCEPT ![s] = "ending"]
      /\ SignalledTwice => SignalledTwice'
      /\ stranded' = Snapshots(Queued)
      /\ UNCHANGED <<exited, consumed, buckets, flush, db, failures, victims, lost, doubtful>>
  BY StaysSignalled DEF EndPool, Flushed, Advance
<1>2. /\ shutdown'[s] = "ending"
      /\ shutdown' \in [Signals -> {"none", "disconnecting", "flushing", "ending"}]
  BY <1>1 DEF TypeOK
<1>3. /\ \A f \in Calls : flush[f].phase = "queued" => flush[f].snapshot \subseteq stranded'
      /\ stranded' \subseteq Events
  <2>1. \A f \in Calls : flush[f].snapshot \subseteq Events
    BY DEF TypeOK, Idle
  <2>2. QED
    BY <1>1, <2>1 DEF Snapshots, Queued
<1>4. TypeOK' /\ NothingInvented' /\ EndedByShutdown' /\ CountedOnce'
  BY <1>1, <1>2, <1>3 DEF TypeOK, NothingInvented, EndedByShutdown, CountedOnce
<1>5. Orderly'
  BY <1>1, <1>3 DEF Orderly
<1>6. NoneMissing'
  BY <1>1 DEF NoneMissing, Kept, Orderly
<1>7. QED
  BY <1>4, <1>5, <1>6

\* Only what is counted, or has been dropped before, is not lost when the process exits.
LEMMA ExitIInv ==
    ASSUME IInv, NEW s \in Signals, Exit(s)
    PROVE  IInv'
<1> USE RollupAssumption DEF IInv, history
<1>1. PICK C \in SUBSET {f \in Calls : flush[f].phase = "txn" /\ Left(f) = {}} :
         /\ Counted(Snapshots(C))
         /\ lost' = lost \cup buckets \cup Snapshots(Calls \ C)
  BY DEF Exit
<1>2. /\ exited' = TRUE /\ buckets' = {} /\ flush' = [f \in Calls |-> Idle]
      /\ UNCHANGED <<shutdown, ended, consumed, failures, victims, stranded, doubtful>>
  BY DEF Exit
<1> DEFINE S == Snapshots(C)
<1>3. /\ \A f \in Calls : flush[f].snapshot \subseteq Events
      /\ \A f \in Calls : flush'[f] = Idle /\ flush'[f].snapshot = {}
  BY <1>2 DEF TypeOK, Idle
<1>4. \A e : e \in S <=> \E f \in C : e \in flush[f].snapshot
  BY DEF Snapshots
<1>5. \A e : e \in lost' <=> e \in lost \/ e \in buckets \/ \E f \in Calls \ C : e \in flush[f].snapshot
  BY <1>1 DEF Snapshots
<1>6. \A e \in Events : db'[e] = IF e \in S THEN db[e] + 1 ELSE db[e]
  BY <1>1 DEF Counted
<1>7. db' \in [Events -> Nat]
  BY <1>1 DEF Counted, TypeOK
<1> HIDE DEF S
<1>8. TypeOK'
  <2>1. lost' \subseteq Events
    BY <1>3, <1>5 DEF TypeOK
  <2>2. QED
    BY <1>2, <1>7, <2>1 DEF TypeOK
<1>9. NothingInvented'
  <2>1. ASSUME NEW e \in Events, db'[e] >= 1 PROVE e \in consumed
    <3>1. CASE e \in S
      BY <1>4, <3>1 DEF NothingInvented
    <3>2. CASE e \notin S
      BY <1>6, <2>1, <3>2 DEF NothingInvented
    <3>3. QED
      BY <3>1, <3>2
  <2>2. QED
    BY <1>2, <1>3, <2>1 DEF NothingInvented
<1>10. CountedOnce'
  <2>1. ASSUME NEW e \in Events, e \notin doubtful PROVE db'[e] <= 1
    <3>1. db[e] \in Nat /\ db[e] <= 1
      BY <2>1 DEF CountedOnce, TypeOK
    <3>2. CASE e \in S
      <4>1. db[e] # 1
        BY <1>4, <2>1, <3>2 DEF CountedOnce
      <4>2. db[e] = 0
        BY <3>1, <4>1
      <4>3. QED
        <5>1. db'[e] = db[e] + 1
          BY <1>6, <3>2
        <5>2. QED
          BY <4>2, <5>1
    <3>3. CASE e \notin S
      BY <1>6, <3>1, <3>3
    <3>4. QED
      BY <3>2, <3>3
  <2>2. QED
    BY <1>2, <1>3, <2>1 DEF CountedOnce
\* In an orderly shutdown all that is left is queued, and was so when the pool was ended.
<1>11. ASSUME failures = 0, victims = {}, ~SignalledTwice PROVE ended /\ lost' \subseteq stranded
  <2>1. PICK u \in Signals : shutdown[u] = "ending" /\ ended /\ ClientsOut = {}
    <3>1. CASE shutdown[s] = "ending" /\ ClientsOut = {}
      BY <3>1 DEF EndedByShutdown
    <3>2. CASE Flushed(s) /\ ended
      <4>1. PICK u \in Signals : shutdown[u] = "ending"
        BY <3>2 DEF EndedByShutdown
      <4>2. SignalledTwice
        BY <3>2, <4>1 DEF Flushed, SignalledTwice
      <4>3. QED
        BY <1>11, <4>2
    <3>3. QED
      BY <3>1, <3>2 DEF Exit
  <2>2. buckets = {} /\ lost \subseteq stranded
    BY <1>11, <2>1 DEF Orderly, NoneMissing
  <2>3. ASSUME NEW f \in Calls PROVE flush[f].snapshot \subseteq stranded
    <3>1. CASE flush[f] = Idle
      BY <3>1 DEF Idle
    <3>2. CASE flush[f] # Idle
      <4>1. flush[f].phase \in {"queued", "connect", "txn"}
        BY <3>2 DEF TypeOK
      <4>2. flush[f].phase = "queued"
        BY <2>1, <4>1 DEF ClientsOut
      <4>3. QED
        BY <1>11, <2>1, <4>2 DEF Orderly
    <3>3. QED
      BY <3>1, <3>2
  <2>4. QED
    BY <1>5, <2>1, <2>2, <2>3
<1>12. EndedByShutdown' /\ (SignalledTwice <=> SignalledTwice')
  BY <1>2 DEF EndedByShutdown, SignalledTwice
<1>13. Orderly'
  BY <1>2, <1>3, <1>11, <1>12 DEF Orderly, Idle
<1>14. NoneMissing'
  <2>1. ASSUME NEW e \in consumed, e \notin lost' PROVE db'[e] >= 1
    <3>1. e \in Events /\ Kept(e) /\ e \notin buckets /\ db[e] \in Nat
      BY <1>5, <2>1 DEF NoneMissing, TypeOK
    <3>2. db[e] >= 1 \/ e \in S
      BY <1>4, <1>5, <2>1, <3>1 DEF Kept
    <3>3. CASE e \in S
      BY <1>6, <3>1, <3>3
    <3>4. CASE e \notin S
      BY <1>6, <3>1, <3>2, <3>4
    <3>5. QED
      BY <3>3, <3>4
  <2>2. QED
    BY <1>2, <1>11, <1>12, <2>1 DEF NoneMissing, Kept
<1>15. QED
  BY <1>8, <1>9, <1>10, <1>12, <1>13, <1>14

LEMMA FailureIInv ==
    ASSUME IInv, NEW f \in Calls,
           StatementFails(f) \/ CommitAnswerLost(f) \/ DeadlockAborts(f)
    PROVE  IInv'
<1>1. flush[f].phase = "txn" /\ Remerge(f) /\ UNCHANGED <<proc, consumed, lost, stranded>>
  BY DEF StatementFails, CommitAnswerLost, DeadlockAborts, history
<1>2. /\ failures' \in 0..MaxFailures /\ failures' >= failures
      /\ victims' \subseteq Calls /\ victims \subseteq victims'
      /\ failures' > 0 \/ victims' # {}
  BY RollupAssumption
     DEF StatementFails, CommitAnswerLost, DeadlockAborts, Fail, history, IInv, TypeOK
<1>3. \/ UNCHANGED <<db, doubtful>>
      \/ Counted(flush[f].snapshot) /\ doubtful' = doubtful \cup flush[f].snapshot
  BY DEF StatementFails, CommitAnswerLost, DeadlockAborts, history
<1>4. QED
  BY <1>1, <1>2, <1>3, RemergeIInv

LEMMA NextIInv == IInv /\ [Next]_vars => IInv'
<1>1. SUFFICES ASSUME IInv, [Next]_vars PROVE IInv'
  OBVIOUS
<1>2. CASE \E e \in Events : Add(e)
  BY <1>1, <1>2, AddIInv
<1>3. CASE TimerFlush
  <2>1. Tick \in Ticks /\ Tick \in Calls /\ Begin(Tick)
    BY <1>3 DEF TimerFlush, Tick, Calls
  <2>2. UNCHANGED <<exited, shutdown, ended, consumed, db, failures, history>>
    BY <1>3 DEF TimerFlush, proc
  <2>3. ~ended /\ EndedByShutdown' /\ (SignalledTwice => SignalledTwice')
    BY <1>1, <1>3, <2>2 DEF TimerFlush, TimerRuns, IInv, EndedByShutdown, SignalledTwice
  <2>4. shutdown' \in [Signals -> {"none", "disconnecting", "flushing", "ending"}]
    BY <1>1, <2>2 DEF IInv, TypeOK
  <2>5. QED
    BY <1>1, <2>1, <2>2, <2>3, <2>4, BeginIInv
<1>4. ASSUME NEW f \in Calls, Connected(f) PROVE IInv'
  <2>1. flush[f].snapshot # {} /\ flush[f].snapshot \subseteq Events
    <3>1. flush[f].phase # "idle" /\ TypeOK
      BY <1>1, <1>4 DEF Connected, IInv
    <3>2. QED
      BY <3>1, ActiveFlush
  <2>2. PICK k \in Keys : TRUE
    BY <2>1, RollupAssumption
  <2>3. QED
    BY <1>1, <1>4, <2>2, ProgressIInv
<1>5. ASSUME NEW f \in Calls, NEW k \in Keys, Upsert(f, k) PROVE IInv'
  BY <1>1, <1>5, ProgressIInv
<1>6. ASSUME NEW f \in Calls, Commit(f) PROVE IInv'
  BY <1>1, <1>6, CommitIInv
<1>7. ASSUME NEW f \in Calls, ConnectFails(f) PROVE IInv'
  BY <1>1, <1>7, ConnectFailsIInv
<1>8. ASSUME NEW f \in Calls,
             StatementFails(f) \/ CommitAnswerLost(f) \/ DeadlockAborts(f)
      PROVE  IInv'
  BY <1>1, <1>8, FailureIInv
<1>9. ASSUME NEW s \in Signals, Signal(s) \/ LastFlush(s) \/ EndPool(s) \/ Exit(s) PROVE IInv'
  BY <1>1, <1>9, SignalIInv, LastFlushIInv, EndPoolIInv, ExitIInv
<1>10. CASE UNCHANGED vars
  BY <1>1, <1>10 DEF vars, proc, history, IInv, TypeOK, NothingInvented, EndedByShutdown, Orderly,
                     CountedOnce, NoneMissing, Kept, SignalledTwice
<1>11. QED
  BY <1>1, <1>2, <1>3, <1>4, <1>5, <1>6, <1>7, <1>8, <1>9, <1>10 DEF Next

LEMMA SpecIInv == Spec => []IInv
BY InitIInv, NextIInv, PTL DEF Spec

\* flush() and its catch block never count an event twice, except after a COMMIT
\* whose answer was lost.
THEOREM EventsCountedOnce == Spec => []CountedOnce
<1>1. IInv => CountedOnce
  BY DEF IInv
<1>2. QED
  BY <1>1, SpecIInv, PTL

\* flush(), its catch block and the shutdown lose an event only if a connect or the last
\* flush failed, a second signal came, or the event's flush was still queued for a client
\* when the pool was ended.
THEOREM EventsNotMissing == Spec => []NoneMissing
<1>1. IInv => NoneMissing
  BY DEF IInv
<1>2. QED
  BY <1>1, SpecIInv, PTL
=============================================================================
