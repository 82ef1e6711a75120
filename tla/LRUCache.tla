------------------------------- MODULE LRUCache -------------------------------
(***************************************************************************)
(* One shard of the in-process cache (proxy/src/cache/LRUCache.cpp) as     *)
(* functions from the shard's fields to its fields: order_, the list of    *)
(* nodes from most to least recently used; index_, here the keys it maps;  *)
(* and the running total curBytes_.  Every method holds mutex_.            *)
(* A node keeps its key, its size and whether it is still serveable.       *)
(***************************************************************************)
EXTENDS Integers, Sequences, SequencesExt

EmptyShard == [order |-> <<>>, index |-> {}, curBytes |-> 0]

Node(k, bytes) == [key |-> k, bytes |-> bytes, live |-> TRUE]

Total(ns) ==
    LET sum[i \in 0..Len(ns)] == IF i = 0 THEN 0 ELSE sum[i - 1] + ns[i]
    IN  sum[Len(ns)]

Bytes(nodes) == Total([i \in DOMAIN nodes |-> nodes[i].bytes])

NodeOf(order, k) == order[CHOOSE i \in DOMAIN order : order[i].key = k]

\* The body of the loops of purge() and sweepExpired(): the node n is taken out of the
\* list, the index and the total, or stays.
Visit(sh, n, out) ==
    IF n \in out
      THEN [order |-> sh.order, index |-> sh.index \ {n.key}, curBytes |-> sh.curBytes - n.bytes]
      ELSE [order |-> Append(sh.order, n), index |-> sh.index, curBytes |-> sh.curBytes]

RemoveNodes(sh, out) ==
    LET visited[i \in 0..Len(sh.order)] ==
          IF i = 0 THEN [order |-> <<>>, index |-> sh.index, curBytes |-> sh.curBytes]
                   ELSE Visit(visited[i - 1], sh.order[i], out)
    IN  visited[Len(sh.order)]

\* The node of a key is taken out.
Without(sh, k) == RemoveNodes(sh, {n \in Range(sh.order) : n.key = k})

\* splice to the front
ToFront(sh, k) == <<NodeOf(sh.order, k)>> \o Without(sh, k).order

\* Mutant: a hit leaves the list as it is.
LruGetNoSplice(sh, k) == sh

\* get(): a hit becomes the most recently used.
LruGet(sh, k) ==
    IF k \in sh.index
      THEN [order |-> ToFront(sh, k), index |-> sh.index, curBytes |-> sh.curBytes]
      ELSE sh

\* The body of evictToFit_'s loop: drops the node at the back if the total is over the
\* limit.
EvictBack(sh, maxBytes) ==
    IF sh.curBytes > maxBytes /\ sh.order # <<>>
      THEN [order |-> Front(sh.order), index |-> sh.index \ {Last(sh.order).key},
            curBytes |-> sh.curBytes - Last(sh.order).bytes]
      ELSE sh

\* The loop goes round at most once per node.
EvictToFit(sh, maxBytes) ==
    LET evicted[i \in 0..Len(sh.order)] ==
          IF i = 0 THEN sh ELSE EvictBack(evicted[i - 1], maxBytes)
    IN  evicted[Len(sh.order)]

Inserted(sh, k, bytes) ==
    [order |-> <<Node(k, bytes)>> \o sh.order, index |-> sh.index \cup {k},
     curBytes |-> sh.curBytes + bytes]

\* Mutant: the size of the replaced entry stays in the total.
LruPutAdds(sh, k, bytes, maxBytes) ==
    EvictToFit(Inserted([Without(sh, k) EXCEPT !.curBytes = sh.curBytes], k, bytes), maxBytes)

\* Mutant: a key that is there is moved to the front and keeps its entry.
LruPutKeepsEntry(sh, k, bytes, maxBytes) ==
    IF k \in sh.index THEN LruGet(sh, k)
                      ELSE EvictToFit(Inserted(sh, k, bytes), maxBytes)

\* put(): the entry of the key, if there is one, gives way to the new one, which is at the
\* front; then room is made.
LruPut(sh, k, bytes, maxBytes) ==
    EvictToFit(Inserted(IF k \in sh.index THEN Without(sh, k) ELSE sh, k, bytes), maxBytes)

LruErase(sh, k) == IF k \in sh.index THEN Without(sh, k) ELSE sh

LruPurge(sh, matching) == RemoveNodes(sh, {n \in Range(sh.order) : n.key \in matching})

LruSweepExpired(sh) == RemoveNodes(sh, {n \in Range(sh.order) : ~n.live})
=============================================================================
