-------------------------- MODULE ShardedCacheProofs --------------------------
(***************************************************************************)
(* That a shard's list, index and total agree, that the cache stays within *)
(* its limit and keeps the promise of BoundedCache, that a purge is        *)
(* thorough and an eviction takes what was used least recently, for any    *)
(* requests, sizes, limit and number of shards; and that a key says what   *)
(* was asked for.  The loops of LRUCache are recursive functions on the    *)
(* positions of the list; what they leave is proved by induction on the    *)
(* positions.                                                              *)
(***************************************************************************)
EXTENDS ShardedCache, FiniteSetTheorems, SequenceTheorems, WellFoundedInduction, TLAPS

-----------------------------------------------------------------------------
(* Induction and recursion over the positions of a list.                   *)

\* What holds at 0 and goes from each position to the next holds up to n.
LEMMA Induct ==
    ASSUME NEW n \in Nat, NEW S, 0 \in S,
           \A i \in 0..n : i \in S /\ i < n => i + 1 \in S
    PROVE  0..n \subseteq S
<1> DEFINE R == OpToRel(<, Nat)
           T == {i \in 0..n : i \notin S}
<1>1. IsWellFoundedOn(R, Nat)
  BY NatLessThanWellFounded
<1>2. \A x, y \in Nat : <<y, x>> \in R <=> y < x
  BY DEF OpToRel
<1> HIDE DEF R
<1>3. SUFFICES ASSUME T # {} PROVE FALSE
  OBVIOUS
<1>4. T \subseteq Nat
  OBVIOUS
<1>5. PICK x \in T : \A y \in T : ~(<<y, x>> \in R)
  BY <1>1, <1>3, <1>4, WFMin
<1>6. \A y \in T : ~(y < x)
  BY <1>2, <1>4, <1>5
<1>7. x # 0 /\ x \in 0..n /\ x \notin S
  BY <1>5
<1>8. x - 1 \in 0..n /\ x - 1 \in S
  BY <1>6, <1>7
<1>9. QED
  BY <1>7, <1>8

\* The values of a loop: where it starts and what each round makes of it.
Rounds(f, A, a, g, n) ==
    /\ f \in [0..n -> A]
    /\ f[0] = a
    /\ \A i \in 1..n : f[i] = g[<<f[i - 1], i>>]

\* A loop of n rounds that stays in A has values.
LEMMA RoundsExist ==
    ASSUME NEW A, NEW a \in A, NEW n \in Nat, NEW g \in [A \X (1..n) -> A]
    PROVE  \E f : Rounds(f, A, a, g, n)
<1> DEFINE S == {m \in 0..n : \E f : Rounds(f, A, a, g, m)}
<1>1. 0 \in S
  <2>1. Rounds([i \in 0..0 |-> a], A, a, g, 0)
    BY DEF Rounds
  <2>2. QED
    BY <2>1
<1>2. ASSUME NEW m \in 0..n, m \in S, m < n PROVE m + 1 \in S
  <2>1. PICK f : Rounds(f, A, a, g, m)
    BY <1>2
  <2> DEFINE h == [i \in 0..(m + 1) |-> IF i = m + 1 THEN g[<<f[m], m + 1>>] ELSE f[i]]
  <2>2. f \in [0..m -> A] /\ f[m] \in A /\ g[<<f[m], m + 1>>] \in A
    <3>1. f \in [0..m -> A] /\ f[m] \in A /\ m + 1 \in 1..n
      BY <1>2, <2>1 DEF Rounds
    <3>2. <<f[m], m + 1>> \in A \X (1..n)
      BY <3>1
    <3>3. QED
      BY <3>1, <3>2
  <2>3. h \in [0..(m + 1) -> A] /\ h[0] = a
    BY <2>1, <2>2 DEF Rounds
  <2>4. ASSUME NEW i \in 1..(m + 1) PROVE h[i] = g[<<h[i - 1], i>>]
    <3>1. CASE i = m + 1
      <4>1. i - 1 = m /\ h[i - 1] = f[m] /\ h[i] = g[<<f[m], m + 1>>]
        BY <3>1
      <4>2. QED
        BY <3>1, <4>1
    <3>2. CASE i \in 1..m
      BY <3>2, <2>1 DEF Rounds
    <3>3. QED
      BY <3>1, <3>2
  <2>5. Rounds(h, A, a, g, m + 1)
    BY <2>3, <2>4 DEF Rounds
  <2>6. QED
    BY <1>2, <2>5
<1>3. 0..n \subseteq S
  BY <1>1, <1>2, Induct
<1>4. QED
  BY <1>3

\* Sums(f, ns): f has the sums of the first numbers of ns.
Sums(f, ns) ==
    /\ f \in [0..Len(ns) -> Int]
    /\ f[0] = 0
    /\ \A i \in 1..Len(ns) : f[i] = f[i - 1] + ns[i]

SumFcn(f, ns) == f = [i \in 0..Len(ns) |-> IF i = 0 THEN 0 ELSE f[i - 1] + ns[i]]

LEMMA SumFcnIsSums ==
    ASSUME NEW ns \in Seq(Int)
    PROVE  /\ \A f : SumFcn(f, ns) => Sums(f, ns)
           /\ \E f : SumFcn(f, ns)
<1> DEFINE n == Len(ns)
           g == [p \in Int \X (1..n) |-> p[1] + ns[p[2]]]
<1>1. n \in Nat /\ g \in [Int \X (1..n) -> Int]
  OBVIOUS
<1>2. \A h \in [Int \X (1..n) -> Int] : \E f : Rounds(f, Int, 0, h, n)
  <2> HIDE DEF n
  <2>1. SUFFICES ASSUME NEW h \in [Int \X (1..n) -> Int] PROVE \E f : Rounds(f, Int, 0, h, n)
    OBVIOUS
  <2>2. 0 \in Int
    OBVIOUS
  <2>3. QED
    BY ONLY <1>1, <2>1, <2>2, RoundsExist
<1>6. PICK f : Rounds(f, Int, 0, g, n)
  BY <1>1, <1>2
<1>3. SumFcn(f, ns)
  <2>1. f \in [0..n -> Int] /\ f[0] = 0
    BY <1>6 DEF Rounds
  <2>2. ASSUME NEW i \in 1..n PROVE f[i] = f[i - 1] + ns[i]
    <3>1. i - 1 \in 0..n
      <4> HIDE DEF n
      <4>1. QED
        BY ONLY <1>1, i \in 1..n
    <3>2. PICK x \in Int : x = f[i - 1]
      <4> HIDE DEF n
      <4>1. QED
        BY ONLY <2>1, <3>1
    <3>3. f[i] = g[<<x, i>>]
      <4> HIDE DEF n, g
      <4>1. QED
        BY <1>6, <3>2 DEF Rounds
    <3>4. g[<<x, i>>] = x + ns[i]
      <4> HIDE DEF n
      <4>1. QED
        BY x \in Int, i \in 1..n
    <3>5. QED
      BY ONLY <3>2, <3>3, <3>4
  <2>3. QED
    BY <1>1, <2>1, <2>2 DEF SumFcn
<1>4. ASSUME NEW h, SumFcn(h, ns) PROVE Sums(h, ns)
  <2> DEFINE S == {i \in 0..n : h[i] \in Int}
  <2>1. 0 \in S
    BY <1>1, <1>4 DEF SumFcn
  <2>2. \A i \in 0..n : i \in S /\ i < n => i + 1 \in S
    BY <1>1, <1>4 DEF SumFcn
  <2>3. 0..n \subseteq S
    <3> HIDE DEF n, S
    <3>1. QED
      BY <2>1, <2>2, <1>1, Induct
  <2>4. h = [i \in 0..n |-> IF i = 0 THEN 0 ELSE h[i - 1] + ns[i]]
    BY <1>4 DEF SumFcn
  <2>5. h \in [0..n -> Int] /\ h[0] = 0
    BY <1>1, <2>3, <2>4
  <2>6. ASSUME NEW i \in 1..n PROVE h[i] = h[i - 1] + ns[i]
    <3> HIDE DEF n
    <3>1. i \in 0..n /\ i # 0
      BY ONLY <1>1, i \in 1..n
    <3>2. QED
      BY ONLY <2>4, <3>1
  <2>7. QED
    BY <2>5, <2>6 DEF Sums
<1>5. QED
  BY <1>3, <1>4

LEMMA TotalIsSum ==
    ASSUME NEW ns \in Seq(Int)
    PROVE  \E f : Sums(f, ns) /\ Total(ns) = f[Len(ns)]
<1>1. Total(ns) = (CHOOSE f : SumFcn(f, ns))[Len(ns)]
  BY DEF Total, SumFcn
<1>2. SumFcn(CHOOSE f : SumFcn(f, ns), ns)
  BY SumFcnIsSums
<1>3. QED
  BY <1>1, <1>2, SumFcnIsSums

LEMMA SumsStep ==
    ASSUME NEW ns \in Seq(Int), NEW f, Sums(f, ns), NEW i \in Nat, i < Len(ns)
    PROVE  f[i + 1] = f[i] + ns[i + 1] /\ f[i] \in Int /\ ns[i + 1] \in Int
<1>1. i + 1 \in 1..Len(ns) /\ (i + 1) - 1 = i /\ i \in 0..Len(ns)
  OBVIOUS
<1>2. f[i + 1] = f[(i + 1) - 1] + ns[i + 1]
  BY <1>1 DEF Sums
<1>3. QED
  BY <1>1, <1>2 DEF Sums

\* Two lists of sums agree as far as their numbers do.
LEMMA SumsAgree ==
    ASSUME NEW ns \in Seq(Int), NEW ms \in Seq(Int), NEW f, NEW h, Sums(f, ns), Sums(h, ms),
           NEW n \in Nat, n <= Len(ns), n <= Len(ms), \A i \in 1..n : ns[i] = ms[i]
    PROVE  f[n] = h[n]
<1> DEFINE S == {i \in 0..n : f[i] = h[i]}
<1>1. 0 \in S
  BY DEF Sums
<1>2. \A i \in 0..n : i \in S /\ i < n => i + 1 \in S
  BY DEF Sums
<1>3. 0..n \subseteq S
  <2> HIDE DEF S
  <2>1. QED
    BY <1>1, <1>2, Induct
<1>4. QED
  BY <1>3

LEMMA TotalType ==
    ASSUME NEW ns \in Seq(Int)
    PROVE  Total(ns) \in Int
<1>1. PICK f : Sums(f, ns) /\ Total(ns) = f[Len(ns)]
  BY TotalIsSum
<1>2. QED
  BY <1>1 DEF Sums

LEMMA TotalEmpty == Total(<<>>) = 0
<1>1. <<>> \in Seq(Int) /\ Len(<<>>) = 0
  OBVIOUS
<1>2. PICK f : Sums(f, <<>>) /\ Total(<<>>) = f[Len(<<>>)]
  BY <1>1, TotalIsSum
<1>3. QED
  BY <1>1, <1>2 DEF Sums

\* ms is ns with a number more at its end.
LEMMA TotalSnoc ==
    ASSUME NEW ns \in Seq(Int), NEW ms \in Seq(Int),
           Len(ms) = Len(ns) + 1, \A i \in 1..Len(ns) : ms[i] = ns[i]
    PROVE  Total(ms) = Total(ns) + ms[Len(ms)]
<1>1. PICK f : Sums(f, ns) /\ Total(ns) = f[Len(ns)]
  BY TotalIsSum
<1>2. PICK h : Sums(h, ms) /\ Total(ms) = h[Len(ms)]
  BY TotalIsSum
<1>3. PICK n \in Nat : n = Len(ns)
  OBVIOUS
<1>4. f[n] = h[n]
  <2>1. n <= Len(ns) /\ n <= Len(ms) /\ \A i \in 1..n : ns[i] = ms[i]
    BY <1>3
  <2>2. QED
    BY ONLY <1>1, <1>2, <1>3, <2>1, SumsAgree, ns \in Seq(Int), ms \in Seq(Int)
<1>5. h[n + 1] = h[n] + ms[n + 1]
  <2>1. n + 1 \in 1..Len(ms) /\ (n + 1) - 1 = n
    BY <1>3
  <2>2. h[n + 1] = h[(n + 1) - 1] + ms[n + 1]
    BY ONLY <1>2, <2>1, ms \in Seq(Int), SumsStep
  <2>3. QED
    BY ONLY <2>1, <2>2
<1>6. QED
  BY <1>1, <1>2, <1>3, <1>4, <1>5

\* ms is ns with a number more at its beginning.
LEMMA TotalCons ==
    ASSUME NEW ns \in Seq(Int), NEW ms \in Seq(Int),
           Len(ms) = Len(ns) + 1, \A i \in 1..Len(ns) : ms[i + 1] = ns[i]
    PROVE  Total(ms) = ms[1] + Total(ns)
<1>1. PICK f : Sums(f, ns) /\ Total(ns) = f[Len(ns)]
  BY TotalIsSum
<1>2. PICK h : Sums(h, ms) /\ Total(ms) = h[Len(ms)]
  BY TotalIsSum
<1>3. PICK n \in Nat : n = Len(ns)
  OBVIOUS
<1> DEFINE S == {i \in 0..n : h[i + 1] = ms[1] + f[i]}
<1>4. 0 \in S
  BY <1>1, <1>2, <1>3 DEF Sums
<1>5. ASSUME NEW i \in 0..n, i \in S, i < n PROVE i + 1 \in S
  <2>1. f[i + 1] = f[i] + ns[i + 1] /\ f[i] \in Int /\ ns[i + 1] \in Int
    BY <1>1, <1>3, <1>5, SumsStep
  <2>2. h[i + 2] = h[i + 1] + ms[i + 2] /\ ms[i + 2] = ns[i + 1] /\ ms[1] \in Int
    <3>1. i + 2 \in 1..Len(ms) /\ (i + 2) - 1 = i + 1 /\ i + 1 \in 1..Len(ns) /\ (i + 1) + 1 = i + 2
      BY <1>3, <1>5
    <3>2. QED
      BY <1>2, <3>1 DEF Sums
  <2>3. QED
    BY <1>5, <2>1, <2>2
<1>6. 0..n \subseteq S
  <2> HIDE DEF S
  <2>1. QED
    BY <1>4, <1>5, Induct
<1>7. QED
  BY <1>1, <1>2, <1>3, <1>6

\* Numbers up to b add up to no more than b for each.
LEMMA TotalBound ==
    ASSUME NEW ns \in Seq(Int), NEW b \in Nat, \A i \in 1..Len(ns) : ns[i] <= b
    PROVE  Total(ns) <= Len(ns) * b
<1>1. PICK f : Sums(f, ns) /\ Total(ns) = f[Len(ns)]
  BY TotalIsSum
<1>2. PICK n \in Nat : n = Len(ns)
  OBVIOUS
<1> DEFINE S == {i \in 0..n : f[i] <= i * b}
<1>3. 0 \in S
  BY <1>1, <1>2 DEF Sums
<1>4. ASSUME NEW i \in 0..n, i \in S, i < n PROVE i + 1 \in S
  <2>1. f[i + 1] = f[i] + ns[i + 1] /\ f[i] \in Int /\ ns[i + 1] \in Int /\ ns[i + 1] <= b
    <3>1. i < Len(ns) /\ i + 1 \in 1..Len(ns)
      BY <1>2, <1>4
    <3>2. QED
      BY <1>1, <3>1, SumsStep
  <2>2. (i + 1) * b = i * b + b /\ i * b \in Int
    OBVIOUS
  <2>3. QED
    BY <1>4, <2>1, <2>2
<1>5. 0..n \subseteq S
  <2> HIDE DEF S
  <2>1. QED
    BY <1>3, <1>4, Induct
<1>6. n \in S
  BY <1>5
<1>7. QED
  BY <1>1, <1>2, <1>6

-----------------------------------------------------------------------------
(* Lists of nodes.                                                         *)

Nodes == [key : Keys, bytes : Sizes, live : BOOLEAN]

KeysIn(order) == {order[i].key : i \in DOMAIN order}
Distinct(order) == \A i, j \in DOMAIN order : order[i].key = order[j].key => i = j
Weights(order) == [i \in DOMAIN order |-> order[i].bytes]

LEMMA FrontFacts ==
    ASSUME NEW S, NEW o \in Seq(S), o # <<>>
    PROVE  LET q == SubSeq(o, 1, Len(o) - 1)
           IN  q \in Seq(S) /\ Len(q) = Len(o) - 1 /\ \A i \in 1..Len(q) : q[i] = o[i]
<1>1. PICK n \in Nat : n = Len(o) - 1
  OBVIOUS
<1>2. 1 \in Int /\ n \in Int /\ \A i \in 1..n : o[i] \in S
  BY <1>1
<1>3. PICK q : q = SubSeq(o, 1, n)
  OBVIOUS
<1>4. /\ q \in Seq(S) /\ Len(q) = IF 1 <= n THEN n - 1 + 1 ELSE 0
      /\ \A i \in 1..(n - 1 + 1) : q[i] = o[1 + i - 1]
  BY ONLY <1>2, <1>3, SubSeqProperties
<1>5. Len(q) = n /\ \A i \in 1..n : q[i] = o[i]
  <2>1. n - 1 + 1 = n /\ \A i \in 1..n : 1 + i - 1 = i
    BY <1>1
  <2>2. QED
    BY ONLY <1>1, <1>4, <2>1
<1>6. QED
  BY <1>1, <1>3, <1>4, <1>5

LEMMA SizesArePositive == Sizes \subseteq Nat \ {0}
BY CacheAssumption

LEMMA NodeFields ==
    ASSUME NEW n \in Nodes
    PROVE  n.key \in Keys /\ n.bytes \in Nat /\ n.bytes > 0 /\ n.bytes \in Sizes
<1>1. n.key \in Keys /\ n.bytes \in Sizes
  BY DEF Nodes
<1>2. \A b \in Sizes : b \in Nat /\ b > 0
  BY SizesArePositive
<1>3. QED
  BY <1>1, <1>2

LEMMA WeightsType ==
    ASSUME NEW o \in Seq(Nodes)
    PROVE  /\ Weights(o) \in Seq(Int)
           /\ Len(Weights(o)) = Len(o)
           /\ \A i \in 1..Len(o) : Weights(o)[i] = o[i].bytes
           /\ Bytes(o) = Total(Weights(o))
           /\ Bytes(o) \in Int
<1>1. DOMAIN o = 1..Len(o) /\ Len(o) \in Nat
  OBVIOUS
<1>2. \A i \in 1..Len(o) : o[i].bytes \in Int
  BY NodeFields
<1>3. Weights(o) \in [1..Len(o) -> Int]
  BY <1>1, <1>2 DEF Weights
<1>4. Weights(o) \in Seq(Int) /\ Len(Weights(o)) = Len(o)
  BY <1>1, <1>3
<1>5. Bytes(o) = Total(Weights(o))
  BY DEF Bytes, Weights
<1>6. QED
  BY <1>1, <1>4, <1>5, TotalType DEF Weights

LEMMA BytesEmpty == Bytes(<<>>) = 0
<1>1. [i \in DOMAIN <<>> |-> <<>>[i].bytes] = <<>>
  OBVIOUS
<1>2. QED
  BY <1>1, TotalEmpty DEF Bytes

LEMMA BytesSnoc ==
    ASSUME NEW o \in Seq(Nodes), NEW q \in Seq(Nodes),
           Len(q) = Len(o) + 1, \A i \in 1..Len(o) : q[i] = o[i]
    PROVE  Bytes(q) = Bytes(o) + q[Len(q)].bytes
<1>1. PICK ns : ns = Weights(o)
  OBVIOUS
<1>2. PICK ms : ms = Weights(q)
  OBVIOUS
<1>3. /\ ns \in Seq(Int) /\ Len(ns) = Len(o) /\ Bytes(o) = Total(ns)
      /\ \A i \in 1..Len(o) : ns[i] = o[i].bytes
  BY <1>1, WeightsType
<1>4. /\ ms \in Seq(Int) /\ Len(ms) = Len(q) /\ Bytes(q) = Total(ms)
      /\ \A i \in 1..Len(q) : ms[i] = q[i].bytes
  BY <1>2, WeightsType
<1>5. Len(ms) = Len(ns) + 1 /\ \A i \in 1..Len(ns) : ms[i] = ns[i]
  <2>1. ASSUME NEW i \in 1..Len(o) PROVE ms[i] = ns[i]
    <3>1. i \in 1..Len(q) /\ q[i] = o[i]
      OBVIOUS
    <3>2. ms[i] = q[i].bytes /\ ns[i] = o[i].bytes
      BY ONLY <1>3, <1>4, <3>1, i \in 1..Len(o)
    <3>3. QED
      BY ONLY <3>1, <3>2
  <2>2. QED
    BY <1>3, <1>4, <2>1
<1>6. Total(ms) = Total(ns) + ms[Len(ms)]
  BY ONLY <1>3, <1>4, <1>5, TotalSnoc
<1>7. QED
  BY <1>3, <1>4, <1>6

LEMMA BytesCons ==
    ASSUME NEW o \in Seq(Nodes), NEW q \in Seq(Nodes),
           Len(q) = Len(o) + 1, \A i \in 1..Len(o) : q[i + 1] = o[i]
    PROVE  Bytes(q) = q[1].bytes + Bytes(o)
<1>1. PICK ns : ns = Weights(o)
  OBVIOUS
<1>2. PICK ms : ms = Weights(q)
  OBVIOUS
<1>3. /\ ns \in Seq(Int) /\ Len(ns) = Len(o) /\ Bytes(o) = Total(ns)
      /\ \A i \in 1..Len(o) : ns[i] = o[i].bytes
  BY <1>1, WeightsType
<1>4. /\ ms \in Seq(Int) /\ Len(ms) = Len(q) /\ Bytes(q) = Total(ms)
      /\ \A i \in 1..Len(q) : ms[i] = q[i].bytes
  BY <1>2, WeightsType
<1>5. Len(ms) = Len(ns) + 1 /\ \A i \in 1..Len(ns) : ms[i + 1] = ns[i]
  <2>1. ASSUME NEW i \in 1..Len(o) PROVE ms[i + 1] = ns[i]
    <3>1. i + 1 \in 1..Len(q) /\ q[i + 1] = o[i]
      OBVIOUS
    <3>2. QED
      BY <1>3, <1>4, <3>1
  <2>2. QED
    BY <1>3, <1>4, <2>1
<1>6. Total(ms) = ms[1] + Total(ns)
  BY ONLY <1>3, <1>4, <1>5, TotalCons
<1>7. QED
  BY <1>3, <1>4, <1>6

LEMMA BytesSame ==
    ASSUME NEW o \in Seq(Nodes), NEW q \in Seq(Nodes),
           Len(q) = Len(o), \A i \in 1..Len(o) : q[i].bytes = o[i].bytes
    PROVE  Bytes(q) = Bytes(o)
<1>1. Weights(q) = Weights(o)
  BY DEF Weights
<1>2. QED
  BY <1>1, WeightsType

-----------------------------------------------------------------------------
(* A shard whose fields agree, and what the methods make of it.            *)

ShardRecords == [order : Seq(Nodes), index : SUBSET Keys, curBytes : Int]

Sane(sh) ==
    /\ sh \in ShardRecords
    /\ sh.index = KeysIn(sh.order)
    /\ Distinct(sh.order)
    /\ sh.curBytes = Bytes(sh.order)

LEMMA EmptyIsSane == Sane(EmptyShard)
<1>1. <<>> \in Seq(Nodes) /\ DOMAIN <<>> = {}
  OBVIOUS
<1>2. QED
  BY <1>1, BytesEmpty DEF EmptyShard, Sane, ShardRecords, KeysIn, Distinct

\* A node leaves at the back, if the shard is over its limit.
LEMMA EvictBackFacts ==
    ASSUME NEW sh, Sane(sh), NEW m \in Nat
    PROVE  LET e == EvictBack(sh, m)
           IN  /\ Sane(e)
               /\ Range(e.order) \subseteq Range(sh.order)
               /\ e.curBytes <= m \/ Len(e.order) = Len(sh.order) - 1
<1>1. PICK o \in Seq(Nodes) : o = sh.order
  BY DEF Sane, ShardRecords
<1>2. sh.curBytes \in Int /\ sh.index = KeysIn(o) /\ Distinct(o) /\ sh.curBytes = Bytes(o)
  BY <1>1 DEF Sane, ShardRecords
<1>3. CASE ~(sh.curBytes > m /\ o # <<>>)
  <2>1. EvictBack(sh, m) = sh
    BY <1>1, <1>3 DEF EvictBack
  <2>2. sh.curBytes <= m
    BY <1>2, <1>3, BytesEmpty
  <2>3. QED
    BY <2>1, <2>2
<1>4. CASE sh.curBytes > m /\ o # <<>>
  <2>1. PICK q : q = SubSeq(o, 1, Len(o) - 1)
    OBVIOUS
  <2>2. Len(o) \in Nat /\ Len(o) >= 1
    BY <1>4
  <2>3. q \in Seq(Nodes) /\ Len(q) = Len(o) - 1 /\ \A i \in 1..Len(q) : q[i] = o[i]
    BY <2>1, <1>4, FrontFacts
  <2>4. PICK n \in Nodes : n = o[Len(o)]
    BY <2>2
  <2>5. n.key \in Keys /\ n.bytes \in Int
    BY NodeFields
  <2>6. EvictBack(sh, m) = [order |-> q, index |-> sh.index \ {n.key}, curBytes |-> sh.curBytes - n.bytes]
    BY <1>1, <1>4, <2>1, <2>4 DEF EvictBack, Front, Last
  <2>7. Bytes(o) = Bytes(q) + n.bytes /\ Bytes(q) \in Int
    <3>1. Len(o) = Len(q) + 1 /\ \A i \in 1..Len(q) : o[i] = q[i]
      BY <2>2, <2>3
    <3>2. Bytes(o) = Bytes(q) + o[Len(o)].bytes
      BY ONLY <3>1, <2>3, BytesSnoc, o \in Seq(Nodes)
    <3>3. QED
      BY <3>2, <2>3, <2>4, WeightsType
  <2>8. KeysIn(q) = KeysIn(o) \ {n.key} /\ Distinct(q)
    <3>1. DOMAIN o = 1..Len(o) /\ DOMAIN q = 1..(Len(o) - 1)
      BY <2>2, <2>3
    <3>2. \A i \in DOMAIN q : q[i] = o[i] /\ i \in DOMAIN o /\ i # Len(o)
      BY <2>2, <2>3, <3>1
    <3>3. \A i \in DOMAIN o : i \in DOMAIN q \/ i = Len(o)
      BY <2>2, <3>1
    <3>4. Len(o) \in DOMAIN o
      BY <2>2, <3>1
    <3>5. Distinct(q)
      BY <1>2, <3>2 DEF Distinct
    <3>6. ASSUME NEW k \in KeysIn(q) PROVE k \in KeysIn(o) \ {n.key}
      BY <1>2, <2>4, <3>2, <3>4 DEF Distinct, KeysIn
    <3>7. ASSUME NEW k \in KeysIn(o) \ {n.key} PROVE k \in KeysIn(q)
      BY <2>4, <3>2, <3>3 DEF KeysIn
    <3>8. QED
      BY <3>5, <3>6, <3>7
  <2>9. Range(q) \subseteq Range(o)
    BY <2>2, <2>3 DEF Range
  <2>10. Sane(EvictBack(sh, m))
    <3>1. sh.index \ {n.key} \in SUBSET Keys /\ sh.curBytes - n.bytes \in Int
      BY <1>2, <2>5 DEF Sane, ShardRecords
    <3>2. sh.curBytes - n.bytes = Bytes(q)
      BY <1>2, <2>5, <2>7
    <3>3. QED
      BY <1>2, <2>3, <2>6, <2>8, <3>1, <3>2 DEF Sane, ShardRecords
  <2>11. QED
    BY <1>1, <2>3, <2>6, <2>9, <2>10
<1>5. QED
  BY <1>3, <1>4

EvictFcn(f, sh, m) ==
    f = [i \in 0..Len(sh.order) |-> IF i = 0 THEN sh ELSE EvictBack(f[i - 1], m)]

SaneShards == {x \in ShardRecords : Sane(x)}

\* The rounds of evictToFit_'s loop.
LEMMA EvictRounds ==
    ASSUME NEW sh, Sane(sh), NEW m \in Nat
    PROVE  \E f : /\ f[0] = sh
                  /\ \A i \in 0..Len(sh.order) : i < Len(sh.order) => f[i + 1] = EvictBack(f[i], m)
                  /\ EvictToFit(sh, m) = f[Len(sh.order)]
<1>1. PICK n \in Nat : n = Len(sh.order)
  BY DEF Sane, ShardRecords
<1> DEFINE g == [p \in SaneShards \X (1..n) |-> EvictBack(p[1], m)]
<1>2. \A x \in SaneShards : EvictBack(x, m) \in SaneShards
  <2>1. SUFFICES ASSUME NEW x \in SaneShards PROVE EvictBack(x, m) \in SaneShards
    OBVIOUS
  <2>2. Sane(x)
    BY DEF SaneShards
  <2>3. Sane(EvictBack(x, m))
    BY <2>2, EvictBackFacts
  <2>4. QED
    BY <2>3 DEF SaneShards, Sane
<1>3. g \in [SaneShards \X (1..n) -> SaneShards]
  BY <1>2
<1>4. sh \in SaneShards
  BY DEF SaneShards, Sane
<1>5. \E f : Rounds(f, SaneShards, sh, g, n)
  <2> HIDE DEF g
  <2>1. QED
    BY <1>1, <1>3, <1>4, RoundsExist
<1>6. PICK f : Rounds(f, SaneShards, sh, g, n)
  BY <1>5
<1>7. EvictFcn(f, sh, m)
  <2>1. f \in [0..n -> SaneShards] /\ f[0] = sh
    BY <1>6 DEF Rounds
  <2>2. ASSUME NEW i \in 1..n PROVE f[i] = EvictBack(f[i - 1], m)
    <3>1. i - 1 \in 0..n /\ <<f[i - 1], i>> \in SaneShards \X (1..n)
      BY <1>1, <2>1
    <3>2. QED
      BY <1>6, <3>1 DEF Rounds
  <2>3. f = [i \in 0..n |-> IF i = 0 THEN sh ELSE EvictBack(f[i - 1], m)]
    BY <1>1, <2>1, <2>2
  <2>4. QED
    BY <1>1, <2>3 DEF EvictFcn
<1>8. PICK h : h = CHOOSE z : EvictFcn(z, sh, m)
  OBVIOUS
<1>9. EvictFcn(h, sh, m)
  BY <1>7, <1>8
<1>10. EvictToFit(sh, m) = (CHOOSE z : EvictFcn(z, sh, m))[Len(sh.order)]
  BY DEF EvictToFit, EvictFcn
<1>11. h = [i \in 0..n |-> IF i = 0 THEN sh ELSE EvictBack(h[i - 1], m)]
  BY <1>1, <1>9 DEF EvictFcn
<1>12. h[0] = sh
  BY <1>1, <1>11
<1>13. ASSUME NEW i \in 0..n, i < n PROVE h[i + 1] = EvictBack(h[i], m)
  <2>1. i + 1 \in 0..n /\ i + 1 # 0 /\ (i + 1) - 1 = i
    BY <1>1, <1>13
  <2>2. h[i + 1] = EvictBack(h[(i + 1) - 1], m)
    BY <1>11, <2>1
  <2>3. QED
    BY <2>1, <2>2
<1>14. QED
  BY <1>1, <1>8, <1>10, <1>12, <1>13

\* evictToFit_ makes the shard fit, and only takes nodes out.
LEMMA EvictToFitFacts ==
    ASSUME NEW sh, Sane(sh), NEW m \in Nat
    PROVE  LET e == EvictToFit(sh, m)
           IN  /\ Sane(e)
               /\ Range(e.order) \subseteq Range(sh.order)
               /\ e.curBytes <= m
<1>1. PICK n \in Nat : n = Len(sh.order)
  BY DEF Sane, ShardRecords
<1>2. PICK f : /\ f[0] = sh
               /\ \A i \in 0..n : i < n => f[i + 1] = EvictBack(f[i], m)
               /\ EvictToFit(sh, m) = f[n]
  BY <1>1, EvictRounds
<1> DEFINE P(i) == /\ Sane(f[i])
                   /\ Range(f[i].order) \subseteq Range(sh.order)
                   /\ f[i].curBytes <= m \/ Len(f[i].order) <= n - i
           S == {i \in 0..n : P(i)}
<1>3. 0 \in S
  BY <1>1, <1>2
<1>4. ASSUME NEW i \in 0..n, i \in S, i < n PROVE i + 1 \in S
  <2>1. PICK x : x = f[i]
    OBVIOUS
  <2>2. PICK y : y = f[i + 1]
    OBVIOUS
  <2>3. y = EvictBack(x, m)
    BY <1>2, <1>4, <2>1, <2>2
  <2>4. Sane(x) /\ Range(x.order) \subseteq Range(sh.order) /\ (x.curBytes <= m \/ Len(x.order) <= n - i)
    BY <1>4, <2>1
  <2>5. Sane(y) /\ Range(y.order) \subseteq Range(x.order) /\ (y.curBytes <= m \/ Len(y.order) = Len(x.order) - 1)
    BY <2>3, <2>4, EvictBackFacts
  <2>6. x.curBytes <= m => y = x
    BY <2>3, <2>4 DEF EvictBack, Sane, ShardRecords
  <2>7. y.curBytes <= m \/ Len(y.order) <= n - (i + 1)
    <3>1. Len(x.order) \in Nat
      BY <2>4 DEF Sane, ShardRecords
    <3>2. CASE x.curBytes <= m
      BY <2>6, <3>2
    <3>3. CASE Len(x.order) <= n - i
      BY <1>1, <2>5, <3>1, <3>3
    <3>4. QED
      BY <2>4, <3>2, <3>3
  <2>8. P(i + 1)
    BY <2>2, <2>4, <2>5, <2>7
  <2>9. QED
    BY <1>4, <2>8
<1>5. 0..n \subseteq S
  <2> HIDE DEF S
  <2>1. QED
    BY <1>3, <1>4, Induct
<1>6. P(n)
  BY <1>5
<1>7. f[n].curBytes <= m
  <2>1. PICK z : z = f[n]
    OBVIOUS
  <2>2. Sane(z) /\ (z.curBytes <= m \/ Len(z.order) <= 0)
    BY <1>6, <2>1
  <2>3. CASE Len(z.order) <= 0
    <3>1. z.order = <<>>
      BY <2>2, <2>3 DEF Sane, ShardRecords
    <3>2. z.curBytes = 0
      BY <2>2, <3>1, BytesEmpty DEF Sane
    <3>3. QED
      BY <2>1, <3>2
  <2>4. QED
    BY <2>1, <2>2, <2>3
<1>8. QED
  BY <1>2, <1>6, <1>7

VisitFcn(f, sh, out) ==
    f = [i \in 0..Len(sh.order) |->
           IF i = 0 THEN [order |-> <<>>, index |-> sh.index, curBytes |-> sh.curBytes]
                    ELSE Visit(f[i - 1], sh.order[i], out)]

LEMMA AppendFacts ==
    ASSUME NEW S, NEW o \in Seq(S), NEW x \in S
    PROVE  /\ Append(o, x) \in Seq(S) /\ Len(Append(o, x)) = Len(o) + 1
           /\ Append(o, x)[Len(o) + 1] = x
           /\ \A i \in 1..Len(o) : Append(o, x)[i] = o[i]
OBVIOUS

LEMMA VisitType ==
    ASSUME NEW v \in ShardRecords, NEW x \in Nodes, NEW out
    PROVE  Visit(v, x, out) \in ShardRecords
<1>1. v.order \in Seq(Nodes) /\ v.index \in SUBSET Keys /\ v.curBytes \in Int
  BY DEF ShardRecords
<1>2. Append(v.order, x) \in Seq(Nodes)
  BY <1>1, AppendFacts
<1>3. v.curBytes - x.bytes \in Int
  BY <1>1, NodeFields
<1>4. v.index \ {x.key} \in SUBSET Keys
  BY <1>1
<1>5. QED
  BY <1>1, <1>2, <1>3, <1>4 DEF Visit, ShardRecords

\* The rounds of the loops of purge() and sweepExpired().
LEMMA VisitRounds ==
    ASSUME NEW sh \in ShardRecords, NEW out
    PROVE  \E f : /\ f[0] = [order |-> <<>>, index |-> sh.index, curBytes |-> sh.curBytes]
                  /\ \A i \in 0..Len(sh.order) :
                       i < Len(sh.order) => f[i + 1] = Visit(f[i], sh.order[i + 1], out)
                  /\ RemoveNodes(sh, out) = f[Len(sh.order)]
<1>1. PICK o \in Seq(Nodes) : o = sh.order
  BY DEF ShardRecords
<1>2. PICK n \in Nat : n = Len(o)
  OBVIOUS
<1>3. PICK a : a = [order |-> <<>>, index |-> sh.index, curBytes |-> sh.curBytes]
  OBVIOUS
<1>4. a \in ShardRecords
  <2>1. <<>> \in Seq(Nodes)
    OBVIOUS
  <2>2. QED
    BY <1>3, <2>1 DEF ShardRecords
<1> DEFINE g == [p \in ShardRecords \X (1..n) |-> Visit(p[1], o[p[2]], out)]
<1>5. g \in [ShardRecords \X (1..n) -> ShardRecords]
  <2>1. \A v \in ShardRecords, i \in 1..n : Visit(v, o[i], out) \in ShardRecords
    BY <1>2, VisitType
  <2>2. QED
    BY <2>1
<1>6. \E f : Rounds(f, ShardRecords, a, g, n)
  <2> HIDE DEF g
  <2>1. QED
    BY <1>4, <1>5, RoundsExist
<1>7. PICK f : Rounds(f, ShardRecords, a, g, n)
  BY <1>6
<1>8. VisitFcn(f, sh, out)
  <2>1. f \in [0..n -> ShardRecords] /\ f[0] = a
    BY <1>7 DEF Rounds
  <2>2. ASSUME NEW i \in 1..n PROVE f[i] = Visit(f[i - 1], o[i], out)
    <3>1. i - 1 \in 0..n /\ <<f[i - 1], i>> \in ShardRecords \X (1..n)
      BY <1>2, <2>1
    <3>2. QED
      BY <1>7, <3>1 DEF Rounds
  <2>3. f = [i \in 0..n |-> IF i = 0 THEN a ELSE Visit(f[i - 1], o[i], out)]
    BY <1>2, <2>1, <2>2
  <2>4. QED
    BY <1>1, <1>2, <1>3, <2>3 DEF VisitFcn
<1>9. PICK h : h = CHOOSE z : VisitFcn(z, sh, out)
  OBVIOUS
<1>10. VisitFcn(h, sh, out)
  BY <1>8, <1>9
<1>11. RemoveNodes(sh, out) = (CHOOSE z : VisitFcn(z, sh, out))[Len(sh.order)]
  BY DEF RemoveNodes, VisitFcn
<1>12. h = [i \in 0..n |-> IF i = 0 THEN a ELSE Visit(h[i - 1], o[i], out)]
  BY <1>1, <1>2, <1>3, <1>10 DEF VisitFcn
<1>13. h[0] = a
  BY <1>2, <1>12
<1>14. ASSUME NEW i \in 0..n, i < n PROVE h[i + 1] = Visit(h[i], o[i + 1], out)
  <2>1. i + 1 \in 0..n /\ i + 1 # 0 /\ (i + 1) - 1 = i
    BY <1>2, <1>14
  <2>2. h[i + 1] = Visit(h[(i + 1) - 1], o[i + 1], out)
    BY <1>12, <2>1
  <2>3. QED
    BY <2>1, <2>2
<1>15. QED
  BY <1>1, <1>2, <1>3, <1>9, <1>11, <1>13, <1>14

\* After a round: the nodes looked at and not taken out are in the list, with those not
\* looked at yet they have the keys of the index, and the total counts both.  h has the
\* sums of the nodes' sizes.
Visited(v, o, out, i, h) ==
    /\ v \in ShardRecords
    /\ Distinct(v.order)
    /\ Range(v.order) = {o[j] : j \in {l \in 1..i : o[l] \notin out}}
    /\ v.index = KeysIn(v.order) \cup {o[j].key : j \in (i + 1)..Len(o)}
    /\ v.curBytes = Bytes(v.order) + (Bytes(o) - h[i])
    /\ v.curBytes <= Bytes(o)

LEMMA VisitStep ==
    ASSUME NEW o \in Seq(Nodes), Distinct(o), NEW out, NEW h, Sums(h, Weights(o)),
           NEW i \in Nat, i < Len(o), NEW v, Visited(v, o, out, i, h)
    PROVE  Visited(Visit(v, o[i + 1], out), o, out, i + 1, h)
<1>1. PICK x \in Nodes : x = o[i + 1]
  OBVIOUS
<1>2. PICK y : y = Visit(v, x, out)
  OBVIOUS
<1>3. y \in ShardRecords
  BY <1>2, VisitType DEF Visited
<1>4. PICK q \in Seq(Nodes) : q = v.order
  BY DEF Visited, ShardRecords
<1>5. /\ v.index \in SUBSET Keys /\ v.curBytes \in Int
      /\ Distinct(q) /\ Range(q) = {o[j] : j \in {l \in 1..i : o[l] \notin out}}
      /\ v.index = KeysIn(q) \cup {o[j].key : j \in (i + 1)..Len(o)}
      /\ v.curBytes = Bytes(q) + (Bytes(o) - h[i]) /\ v.curBytes <= Bytes(o)
  BY <1>4 DEF Visited, ShardRecords
<1>6. h[i + 1] = h[i] + x.bytes /\ h[i] \in Int /\ x.bytes \in Int /\ x.bytes > 0
  <2>1. /\ Weights(o) \in Seq(Int) /\ Len(Weights(o)) = Len(o)
        /\ Weights(o)[i + 1] = o[i + 1].bytes
    BY WeightsType
  <2>2. PICK ns : ns = Weights(o)
    OBVIOUS
  <2>3. ns \in Seq(Int) /\ i < Len(ns) /\ Sums(h, ns)
    BY <2>1, <2>2
  <2>4. h[i + 1] = h[i] + ns[i + 1] /\ h[i] \in Int /\ ns[i + 1] \in Int
    BY ONLY <2>3, SumsStep, i \in Nat
  <2>5. QED
    BY <1>1, <2>1, <2>2, <2>4, NodeFields
<1>7. Bytes(q) \in Int /\ Bytes(o) \in Int
  BY WeightsType
<1>8. \A k \in KeysIn(q) : k # x.key
  <2>1. SUFFICES ASSUME NEW l \in DOMAIN q PROVE q[l].key # x.key
    BY DEF KeysIn
  <2>2. q[l] \in Range(q)
    BY DEF Range
  <2>3. PICK j \in 1..i : q[l] = o[j]
    BY <1>5, <2>2
  <2>4. j \in DOMAIN o /\ i + 1 \in DOMAIN o /\ j # i + 1
    OBVIOUS
  <2>5. QED
    BY <1>1, <2>3, <2>4 DEF Distinct
<1>9. \A j \in (i + 2)..Len(o) : o[j].key # x.key
  <2>1. ASSUME NEW j \in (i + 2)..Len(o) PROVE o[j].key # x.key
    <3>1. j \in DOMAIN o /\ i + 1 \in DOMAIN o /\ j # i + 1
      OBVIOUS
    <3>2. QED
      BY <1>1, <3>1 DEF Distinct
  <2>2. QED
    BY <2>1
<1>10. {o[j].key : j \in (i + 1)..Len(o)} = {x.key} \cup {o[j].key : j \in (i + 2)..Len(o)}
  <2>1. (i + 1)..Len(o) = {i + 1} \cup (i + 2)..Len(o)
    OBVIOUS
  <2>2. QED
    BY <1>1, <2>1
<1>11. {l \in 1..(i + 1) : o[l] \notin out}
         = {l \in 1..i : o[l] \notin out} \cup (IF x \in out THEN {} ELSE {i + 1})
  <2>1. 1..(i + 1) = 1..i \cup {i + 1}
    OBVIOUS
  <2>2. QED
    BY <1>1, <2>1
<1>12. CASE x \in out
  <2>1. y = [order |-> q, index |-> v.index \ {x.key}, curBytes |-> v.curBytes - x.bytes]
    BY <1>2, <1>4, <1>12 DEF Visit
  <2>2. v.index \ {x.key} = KeysIn(q) \cup {o[j].key : j \in (i + 2)..Len(o)}
    BY <1>5, <1>8, <1>9, <1>10
  <2>3. Range(q) = {o[j] : j \in {l \in 1..(i + 1) : o[l] \notin out}}
    BY <1>5, <1>11, <1>12
  <2>4. /\ v.curBytes - x.bytes = Bytes(q) + (Bytes(o) - h[i + 1])
        /\ v.curBytes - x.bytes <= Bytes(o)
    BY <1>5, <1>6, <1>7
  <2>5. (i + 1) + 1 = i + 2
    OBVIOUS
  <2>6. Distinct(q)
    BY <1>5
  <2>7. y.order = q /\ y.index = v.index \ {x.key} /\ y.curBytes = v.curBytes - x.bytes
    BY <2>1
  <2>8. y.index = KeysIn(y.order) \cup {o[j].key : j \in ((i + 1) + 1)..Len(o)}
    BY <2>2, <2>5, <2>7
  <2>9. /\ Range(y.order) = {o[j] : j \in {l \in 1..(i + 1) : o[l] \notin out}}
        /\ y.curBytes = Bytes(y.order) + (Bytes(o) - h[i + 1]) /\ y.curBytes <= Bytes(o)
        /\ Distinct(y.order)
    BY <2>3, <2>4, <2>6, <2>7
  <2>10. QED
    BY <1>1, <1>2, <1>3, <2>8, <2>9 DEF Visited
<1>13. CASE x \notin out
  <2>1. PICK z : z = Append(q, x)
    OBVIOUS
  <2>2. /\ z \in Seq(Nodes) /\ Len(z) = Len(q) + 1 /\ z[Len(q) + 1] = x
        /\ \A j \in 1..Len(q) : z[j] = q[j]
    BY <2>1, AppendFacts
  <2>3. y = [order |-> z, index |-> v.index, curBytes |-> v.curBytes]
    BY <1>2, <1>4, <1>13, <2>1 DEF Visit
  <2>4. DOMAIN z = DOMAIN q \cup {Len(q) + 1} /\ DOMAIN q = 1..Len(q)
    BY <2>2
  <2>5. KeysIn(z) = KeysIn(q) \cup {x.key}
    BY <2>2, <2>4 DEF KeysIn
  <2>6. Range(z) = Range(q) \cup {x}
    BY <2>2, <2>4 DEF Range
  <2>7. Distinct(z)
    <3>1. \A j \in DOMAIN q : q[j].key # x.key
      BY <1>8 DEF KeysIn
    <3>2. QED
      BY <1>5, <2>2, <2>4, <3>1 DEF Distinct
  <2>8. Bytes(z) = Bytes(q) + x.bytes
    <3>1. Bytes(z) = Bytes(q) + z[Len(z)].bytes
      BY <2>2, BytesSnoc
    <3>2. QED
      BY <2>2, <3>1
  <2>9. v.index = KeysIn(z) \cup {o[j].key : j \in (i + 2)..Len(o)}
    BY <1>5, <1>10, <2>5
  <2>10. Range(z) = {o[j] : j \in {l \in 1..(i + 1) : o[l] \notin out}}
    BY <1>1, <1>5, <1>11, <1>13, <2>6
  <2>11. v.curBytes = Bytes(z) + (Bytes(o) - h[i + 1]) /\ v.curBytes <= Bytes(o)
    BY <1>5, <1>6, <1>7, <2>8
  <2>12. (i + 1) + 1 = i + 2
    OBVIOUS
  <2>13. y.order = z /\ y.index = v.index /\ y.curBytes = v.curBytes
    BY <2>3
  <2>14. y.index = KeysIn(y.order) \cup {o[j].key : j \in ((i + 1) + 1)..Len(o)}
    BY <2>9, <2>12, <2>13
  <2>15. /\ Range(y.order) = {o[j] : j \in {l \in 1..(i + 1) : o[l] \notin out}}
         /\ y.curBytes = Bytes(y.order) + (Bytes(o) - h[i + 1]) /\ y.curBytes <= Bytes(o)
         /\ Distinct(y.order)
    BY <2>7, <2>10, <2>11, <2>13
  <2>16. QED
    BY <1>1, <1>2, <1>3, <2>14, <2>15 DEF Visited
<1>14. QED
  BY <1>12, <1>13

\* purge() and sweepExpired() leave the nodes that are not to go, and the fields agree.
LEMMA RemoveFacts ==
    ASSUME NEW sh, Sane(sh), NEW out
    PROVE  LET r == RemoveNodes(sh, out)
           IN  Sane(r) /\ Range(r.order) = Range(sh.order) \ out /\ r.curBytes <= sh.curBytes
<1>1. PICK o \in Seq(Nodes) : o = sh.order
  BY DEF Sane, ShardRecords
<1>2. PICK n \in Nat : n = Len(o)
  OBVIOUS
<1>3. /\ sh \in ShardRecords /\ Distinct(o) /\ sh.index = KeysIn(o) /\ sh.curBytes = Bytes(o)
      /\ DOMAIN o = 1..n
  BY <1>1, <1>2 DEF Sane
<1>4. PICK f : /\ f[0] = [order |-> <<>>, index |-> sh.index, curBytes |-> sh.curBytes]
               /\ \A i \in 0..n : i < n => f[i + 1] = Visit(f[i], o[i + 1], out)
               /\ RemoveNodes(sh, out) = f[n]
  BY <1>1, <1>2, <1>3, VisitRounds
<1>5. PICK h : Sums(h, Weights(o)) /\ Total(Weights(o)) = h[n]
  <2>1. Weights(o) \in Seq(Int) /\ Len(Weights(o)) = n
    BY <1>2, WeightsType
  <2>2. PICK ns : ns = Weights(o)
    OBVIOUS
  <2>3. \E h : Sums(h, ns) /\ Total(ns) = h[Len(ns)]
    BY <2>1, <2>2, TotalIsSum
  <2>4. QED
    BY <2>1, <2>2, <2>3
<1>6. Bytes(o) = h[n] /\ Bytes(o) \in Int
  BY <1>5, WeightsType
<1> DEFINE S == {i \in 0..n : Visited(f[i], o, out, i, h)}
<1>7. 0 \in S
  <2>1. PICK e : e = <<>>
    OBVIOUS
  <2>2. e \in Seq(Nodes) /\ DOMAIN e = {} /\ Bytes(e) = 0
    BY <2>1, BytesEmpty
  <2>3. f[0] = [order |-> e, index |-> sh.index, curBytes |-> sh.curBytes]
    BY <1>4, <2>1
  <2>4. KeysIn(e) = {} /\ Range(e) = {} /\ Distinct(e)
    BY <2>2 DEF KeysIn, Range, Distinct
  <2>5. {l \in 1..0 : o[l] \notin out} = {}
    OBVIOUS
  <2>6. sh.index = KeysIn(e) \cup {o[j].key : j \in (0 + 1)..Len(o)}
    <3>1. (0 + 1)..Len(o) = DOMAIN o
      BY <1>2, <1>3
    <3>2. {o[j].key : j \in (0 + 1)..Len(o)} = KeysIn(o)
      BY <3>1 DEF KeysIn
    <3>3. QED
      BY <1>3, <2>4, <3>2
  <2>7. sh.curBytes = Bytes(e) + (Bytes(o) - h[0]) /\ sh.curBytes <= Bytes(o)
    <3>1. h[0] = 0
      BY <1>5 DEF Sums
    <3>2. QED
      BY <1>3, <1>6, <2>2, <3>1
  <2>8. f[0] \in ShardRecords
    BY <1>3, <2>2, <2>3 DEF ShardRecords
  <2>9. Visited(f[0], o, out, 0, h)
    BY <2>3, <2>4, <2>5, <2>6, <2>7, <2>8 DEF Visited
  <2>10. QED
    BY <2>9
<1>8. ASSUME NEW i \in 0..n, i \in S, i < n PROVE i + 1 \in S
  <2>1. PICK v : v = f[i]
    OBVIOUS
  <2>2. Visited(v, o, out, i, h) /\ i \in Nat /\ i < Len(o)
    BY <1>2, <1>8, <2>1
  <2>3. Visited(Visit(v, o[i + 1], out), o, out, i + 1, h)
    BY ONLY <1>3, <1>5, <2>2, VisitStep, o \in Seq(Nodes)
  <2>4. f[i + 1] = Visit(v, o[i + 1], out)
    BY <1>4, <1>8, <2>1
  <2>5. QED
    BY <1>8, <2>3, <2>4
<1>9. 0..n \subseteq S
  <2> HIDE DEF S
  <2>1. QED
    BY <1>7, <1>8, Induct
<1>10. PICK r : r = f[n]
  OBVIOUS
<1>11. Visited(r, o, out, n, h)
  BY <1>9, <1>10
<1>12. Sane(r)
  <2>1. {o[j].key : j \in (n + 1)..Len(o)} = {}
    BY <1>2
  <2>2. r.order \in Seq(Nodes) /\ Bytes(r.order) \in Int
    BY <1>11, WeightsType DEF Visited, ShardRecords
  <2>3. r.curBytes = Bytes(r.order)
    BY <1>6, <1>11, <2>2 DEF Visited
  <2>4. QED
    BY <1>11, <2>1, <2>3 DEF Visited, Sane
<1>13. Range(r.order) = Range(o) \ out
  BY <1>3, <1>11 DEF Visited, Range
<1>14. r.curBytes <= sh.curBytes
  BY <1>3, <1>11 DEF Visited
<1>15. QED
  BY <1>1, <1>4, <1>10, <1>12, <1>13, <1>14

LEMMA KeysOfRange ==
    ASSUME NEW o
    PROVE  KeysIn(o) = {x.key : x \in Range(o)}
BY DEF KeysIn, Range

\* In a shard whose fields agree a key has one node.
LEMMA NodeOfFacts ==
    ASSUME NEW o \in Seq(Nodes), Distinct(o), NEW k
    PROVE  /\ \A x \in Range(o) : x.key = k => x = NodeOf(o, k)
           /\ k \in KeysIn(o) => /\ NodeOf(o, k) \in Range(o) /\ NodeOf(o, k) \in Nodes
                                 /\ NodeOf(o, k).key = k
                                 /\ \E p \in 1..Len(o) : o[p] = NodeOf(o, k)
<1>1. CASE k \notin KeysIn(o)
  BY <1>1 DEF KeysIn, Range
<1>2. CASE k \in KeysIn(o)
  <2>1. PICK p : p = CHOOSE i \in DOMAIN o : o[i].key = k
    OBVIOUS
  <2>2. p \in DOMAIN o /\ o[p].key = k
    BY <1>2, <2>1 DEF KeysIn
  <2>3. NodeOf(o, k) = o[p]
    BY <2>1 DEF NodeOf
  <2>4. \A x \in Range(o) : x.key = k => x = o[p]
    BY <2>2 DEF Range, Distinct
  <2>5. o[p] \in Range(o) /\ o[p] \in Nodes
    BY <2>2 DEF Range
  <2>6. QED
    BY <2>2, <2>3, <2>4, <2>5
<1>3. QED
  BY <1>1, <1>2

LEMMA WithoutFacts ==
    ASSUME NEW sh, Sane(sh), NEW k \in Keys
    PROVE  LET w == Without(sh, k)
           IN  /\ Sane(w)
               /\ Range(w.order) = {x \in Range(sh.order) : x.key # k}
               /\ w.index = sh.index \ {k}
               /\ w.curBytes <= sh.curBytes
<1>1. PICK out : out = {x \in Range(sh.order) : x.key = k}
  OBVIOUS
<1>2. PICK w : w = RemoveNodes(sh, out)
  OBVIOUS
<1>3. Sane(w) /\ Range(w.order) = Range(sh.order) \ out /\ w.curBytes <= sh.curBytes
  BY <1>2, RemoveFacts
<1>4. Range(w.order) = {x \in Range(sh.order) : x.key # k}
  BY <1>1, <1>3
<1>5. w.index = {x.key : x \in Range(w.order)} /\ sh.index = {x.key : x \in Range(sh.order)}
  BY <1>3, KeysOfRange DEF Sane
<1>6. w.index = sh.index \ {k}
  BY <1>4, <1>5
<1>7. Without(sh, k) = w
  BY <1>1, <1>2 DEF Without
<1>8. QED
  BY <1>3, <1>4, <1>6, <1>7

\* What is taken out of the total with the node of a key is that node's size.
LEMMA WithoutBytes ==
    ASSUME NEW sh, Sane(sh), NEW k \in sh.index
    PROVE  Without(sh, k).curBytes = sh.curBytes - NodeOf(sh.order, k).bytes
<1>1. PICK o \in Seq(Nodes) : o = sh.order
  BY DEF Sane, ShardRecords
<1>2. PICK n \in Nat : n = Len(o)
  OBVIOUS
<1>3. /\ sh \in ShardRecords /\ Distinct(o) /\ k \in KeysIn(o)
      /\ DOMAIN o = 1..n /\ sh.curBytes \in Int
  BY <1>1, <1>2 DEF Sane, ShardRecords
<1>4. PICK x \in Nodes : x = NodeOf(o, k) /\ x.key = k
  BY <1>3, NodeOfFacts
<1>5. PICK p \in 1..n : o[p] = x
  BY <1>2, <1>3, <1>4, NodeOfFacts
<1>6. PICK out : out = {y \in Range(o) : y.key = k}
  OBVIOUS
<1>7. PICK f : /\ f[0] = [order |-> <<>>, index |-> sh.index, curBytes |-> sh.curBytes]
               /\ \A i \in 0..n : i < n => f[i + 1] = Visit(f[i], o[i + 1], out)
               /\ RemoveNodes(sh, out) = f[n]
  <2>1. \E f : /\ f[0] = [order |-> <<>>, index |-> sh.index, curBytes |-> sh.curBytes]
               /\ \A i \in 0..Len(sh.order) :
                    i < Len(sh.order) => f[i + 1] = Visit(f[i], sh.order[i + 1], out)
               /\ RemoveNodes(sh, out) = f[Len(sh.order)]
    BY ONLY <1>3, VisitRounds
  <2>2. QED
    BY <1>1, <1>2, <2>1
<1>8. x.bytes \in Int
  BY NodeFields
<1> DEFINE S == {i \in 0..n : f[i].curBytes = IF i < p THEN sh.curBytes ELSE sh.curBytes - x.bytes}
<1>9. 0 \in S
  BY <1>5, <1>7
<1>10. ASSUME NEW i \in 0..n, i \in S, i < n PROVE i + 1 \in S
  <2>1. i + 1 \in DOMAIN o /\ o[i + 1] \in Range(o) /\ p \in DOMAIN o
    BY <1>3, <1>10 DEF Range
  <2>2. o[i + 1] \in out <=> i + 1 = p
    BY <1>3, <1>4, <1>5, <1>6, <2>1 DEF Distinct
  <2>3. f[i + 1] = Visit(f[i], o[i + 1], out)
    BY <1>7, <1>10
  <2>4. CASE i + 1 = p
    <3>1. f[i + 1].curBytes = f[i].curBytes - x.bytes
      BY <1>5, <2>2, <2>3, <2>4 DEF Visit
    <3>2. f[i].curBytes = sh.curBytes
      BY <1>10, <2>4
    <3>3. QED
      BY <1>10, <2>4, <3>1, <3>2
  <2>5. CASE i + 1 # p
    <3>1. f[i + 1].curBytes = f[i].curBytes
      BY <2>2, <2>3, <2>5 DEF Visit
    <3>2. i < p <=> i + 1 < p
      BY <2>5
    <3>3. QED
      BY <1>10, <3>1, <3>2
  <2>6. QED
    BY <2>4, <2>5
<1>11. 0..n \subseteq S
  <2> HIDE DEF S
  <2>1. QED
    BY <1>9, <1>10, Induct
<1>12. f[n].curBytes = sh.curBytes - x.bytes
  BY <1>5, <1>11
<1>13. Without(sh, k) = f[n]
  BY <1>1, <1>6, <1>7 DEF Without
<1>14. QED
  BY <1>1, <1>4, <1>12, <1>13

LEMMA FrontedFacts ==
    ASSUME NEW q \in Seq(Nodes), Distinct(q), NEW x \in Nodes, x.key \notin KeysIn(q)
    PROVE  LET z == <<x>> \o q
           IN  /\ z \in Seq(Nodes) /\ Distinct(z)
               /\ KeysIn(z) = KeysIn(q) \cup {x.key}
               /\ Range(z) = Range(q) \cup {x}
               /\ Bytes(z) = x.bytes + Bytes(q)
<1>1. PICK z : z = <<x>> \o q
  OBVIOUS
<1>2. /\ z \in Seq(Nodes) /\ Len(z) = Len(q) + 1 /\ z[1] = x
      /\ \A i \in 1..Len(q) : z[i + 1] = q[i]
  BY <1>1
<1>3. Bytes(z) = x.bytes + Bytes(q)
  <2>1. Bytes(z) = z[1].bytes + Bytes(q)
    BY <1>2, BytesCons
  <2>2. QED
    BY <1>2, <2>1
<1>4. DOMAIN z = 1..(Len(q) + 1) /\ DOMAIN q = 1..Len(q) /\ Len(q) \in Nat
  BY <1>2
<1>5. \A j \in DOMAIN z : j = 1 \/ (j - 1 \in DOMAIN q /\ z[j] = q[j - 1])
  <2>1. SUFFICES ASSUME NEW j \in DOMAIN z, j # 1 PROVE j - 1 \in DOMAIN q /\ z[j] = q[j - 1]
    OBVIOUS
  <2>2. j - 1 \in 1..Len(q) /\ (j - 1) + 1 = j
    BY <1>4, <2>1
  <2>3. QED
    BY <1>2, <1>4, <2>2
<1>6. 1 \in DOMAIN z /\ \A i \in DOMAIN q : i + 1 \in DOMAIN z /\ z[i + 1] = q[i]
  BY <1>2, <1>4
<1>7. \A i \in DOMAIN q : q[i].key # x.key
  BY DEF KeysIn
<1>8. Distinct(z)
  <2>1. SUFFICES ASSUME NEW i \in DOMAIN z, NEW j \in DOMAIN z, z[i].key = z[j].key PROVE i = j
    BY DEF Distinct
  <2>2. CASE i = 1 \/ j = 1
    BY <1>2, <1>5, <1>7, <2>1, <2>2
  <2>3. CASE i # 1 /\ j # 1
    <3>1. i - 1 = j - 1
      BY <1>5, <2>1, <2>3 DEF Distinct
    <3>2. QED
      BY <1>4, <3>1
  <2>4. QED
    BY <2>2, <2>3
<1>10. Range(z) = Range(q) \cup {x}
  <2>1. ASSUME NEW y \in Range(z) PROVE y \in Range(q) \cup {x}
    BY <1>2, <1>5 DEF Range
  <2>2. ASSUME NEW y \in Range(q) PROVE y \in Range(z)
    BY <1>6 DEF Range
  <2>3. x \in Range(z)
    BY <1>2, <1>6 DEF Range
  <2>4. QED
    BY <2>1, <2>2, <2>3
<1>9. KeysIn(z) = KeysIn(q) \cup {x.key}
  BY <1>10, KeysOfRange
<1>11. QED
  BY <1>1, <1>2, <1>3, <1>8, <1>9, <1>10

\* get() changes the order of the nodes.
LEMMA GetFacts ==
    ASSUME NEW sh, Sane(sh), NEW k \in Keys
    PROVE  LET g == LruGet(sh, k)
           IN  /\ Sane(g) /\ Range(g.order) = Range(sh.order)
               /\ g.curBytes = sh.curBytes /\ g.index = sh.index
<1>1. CASE k \notin sh.index
  BY <1>1 DEF LruGet
<1>2. CASE k \in sh.index
  <2>1. PICK w : w = Without(sh, k)
    OBVIOUS
  <2>2. PICK x : x = NodeOf(sh.order, k)
    OBVIOUS
  <2>3. /\ Sane(w) /\ Range(w.order) = {y \in Range(sh.order) : y.key # k}
        /\ w.index = sh.index \ {k}
    BY <2>1, WithoutFacts
  <2>4. w.curBytes = sh.curBytes - x.bytes
    BY <1>2, <2>1, <2>2, WithoutBytes
  <2>5. sh.order \in Seq(Nodes) /\ Distinct(sh.order) /\ sh.index = KeysIn(sh.order) /\ sh.curBytes \in Int
    BY DEF Sane, ShardRecords
  <2>6. x \in Nodes /\ x.key = k /\ x \in Range(sh.order) /\ \A y \in Range(sh.order) : y.key = k => y = x
    BY <1>2, <2>2, <2>5, NodeOfFacts
  <2>7. w.order \in Seq(Nodes) /\ Distinct(w.order) /\ x.key \notin KeysIn(w.order) /\ w.curBytes = Bytes(w.order)
    BY <2>3, <2>6 DEF Sane, ShardRecords
  <2>8. PICK z : z = <<x>> \o w.order
    OBVIOUS
  <2>9. /\ z \in Seq(Nodes) /\ Distinct(z)
        /\ KeysIn(z) = KeysIn(w.order) \cup {x.key}
        /\ Range(z) = Range(w.order) \cup {x}
        /\ Bytes(z) = x.bytes + Bytes(w.order)
    BY <2>6, <2>7, <2>8, FrontedFacts
  <2>10. LruGet(sh, k) = [order |-> z, index |-> sh.index, curBytes |-> sh.curBytes]
    BY <1>2, <2>1, <2>2, <2>8 DEF LruGet, ToFront
  <2>11. Range(z) = Range(sh.order)
    BY <2>3, <2>6, <2>9
  <2>12. KeysIn(z) = sh.index
    BY <2>5, <2>11, KeysOfRange
  <2>13. Bytes(z) = sh.curBytes
    <3>1. x.bytes \in Int
      BY <2>6, NodeFields
    <3>2. QED
      BY <2>4, <2>5, <2>7, <2>9, <3>1
  <2>14. sh.index \in SUBSET Keys
    BY DEF Sane, ShardRecords
  <2>15. Sane([order |-> z, index |-> sh.index, curBytes |-> sh.curBytes])
    BY <2>5, <2>9, <2>12, <2>13, <2>14 DEF Sane, ShardRecords
  <2>16. QED
    BY <2>10, <2>11, <2>15
<1>3. QED
  BY <1>1, <1>2

LEMMA InsertedFacts ==
    ASSUME NEW sh, Sane(sh), NEW k \in Keys, k \notin sh.index, NEW b \in Sizes
    PROVE  LET z == Inserted(sh, k, b)
           IN  Sane(z) /\ Range(z.order) = Range(sh.order) \cup {Node(k, b)}
<1>1. PICK x : x = Node(k, b)
  OBVIOUS
<1>2. x \in Nodes /\ x.key = k /\ x.bytes = b
  BY <1>1 DEF Node, Nodes
<1>3. /\ sh.order \in Seq(Nodes) /\ Distinct(sh.order) /\ sh.index = KeysIn(sh.order)
      /\ sh.curBytes = Bytes(sh.order) /\ sh.curBytes \in Int /\ sh.index \in SUBSET Keys
  BY DEF Sane, ShardRecords
<1>4. PICK z : z = <<x>> \o sh.order
  OBVIOUS
<1>5. /\ z \in Seq(Nodes) /\ Distinct(z)
      /\ KeysIn(z) = KeysIn(sh.order) \cup {x.key}
      /\ Range(z) = Range(sh.order) \cup {x}
      /\ Bytes(z) = x.bytes + Bytes(sh.order)
  BY <1>2, <1>3, <1>4, FrontedFacts
<1>6. Inserted(sh, k, b) = [order |-> z, index |-> sh.index \cup {k}, curBytes |-> sh.curBytes + b]
  BY <1>1, <1>4 DEF Inserted
<1>7. b \in Int
  BY <1>2, NodeFields
<1>8. Bytes(z) = sh.curBytes + b /\ sh.curBytes + b \in Int /\ sh.index \cup {k} \in SUBSET Keys
  BY <1>2, <1>3, <1>5, <1>7
<1>9. Sane([order |-> z, index |-> sh.index \cup {k}, curBytes |-> sh.curBytes + b])
  BY <1>2, <1>3, <1>5, <1>8 DEF Sane, ShardRecords
<1>10. QED
  BY <1>1, <1>5, <1>6, <1>9

\* After put() the shard fits; what is there was there before, or is the new entry.
LEMMA PutFacts ==
    ASSUME NEW sh, Sane(sh), NEW k \in Keys, NEW b \in Sizes, NEW m \in Nat
    PROVE  LET p == LruPut(sh, k, b, m)
           IN  /\ Sane(p) /\ p.curBytes <= m
               /\ \A x \in Range(p.order) : x = Node(k, b) \/ (x \in Range(sh.order) /\ x.key # k)
<1>1. PICK w : w = IF k \in sh.index THEN Without(sh, k) ELSE sh
  OBVIOUS
<1>2. Sane(w) /\ k \notin w.index /\ \A x \in Range(w.order) : x \in Range(sh.order) /\ x.key # k
  <2>1. CASE k \in sh.index
    BY <1>1, <2>1, WithoutFacts
  <2>2. CASE k \notin sh.index
    BY <1>1, <2>2, KeysOfRange DEF Sane
  <2>3. QED
    BY <2>1, <2>2
<1>3. PICK z : z = Inserted(w, k, b)
  OBVIOUS
<1>4. Sane(z) /\ Range(z.order) = Range(w.order) \cup {Node(k, b)}
  BY <1>2, <1>3, InsertedFacts
<1>5. PICK p : p = EvictToFit(z, m)
  OBVIOUS
<1>6. Sane(p) /\ Range(p.order) \subseteq Range(z.order) /\ p.curBytes <= m
  BY <1>4, <1>5, EvictToFitFacts
<1>7. LruPut(sh, k, b, m) = p
  BY <1>1, <1>3, <1>5 DEF LruPut
<1>8. QED
  BY <1>2, <1>4, <1>6, <1>7

\* erase(), purge() and sweepExpired() only take nodes out.
LEMMA EraseFacts ==
    ASSUME NEW sh, Sane(sh), NEW k \in Keys
    PROVE  LET e == LruErase(sh, k)
           IN  Sane(e) /\ Range(e.order) \subseteq Range(sh.order) /\ e.curBytes <= sh.curBytes
<1>1. CASE k \in sh.index
  BY <1>1, WithoutFacts DEF LruErase
<1>2. CASE k \notin sh.index
  BY <1>2 DEF LruErase, Sane, ShardRecords
<1>3. QED
  BY <1>1, <1>2

LEMMA PurgeFacts ==
    ASSUME NEW sh, Sane(sh), NEW M
    PROVE  LET e == LruPurge(sh, M)
           IN  /\ Sane(e) /\ e.curBytes <= sh.curBytes
               /\ Range(e.order) = {x \in Range(sh.order) : x.key \notin M}
<1>1. PICK out : out = {x \in Range(sh.order) : x.key \in M}
  OBVIOUS
<1>2. PICK e : e = RemoveNodes(sh, out)
  OBVIOUS
<1>3. Sane(e) /\ Range(e.order) = Range(sh.order) \ out /\ e.curBytes <= sh.curBytes
  BY <1>2, RemoveFacts
<1>4. LruPurge(sh, M) = e
  BY <1>1, <1>2 DEF LruPurge
<1>5. QED
  BY <1>1, <1>3, <1>4

LEMMA SweepFacts ==
    ASSUME NEW sh, Sane(sh)
    PROVE  LET e == LruSweepExpired(sh)
           IN  Sane(e) /\ Range(e.order) \subseteq Range(sh.order) /\ e.curBytes <= sh.curBytes
<1>1. PICK out : out = {x \in Range(sh.order) : ~x.live}
  OBVIOUS
<1>2. PICK e : e = RemoveNodes(sh, out)
  OBVIOUS
<1>3. Sane(e) /\ Range(e.order) = Range(sh.order) \ out /\ e.curBytes <= sh.curBytes
  BY <1>2, RemoveFacts
<1>4. LruSweepExpired(sh) = e
  BY <1>1, <1>2 DEF LruSweepExpired
<1>5. QED
  BY <1>3, <1>4

-----------------------------------------------------------------------------
(* The shards.                                                             *)

Count == Cardinality(Shards)

LEMMA ShardsFacts ==
    /\ Count \in Nat /\ Count >= 1 /\ Shards = 1..Count
    /\ PerShard \in Nat /\ Count * PerShard <= MaxBytes
<1>1. NumShards \in Nat /\ MaxBytes \in Nat /\ MaxBytes >= Cardinality(Shards)
  BY CacheAssumption
<1>2. PICK n \in Nat : n >= 1 /\ n = IF NumShards = 0 THEN 1 ELSE NumShards
  BY <1>1
<1>3. Shards = 1..n
  BY <1>2 DEF Shards
<1>4. Cardinality(1..n) = n
  BY <1>2, FS_Interval
<1>5. Count = n /\ MaxBytes >= n
  BY <1>1, <1>3, <1>4 DEF Count
<1>6. PICK d : d = MaxBytes \div n
  OBVIOUS
<1>7. d \in Nat /\ n * d <= MaxBytes /\ d # 0
  <2>1. \A a \in Nat, c \in Nat : c >= 1 => a \div c \in Nat /\ c * (a \div c) <= a /\ a < c * (a \div c) + c
    OBVIOUS
  <2>2. d \in Nat /\ n * d <= MaxBytes /\ MaxBytes < n * d + n
    BY <1>1, <1>2, <1>6, <2>1
  <2>3. ASSUME d = 0 PROVE FALSE
    BY <1>1, <1>2, <1>5, <2>2, <2>3
  <2>4. QED
    BY <2>2, <2>3
<1>8. PerShard = d
  BY <1>5, <1>6, <1>7 DEF PerShard, Count
<1>9. QED
  BY <1>2, <1>3, <1>5, <1>7, <1>8

LEMMA HashIsShard == ShardOf \in [Keys -> Shards]
BY CacheAssumption

\* A shard whose fields agree, within its limit, with keys that belong there.
Good(s, sh) ==
    /\ Sane(sh)
    /\ sh.curBytes <= PerShard
    /\ \A k \in sh.index : ShardOf[k] = s

\* The inductive invariant of the cache.
ShardsGood ==
    /\ shard = [s \in Shards |-> shard[s]]
    /\ \A s \in Shards : Good(s, shard[s])
Loops ==
    /\ purge = NoPurge \/ purge \in [pattern : Patterns, next : Shards]
    /\ sweep \in Shards \cup {0}
CacheInv == ShardsGood /\ Loops

\* Taking nodes out of a shard leaves it good.
LEMMA FewerIsGood ==
    ASSUME NEW s, NEW sh, Good(s, sh), NEW e, Sane(e), e.curBytes <= sh.curBytes,
           Range(e.order) \subseteq Range(sh.order)
    PROVE  Good(s, e)
<1>1. e.index = {x.key : x \in Range(e.order)} /\ sh.index = {x.key : x \in Range(sh.order)}
  BY KeysOfRange DEF Sane, Good
<1>2. e.curBytes \in Int /\ sh.curBytes \in Int /\ PerShard \in Int
  BY ShardsFacts DEF Good, Sane, ShardRecords
<1>3. e.curBytes <= PerShard
  BY <1>2 DEF Good
<1>4. QED
  BY <1>1, <1>3 DEF Good

LEMMA OneShard ==
    ASSUME ShardsGood, NEW s \in Shards, NEW e, Good(s, e), shard' = [shard EXCEPT ![s] = e]
    PROVE  ShardsGood'
<1>1. \A t \in Shards : shard'[t] = IF t = s THEN e ELSE shard[t]
  BY DEF ShardsGood
<1>2. shard' = [t \in Shards |-> shard'[t]]
  BY <1>1 DEF ShardsGood
<1>3. \A t \in Shards : Good(t, shard'[t])
  BY <1>1 DEF ShardsGood
<1>4. ShardsGood' <=> /\ shard' = [t \in Shards |-> shard'[t]]
                      /\ \A t \in Shards : Good(t, shard'[t])
  BY DEF ShardsGood, Good, Sane
<1>5. QED
  BY <1>2, <1>3, <1>4

LEMMA ExpiredNode ==
    ASSUME NEW x \in Nodes
    PROVE  LET y == [x EXCEPT !.live = FALSE]
           IN  y \in Nodes /\ y.key = x.key /\ y.bytes = x.bytes
BY DEF Nodes

\* The shard that an expiry leaves: only a node's live has changed.
LEMMA ExpireFacts ==
    ASSUME ShardsGood, NEW k \in Keys, Expire(k)
    PROVE  \E e : /\ shard' = [shard EXCEPT ![ShardOf[k]] = e]
                  /\ Good(ShardOf[k], e)
                  /\ e.index = shard[ShardOf[k]].index
                  /\ e.order \in Seq(Nodes) /\ Len(e.order) = Len(shard[ShardOf[k]].order)
                  /\ \A j \in 1..Len(e.order) :
                       /\ e.order[j].key = shard[ShardOf[k]].order[j].key
                       /\ e.order[j].bytes = shard[ShardOf[k]].order[j].bytes
<1>1. PICK s \in Shards : s = ShardOf[k]
  BY HashIsShard
<1>2. PICK sh : sh = shard[s] /\ Good(s, sh)
  BY <1>1 DEF ShardsGood
<1>3. PICK o \in Seq(Nodes) : o = sh.order
  BY <1>2 DEF Good, Sane, ShardRecords
<1>4. PICK i \in DOMAIN o : shard' = [shard EXCEPT ![s].order[i].live = FALSE]
  BY <1>1, <1>2, <1>3 DEF Expire
<1>5. PICK q : q = [o EXCEPT ![i].live = FALSE]
  OBVIOUS
<1>6. [o[i] EXCEPT !.live = FALSE] \in Nodes
  BY ExpiredNode
<1>7. /\ q \in Seq(Nodes) /\ Len(q) = Len(o)
      /\ \A j \in 1..Len(o) : q[j].key = o[j].key /\ q[j].bytes = o[j].bytes
  <2>1. DOMAIN o = 1..Len(o) /\ Len(o) \in Nat
    OBVIOUS
  <2>2. q = [o EXCEPT ![i] = [o[i] EXCEPT !.live = FALSE]]
    BY <1>5
  <2>3. q \in [1..Len(o) -> Nodes]
    BY <1>6, <2>1, <2>2
  <2>4. \A j \in 1..Len(o) : q[j].key = o[j].key /\ q[j].bytes = o[j].bytes
    BY <2>1, <2>2, ExpiredNode
  <2>5. QED
    BY <2>1, <2>3, <2>4
<1>8. PICK e : e = [order |-> q, index |-> sh.index, curBytes |-> sh.curBytes]
  OBVIOUS
<1>9. /\ sh \in ShardRecords /\ sh.index \in SUBSET Keys /\ sh.curBytes \in Int
      /\ sh.index = KeysIn(o) /\ Distinct(o) /\ sh.curBytes = Bytes(o)
  BY <1>2, <1>3 DEF Good, Sane, ShardRecords
<1>10. shard' = [shard EXCEPT ![s] = e]
  <2>1. shard' = [shard EXCEPT ![s] = [sh EXCEPT !.order = q]]
    BY <1>2, <1>3, <1>4, <1>5
  <2>2. [sh EXCEPT !.order = q] = e
    BY <1>8, <1>9 DEF ShardRecords
  <2>3. QED
    BY <2>1, <2>2
<1>11. KeysIn(q) = KeysIn(o) /\ Distinct(q)
  <2>1. DOMAIN q = DOMAIN o /\ \A j \in DOMAIN o : q[j].key = o[j].key
    BY <1>7
  <2>2. QED
    BY <1>9, <2>1 DEF KeysIn, Distinct
<1>12. Bytes(q) = Bytes(o)
  BY <1>7, BytesSame
<1>13. Sane(e)
  BY <1>7, <1>8, <1>9, <1>11, <1>12 DEF Sane, ShardRecords
<1>14. Good(s, e)
  BY <1>2, <1>8, <1>13 DEF Good
<1>15. /\ e.index = sh.index /\ e.order = q
  BY <1>8
<1>16. /\ shard' = [shard EXCEPT ![ShardOf[k]] = e]
       /\ Good(ShardOf[k], e)
       /\ e.index = shard[ShardOf[k]].index
       /\ e.order \in Seq(Nodes) /\ Len(e.order) = Len(shard[ShardOf[k]].order)
  BY <1>1, <1>2, <1>3, <1>7, <1>10, <1>14, <1>15
<1>17. \A j \in 1..Len(e.order) :
         /\ e.order[j].key = shard[ShardOf[k]].order[j].key
         /\ e.order[j].bytes = shard[ShardOf[k]].order[j].bytes
  BY <1>1, <1>2, <1>3, <1>7, <1>15
<1>18. QED
  BY <1>16, <1>17

LEMMA CacheInitInv == Init => CacheInv
<1>1. SUFFICES ASSUME Init PROVE CacheInv
  OBVIOUS
<1>2. shard = [s \in Shards |-> EmptyShard]
  BY <1>1 DEF Init
<1>3. EmptyShard.index = {} /\ EmptyShard.curBytes = 0
  BY DEF EmptyShard
<1>4. \A s \in Shards : Good(s, EmptyShard)
  BY <1>3, EmptyIsSane, ShardsFacts DEF Good
<1>5. ShardsGood
  BY <1>2, <1>4 DEF ShardsGood
<1>6. QED
  BY <1>1, <1>5 DEF Init, CacheInv, Loops

\* A step that takes nodes out of a shard, or changes their order.
Trims(s, e) ==
    /\ shard' = [shard EXCEPT ![s] = e]
    /\ Good(s, e)
    /\ Range(e.order) \subseteq Range(shard[s].order)

LEMMA TrimmingSteps ==
    ASSUME CacheInv
    PROVE  /\ \A k \in Keys : Get(k) => \E e : Trims(ShardOf[k], e)
           /\ \A k \in Keys : Erase(k) => \E e : Trims(ShardOf[k], e)
           /\ PurgeShard => /\ purge.next \in Shards
                            /\ \E e : /\ Trims(purge.next, e)
                                      /\ \A x \in Range(e.order) : <<purge.pattern, x.key>> \notin Purged
           /\ SweepShard => sweep \in Shards /\ \E e : Trims(sweep, e)
<1>1. ASSUME NEW s \in Shards PROVE Good(s, shard[s]) /\ Sane(shard[s])
  BY DEF CacheInv, ShardsGood, Good
<1>2. ASSUME NEW k \in Keys, Get(k) PROVE \E e : Trims(ShardOf[k], e)
  <2>1. PICK s \in Shards : s = ShardOf[k]
    BY HashIsShard
  <2>2. PICK sh : sh = shard[s] /\ Good(s, sh) /\ Sane(sh)
    BY <1>1
  <2>3. PICK e : e = LruGet(sh, k)
    OBVIOUS
  <2>4. Sane(e) /\ Range(e.order) = Range(sh.order) /\ e.curBytes = sh.curBytes
    BY <2>2, <2>3, GetFacts
  <2>5. e.curBytes <= sh.curBytes
    BY <2>2, <2>4 DEF Sane, ShardRecords
  <2>6. Good(s, e)
    BY <2>2, <2>4, <2>5, FewerIsGood
  <2>7. shard' = [shard EXCEPT ![s] = e]
    BY <1>2, <2>1, <2>2, <2>3 DEF Get
  <2>8. Trims(s, e)
    BY <2>2, <2>4, <2>6, <2>7 DEF Trims
  <2>9. QED
    BY <2>1, <2>8
<1>3. ASSUME NEW k \in Keys, Erase(k) PROVE \E e : Trims(ShardOf[k], e)
  <2>1. PICK s \in Shards : s = ShardOf[k]
    BY HashIsShard
  <2>2. PICK sh : sh = shard[s] /\ Good(s, sh) /\ Sane(sh)
    BY <1>1
  <2>3. PICK e : e = LruErase(sh, k)
    OBVIOUS
  <2>4. Sane(e) /\ Range(e.order) \subseteq Range(sh.order) /\ e.curBytes <= sh.curBytes
    BY <2>2, <2>3, EraseFacts
  <2>5. Good(s, e)
    BY <2>2, <2>4, FewerIsGood
  <2>6. shard' = [shard EXCEPT ![s] = e]
    BY <1>3, <2>1, <2>2, <2>3 DEF Erase
  <2>7. Trims(s, e)
    BY <2>2, <2>4, <2>5, <2>6 DEF Trims
  <2>8. QED
    BY <2>1, <2>7
<1>4. ASSUME PurgeShard
      PROVE  /\ purge.next \in Shards
             /\ \E e : /\ Trims(purge.next, e)
                       /\ \A x \in Range(e.order) : <<purge.pattern, x.key>> \notin Purged
  <2>1. PICK s \in Shards : s = purge.next
    BY <1>4 DEF CacheInv, Loops, PurgeShard
  <2>2. PICK sh : sh = shard[s] /\ Good(s, sh) /\ Sane(sh)
    BY <1>1
  <2>3. PICK M : M = {k \in Keys : <<purge.pattern, k>> \in Purged}
    OBVIOUS
  <2>4. PICK e : e = LruPurge(sh, M)
    OBVIOUS
  <2>5. /\ Sane(e) /\ e.curBytes <= sh.curBytes
        /\ Range(e.order) = {x \in Range(sh.order) : x.key \notin M}
    BY <2>2, <2>4, PurgeFacts
  <2>6. Good(s, e)
    BY <2>2, <2>5, FewerIsGood
  <2>7. shard' = [shard EXCEPT ![s] = e]
    BY <1>4, <2>1, <2>2, <2>3, <2>4 DEF PurgeShard
  <2>8. Trims(s, e)
    BY <2>2, <2>5, <2>6, <2>7 DEF Trims
  <2>9. ASSUME NEW x \in Range(e.order) PROVE <<purge.pattern, x.key>> \notin Purged
    <3>1. x.key \notin M /\ x \in Nodes
      BY <2>5, <2>9 DEF Sane, ShardRecords, Range
    <3>2. QED
      BY <2>3, <3>1, NodeFields
  <2>10. QED
    BY <2>1, <2>8, <2>9
<1>5. ASSUME SweepShard PROVE sweep \in Shards /\ \E e : Trims(sweep, e)
  <2>1. PICK s \in Shards : s = sweep
    BY <1>5 DEF CacheInv, Loops, SweepShard
  <2>2. PICK sh : sh = shard[s] /\ Good(s, sh) /\ Sane(sh)
    BY <1>1
  <2>3. PICK e : e = LruSweepExpired(sh)
    OBVIOUS
  <2>4. Sane(e) /\ Range(e.order) \subseteq Range(sh.order) /\ e.curBytes <= sh.curBytes
    BY <2>2, <2>3, SweepFacts
  <2>5. Good(s, e)
    BY <2>2, <2>4, FewerIsGood
  <2>6. shard' = [shard EXCEPT ![s] = e]
    BY <1>5, <2>1, <2>2, <2>3 DEF SweepShard
  <2>7. Trims(s, e)
    BY <2>2, <2>4, <2>5, <2>6 DEF Trims
  <2>8. QED
    BY <2>1, <2>7
<1>6. QED
  BY <1>2, <1>3, <1>4, <1>5

LEMMA PutStep ==
    ASSUME CacheInv, NEW k \in Keys, NEW b \in Sizes, Put(k, b)
    PROVE  \E e : /\ shard' = [shard EXCEPT ![ShardOf[k]] = e]
                  /\ Good(ShardOf[k], e)
                  /\ \A x \in Range(e.order) :
                       x = Node(k, b) \/ (x \in Range(shard[ShardOf[k]].order) /\ x.key # k)
<1>1. PICK s \in Shards : s = ShardOf[k]
  BY HashIsShard
<1>2. PICK sh : sh = shard[s] /\ Good(s, sh) /\ Sane(sh)
  BY DEF CacheInv, ShardsGood, Good
<1>3. PICK e : e = LruPut(sh, k, b, PerShard)
  OBVIOUS
<1>4. PerShard \in Nat
  BY ShardsFacts
<1>5. /\ Sane(e) /\ e.curBytes <= PerShard
      /\ \A x \in Range(e.order) : x = Node(k, b) \/ (x \in Range(sh.order) /\ x.key # k)
  BY <1>2, <1>3, <1>4, PutFacts
<1>6. e.index = {x.key : x \in Range(e.order)} /\ sh.index = {x.key : x \in Range(sh.order)}
  BY <1>2, <1>5, KeysOfRange DEF Sane
<1>7. Node(k, b).key = k
  BY DEF Node
<1>8. Good(s, e)
  BY <1>1, <1>2, <1>5, <1>6, <1>7 DEF Good
<1>9. shard' = [shard EXCEPT ![s] = e]
  BY <1>1, <1>2, <1>3 DEF Put
<1>10. QED
  BY <1>1, <1>2, <1>5, <1>8, <1>9

LEMMA CacheNextInv == CacheInv /\ [Next]_vars => CacheInv'
<1>1. SUFFICES ASSUME CacheInv, [Next]_vars PROVE CacheInv'
  OBVIOUS
<1>2. ShardsGood
  BY <1>1 DEF CacheInv
<1>3. ASSUME NEW s \in Shards, NEW e, Trims(s, e) PROVE ShardsGood'
  BY <1>2, <1>3, OneShard DEF Trims
<1>4. ASSUME UNCHANGED shard PROVE ShardsGood'
  BY <1>2, <1>4 DEF ShardsGood, Good, Sane
<1>5. ASSUME UNCHANGED <<purge, sweep>> PROVE Loops'
  BY <1>1, <1>5 DEF CacheInv, Loops
<1>6. CASE \E k \in Keys : Get(k)
  BY <1>1, <1>3, <1>5, <1>6, TrimmingSteps, HashIsShard DEF CacheInv, Get
<1>7. CASE \E k \in Keys : Erase(k)
  BY <1>1, <1>3, <1>5, <1>7, TrimmingSteps, HashIsShard DEF CacheInv, Erase
<1>8. CASE \E k \in Keys : Expire(k)
  BY <1>2, <1>5, <1>8, ExpireFacts, OneShard, HashIsShard DEF CacheInv, Expire
<1>9. CASE \E k \in Keys, b \in Sizes : Put(k, b)
  BY <1>1, <1>2, <1>5, <1>9, PutStep, OneShard, HashIsShard DEF CacheInv, Put
<1>10. CASE \E p \in Patterns : PurgeBegin(p)
  <2>1. ShardsGood'
    BY <1>4, <1>10 DEF PurgeBegin
  <2>2. 1 \in Shards
    BY ShardsFacts
  <2>3. Loops'
    BY <1>1, <1>10, <2>2 DEF CacheInv, Loops, PurgeBegin
  <2>4. QED
    BY <2>1, <2>3 DEF CacheInv
<1>11. CASE PurgeShard
  <2>1. ShardsGood'
    BY <1>1, <1>3, <1>11, TrimmingSteps
  <2>2. Loops'
    BY <1>1, <1>11 DEF CacheInv, Loops, PurgeShard
  <2>3. QED
    BY <2>1, <2>2 DEF CacheInv
<1>12. CASE SweepBegin
  <2>1. ShardsGood'
    BY <1>4, <1>12 DEF SweepBegin
  <2>2. 1 \in Shards
    BY ShardsFacts
  <2>3. Loops'
    BY <1>1, <1>12, <2>2 DEF CacheInv, Loops, SweepBegin
  <2>4. QED
    BY <2>1, <2>3 DEF CacheInv
<1>13. CASE SweepShard
  <2>1. ShardsGood'
    BY <1>1, <1>3, <1>13, TrimmingSteps
  <2>2. Loops'
    BY <1>1, <1>13 DEF CacheInv, Loops, SweepShard
  <2>3. QED
    BY <2>1, <2>2 DEF CacheInv
<1>14. CASE UNCHANGED vars
  BY <1>4, <1>5, <1>14 DEF vars, CacheInv
<1>15. QED
  BY <1>1, <1>6, <1>7, <1>8, <1>9, <1>10, <1>11, <1>12, <1>13, <1>14 DEF Next

LEMMA CacheSpecInv == Spec => []CacheInv
BY CacheInitInv, CacheNextInv, PTL DEF Spec

\* The list, the index and the byte count of every shard agree after any operations of any
\* workers, purges and sweeps.
THEOREM FieldsAgree == Spec => []ShardConsistent
<1>1. CacheInv => ShardConsistent
  <2>1. SUFFICES ASSUME CacheInv, NEW s \in Shards
                 PROVE  LET order == shard[s].order
                        IN  /\ shard[s].index = {order[i].key : i \in DOMAIN order}
                            /\ Cardinality(shard[s].index) = Len(order)
                            /\ \A k \in shard[s].index : ShardOf[k] = s
                            /\ shard[s].curBytes = Bytes(order)
    BY DEF ShardConsistent
  <2>2. PICK o \in Seq(Nodes) : o = shard[s].order
    BY <2>1 DEF CacheInv, ShardsGood, Good, Sane, ShardRecords
  <2>3. /\ shard[s].index = KeysIn(o) /\ Distinct(o) /\ shard[s].curBytes = Bytes(o)
        /\ \A k \in shard[s].index : ShardOf[k] = s
    BY <2>1, <2>2 DEF CacheInv, ShardsGood, Good, Sane
  <2>4. Cardinality(KeysIn(o)) = Len(o)
    <3>1. PICK n \in Nat : n = Len(o) /\ DOMAIN o = 1..n
      OBVIOUS
    <3>2. PICK f : f = [i \in 1..n |-> o[i].key]
      OBVIOUS
    <3>3. f \in Bijection(1..n, KeysIn(o))
      BY <2>3, <3>1, <3>2 DEF Bijection, Injection, Surjection, IsInjective, KeysIn, Distinct
    <3>4. ExistsBijection(1..n, KeysIn(o))
      BY <3>3 DEF ExistsBijection
    <3>5. QED
      BY <3>1, <3>4, FS_CountingElements
  <2>5. QED
    BY <2>2, <2>3, <2>4 DEF KeysIn
<1>2. QED
  BY <1>1, CacheSpecInv, PTL

\* No shard exceeds its share of the limit, and all together do not exceed the limit.
THEOREM LimitHolds == Spec => []WithinLimit
<1>1. CacheInv => WithinLimit
  <2>1. SUFFICES ASSUME CacheInv PROVE WithinLimit
    OBVIOUS
  <2>2. \A s \in Shards : shard[s].curBytes <= PerShard /\ shard[s].curBytes \in Int
    BY <2>1 DEF CacheInv, ShardsGood, Good, Sane, ShardRecords
  <2>3. PICK n \in Nat : n = Count /\ Shards = 1..n
    BY ShardsFacts
  <2>4. PICK ns : ns = [s \in Shards |-> shard[s].curBytes]
    OBVIOUS
  <2>5. ns \in Seq(Int) /\ Len(ns) = n /\ \A i \in 1..Len(ns) : ns[i] <= PerShard
    <3>1. ns \in [1..n -> Int]
      BY <2>2, <2>3, <2>4
    <3>2. ns \in Seq(Int) /\ Len(ns) = n
      BY <3>1
    <3>3. QED
      BY <2>2, <2>3, <2>4, <3>2
  <2>6. Total(ns) <= Len(ns) * PerShard
    BY ONLY <2>5, TotalBound, ShardsFacts
  <2>7. Total(ns) <= MaxBytes
    <3>1. Total(ns) \in Int
      BY <2>5, TotalType
    <3>2. Len(ns) * PerShard <= MaxBytes /\ Len(ns) * PerShard \in Int /\ MaxBytes \in Int
      BY <2>3, <2>5, ShardsFacts, CacheAssumption
    <3>3. QED
      BY <2>6, <3>1, <3>2
  <2>8. QED
    BY <2>2, <2>4, <2>7 DEF WithinLimit, TotalBytes
<1>2. QED
  BY <1>1, CacheSpecInv, PTL

-----------------------------------------------------------------------------
(* The cache keeps what BoundedCache promises.                             *)

ContentOf(sh, k) == IF k \in sh.index THEN NodeOf(sh.order, k).bytes ELSE 0
Content == [k \in Keys |-> ContentOf(shard[ShardOf[k]], k)]

\* The content of a key is 0 exactly if it is not there.
LEMMA ContentPresent ==
    ASSUME NEW sh, Sane(sh), NEW k \in Keys
    PROVE  ContentOf(sh, k) = 0 <=> k \notin sh.index
<1>1. CASE k \in sh.index
  <2>1. sh.order \in Seq(Nodes) /\ Distinct(sh.order) /\ k \in KeysIn(sh.order)
    BY <1>1 DEF Sane, ShardRecords
  <2>2. NodeOf(sh.order, k) \in Nodes
    BY <2>1, NodeOfFacts
  <2>3. NodeOf(sh.order, k).bytes # 0
    BY <2>2, NodeFields
  <2>4. QED
    BY <1>1, <2>3 DEF ContentOf
<1>2. CASE k \notin sh.index
  BY <1>2 DEF ContentOf
<1>3. QED
  BY <1>1, <1>2

\* A key whose node, if it is there, was there before, has its content or none.
LEMMA ContentKept ==
    ASSUME NEW sh, Sane(sh), NEW e, Sane(e), NEW k \in Keys,
           \A x \in Range(e.order) : x.key = k => x \in Range(sh.order)
    PROVE  ContentOf(e, k) \in {ContentOf(sh, k), 0}
<1>1. SUFFICES ASSUME k \in e.index PROVE ContentOf(e, k) = ContentOf(sh, k)
  BY DEF ContentOf
<1>2. e.order \in Seq(Nodes) /\ Distinct(e.order) /\ k \in KeysIn(e.order)
  BY <1>1 DEF Sane, ShardRecords
<1>3. NodeOf(e.order, k) \in Range(e.order) /\ NodeOf(e.order, k).key = k
  BY <1>2, NodeOfFacts
<1>4. PICK x : x = NodeOf(e.order, k)
  OBVIOUS
<1>5. x \in Range(sh.order) /\ x.key = k
  BY <1>3, <1>4
<1>6. sh.order \in Seq(Nodes) /\ Distinct(sh.order) /\ sh.index = KeysIn(sh.order)
  BY DEF Sane, ShardRecords
<1>7. x = NodeOf(sh.order, k)
  BY <1>5, <1>6, NodeOfFacts
<1>8. k \in sh.index
  BY <1>5, <1>6, KeysOfRange
<1>9. QED
  BY <1>1, <1>4, <1>7, <1>8 DEF ContentOf

\* The same keys and sizes in the same places make the same content.
LEMMA ContentSame ==
    ASSUME NEW sh, Sane(sh), NEW e, Sane(e), NEW k \in Keys, e.index = sh.index,
           Len(e.order) = Len(sh.order),
           \A j \in 1..Len(e.order) : /\ e.order[j].key = sh.order[j].key
                                      /\ e.order[j].bytes = sh.order[j].bytes
    PROVE  ContentOf(e, k) = ContentOf(sh, k)
<1>1. SUFFICES ASSUME k \in e.index PROVE NodeOf(e.order, k).bytes = NodeOf(sh.order, k).bytes
  BY DEF ContentOf
<1>2. /\ e.order \in Seq(Nodes) /\ Distinct(e.order) /\ k \in KeysIn(e.order)
      /\ sh.order \in Seq(Nodes) /\ Distinct(sh.order)
  BY <1>1 DEF Sane, ShardRecords
<1>3. PICK p \in 1..Len(e.order) : e.order[p] = NodeOf(e.order, k) /\ e.order[p].key = k
  BY <1>2, NodeOfFacts
<1>4. sh.order[p].key = k /\ sh.order[p].bytes = e.order[p].bytes /\ sh.order[p] \in Range(sh.order)
  BY <1>2, <1>3 DEF Range
<1>5. sh.order[p] = NodeOf(sh.order, k)
  BY <1>2, <1>4, NodeOfFacts
<1>6. QED
  BY <1>3, <1>4, <1>5

\* What a step forgets, and the history that Recorded keeps of the rest.
LEMMA BecomesStep ==
    ASSUME CacheInv', NEW f, NEW g, NEW used,
           \A k \in Keys : Content'[k] \in {f[k], 0}, Recorded(used, g)
    PROVE  Cache!Becomes(f, g)
<1>1. \A k \in Keys : Content'[k] = 0 <=> k \notin shard'[ShardOf[k]].index
  <2>1. SUFFICES ASSUME NEW k \in Keys
                 PROVE  Content'[k] = 0 <=> k \notin shard'[ShardOf[k]].index
    OBVIOUS
  <2>2. PICK e : e = shard'[ShardOf[k]]
    OBVIOUS
  <2>3. Sane(e)
    BY <2>2, HashIsShard DEF CacheInv, ShardsGood, Good, Sane
  <2>4. Content'[k] = ContentOf(e, k)
    BY <2>2 DEF Content, ContentOf
  <2>5. QED
    BY <2>2, <2>3, <2>4, ContentPresent
<1>2. lastPut' = [k \in Keys |-> IF Content'[k] = 0 THEN 0 ELSE g[k]]
  BY <1>1 DEF Recorded
<1>3. Content' = [k \in Keys |-> IF (Present(k))' THEN (SizeOf(k))' ELSE 0]
  BY DEF Content, ContentOf, Present, SizeOf
<1>4. QED
  BY <1>2, <1>3 DEF Cache!Becomes

\* A step that changes one shard leaves the content of the keys of the others.
LEMMA ContentElsewhere ==
    ASSUME CacheInv, NEW s \in Shards, NEW e, shard' = [shard EXCEPT ![s] = e], NEW k \in Keys
    PROVE  /\ Content[k] = ContentOf(shard[ShardOf[k]], k)
           /\ Content'[k] = IF ShardOf[k] = s THEN ContentOf(e, k) ELSE Content[k]
<1>1. PICK t \in Shards : t = ShardOf[k]
  BY HashIsShard
<1>2. shard'[t] = IF t = s THEN e ELSE shard[t]
  BY <1>1 DEF CacheInv, ShardsGood
<1>3. Content[k] = ContentOf(shard[t], k)
  BY <1>1 DEF Content
<1>4. Content'[k] = ContentOf(shard'[t], k)
  BY <1>1 DEF Content, ContentOf
<1>5. QED
  BY <1>1, <1>2, <1>3, <1>4

LEMMA TrimForgets ==
    ASSUME CacheInv, NEW s \in Shards, NEW e, Trims(s, e), NEW k \in Keys
    PROVE  Content'[k] \in {Content[k], 0}
<1>1. shard' = [shard EXCEPT ![s] = e] /\ Sane(e) /\ Range(e.order) \subseteq Range(shard[s].order)
  BY DEF Trims, Good
<1>2. Sane(shard[s])
  BY DEF CacheInv, ShardsGood, Good
<1>3. ContentOf(e, k) \in {ContentOf(shard[s], k), 0}
  BY <1>1, <1>2, ContentKept
<1>4. QED
  BY <1>1, <1>3, ContentElsewhere

LEMMA PutStores ==
    ASSUME CacheInv, NEW k \in Keys, NEW b \in Sizes, Put(k, b), NEW j \in Keys
    PROVE  Content'[j] \in {[Content EXCEPT ![k] = b][j], 0}
<1>1. PICK s \in Shards : s = ShardOf[k]
  BY HashIsShard
<1>2. PICK e : /\ shard' = [shard EXCEPT ![s] = e]
               /\ Good(s, e)
               /\ \A x \in Range(e.order) :
                    x = Node(k, b) \/ (x \in Range(shard[s].order) /\ x.key # k)
  BY <1>1, PutStep
<1>3. Sane(e) /\ Sane(shard[s])
  BY <1>2 DEF CacheInv, ShardsGood, Good
<1>4. Node(k, b).key = k /\ Node(k, b).bytes = b
  BY DEF Node
<1>5. [Content EXCEPT ![k] = b][j] = IF j = k THEN b ELSE Content[j]
  BY DEF Content
<1>6. CASE j = k
  <2>1. k \in e.index => NodeOf(e.order, k) = Node(k, b)
    <3>1. SUFFICES ASSUME k \in e.index PROVE NodeOf(e.order, k) = Node(k, b)
      OBVIOUS
    <3>2. e.order \in Seq(Nodes) /\ Distinct(e.order) /\ k \in KeysIn(e.order)
      BY <1>3, <3>1 DEF Sane, ShardRecords
    <3>3. NodeOf(e.order, k) \in Range(e.order) /\ NodeOf(e.order, k).key = k
      BY <3>2, NodeOfFacts
    <3>4. QED
      BY <1>2, <3>3
  <2>2. ContentOf(e, k) \in {b, 0}
    BY <1>4, <2>1 DEF ContentOf
  <2>3. Content'[k] = ContentOf(e, k)
    BY <1>1, <1>2, ContentElsewhere
  <2>4. QED
    BY <1>5, <1>6, <2>2, <2>3
<1>7. CASE j # k
  <2>1. \A x \in Range(e.order) : x.key = j => x \in Range(shard[s].order)
    BY <1>2, <1>4, <1>7
  <2>2. ContentOf(e, j) \in {ContentOf(shard[s], j), 0}
    BY <1>3, <2>1, ContentKept
  <2>3. Content'[j] = IF ShardOf[j] = s THEN ContentOf(e, j) ELSE Content[j]
    BY <1>1, <1>2, ContentElsewhere
  <2>4. Content[j] = ContentOf(shard[ShardOf[j]], j)
    BY <1>1, <1>2, ContentElsewhere
  <2>5. QED
    BY <1>5, <1>7, <2>2, <2>3, <2>4
<1>8. QED
  BY <1>6, <1>7

LEMMA ContentIsMapped ==
    /\ Content = [k \in Keys |-> IF Present(k) THEN SizeOf(k) ELSE 0]
    /\ Content' = [k \in Keys |-> IF (Present(k))' THEN (SizeOf(k))' ELSE 0]
BY DEF Content, ContentOf, Present, SizeOf

\* get() never returns anything but what was last put under its key, whatever is evicted,
\* erased, purged or swept in between.
THEOREM KeepsPromise == Spec => ImplementsBoundedCache
<1>1. Init => Cache!Init
  <2>1. SUFFICES ASSUME Init PROVE Cache!Init
    OBVIOUS
  <2>2. EmptyShard.index = {}
    BY DEF EmptyShard
  <2>3. \A k \in Keys : ~Present(k)
    BY <2>1, <2>2, HashIsShard DEF Init, Present
  <2>4. QED
    BY <2>1, <2>3 DEF Init, Cache!Init
<1>2. CacheInv /\ CacheInv' /\ [Next]_vars => [Cache!Next]_(Cache!cacheVars)
  <2>1. SUFFICES ASSUME CacheInv, CacheInv', [Next]_vars
                 PROVE  Cache!Next \/ (Content' = Content /\ lastPut' = lastPut)
    BY ContentIsMapped DEF Cache!cacheVars
  <2>2. ASSUME NEW s \in Shards, NEW e, Trims(s, e), NEW used, Recorded(used, lastPut)
        PROVE  Cache!Next
    <3>1. \A k \in Keys : Content'[k] \in {Content[k], 0}
      BY <2>1, <2>2, TrimForgets
    <3>2. Cache!Becomes(Content, lastPut)
      BY <2>1, <2>2, <3>1, BecomesStep
    <3>3. QED
      BY <3>2, ContentIsMapped DEF Cache!Next, Cache!Forget
  <2>3. ASSUME UNCHANGED <<shard, lastPut>> PROVE Content' = Content /\ lastPut' = lastPut
    BY <2>3 DEF Content, ContentOf
  <2>4. CASE \E k \in Keys : Get(k)
    BY <2>1, <2>2, <2>4, TrimmingSteps, HashIsShard DEF Get
  <2>5. CASE \E k \in Keys : Erase(k)
    BY <2>1, <2>2, <2>5, TrimmingSteps, HashIsShard DEF Erase
  <2>6. CASE \E k \in Keys : Expire(k)
    <3>1. PICK k \in Keys : Expire(k)
      BY <2>6
    <3>2. PICK s \in Shards : s = ShardOf[k]
      BY HashIsShard
    <3>3. ShardsGood
      BY <2>1 DEF CacheInv
    <3>4. PICK e : /\ shard' = [shard EXCEPT ![s] = e]
                   /\ Good(s, e)
                   /\ e.index = shard[s].index
                   /\ e.order \in Seq(Nodes) /\ Len(e.order) = Len(shard[s].order)
                   /\ \A j \in 1..Len(e.order) :
                        /\ e.order[j].key = shard[s].order[j].key
                        /\ e.order[j].bytes = shard[s].order[j].bytes
      BY <3>1, <3>2, <3>3, ExpireFacts
    <3>5. Sane(e) /\ Sane(shard[s])
      BY <3>3, <3>4 DEF ShardsGood, Good
    <3>6. \A j \in Keys : ContentOf(e, j) = ContentOf(shard[s], j)
      BY <3>4, <3>5, ContentSame
    <3>7. ASSUME NEW j \in Keys PROVE Content'[j] = Content[j]
      <4>1. shard' = [shard EXCEPT ![s] = e]
        BY <3>4
      <4>2. /\ Content[j] = ContentOf(shard[ShardOf[j]], j)
            /\ Content'[j] = IF ShardOf[j] = s THEN ContentOf(e, j) ELSE Content[j]
        BY ONLY <2>1, <3>2, <4>1, <3>7, ContentElsewhere
      <4>3. ContentOf(e, j) = ContentOf(shard[s], j)
        BY <3>6
      <4>4. QED
        BY ONLY <4>2, <4>3
    <3>8. Content' = Content
      BY <3>7 DEF Content
    <3>9. QED
      BY <3>1, <3>8 DEF Expire
  <2>7. CASE \E k \in Keys, b \in Sizes : Put(k, b)
    <3>1. PICK k \in Keys, b \in Sizes : Put(k, b)
      BY <2>7
    <3>2. \A j \in Keys : Content'[j] \in {[Content EXCEPT ![k] = b][j], 0}
      BY <2>1, <3>1, PutStores
    <3>3. Cache!Becomes([Content EXCEPT ![k] = b], [lastPut EXCEPT ![k] = b])
      BY <2>1, <3>1, <3>2, BecomesStep DEF Put
    <3>4. QED
      BY <3>3, ContentIsMapped DEF Cache!Next, Cache!Store
  <2>8. CASE PurgeShard
    BY <2>1, <2>2, <2>8, TrimmingSteps DEF PurgeShard
  <2>9. CASE SweepShard
    BY <2>1, <2>2, <2>9, TrimmingSteps DEF SweepShard
  <2>10. CASE SweepBegin \/ UNCHANGED vars \/ \E p \in Patterns : PurgeBegin(p)
    BY <2>3, <2>10 DEF SweepBegin, vars, PurgeBegin
  <2>11. QED
    BY <2>1, <2>4, <2>5, <2>6, <2>7, <2>8, <2>9, <2>10 DEF Next
<1>3. QED
  BY <1>1, <1>2, CacheSpecInv, PTL DEF Spec, ImplementsBoundedCache, Cache!Spec

-----------------------------------------------------------------------------
(* What a key says of its request.                                         *)

\* The first c of s from position i on is at j if there is none in between.
LEMMA FindAt ==
    ASSUME NEW T, NEW s \in Seq(T), NEW c, NEW i \in Nat, NEW j \in i..Len(s), s[j] = c,
           \A n \in i..Len(s) : n < j => s[n] # c
    PROVE  Find(s, c, i) = j
<1> DEFINE at == {n \in i..Len(s) : s[n] = c}
<1>1. Len(s) \in Nat
  OBVIOUS
<1>2. j \in at /\ \A n \in at : j <= n
  BY <1>1
<1>3. \A n \in at : (\A k \in at : n <= k) => n = j
  BY <1>1, <1>2
<1>4. Find(s, c, i) = CHOOSE n \in at : \A k \in at : n <= k
  BY <1>2 DEF Find
<1> HIDE DEF at
<1>5. QED
  BY <1>2, <1>3, <1>4

LEMMA FindNone ==
    ASSUME NEW s, NEW c, NEW i, \A n \in i..Len(s) : s[n] # c
    PROVE  Find(s, c, i) = 0
BY DEF Find

\* The characters and longer texts that keys are made of.
Texts == STRING \cup {Bar, Mark, "&", "GET", "HEAD"}

LEMMA TextsFacts ==
    /\ Bar \in Texts /\ Mark \in Texts /\ "&" \in Texts /\ STRING \subseteq Texts
    /\ {"GET", "HEAD"} \subseteq Texts
    /\ Seq(STRING) \subseteq Seq(Texts)
<1>1. Bar \in Texts /\ Mark \in Texts /\ "&" \in Texts /\ STRING \subseteq Texts
  BY Zenon DEF Texts
<1>4. {"GET", "HEAD"} \subseteq Texts
  BY Zenon DEF Texts
<1>2. ASSUME NEW S, NEW T, S \subseteq T PROVE Seq(S) \subseteq Seq(T)
  BY <1>2
<1>3. QED
  BY <1>1, <1>2, <1>4

\* A text of five parts, of which three have a length of their own.
Parts(key, m, b, h, p, t) ==
    /\ Len(key) = Len(h) + Len(p) + Len(t) + 3
    /\ key[1] = m /\ key[2] = b /\ key[Len(h) + 3] = b
    /\ \A i \in 1..Len(h) : key[i + 2] = h[i]
    /\ \A i \in 1..Len(p) : key[i + Len(h) + 3] = p[i]
    /\ \A i \in 1..Len(t) : key[i + Len(h) + Len(p) + 3] = t[i]

IsConcat(c, a, b) == c = a \o b

LEMMA ConcatFacts ==
    ASSUME NEW T, NEW a \in Seq(T), NEW b \in Seq(T), NEW c, IsConcat(c, a, b)
    PROVE  /\ c \in Seq(T)
           /\ Len(c) = Len(a) + Len(b)
           /\ \A i \in 1..Len(a) : c[i] = a[i]
           /\ \A i \in 1..Len(b) : c[i + Len(a)] = b[i]
<1>1. /\ a \o b \in Seq(T) /\ Len(a \o b) = Len(a) + Len(b)
      /\ \A i \in 1..(Len(a) + Len(b)) : (a \o b)[i] = IF i <= Len(a) THEN a[i] ELSE b[i - Len(a)]
  BY ConcatProperties
<1>2. c = a \o b
  BY DEF IsConcat
<1>3. PICK m \in Nat, n \in Nat : m = Len(a) /\ n = Len(b)
  OBVIOUS
<1>4. /\ c \in Seq(T) /\ Len(c) = m + n
      /\ \A i \in 1..(m + n) : c[i] = IF i <= m THEN a[i] ELSE b[i - m]
  BY ONLY <1>1, <1>2, <1>3
<1>5. \A i \in 1..m : c[i] = a[i]
  BY ONLY <1>4, m \in Nat, n \in Nat
<1>6. ASSUME NEW i \in 1..n PROVE c[i + m] = b[i]
  <2>1. i + m \in 1..(m + n) /\ ~(i + m <= m) /\ (i + m) - m = i
    OBVIOUS
  <2>2. QED
    BY ONLY <1>4, <2>1
<1>7. QED
  BY ONLY <1>3, <1>4, <1>5, <1>6

LEMMA PartsOf ==
    ASSUME NEW T, NEW m \in T, NEW b \in T, NEW h \in Seq(T), NEW p \in Seq(T),
           NEW t \in Seq(T), NEW key, key = <<m, b>> \o h \o <<b>> \o p \o t
    PROVE  key \in Seq(T) /\ Parts(key, m, b, h, p, t)
<1> DEFINE v == <<m, b>>  w == <<b>>  x == v \o h  y == x \o w  z == y \o p
<1>1. v \in Seq(T) /\ Len(v) = 2 /\ v[1] = m /\ v[2] = b
  BY ONLY m \in T, b \in T
<1>2. w \in Seq(T) /\ Len(w) = 1 /\ w[1] = b
  BY ONLY b \in T
<1>0. IsConcat(x, v, h) /\ IsConcat(y, x, w) /\ IsConcat(z, y, p) /\ IsConcat(key, z, t)
  BY DEF IsConcat
<1> HIDE DEF v, w, x, y, z
<1>3. PICK H \in Nat, P \in Nat, L \in Nat : H = Len(h) /\ P = Len(p) /\ L = Len(t)
  OBVIOUS
<1>4. /\ x \in Seq(T) /\ Len(x) = 2 + H
      /\ \A i \in 1..2 : x[i] = v[i]
      /\ \A i \in 1..H : x[i + 2] = h[i]
  <2>1. v \in Seq(T) /\ h \in Seq(T) /\ IsConcat(x, v, h)
    BY ONLY <1>0, <1>1, h \in Seq(T)
  <2>2. /\ x \in Seq(T) /\ Len(x) = Len(v) + Len(h)
        /\ \A i \in 1..Len(v) : x[i] = v[i]
        /\ \A i \in 1..Len(h) : x[i + Len(v)] = h[i]
    BY ONLY <2>1, ConcatFacts
  <2>3. Len(v) = 2 /\ Len(h) = H
    BY ONLY <1>1, <1>3
  <2>4. QED
    BY ONLY <2>2, <2>3
<1>5. /\ y \in Seq(T) /\ Len(y) = (2 + H) + 1
      /\ \A i \in 1..(2 + H) : y[i] = x[i]
      /\ \A i \in 1..1 : y[i + (2 + H)] = w[i]
  <2>1. x \in Seq(T) /\ w \in Seq(T) /\ IsConcat(y, x, w)
    BY ONLY <1>0, <1>2, <1>4
  <2>2. /\ y \in Seq(T) /\ Len(y) = Len(x) + Len(w)
        /\ \A i \in 1..Len(x) : y[i] = x[i]
        /\ \A i \in 1..Len(w) : y[i + Len(x)] = w[i]
    BY ONLY <2>1, ConcatFacts
  <2>3. Len(x) = (2 + H) /\ Len(w) = 1
    BY ONLY <1>2, <1>4
  <2>4. QED
    BY ONLY <2>2, <2>3
<1>6. /\ Len(y) = H + 3 /\ y[1] = m /\ y[2] = b /\ y[H + 3] = b
      /\ \A i \in 1..H : y[i + 2] = h[i]
  <2>1. 1 + (2 + H) = H + 3 /\ 1 \in 1..(2 + H) /\ 2 \in 1..(2 + H) /\ (2 + H) + 1 = H + 3
    OBVIOUS
  <2>2. \A i \in 1..H : i + 2 \in 1..(2 + H)
    OBVIOUS
  <2>3. y[1 + (2 + H)] = w[1]
    BY ONLY <1>5
  <2>4. Len(y) = H + 3 /\ y[H + 3] = b
    BY ONLY <1>2, <1>5, <2>1, <2>3
  <2>5. y[1] = x[1] /\ y[2] = x[2] /\ \A i \in 1..H : y[i + 2] = x[i + 2]
    BY ONLY <1>5, <2>1, <2>2
  <2>6. x[1] = v[1] /\ x[2] = v[2] /\ \A i \in 1..H : x[i + 2] = h[i]
    BY ONLY <1>4
  <2>7. v[1] = m /\ v[2] = b
    BY ONLY <1>1
  <2>8. QED
    BY ONLY <2>4, <2>5, <2>6, <2>7
<1>7. /\ z \in Seq(T) /\ Len(z) = (H + 3) + P
      /\ \A i \in 1..(H + 3) : z[i] = y[i]
      /\ \A i \in 1..P : z[i + (H + 3)] = p[i]
  <2>1. y \in Seq(T) /\ p \in Seq(T) /\ IsConcat(z, y, p)
    BY ONLY <1>0, <1>5, p \in Seq(T)
  <2>2. /\ z \in Seq(T) /\ Len(z) = Len(y) + Len(p)
        /\ \A i \in 1..Len(y) : z[i] = y[i]
        /\ \A i \in 1..Len(p) : z[i + Len(y)] = p[i]
    BY ONLY <2>1, ConcatFacts
  <2>3. Len(y) = (H + 3) /\ Len(p) = P
    BY ONLY <1>3, <1>6
  <2>4. QED
    BY ONLY <2>2, <2>3
<1>8. /\ key \in Seq(T) /\ Len(key) = ((H + 3) + P) + L
      /\ \A i \in 1..((H + 3) + P) : key[i] = z[i]
      /\ \A i \in 1..L : key[i + ((H + 3) + P)] = t[i]
  <2>1. z \in Seq(T) /\ t \in Seq(T) /\ IsConcat(key, z, t)
    BY ONLY <1>0, <1>7, t \in Seq(T)
  <2>2. /\ key \in Seq(T) /\ Len(key) = Len(z) + Len(t)
        /\ \A i \in 1..Len(z) : key[i] = z[i]
        /\ \A i \in 1..Len(t) : key[i + Len(z)] = t[i]
    BY ONLY <2>1, ConcatFacts
  <2>3. Len(z) = ((H + 3) + P) /\ Len(t) = L
    BY ONLY <1>3, <1>7
  <2>4. QED
    BY ONLY <2>2, <2>3
<1>9. /\ \A i \in 1..(H + 3) : key[i] = y[i]
      /\ \A i \in 1..P : key[i + H + 3] = p[i]
      /\ \A i \in 1..L : key[i + H + P + 3] = t[i]
      /\ Len(key) = H + P + L + 3
  <2>1. \A i \in 1..(H + 3) : i \in 1..((H + 3) + P)
    OBVIOUS
  <2>2. \A i \in 1..P : i + H + 3 = i + (H + 3) /\ i + (H + 3) \in 1..((H + 3) + P)
    OBVIOUS
  <2>3. \A i \in 1..L : i + H + P + 3 = i + ((H + 3) + P)
    OBVIOUS
  <2>4. ((H + 3) + P) + L = H + P + L + 3
    OBVIOUS
  <2>5. QED
    BY ONLY <1>7, <1>8, <2>1, <2>2, <2>3, <2>4
<1>10. /\ key[1] = m /\ key[2] = b /\ key[H + 3] = b
       /\ \A i \in 1..H : key[i + 2] = h[i]
  <2>1. 1 \in 1..(H + 3) /\ 2 \in 1..(H + 3) /\ H + 3 \in 1..(H + 3)
    OBVIOUS
  <2>2. \A i \in 1..H : i + 2 \in 1..(H + 3)
    OBVIOUS
  <2>3. QED
    BY ONLY <1>6, <1>9, <2>1, <2>2
<1>11. QED
  BY ONLY <1>3, <1>8, <1>9, <1>10 DEF Parts

LEMMA BarsFound ==
    ASSUME NEW key \in Seq(Texts), NEW m, NEW h \in Seq(Texts), NEW p \in Seq(Texts),
           NEW t \in Seq(Texts), Parts(key, m, Bar, h, p, t), m # Bar, Bar \notin Range(h)
    PROVE  Find(key, Bar, 1) = 2 /\ Find(key, Bar, 3) = Len(h) + 3
<1>1. Find(key, Bar, 1) = 2
  <2>1. 2 \in 1..Len(key) /\ key[2] = Bar /\ 1 \in Nat
    BY DEF Parts
  <2>2. \A n \in 1..Len(key) : n < 2 => key[n] # Bar
    BY DEF Parts
  <2>3. QED
    BY <2>1, <2>2, FindAt
<1>2. Find(key, Bar, 3) = Len(h) + 3
  <2>1. Len(h) + 3 \in 3..Len(key) /\ key[Len(h) + 3] = Bar /\ 3 \in Nat
    BY DEF Parts
  <2>2. ASSUME NEW n \in 3..Len(key), n < Len(h) + 3 PROVE key[n] # Bar
    <3>1. PICK i \in 1..Len(h) : n = i + 2
      <4>1. n - 2 \in 1..Len(h) /\ n = (n - 2) + 2
        BY <2>2
      <4>2. QED
        BY <4>1
    <3>2. key[n] = h[i] /\ h[i] \in Range(h)
      BY <3>1 DEF Parts, Range
    <3>3. QED
      BY <3>2
  <2>3. QED
    BY <2>1, <2>2, FindAt
<1>3. QED
  BY <1>1, <1>2

\* What is behind the second bar.
IsRest(u, p, t) ==
    /\ u \in Seq(Texts) /\ Len(u) = Len(p) + Len(t)
    /\ \A i \in 1..Len(p) : u[i] = p[i]
    /\ \A i \in 1..Len(t) : u[i + Len(p)] = t[i]

LEMMA RestIs ==
    ASSUME NEW key \in Seq(Texts), NEW m, NEW b, NEW h \in Seq(Texts), NEW p \in Seq(Texts),
           NEW t \in Seq(Texts), Parts(key, m, b, h, p, t)
    PROVE  IsRest(From(key, Len(h) + 4), p, t)
<1>1. PICK H \in Nat, P \in Nat, L \in Nat : H = Len(h) /\ P = Len(p) /\ L = Len(t)
  OBVIOUS
<1>2. Len(key) = H + P + L + 3
  BY <1>1 DEF Parts
<1>3. PICK r : r = SubSeq(key, H + 4, H + P + L + 3)
  OBVIOUS
<1>4. r = From(key, Len(h) + 4)
  BY <1>1, <1>2, <1>3 DEF From
<1>5. /\ r \in Seq(Texts)
      /\ Len(r) = IF H + 4 <= H + P + L + 3 THEN (H + P + L + 3) - (H + 4) + 1 ELSE 0
      /\ \A i \in 1..Len(r) : r[i] = key[(H + 4) + i - 1]
  <2>1. PICK a \in Int, z \in Int : a = H + 4 /\ z = H + P + L + 3
    OBVIOUS
  <2>2. \A i \in a..z : i \in 1..Len(key)
    BY <1>2, <2>1
  <2>3. \A i \in a..z : key[i] \in Texts
    BY <2>2
  <2>4. /\ SubSeq(key, a, z) \in Seq(Texts)
        /\ Len(SubSeq(key, a, z)) = IF a <= z THEN z - a + 1 ELSE 0
        /\ \A i \in 1..(z - a + 1) : SubSeq(key, a, z)[i] = key[a + i - 1]
    BY ONLY <2>3, a \in Int, z \in Int, SubSeqProperties
  <2>5. r = SubSeq(key, a, z)
    BY ONLY <1>3, <2>1
  <2>6. /\ r \in Seq(Texts)
        /\ Len(r) = IF a <= z THEN z - a + 1 ELSE 0
        /\ \A i \in 1..(z - a + 1) : r[i] = key[a + i - 1]
    BY ONLY <2>4, <2>5
  <2>7. z - a + 1 = Len(r)
    BY <2>1, <2>6
  <2>8. QED
    BY ONLY <2>1, <2>6, <2>7
<1>6. Len(r) = P + L
  BY <1>5
<1>7. \A i \in 1..P : r[i] = p[i]
  <2>1. SUFFICES ASSUME NEW i \in 1..P PROVE r[i] = p[i]
    OBVIOUS
  <2>2. (H + 4) + i - 1 = i + H + 3
    OBVIOUS
  <2>3. r[i] = key[i + H + 3]
    BY <1>5, <1>6, <2>2
  <2>4. QED
    BY <1>1, <2>3 DEF Parts
<1>8. \A i \in 1..L : r[i + P] = t[i]
  <2>1. SUFFICES ASSUME NEW i \in 1..L PROVE r[i + P] = t[i]
    OBVIOUS
  <2>2. (H + 4) + (i + P) - 1 = i + H + P + 3 /\ i + P \in 1..(P + L)
    OBVIOUS
  <2>3. r[i + P] = key[i + H + P + 3]
    BY <1>5, <1>6, <2>2
  <2>4. QED
    BY <1>1, <2>3 DEF Parts
<1>9. IsRest(r, p, t)
  BY <1>1, <1>5, <1>6, <1>7, <1>8 DEF IsRest
<1>10. QED
  BY ONLY <1>4, <1>9

\* The path is what is there before the first question mark.
LEMMA PathFound ==
    ASSUME NEW r \in Seq(Texts), NEW p \in Seq(Texts), NEW t \in Seq(Texts), Mark \notin Range(p),
           Len(r) = Len(p) + Len(t), t = <<>> \/ t[1] = Mark,
           \A i \in 1..Len(p) : r[i] = p[i],
           \A i \in 1..Len(t) : r[i + Len(p)] = t[i]
    PROVE  Until(r, Mark) = p
<1>1. PICK P \in Nat : P = Len(p)
  OBVIOUS
<1>2. \A i \in 1..P : r[i] # Mark
  BY <1>1 DEF Range
<1>3. CASE t = <<>>
  <2>1. Len(r) = P
    BY <1>1, <1>3
  <2>2. Find(r, Mark, 1) = 0
    BY <1>2, <2>1, FindNone
  <2>3. r = p
    BY <1>1, <2>1
  <2>4. QED
    BY <2>2, <2>3 DEF Until
<1>4. CASE t # <<>>
  <2>1. Len(t) \in Nat /\ Len(t) >= 1 /\ t[1] = Mark
    BY <1>4
  <2>2. r[1 + P] = Mark /\ Len(r) \in Nat /\ 1 + P \in 1..Len(r)
    BY <1>1, <2>1
  <2>3. Find(r, Mark, 1) = 1 + P
    <3>1. \A n \in 1..Len(r) : n < 1 + P => r[n] # Mark
      BY <1>2, <2>2
    <3>2. 1 \in Nat
      OBVIOUS
    <3>3. QED
      BY ONLY <2>2, <3>1, <3>2, r \in Seq(Texts), FindAt
  <2>4. Until(r, Mark) = SubSeq(r, 1, P)
    <3>1. (1 + P) - 1 = P /\ 1 + P # 0
      OBVIOUS
    <3>2. QED
      BY <2>3, <3>1 DEF Until
  <2>5. PICK u : u = SubSeq(r, 1, P)
    OBVIOUS
  <2>6. u \in Seq(Texts) /\ Len(u) = P /\ \A i \in 1..P : u[i] = r[i]
    BY <2>2, <2>5
  <2>7. u = p
    BY <1>1, <2>6
  <2>8. QED
    BY <2>4, <2>5, <2>7
<1>5. QED
  BY <1>3, <1>4

-----------------------------------------------------------------------------
(* The query's normal form.                                                *)

\* The positions in K that a sort puts up to i, by what rk says of them.
UpTo(K, rk, i) == {j \in K : rk[j] < rk[i] \/ (rk[j] = rk[i] /\ j <= i)}

\* Counting what comes up to a position gives each position a place of its own.
LEMMA PlacesBijective ==
    ASSUME NEW K \in SUBSET Nat, IsFiniteSet(K), NEW rk \in [K -> Nat]
    PROVE  [i \in K |-> Cardinality(UpTo(K, rk, i))] \in Bijection(K, 1..Cardinality(K))
<1> DEFINE f == [i \in K |-> Cardinality(UpTo(K, rk, i))]
<1>1. PICK n \in Nat : n = Cardinality(K)
  BY FS_CardinalityType
<1>2. ASSUME NEW i \in K
      PROVE  /\ UpTo(K, rk, i) \in SUBSET K /\ i \in UpTo(K, rk, i)
             /\ IsFiniteSet(UpTo(K, rk, i)) /\ Cardinality(UpTo(K, rk, i)) \in 1..n
  <2>1. UpTo(K, rk, i) \in SUBSET K /\ i \in UpTo(K, rk, i)
    BY DEF UpTo
  <2>2. PICK U : U = UpTo(K, rk, i)
    OBVIOUS
  <2>3. IsFiniteSet(U) /\ Cardinality(U) <= n
    BY <1>1, <2>1, <2>2, FS_Subset
  <2>4. Cardinality(U) \in Nat /\ Cardinality(U) # 0
    BY <2>1, <2>2, <2>3, FS_CardinalityType, FS_EmptySet
  <2>5. QED
    BY <1>1, <2>1, <2>2, <2>3, <2>4
<1>3. ASSUME NEW i \in K, NEW k \in K, rk[i] < rk[k] \/ (rk[i] = rk[k] /\ i < k)
      PROVE  f[i] # f[k]
  <2>1. UpTo(K, rk, i) \in SUBSET UpTo(K, rk, k)
    <3>1. SUFFICES ASSUME NEW j \in K, rk[j] < rk[i] \/ (rk[j] = rk[i] /\ j <= i)
                   PROVE  rk[j] < rk[k] \/ (rk[j] = rk[k] /\ j <= k)
      BY DEF UpTo
    <3>2. rk[i] \in Nat /\ rk[j] \in Nat /\ rk[k] \in Nat /\ i \in Nat /\ j \in Nat /\ k \in Nat
      OBVIOUS
    <3>3. QED
      BY <1>3, <3>1, <3>2
  <2>2. k \notin UpTo(K, rk, i)
    <3>1. rk[i] \in Nat /\ rk[k] \in Nat /\ i \in Nat /\ k \in Nat
      OBVIOUS
    <3>2. QED
      BY <1>3, <3>1 DEF UpTo
  <2>3. PICK U, V : U = UpTo(K, rk, i) /\ V = UpTo(K, rk, k)
    OBVIOUS
  <2>4. Cardinality(U) # Cardinality(V)
    BY <1>2, <2>1, <2>2, <2>3, FS_Subset
  <2>5. QED
    BY <2>3, <2>4
<1>4. ASSUME NEW i \in K, NEW k \in K, i # k PROVE f[i] # f[k]
  <2>1. rk[i] \in Nat /\ rk[k] \in Nat /\ i \in Nat /\ k \in Nat
    OBVIOUS
  <2>2. \/ rk[i] < rk[k] \/ (rk[i] = rk[k] /\ i < k)
        \/ rk[k] < rk[i] \/ (rk[k] = rk[i] /\ k < i)
    BY <1>4, <2>1
  <2>3. QED
    BY <1>3, <2>2
<1>5. f \in [K -> 1..n]
  BY <1>2
<1> HIDE DEF f
<1>6. f \in Injection(K, 1..n)
  BY <1>4, <1>5 DEF Injection, IsInjective
<1>7. IsFiniteSet(1..n) /\ Cardinality(1..n) = n
  BY FS_Interval
<1>8. f \in Surjection(K, 1..n)
  BY <1>1, <1>6, <1>7, FS_Injection
<1>9. QED
  BY <1>1, <1>6, <1>8 DEF Bijection, f

LEMMA RankFacts ==
    ASSUME NEW p \in Range(Params)
    PROVE  Rank(p) \in 1..Len(Params) /\ Params[Rank(p)] = p
<1>1. \E i \in DOMAIN Params : Params[i] = p
  BY DEF Range
<1>2. Rank(p) \in DOMAIN Params /\ Params[Rank(p)] = p
  BY <1>1 DEF Rank
<1>3. Params \in Seq(STRING)
  BY KeyAssumption
<1>4. QED
  BY <1>2, <1>3

LEMMA RankOf ==
    ASSUME NEW m \in 1..Len(Params)
    PROVE  Params[m] \in Range(Params) /\ Rank(Params[m]) = m
<1>1. DOMAIN Params = 1..Len(Params)
  BY KeyAssumption
<1>2. Params[m] \in Range(Params)
  BY <1>1 DEF Range
<1>3. Rank(Params[m]) \in DOMAIN Params /\ Params[Rank(Params[m])] = Params[m]
  BY <1>1, <1>2, RankFacts
<1>4. QED
  BY <1>1, <1>2, <1>3, KeyAssumption

Queries == Seq(Range(Params) \cup {NoText})

LEMMA NonEmptyFacts ==
    ASSUME NEW query \in Queries
    PROVE  /\ NonEmpty(query) \in SUBSET Nat /\ IsFiniteSet(NonEmpty(query))
           /\ Cardinality(NonEmpty(query)) \in Nat
           /\ NonEmpty(query) \subseteq DOMAIN query
           /\ \A i \in NonEmpty(query) : query[i] \in Range(Params)
           /\ \A i \in DOMAIN query : query[i] \in Range(Params) => i \in NonEmpty(query)
<1>1. DOMAIN query = 1..Len(query) /\ Len(query) \in Nat
  BY DEF Queries
<1>2. NonEmpty(query) \in SUBSET DOMAIN query
  BY DEF NonEmpty
<1>3. IsFiniteSet(DOMAIN query)
  BY <1>1, FS_Interval
<1>4. IsFiniteSet(NonEmpty(query))
  BY <1>2, <1>3, FS_Subset
<1>5. \A i \in DOMAIN query : query[i] \in Range(Params) \cup {NoText}
  BY <1>1 DEF Queries
<1>6. NoText \notin Range(Params)
  BY KeyAssumption
<1>7. QED
  BY <1>1, <1>2, <1>4, <1>5, <1>6, FS_CardinalityType DEF NonEmpty

\* How a query is brought into its normal form.
Sorts(f, query) ==
    /\ f \in Bijection(NonEmpty(query), 1..Cardinality(NonEmpty(query)))
    /\ f = [i \in NonEmpty(query) |-> Place(query, i)]
    /\ NormalizeQuery(query) \in Seq(Range(Params))
    /\ Len(NormalizeQuery(query)) = Cardinality(NonEmpty(query))
    /\ \A i \in NonEmpty(query) : NormalizeQuery(query)[f[i]] = query[i]

LEMMA NormalForm ==
    ASSUME NEW query \in Queries
    PROVE  \E f : Sorts(f, query)
<1>1. PICK K : K = NonEmpty(query)
  OBVIOUS
<1>2. PICK n \in Nat : n = Cardinality(K)
  BY <1>1, NonEmptyFacts
<1>3. PICK rk : rk = [i \in K |-> Rank(query[i])]
  OBVIOUS
<1>4. rk \in [K -> Nat]
  <2>1. \A i \in K : Rank(query[i]) \in Nat
    <3>1. SUFFICES ASSUME NEW i \in K PROVE Rank(query[i]) \in Nat
      OBVIOUS
    <3>2. query[i] \in Range(Params) /\ Len(Params) \in Nat
      BY <1>1, NonEmptyFacts, KeyAssumption
    <3>3. QED
      BY <3>2, RankFacts
  <2>2. QED
    BY <1>3, <2>1
<1>5. PICK f : f = [i \in K |-> Cardinality(UpTo(K, rk, i))]
  OBVIOUS
<1>6. f \in Bijection(K, 1..n)
  BY <1>1, <1>2, <1>4, <1>5, NonEmptyFacts, PlacesBijective
<1>7. ASSUME NEW i \in K PROVE f[i] = Place(query, i)
  <2>1. UpTo(K, rk, i) = {j \in NonEmpty(query) :
                   \/ Rank(query[j]) < Rank(query[i])
                   \/ Rank(query[j]) = Rank(query[i]) /\ j <= i}
    BY <1>1, <1>3 DEF UpTo
  <2>2. QED
    BY <1>5, <2>1 DEF Place
<1>8. f = [i \in NonEmpty(query) |-> Place(query, i)]
  BY <1>1, <1>5, <1>7
<1>9. /\ f \in [K -> 1..n]
      /\ \A i, j \in K : f[i] = f[j] => i = j
      /\ \A m \in 1..n : \E i \in K : f[i] = m
  BY <1>6 DEF Bijection, Injection, Surjection, IsInjective
<1>10. PICK q : q = NormalizeQuery(query)
  OBVIOUS
<1>11. q = [m \in 1..n |-> query[CHOOSE i \in K : Place(query, i) = m]]
  BY <1>1, <1>2, <1>10 DEF NormalizeQuery
<1>12. ASSUME NEW m \in 1..n, NEW i \in K, f[i] = m PROVE q[m] = query[i]
  <2>1. \A j \in K : Place(query, j) = m <=> j = i
    BY <1>7, <1>9, <1>12
  <2>2. (CHOOSE j \in K : Place(query, j) = m) = i
    BY <2>1
  <2>3. QED
    BY <1>11, <2>2
<1>13. ASSUME NEW m \in 1..n PROVE q[m] \in Range(Params)
  <2>1. PICK i \in K : f[i] = m
    BY <1>9
  <2>2. q[m] = query[i]
    BY <1>12, <2>1
  <2>3. QED
    BY <1>1, <2>2, NonEmptyFacts
<1>14. q \in [1..n -> Range(Params)]
  BY <1>11, <1>13
<1>15. q \in Seq(Range(Params)) /\ Len(q) = n
  BY <1>14
<1>16. \A i \in K : q[f[i]] = query[i]
  BY <1>9, <1>12
<1>17. QED
  BY <1>1, <1>2, <1>6, <1>8, <1>10, <1>15, <1>16 DEF Sorts

\* A query and its normal form have the same parameters.
LEMMA NormalBag ==
    ASSUME NEW query \in Queries
    PROVE  Bag(NormalizeQuery(query)) = Bag(query)
<1>1. PICK f : Sorts(f, query)
  BY NormalForm
<1>2. PICK q, K, n : q = NormalizeQuery(query) /\ K = NonEmpty(query) /\ n = Cardinality(K)
  OBVIOUS
<1>3. /\ f \in [K -> 1..n]
      /\ \A i, j \in K : f[i] = f[j] => i = j
      /\ \A m \in 1..n : \E i \in K : f[i] = m
  BY <1>1, <1>2 DEF Sorts, Bijection, Injection, Surjection, IsInjective
<1>4. DOMAIN q = 1..n /\ \A i \in K : q[f[i]] = query[i]
  BY <1>1, <1>2 DEF Sorts
<1>5. ASSUME NEW p \in Range(Params)
      PROVE  Cardinality({m \in DOMAIN q : q[m] = p}) = Cardinality({i \in DOMAIN query : query[i] = p})
  <2>1. PICK A, B : A = {i \in DOMAIN query : query[i] = p} /\ B = {m \in DOMAIN q : q[m] = p}
    OBVIOUS
  <2>2. A \in SUBSET K /\ IsFiniteSet(K)
    BY <1>2, <2>1, NonEmptyFacts
  <2>3. IsFiniteSet(A)
    BY <2>2, FS_Subset
  <2>4. PICK g : g = [i \in A |-> f[i]]
    OBVIOUS
  <2>5. g \in [A -> B]
    BY <1>3, <1>4, <2>1, <2>2, <2>4
  <2>6. \A i, j \in A : g[i] = g[j] => i = j
    BY <1>3, <2>2, <2>4
  <2>7. ASSUME NEW m \in B PROVE \E i \in A : g[i] = m
    <3>1. m \in 1..n /\ q[m] = p
      BY <1>4, <2>1
    <3>2. PICK i \in K : f[i] = m
      BY <1>3, <3>1
    <3>3. query[i] = p /\ i \in DOMAIN query
      BY <1>2, <1>4, <3>1, <3>2, NonEmptyFacts
    <3>4. QED
      BY <2>1, <2>4, <3>2, <3>3
  <2>8. ExistsBijection(A, B)
    BY <2>5, <2>6, <2>7 DEF ExistsBijection, Bijection, Injection, Surjection, IsInjective
  <2>9. QED
    BY <2>1, <2>3, <2>8, FS_Bijection
<1>6. QED
  BY <1>2, <1>5 DEF Bag

\* How many parameters are among the first m.
AtMost(query, m) == {i \in NonEmpty(query) : Rank(query[i]) <= m}

LEMMA AtMostGrows ==
    ASSUME NEW query \in Queries, NEW m \in Nat, m < Len(Params)
    PROVE  Cardinality(AtMost(query, m + 1)) = Cardinality(AtMost(query, m)) + Bag(query)[Params[m + 1]]
<1>1. PICK p : p = Params[m + 1] /\ p \in Range(Params) /\ Rank(p) = m + 1
  <2>1. m + 1 \in 1..Len(Params)
    BY KeyAssumption
  <2>2. QED
    BY <2>1, RankOf
<1>2. PICK A, B, C : /\ A = AtMost(query, m) /\ B = {i \in DOMAIN query : query[i] = p}
                     /\ C = AtMost(query, m + 1)
  OBVIOUS
<1>3. \A i \in NonEmpty(query) : /\ query[i] \in Range(Params) /\ Rank(query[i]) \in Nat
                                 /\ query[i] = p <=> Rank(query[i]) = m + 1
  <2>1. SUFFICES ASSUME NEW i \in NonEmpty(query)
                 PROVE  /\ query[i] \in Range(Params) /\ Rank(query[i]) \in Nat
                        /\ query[i] = p <=> Rank(query[i]) = m + 1
    OBVIOUS
  <2>2. query[i] \in Range(Params)
    BY NonEmptyFacts
  <2>3. Rank(query[i]) \in 1..Len(Params) /\ Params[Rank(query[i])] = query[i]
    BY <2>2, RankFacts
  <2>4. Len(Params) \in Nat
    BY KeyAssumption
  <2>5. QED
    BY <1>1, <2>2, <2>3, <2>4
<1>4. B \subseteq NonEmpty(query)
  BY <1>1, <1>2, NonEmptyFacts
<1>5. C = A \cup B /\ A \cap B = {}
  <2>1. NonEmpty(query) \subseteq DOMAIN query
    BY NonEmptyFacts
  <2>2. \A i \in NonEmpty(query) : /\ i \in C <=> i \in A \/ i \in B
                                   /\ ~(i \in A /\ i \in B)
    <3>1. SUFFICES ASSUME NEW i \in NonEmpty(query)
                   PROVE  (i \in C <=> i \in A \/ i \in B) /\ ~(i \in A /\ i \in B)
      OBVIOUS
    <3>2. Rank(query[i]) \in Nat /\ (query[i] = p <=> Rank(query[i]) = m + 1)
      BY ONLY <1>3, i \in NonEmpty(query)
    <3>7. PICK x \in Nat : x = Rank(query[i])
      BY ONLY <3>2
    <3>3. i \in A <=> x <= m
      BY <1>2, <3>7 DEF AtMost
    <3>4. i \in C <=> x <= m + 1
      BY <1>2, <3>7 DEF AtMost
    <3>5. i \in B <=> x = m + 1
      <4>1. i \in DOMAIN query
        BY <2>1
      <4>2. i \in B <=> query[i] = p
        BY ONLY <1>2, <4>1
      <4>3. QED
        BY ONLY <3>2, <3>7, <4>2
    <3>6. QED
      BY ONLY <3>3, <3>4, <3>5, x \in Nat, m \in Nat
  <2>3. A \subseteq NonEmpty(query) /\ C \subseteq NonEmpty(query)
    BY <1>2 DEF AtMost
  <2>4. QED
    BY <1>4, <2>2, <2>3
<1>6. IsFiniteSet(A) /\ IsFiniteSet(B)
  <2>1. A \in SUBSET NonEmpty(query) /\ B \in SUBSET NonEmpty(query)
    BY <1>2, <1>4 DEF AtMost
  <2>2. QED
    BY <2>1, NonEmptyFacts, FS_Subset
<1>7. Cardinality(A \cup B) = Cardinality(A) + Cardinality(B) - Cardinality({})
  BY <1>5, <1>6, FS_Union
<1>8. Cardinality({}) = 0 /\ Cardinality(A) \in Nat /\ Cardinality(B) \in Nat
  BY <1>6, FS_EmptySet, FS_CardinalityType
<1>9. Bag(query)[p] = Cardinality(B)
  BY <1>1, <1>2 DEF Bag
<1>10. Cardinality(C) = Cardinality(A) + Cardinality(B)
  BY <1>5, <1>7, <1>8
<1>11. QED
  BY <1>1, <1>2, <1>9, <1>10

LEMMA AtMostFacts ==
    ASSUME NEW query \in Queries
    PROVE  /\ \A m \in Nat : IsFiniteSet(AtMost(query, m)) /\ Cardinality(AtMost(query, m)) \in Nat
           /\ \A l, m \in Nat : l <= m => Cardinality(AtMost(query, l)) <= Cardinality(AtMost(query, m))
           /\ Cardinality(AtMost(query, 0)) = 0
           /\ AtMost(query, Len(Params)) = NonEmpty(query)
<1>1. \A i \in NonEmpty(query) : Rank(query[i]) \in 1..Len(Params)
  BY NonEmptyFacts, RankFacts
<1>2. Len(Params) \in Nat
  BY KeyAssumption
<1>3. ASSUME NEW m \in Nat PROVE IsFiniteSet(AtMost(query, m)) /\ Cardinality(AtMost(query, m)) \in Nat
  <2>1. AtMost(query, m) \in SUBSET NonEmpty(query)
    BY DEF AtMost
  <2>2. IsFiniteSet(AtMost(query, m))
    BY <2>1, NonEmptyFacts, FS_Subset
  <2>3. QED
    BY <2>2, FS_CardinalityType
<1>4. ASSUME NEW l \in Nat, NEW m \in Nat, l <= m
      PROVE  Cardinality(AtMost(query, l)) <= Cardinality(AtMost(query, m))
  <2>1. AtMost(query, l) \in SUBSET AtMost(query, m)
    BY <1>1, <1>2, <1>4 DEF AtMost
  <2>2. QED
    BY <1>3, <2>1, FS_Subset
<1>5. AtMost(query, 0) = {}
  BY <1>1, <1>2 DEF AtMost
<1>6. AtMost(query, Len(Params)) = NonEmpty(query)
  BY <1>1, <1>2 DEF AtMost
<1>7. QED
  BY <1>3, <1>4, <1>5, <1>6, FS_EmptySet

\* The place of a parameter lies behind all lesser ones and not behind a greater one.
LEMMA PlaceBetween ==
    ASSUME NEW query \in Queries, NEW i \in NonEmpty(query), NEW m \in Nat, Rank(query[i]) = m + 1
    PROVE  /\ Cardinality(AtMost(query, m)) < Place(query, i)
           /\ Place(query, i) <= Cardinality(AtMost(query, m + 1))
<1>1. \A j \in NonEmpty(query) : Rank(query[j]) \in Nat /\ j \in Nat
  <2>1. Len(Params) \in Nat
    BY KeyAssumption
  <2>2. \A j \in NonEmpty(query) : Rank(query[j]) \in 1..Len(Params)
    BY NonEmptyFacts, RankFacts
  <2>3. QED
    BY <2>1, <2>2, NonEmptyFacts
<1>2. PICK U : U = {j \in NonEmpty(query) :
                   \/ Rank(query[j]) < Rank(query[i])
                   \/ Rank(query[j]) = Rank(query[i]) /\ j <= i}
  OBVIOUS
<1>3. PICK A, C : A = AtMost(query, m) /\ C = AtMost(query, m + 1)
  OBVIOUS
<1>4. A \in SUBSET U /\ i \in U /\ i \notin A /\ U \in SUBSET C
  BY <1>1, <1>2, <1>3 DEF AtMost
<1>5. IsFiniteSet(C) /\ IsFiniteSet(A)
  BY <1>3, AtMostFacts
<1>6. IsFiniteSet(U) /\ Cardinality(U) <= Cardinality(C)
  BY <1>4, <1>5, FS_Subset
<1>7. Cardinality(A) <= Cardinality(U) /\ Cardinality(A) # Cardinality(U)
  BY <1>4, <1>6, FS_Subset
<1>8. Cardinality(A) \in Nat /\ Cardinality(U) \in Nat /\ Cardinality(C) \in Nat
  BY <1>5, <1>6, FS_CardinalityType
<1>9. Place(query, i) = Cardinality(U)
  BY <1>2 DEF Place
<1>10. QED
  BY <1>3, <1>6, <1>7, <1>8, <1>9

\* Queries with the same parameters have the same normal form.
LEMMA SameNormalForm ==
    ASSUME NEW a \in Queries, NEW b \in Queries, Bag(a) = Bag(b)
    PROVE  NormalizeQuery(a) = NormalizeQuery(b)
<1>1. PICK N \in Nat : N = Len(Params)
  BY KeyAssumption
<1>2. \A m \in 0..N : Cardinality(AtMost(a, m)) = Cardinality(AtMost(b, m))
  <2> DEFINE S == {m \in 0..N : Cardinality(AtMost(a, m)) = Cardinality(AtMost(b, m))}
  <2>1. 0 \in S
    BY AtMostFacts
  <2>2. ASSUME NEW m \in 0..N, m \in S, m < N PROVE m + 1 \in S
    <3>1. m \in Nat /\ m < Len(Params) /\ m + 1 \in 0..N
      BY <1>1, <2>2
    <3>2. /\ Cardinality(AtMost(a, m + 1)) = Cardinality(AtMost(a, m)) + Bag(a)[Params[m + 1]]
          /\ Cardinality(AtMost(b, m + 1)) = Cardinality(AtMost(b, m)) + Bag(b)[Params[m + 1]]
      BY <3>1, AtMostGrows
    <3>3. QED
      BY <2>2, <3>1, <3>2
  <2> HIDE DEF S
  <2>3. 0..N \subseteq S
    BY <2>1, <2>2, Induct
  <2>4. QED
    BY <2>3 DEF S
<1>3. PICK f : Sorts(f, a)
  BY NormalForm
<1>4. PICK g : Sorts(g, b)
  BY NormalForm
<1>5. PICK n \in Nat : n = Cardinality(NonEmpty(a)) /\ n = Cardinality(NonEmpty(b))
  BY <1>1, <1>2, AtMostFacts, NonEmptyFacts
<1>6. ASSUME NEW m \in 1..n PROVE NormalizeQuery(a)[m] = NormalizeQuery(b)[m]
  <2>1. PICK i \in NonEmpty(a) : f[i] = m
    BY <1>3, <1>5 DEF Sorts, Bijection, Surjection
  <2>2. PICK j \in NonEmpty(b) : g[j] = m
    BY <1>4, <1>5 DEF Sorts, Bijection, Surjection
  <2>3. /\ Place(a, i) = m /\ NormalizeQuery(a)[m] = a[i]
        /\ Place(b, j) = m /\ NormalizeQuery(b)[m] = b[j]
    BY <1>3, <1>4, <2>1, <2>2 DEF Sorts
  <2>4. /\ Rank(a[i]) \in 1..N /\ Params[Rank(a[i])] = a[i]
        /\ Rank(b[j]) \in 1..N /\ Params[Rank(b[j])] = b[j]
    BY <1>1, NonEmptyFacts, RankFacts
  <2>5. PICK x \in 0..N, y \in 0..N : Rank(a[i]) = x + 1 /\ Rank(b[j]) = y + 1
    <3>1. /\ Rank(a[i]) - 1 \in 0..N /\ Rank(b[j]) - 1 \in 0..N
          /\ Rank(a[i]) = (Rank(a[i]) - 1) + 1 /\ Rank(b[j]) = (Rank(b[j]) - 1) + 1
      BY <2>4
    <3>2. QED
      BY <3>1
  <2>6. x \in Nat /\ y \in Nat /\ x + 1 \in 0..N /\ y + 1 \in 0..N
    BY <2>4, <2>5
  <2>7. /\ Cardinality(AtMost(a, x)) < m /\ m <= Cardinality(AtMost(a, x + 1))
        /\ Cardinality(AtMost(b, y)) < m /\ m <= Cardinality(AtMost(b, y + 1))
    BY <2>3, <2>5, <2>6, PlaceBetween
  <2>8. /\ Cardinality(AtMost(a, y)) < m /\ m <= Cardinality(AtMost(a, y + 1))
    BY <1>2, <2>5, <2>6, <2>7
  <2>9. /\ Cardinality(AtMost(a, x)) \in Nat /\ Cardinality(AtMost(a, x + 1)) \in Nat
        /\ Cardinality(AtMost(a, y)) \in Nat /\ Cardinality(AtMost(a, y + 1)) \in Nat
        /\ x + 1 <= y => Cardinality(AtMost(a, x + 1)) <= Cardinality(AtMost(a, y))
        /\ y + 1 <= x => Cardinality(AtMost(a, y + 1)) <= Cardinality(AtMost(a, x))
    <3>1. /\ \A k \in Nat : Cardinality(AtMost(a, k)) \in Nat
          /\ \A k, l \in Nat : k <= l => Cardinality(AtMost(a, k)) <= Cardinality(AtMost(a, l))
      BY AtMostFacts
    <3>2. x + 1 \in Nat /\ y + 1 \in Nat
      BY <2>6
    <3>3. QED
      BY <2>6, <3>1, <3>2
  <2>10. x = y
    BY <2>6, <2>7, <2>8, <2>9
  <2>11. QED
    BY <2>3, <2>4, <2>5, <2>10
<1>7. /\ NormalizeQuery(a) \in Seq(Range(Params)) /\ Len(NormalizeQuery(a)) = n
      /\ NormalizeQuery(b) \in Seq(Range(Params)) /\ Len(NormalizeQuery(b)) = n
  BY <1>3, <1>4, <1>5 DEF Sorts
<1>8. QED
  BY <1>6, <1>7

\* The query's text, and that nothing of the query is lost in it.
LEMMA JoinedFacts ==
    ASSUME NEW q \in Seq(Range(Params)), q # <<>>
    PROVE  /\ Joined(q) \in Seq(Texts) /\ Len(Joined(q)) = 2 * Len(q) - 1
           /\ \A k \in 1..Len(q) : Joined(q)[2 * k - 1] = q[k]
<1>1. PICK n \in Nat : n = Len(q) /\ n >= 1
  OBVIOUS
<1>2. Range(Params) \subseteq Texts
  <2>1. Range(Params) \subseteq STRING
    BY KeyAssumption DEF Range
  <2>2. QED
    BY <2>1, TextsFacts
<1>3. PICK amp \in Texts : amp = "&"
  BY TextsFacts
<1>4. PICK t : t = [i \in 1..(2 * n - 1) |-> IF i % 2 = 1 THEN q[(i + 1) \div 2] ELSE amp]
  OBVIOUS
<1>5. t = Joined(q)
  BY <1>1, <1>3, <1>4 DEF Joined
<1>6. ASSUME NEW i \in 1..(2 * n - 1), i % 2 = 1 PROVE (i + 1) \div 2 \in 1..n
  BY <1>6
<1>7. t \in [1..(2 * n - 1) -> Texts]
  <2>1. \A j \in 1..n : q[j] \in Texts
    BY <1>1, <1>2
  <2>2. QED
    BY <1>4, <1>6, <2>1
<1>8. t \in Seq(Texts) /\ Len(t) = 2 * n - 1
  <2>1. 2 * n - 1 \in Nat
    BY <1>1
  <2>2. QED
    BY <1>7, <2>1
<1>9. ASSUME NEW k \in 1..n PROVE t[2 * k - 1] = q[k]
  <2>1. /\ 2 * k - 1 \in 1..(2 * n - 1) /\ (2 * k - 1) % 2 = 1
        /\ ((2 * k - 1) + 1) \div 2 = k
    OBVIOUS
  <2>2. QED
    BY <1>4, <2>1
<1>10. QED
  BY <1>1, <1>5, <1>8, <1>9

-----------------------------------------------------------------------------
(* Keys.                                                                   *)

\* What follows the path in a key.
QueryText(q) == IF q = <<>> THEN <<>> ELSE <<Mark>> \o Joined(q)

LEMMA QueryTextFacts ==
    ASSUME NEW q \in Seq(Range(Params))
    PROVE  /\ QueryText(q) \in Seq(Texts)
           /\ QueryText(q) = <<>> \/ QueryText(q)[1] = Mark
           /\ q = <<>> <=> Len(QueryText(q)) = 0
           /\ q # <<>> => /\ Len(QueryText(q)) = 2 * Len(q)
                          /\ \A k \in 1..Len(q) : QueryText(q)[2 * k] = q[k]
<1>1. CASE q = <<>>
  BY <1>1 DEF QueryText
<1>2. CASE q # <<>>
  <2>1. PICK t : t = QueryText(q)
    OBVIOUS
  <2>2. PICK j : j = Joined(q)
    OBVIOUS
  <2>3. PICK n \in Nat : n = Len(q) /\ n >= 1
    BY <1>2
  <2>4. /\ j \in Seq(Texts) /\ Len(j) = 2 * n - 1
        /\ \A k \in 1..n : j[2 * k - 1] = q[k]
    BY <1>2, <2>2, <2>3, JoinedFacts
  <2> DEFINE w == <<Mark>>
  <2>5. IsConcat(t, w, j)
    BY <1>2, <2>1, <2>2 DEF IsConcat, QueryText
  <2>6. w \in Seq(Texts) /\ Len(w) = 1 /\ w[1] = Mark
    BY TextsFacts
  <2> HIDE DEF w
  <2>7. /\ t \in Seq(Texts) /\ Len(t) = Len(w) + Len(j)
        /\ \A i \in 1..Len(w) : t[i] = w[i]
        /\ \A i \in 1..Len(j) : t[i + Len(w)] = j[i]
    <3>1. j \in Seq(Texts) /\ w \in Seq(Texts)
      BY ONLY <2>4, <2>6
    <3>2. QED
      BY ONLY <2>5, <3>1, ConcatFacts
  <2>8. Len(t) = 2 * n /\ t[1] = Mark
    <3>1. t[1] = w[1] /\ Len(t) = 1 + (2 * n - 1)
      BY ONLY <2>4, <2>6, <2>7
    <3>2. QED
      BY ONLY <2>6, <3>1, n \in Nat
  <2>9. ASSUME NEW k \in 1..n PROVE t[2 * k] = q[k]
    <3>1. 2 * k - 1 \in 1..(2 * n - 1) /\ (2 * k - 1) + 1 = 2 * k
      OBVIOUS
    <3>2. \A i \in 1..(2 * n - 1) : t[i + 1] = j[i]
      BY ONLY <2>4, <2>6, <2>7
    <3>3. t[2 * k] = j[2 * k - 1]
      BY ONLY <3>1, <3>2
    <3>4. QED
      BY ONLY <2>4, <2>9, <3>3
  <2>10. Len(t) # 0 /\ \A k \in 1..Len(q) : t[2 * k] = q[k]
    BY ONLY <2>3, <2>8, <2>9, n \in Nat
  <2>11. Len(t) = 2 * Len(q) /\ t \in Seq(Texts)
    BY ONLY <2>3, <2>7, <2>8
  <2>12. QED
    BY ONLY <1>2, <2>1, <2>8, <2>10, <2>11
<1>3. QED
  BY <1>1, <1>2

\* A request's key and what it is made of.
IsKeyOf(key, r, t) ==
    /\ key = FromRequest(r) /\ key \in Seq(Texts)
    /\ t = QueryText(NormalizeQuery(r.query)) /\ t \in Seq(Texts)
    /\ Parts(key, r.method, Bar, Host, r.path, t)

LEMMA KeyParts ==
    ASSUME NEW r \in Requests
    PROVE  /\ \E key, t : IsKeyOf(key, r, t)
           /\ r.method # Bar /\ r.path \in Seq(Texts) /\ Mark \notin Range(r.path)
           /\ Host \in Seq(Texts) /\ Bar \notin Range(Host)
           /\ r.query \in Queries /\ NormalizeQuery(r.query) \in Seq(Range(Params))
<1>1. /\ r.method \in {"GET", "HEAD"} /\ r.path \in Seq(STRING) /\ Mark \notin Range(r.path)
      /\ r.query \in Queries
  BY RequestAssumption DEF Queries
<1>2. r.method # Bar
  BY <1>1, Zenon DEF Bar
<1>3. r.method \in Texts
  BY <1>1, TextsFacts
<1>4. r.path \in Seq(Texts) /\ Host \in Seq(Texts) /\ r.method \in Texts
  BY <1>1, <1>3, TextsFacts, KeyAssumption
<1>5. Bar \notin Range(Host)
  BY KeyAssumption
<1>6. NormalizeQuery(r.query) \in Seq(Range(Params))
  BY <1>1, NormalForm DEF Sorts
<1>7. PICK t : t = QueryText(NormalizeQuery(r.query))
  OBVIOUS
<1>8. t \in Seq(Texts)
  BY <1>6, <1>7, QueryTextFacts
<1>9. PICK key : key = FromRequest(r)
  OBVIOUS
<1>10. key = <<r.method, Bar>> \o Host \o <<Bar>> \o r.path \o t
  BY <1>7, <1>9 DEF FromRequest, QueryText
<1>11. key \in Seq(Texts) /\ Parts(key, r.method, Bar, Host, r.path, t)
  <2>1. Bar \in Texts
    BY TextsFacts
  <2>2. QED
    BY ONLY <1>4, <1>8, <1>10, <2>1, PartsOf
<1>12. IsKeyOf(key, r, t)
  BY <1>7, <1>8, <1>9, <1>11 DEF IsKeyOf
<1>13. QED
  BY <1>1, <1>2, <1>4, <1>5, <1>6, <1>12

\* Behind the second bar of a key and before the first question mark is the path.
LEMMA PathInKey ==
    ASSUME NEW r \in Requests
    PROVE  /\ PathOfKey(FromRequest(r)) = r.path
           /\ \A p : L2PathMatches(FromRequest(r), p) <=> Wildcard(p, r.path)
<1>1. PICK key, t : IsKeyOf(key, r, t)
  BY KeyParts
<1>2. PICK m, p, h : m = r.method /\ p = r.path /\ h = Host
  OBVIOUS
<1>3. /\ m # Bar /\ Bar \notin Range(h) /\ Mark \notin Range(p)
      /\ p \in Seq(Texts) /\ h \in Seq(Texts)
  BY <1>2, KeyParts
<1>4. key \in Seq(Texts) /\ t \in Seq(Texts) /\ Parts(key, m, Bar, h, p, t)
  BY <1>1, <1>2 DEF IsKeyOf
<1>5. t = <<>> \/ t[1] = Mark
  BY <1>1, KeyParts, QueryTextFacts DEF IsKeyOf
<1>6. PICK H \in Nat : H = Len(h)
  BY <1>3
<1>7. Find(key, Bar, 1) = 2 /\ Find(key, Bar, 3) = H + 3
  BY <1>3, <1>4, <1>6, BarsFound
<1>8. PICK u : u = From(key, H + 4)
  OBVIOUS
<1>9. IsRest(u, p, t)
  <2>1. u = From(key, Len(h) + 4)
    BY <1>6, <1>8
  <2>2. IsRest(From(key, Len(h) + 4), p, t)
    <3>1. /\ key \in Seq(Texts) /\ h \in Seq(Texts) /\ p \in Seq(Texts) /\ t \in Seq(Texts)
          /\ Parts(key, m, Bar, h, p, t)
      BY ONLY <1>3, <1>4
    <3>2. QED
      BY ONLY <3>1, RestIs
  <2>3. QED
    BY ONLY <2>1, <2>2
<1>10. Until(u, Mark) = p
  BY <1>3, <1>4, <1>5, <1>9, PathFound DEF IsRest
<1>11. 2 + 1 = 3 /\ (H + 3) + 1 = H + 4 /\ H + 3 # 0 /\ H + 3 > 0 /\ 2 > 0 /\ 2 # 0
  OBVIOUS
<1>12. PathOfKey(key) = p
  BY ONLY <1>7, <1>8, <1>10, <1>11 DEF PathOfKey
<1>13. ASSUME NEW a PROVE L2PathMatches(key, a) <=> Wildcard(a, p)
  BY ONLY <1>7, <1>8, <1>10, <1>11 DEF L2PathMatches, Wildcard
<1>14. QED
  BY <1>1, <1>2, <1>12, <1>13 DEF IsKeyOf

\* Two requests have the same key exactly if they are the same but for the order of the
\* parameters and empty ones.
LEMMA KeyMeansRequest ==
    ASSUME NEW r \in Requests, NEW s \in Requests
    PROVE  SameRequest(r, s) <=> FromRequest(r) = FromRequest(s)
<1>1. r.query \in Queries /\ s.query \in Queries
  BY KeyParts
<1>2. ASSUME SameRequest(r, s) PROVE FromRequest(r) = FromRequest(s)
  <2>1. NormalizeQuery(r.query) = NormalizeQuery(s.query)
    BY <1>1, <1>2, SameNormalForm DEF SameRequest
  <2>2. QED
    BY <1>2, <2>1 DEF SameRequest, FromRequest
<1>3. ASSUME FromRequest(r) = FromRequest(s) PROVE SameRequest(r, s)
  <2>1. PICK key, t : IsKeyOf(key, r, t)
    BY KeyParts
  <2>2. PICK u : IsKeyOf(key, s, u)
    BY <1>3, <2>1, KeyParts DEF IsKeyOf
  <2>3. r.path = s.path
    BY <1>3, PathInKey
  <2>4. r.method = s.method
    BY <2>1, <2>2 DEF IsKeyOf, Parts
  <2>5. PICK p \in Seq(Texts) : p = r.path /\ p = s.path
    BY <2>3, KeyParts
  <2>6. PICK H \in Nat, P \in Nat : H = Len(Host) /\ P = Len(p)
    BY KeyParts
  <2>7. PICK a \in Nat, b \in Nat : a = Len(t) /\ b = Len(u)
    BY <2>1, <2>2 DEF IsKeyOf
  <2>8. Len(key) = H + P + a + 3 /\ Len(key) = H + P + b + 3
    BY <2>1, <2>2, <2>5, <2>6, <2>7 DEF IsKeyOf, Parts
  <2>9. a = b
    BY <2>8
  <2>10. \A i \in 1..a : t[i] = key[i + H + P + 3] /\ u[i] = key[i + H + P + 3]
    BY <2>1, <2>2, <2>5, <2>6, <2>7, <2>9 DEF IsKeyOf, Parts
  <2>11. t = u
    <3>1. t \in Seq(Texts) /\ u \in Seq(Texts)
      BY <2>1, <2>2 DEF IsKeyOf
    <3>2. Len(t) = Len(u)
      BY <2>7, <2>9
    <3>3. \A i \in 1..Len(t) : t[i] = u[i]
      BY <2>7, <2>10
    <3>4. QED
      BY ONLY <3>1, <3>2, <3>3, SeqEqual
  <2>12. PICK x \in Seq(Range(Params)), y \in Seq(Range(Params)) :
           x = NormalizeQuery(r.query) /\ y = NormalizeQuery(s.query)
    BY KeyParts
  <2>13. QueryText(x) = QueryText(y)
    BY <2>1, <2>2, <2>11, <2>12 DEF IsKeyOf
  <2>14. x = y
    <3>1. PICK v : v = QueryText(x) /\ v = QueryText(y)
      BY <2>13
    <3>2. CASE Len(v) = 0
      BY <3>1, <3>2, QueryTextFacts
    <3>3. CASE Len(v) # 0
      <4>1. x # <<>> /\ y # <<>>
        BY <3>1, <3>3, QueryTextFacts
      <4>2. /\ Len(v) = 2 * Len(x) /\ \A k \in 1..Len(x) : v[2 * k] = x[k]
            /\ Len(v) = 2 * Len(y) /\ \A k \in 1..Len(y) : v[2 * k] = y[k]
        BY <3>1, <4>1, QueryTextFacts
      <4>3. Len(x) \in Nat /\ Len(y) \in Nat
        OBVIOUS
      <4>4. Len(x) = Len(y)
        BY ONLY <4>2, <4>3
      <4>5. \A k \in 1..Len(x) : x[k] = y[k]
        BY ONLY <4>2, <4>4
      <4>6. QED
        BY <4>4, <4>5
    <3>4. QED
      BY <3>2, <3>3
  <2>15. Bag(r.query) = Bag(s.query)
    BY <1>1, <2>12, <2>14, NormalBag
  <2>16. QED
    BY <2>3, <2>4, <2>15 DEF SameRequest
<1>4. QED
  BY <1>2, <1>3

\* Which keys a pattern takes.
LEMMA TakenByPath ==
    /\ \A p \in Patterns, k \in Keys : <<p, k>> \in Purged <=> <<p, k>> \in OfPath
    /\ \A p \in Patterns, k \in Keys : <<p, k>> \in PurgedL2 <=> <<p, k>> \in OfPath
<1>1. SUFFICES ASSUME NEW p \in Patterns, NEW k \in Keys
               PROVE  /\ <<p, k>> \in Purged <=> <<p, k>> \in OfPath
                      /\ <<p, k>> \in PurgedL2 <=> <<p, k>> \in OfPath
  OBVIOUS
<1>2. PICK r \in Requests : k = FromRequest(r)
  BY DEF Keys
<1>3. \A s \in Requests : FromRequest(s) = k => s.path = r.path
  BY <1>2, PathInKey
<1>4. <<p, k>> \in OfPath <=> Wildcard(p, r.path)
  BY <1>2, <1>3 DEF OfPath
<1>5. <<p, k>> \in Purged <=> Wildcard(p, r.path)
  BY <1>2, PathInKey DEF Purged, PurgeMatches
<1>6. <<p, k>> \in PurgedL2 <=> Wildcard(p, r.path)
  BY <1>2, PathInKey DEF PurgedL2
<1>7. QED
  BY <1>4, <1>5, <1>6

\* A key says what was asked for: a purge goes by the path of the request, in L1 as in L2,
\* and only requests that mean the same share a key.
THEOREM KeysAreExact == Spec => []KeysMeanRequests
<1>1. Keys \subseteq ExactKeys
  <2>1. SUFFICES ASSUME NEW k \in Keys, NEW r \in Requests, NEW t \in Requests, FromRequest(r) = k
                 PROVE  SameRequest(r, t) <=> FromRequest(t) = k
    BY DEF ExactKeys
  <2>2. QED
    BY <2>1, KeyMeansRequest
<1>2. KeysMeanRequests
  BY <1>1, TakenByPath DEF KeysMeanRequests
<1>3. QED
  BY <1>2, PTL

-----------------------------------------------------------------------------
(* A purge, shard by shard.                                                *)

\* The shards that the purge has been through hold of its pattern only what was put since.
PurgeDone ==
    purge # NoPurge =>
        \A k \in Keys :
            <<purge.pattern, k>> \in OfPath /\ Present(k) /\ ShardOf[k] < purge.next => k \in putSince
PurgeInv == CacheInv /\ PurgeDone

LEMMA ShardAfter ==
    ASSUME CacheInv, NEW s \in Shards, NEW e, shard' = [shard EXCEPT ![s] = e], NEW k \in Keys
    PROVE  /\ Present(k) <=> k \in shard[ShardOf[k]].index
           /\ (Present(k))' <=> k \in (IF ShardOf[k] = s THEN e ELSE shard[ShardOf[k]]).index
<1>1. PICK t \in Shards : t = ShardOf[k]
  BY HashIsShard
<1>2. shard'[t] = IF t = s THEN e ELSE shard[t]
  BY <1>1 DEF CacheInv, ShardsGood
<1>3. (Present(k))' <=> k \in shard'[t].index
  BY <1>1 DEF Present
<1>4. QED
  BY <1>1, <1>2, <1>3 DEF Present

\* A key that is there after a step that takes nodes out was there before, and has a node.
LEMMA TrimPresent ==
    ASSUME CacheInv, NEW s \in Shards, NEW e, Trims(s, e), NEW k \in Keys, (Present(k))'
    PROVE  /\ Present(k)
           /\ ShardOf[k] = s => \E x \in Range(e.order) : x.key = k
<1>1. shard' = [shard EXCEPT ![s] = e]
  BY DEF Trims
<1>2. k \in (IF ShardOf[k] = s THEN e ELSE shard[ShardOf[k]]).index
  BY ONLY <1>1, CacheInv, s \in Shards, k \in Keys, (Present(k))', ShardAfter
<1>3. CASE ShardOf[k] # s
  BY <1>2, <1>3 DEF Present
<1>4. CASE ShardOf[k] = s
  <2>1. k \in e.index
    BY <1>2, <1>4
  <2>2. Sane(e) /\ Sane(shard[s]) /\ Range(e.order) \subseteq Range(shard[s].order)
    BY DEF Trims, Good, CacheInv, ShardsGood
  <2>3. e.index = {x.key : x \in Range(e.order)}
    BY <2>2, KeysOfRange DEF Sane
  <2>4. shard[s].index = {x.key : x \in Range(shard[s].order)}
    BY <2>2, KeysOfRange DEF Sane
  <2>5. PICK x \in Range(e.order) : x.key = k
    BY <2>1, <2>3
  <2>6. k \in shard[s].index
    BY <2>2, <2>4, <2>5
  <2>7. QED
    BY <1>4, <2>5, <2>6 DEF Present
<1>5. QED
  BY <1>3, <1>4

\* What a put leaves is the key that was put or was there before.
LEMMA PutPresent ==
    ASSUME CacheInv, NEW k \in Keys, NEW b \in Sizes, Put(k, b), NEW j \in Keys, (Present(j))'
    PROVE  j = k \/ Present(j)
<1>1. PICK s \in Shards : s = ShardOf[k]
  BY HashIsShard
<1>2. PICK e : /\ shard' = [shard EXCEPT ![s] = e]
               /\ Good(s, e)
               /\ \A x \in Range(e.order) : x = Node(k, b) \/ (x \in Range(shard[s].order) /\ x.key # k)
  BY <1>1, PutStep
<1>3. shard' = [shard EXCEPT ![s] = e]
  BY <1>2
<1>4. j \in (IF ShardOf[j] = s THEN e ELSE shard[ShardOf[j]]).index
  BY ONLY <1>3, CacheInv, s \in Shards, j \in Keys, (Present(j))', ShardAfter
<1>5. CASE ShardOf[j] # s
  BY <1>4, <1>5 DEF Present
<1>6. CASE ShardOf[j] = s
  <2>1. Sane(e) /\ Sane(shard[s])
    BY <1>2 DEF Good, CacheInv, ShardsGood
  <2>2. e.index = {x.key : x \in Range(e.order)}
    BY <2>1, KeysOfRange DEF Sane
  <2>3. shard[s].index = {x.key : x \in Range(shard[s].order)}
    BY <2>1, KeysOfRange DEF Sane
  <2>4. PICK x \in Range(e.order) : x.key = j
    BY <1>4, <1>6, <2>2
  <2>5. Node(k, b).key = k
    BY DEF Node
  <2>6. j = k \/ j \in shard[s].index
    BY <1>2, <2>3, <2>4, <2>5
  <2>7. QED
    BY <1>6, <2>6 DEF Present
<1>7. QED
  BY <1>5, <1>6

\* A step of the purge: of the shards up to and with its own only what was put since is left.
LEMMA PurgeShardLeaves ==
    ASSUME PurgeInv, PurgeShard, NEW k \in Keys, <<purge.pattern, k>> \in OfPath, (Present(k))',
           ShardOf[k] <= purge.next
    PROVE  k \in putSince
<1>1. purge # NoPurge /\ purge.pattern \in Patterns /\ purge.next \in Shards
  BY DEF PurgeInv, CacheInv, Loops, PurgeShard
<1>2. PICK e : /\ Trims(purge.next, e)
               /\ \A x \in Range(e.order) : <<purge.pattern, x.key>> \notin Purged
  BY TrimmingSteps DEF PurgeInv
<1>3. /\ Present(k)
      /\ ShardOf[k] = purge.next => \E x \in Range(e.order) : x.key = k
  BY <1>1, <1>2, TrimPresent DEF PurgeInv
<1>4. <<purge.pattern, k>> \in Purged
  BY <1>1, TakenByPath
<1>5. ShardOf[k] # purge.next
  BY <1>2, <1>3, <1>4
<1>6. ShardOf[k] \in Nat /\ purge.next \in Nat
  BY <1>1, HashIsShard, ShardsFacts
<1>7. ShardOf[k] < purge.next
  BY <1>5, <1>6
<1>8. QED
  BY <1>1, <1>3, <1>7 DEF PurgeInv, PurgeDone

LEMMA PurgeNextInv == PurgeInv /\ [Next]_vars => PurgeInv'
<1>1. SUFFICES ASSUME PurgeInv, [Next]_vars PROVE PurgeInv'
  OBVIOUS
<1>2. CacheInv /\ PurgeDone /\ CacheInv'
  BY <1>1, CacheNextInv DEF PurgeInv
<1>3. SUFFICES PurgeDone'
  BY <1>2 DEF PurgeInv
<1>4. ASSUME UNCHANGED <<purge, putSince>>, \A k \in Keys : (Present(k))' => Present(k)
      PROVE  PurgeDone'
  BY <1>2, <1>4 DEF PurgeDone
<1>5. ASSUME NEW s \in Shards, NEW e, Trims(s, e) PROVE \A k \in Keys : (Present(k))' => Present(k)
  BY <1>2, <1>5, TrimPresent
<1>6. CASE \E k \in Keys : Get(k)
  BY <1>2, <1>4, <1>5, <1>6, TrimmingSteps, HashIsShard DEF Get
<1>7. CASE \E k \in Keys : Erase(k)
  BY <1>2, <1>4, <1>5, <1>7, TrimmingSteps, HashIsShard DEF Erase
<1>8. CASE \E k \in Keys : Expire(k)
  <2>1. PICK k \in Keys : Expire(k)
    BY <1>8
  <2>2. PICK s \in Shards : s = ShardOf[k]
    BY HashIsShard
  <2>3. PICK e : shard' = [shard EXCEPT ![s] = e] /\ e.index = shard[s].index
    BY <1>2, <2>1, <2>2, ExpireFacts DEF CacheInv
  <2>4. ASSUME NEW j \in Keys, (Present(j))' PROVE Present(j)
    <3>1. shard' = [shard EXCEPT ![s] = e]
      BY <2>3
    <3>2. j \in (IF ShardOf[j] = s THEN e ELSE shard[ShardOf[j]]).index
      BY ONLY <1>2, <2>4, <3>1, s \in Shards, ShardAfter
    <3>3. QED
      BY <2>3, <3>2 DEF Present
  <2>5. QED
    BY <1>4, <2>1, <2>4 DEF Expire
<1>9. CASE \E k \in Keys, b \in Sizes : Put(k, b)
  <2>1. PICK k \in Keys, b \in Sizes : Put(k, b)
    BY <1>9
  <2>2. \A j \in Keys : (Present(j))' => j = k \/ Present(j)
    BY <1>2, <2>1, PutPresent
  <2>3. purge' = purge /\ putSince' = putSince \cup {j \in {k} : <<purge.pattern, j>> \in OfPath}
    BY <2>1 DEF Put
  <2>4. QED
    BY <1>2, <2>2, <2>3 DEF PurgeDone
<1>10. CASE \E p \in Patterns : PurgeBegin(p)
  <2>1. purge'.next = 1
    BY <1>10 DEF PurgeBegin
  <2>2. \A k \in Keys : ~(ShardOf[k] < 1)
    BY HashIsShard, ShardsFacts
  <2>3. QED
    BY <2>1, <2>2 DEF PurgeDone
<1>11. CASE PurgeShard
  <2>1. purge.next \in Shards /\ purge.next \in Nat /\ \A k \in Keys : ShardOf[k] \in Nat
    BY <1>2, <1>11, TrimmingSteps, HashIsShard, ShardsFacts
  <2>2. SUFFICES ASSUME purge' # NoPurge, NEW k \in Keys, <<purge'.pattern, k>> \in OfPath,
                        (Present(k))', ShardOf[k] < purge'.next
                 PROVE  k \in putSince'
    BY DEF PurgeDone
  <2>3. purge' = [purge EXCEPT !.next = purge.next + 1] /\ putSince' = putSince
    BY <1>11, <2>2 DEF PurgeShard
  <2>4. purge \in [pattern : Patterns, next : Shards]
    BY <1>2, <1>11 DEF CacheInv, Loops, PurgeShard
  <2>5. purge'.next = purge.next + 1 /\ purge'.pattern = purge.pattern
    BY <2>3, <2>4
  <2>6. ShardOf[k] <= purge.next /\ <<purge.pattern, k>> \in OfPath
    BY <2>1, <2>2, <2>5
  <2>7. QED
    BY <1>1, <1>11, <2>2, <2>3, <2>6, PurgeShardLeaves
<1>12. CASE SweepBegin
  BY <1>4, <1>12 DEF SweepBegin, Present
<1>13. CASE SweepShard
  BY <1>2, <1>4, <1>5, <1>13, TrimmingSteps DEF SweepShard
<1>14. CASE UNCHANGED vars
  BY <1>4, <1>14 DEF vars, Present
<1>15. QED
  BY <1>1, <1>6, <1>7, <1>8, <1>9, <1>10, <1>11, <1>12, <1>13, <1>14 DEF Next

\* A purge that has been through all shards, one mutex at a time, leaves of its pattern only
\* what was put after it began.
THEOREM PurgeIsThorough == Spec => PurgeLeavesNothing
<1> DEFINE Leaves == purge # NoPurge /\ purge' = NoPurge =>
                       \A k \in Keys : <<purge.pattern, k>> \in OfPath /\ (Present(k))' => k \in putSince
<1>1. Init => PurgeInv
  BY CacheInitInv DEF Init, PurgeInv, PurgeDone
<1>2. PurgeInv /\ [Next]_vars => [Leaves]_vars
  <2>1. SUFFICES ASSUME PurgeInv, Next, purge # NoPurge, purge' = NoPurge, NEW k \in Keys,
                        <<purge.pattern, k>> \in OfPath, (Present(k))'
                 PROVE  k \in putSince
    OBVIOUS
  <2>2. PurgeShard
    BY <2>1 DEF Next, Get, Put, Erase, Expire, PurgeBegin, SweepBegin, SweepShard
  <2>3. purge \in [pattern : Patterns, next : Shards]
    BY <2>1 DEF PurgeInv, CacheInv, Loops
  <2>4. purge.next + 1 \notin Shards
    <3>1. SUFFICES ASSUME purge.next + 1 \in Shards PROVE FALSE
      OBVIOUS
    <3>2. purge' = [purge EXCEPT !.next = purge.next + 1]
      BY <2>2, <3>1 DEF PurgeShard
    <3>3. purge'.next = purge.next + 1 /\ purge'.next = 0
      BY <2>1, <2>3, <3>2 DEF NoPurge
    <3>4. QED
      BY <3>1, <3>3, ShardsFacts
  <2>5. ShardOf[k] <= purge.next
    BY <2>3, <2>4, HashIsShard, ShardsFacts
  <2>6. QED
    BY <2>1, <2>2, <2>5, PurgeShardLeaves
<1>3. QED
  BY <1>1, <1>2, PurgeNextInv, PTL DEF Spec, PurgeLeavesNothing

-----------------------------------------------------------------------------
(* The order of a list: the operations keep it, but for the key they use.  *)

After(o, i, j) == \E m, n \in DOMAIN o : m < n /\ o[m].key = i /\ o[n].key = j

\* q has keys of o, in the order of o.
OrderKept(q, o) == \A i, j : After(q, i, j) <=> After(o, i, j) /\ i \in KeysIn(q) /\ j \in KeysIn(q)
Follows(q, o) == \A m, n \in DOMAIN q : m < n => After(o, q[m].key, q[n].key)

LEMMA AfterFacts ==
    ASSUME NEW o \in Seq(Nodes), Distinct(o), NEW i, NEW j, After(o, i, j)
    PROVE  i \in KeysIn(o) /\ j \in KeysIn(o) /\ i # j /\ ~After(o, j, i)
<1>1. PICK m \in DOMAIN o, n \in DOMAIN o : m < n /\ o[m].key = i /\ o[n].key = j
  BY DEF After
<1>2. m \in Nat /\ n \in Nat /\ \A l \in DOMAIN o : l \in Nat
  OBVIOUS
<1>3. i \in KeysIn(o) /\ j \in KeysIn(o)
  BY <1>1 DEF KeysIn
<1>4. i # j
  BY <1>1, <1>2 DEF Distinct
<1>5. ~After(o, j, i)
  <2>1. SUFFICES ASSUME NEW a \in DOMAIN o, NEW b \in DOMAIN o, a < b, o[a].key = j, o[b].key = i
                 PROVE  FALSE
    BY DEF After
  <2>2. a = n /\ b = m
    BY <1>1, <2>1 DEF Distinct
  <2>3. QED
    BY <1>1, <1>2, <2>1, <2>2
<1>6. QED
  BY <1>3, <1>4, <1>5

LEMMA FollowsKeeps ==
    ASSUME NEW o \in Seq(Nodes), Distinct(o), NEW q \in Seq(Nodes), Follows(q, o)
    PROVE  OrderKept(q, o)
<1>1. SUFFICES ASSUME NEW i, NEW j
               PROVE  After(q, i, j) <=> After(o, i, j) /\ i \in KeysIn(q) /\ j \in KeysIn(q)
  BY DEF OrderKept
<1>2. ASSUME After(q, i, j) PROVE After(o, i, j) /\ i \in KeysIn(q) /\ j \in KeysIn(q)
  BY <1>2 DEF After, Follows, KeysIn
<1>3. ASSUME After(o, i, j), i \in KeysIn(q), j \in KeysIn(q) PROVE After(q, i, j)
  <2>1. PICK m \in DOMAIN q, n \in DOMAIN q : q[m].key = i /\ q[n].key = j
    BY <1>3 DEF KeysIn
  <2>2. i # j /\ ~After(o, j, i)
    BY <1>3, AfterFacts
  <2>3. ~(n < m)
    BY <2>1, <2>2 DEF Follows
  <2>4. m \in Nat /\ n \in Nat /\ m # n
    BY <2>1, <2>2
  <2>5. QED
    BY <2>1, <2>3, <2>4 DEF After
<1>4. QED
  BY <1>2, <1>3

\* The loops of purge() and sweepExpired() go through the list from its front.
LEMMA RemoveKeepsOrder ==
    ASSUME NEW sh, Sane(sh), NEW out
    PROVE  OrderKept(RemoveNodes(sh, out).order, sh.order)
<1>1. PICK o \in Seq(Nodes) : o = sh.order
  BY DEF Sane, ShardRecords
<1>2. PICK n \in Nat : n = Len(o) /\ DOMAIN o = 1..n
  OBVIOUS
<1>3. sh \in ShardRecords /\ Distinct(o)
  BY <1>1 DEF Sane
<1>4. PICK f : /\ f[0] = [order |-> <<>>, index |-> sh.index, curBytes |-> sh.curBytes]
               /\ \A i \in 0..n : i < n => f[i + 1] = Visit(f[i], o[i + 1], out)
               /\ RemoveNodes(sh, out) = f[n]
  BY <1>1, <1>2, <1>3, VisitRounds
<1> DEFINE P(i, q) == /\ q \in Seq(Nodes)
                      /\ \A l \in DOMAIN q : \E j \in 1..i : q[l] = o[j]
                      /\ Follows(q, o)
           S == {i \in 0..n : P(i, f[i].order)}
<1>5. 0 \in S
  <2>1. f[0].order = <<>>
    BY <1>4
  <2>2. DOMAIN <<>> = {} /\ <<>> \in Seq(Nodes)
    OBVIOUS
  <2>3. P(0, f[0].order)
    BY <2>1, <2>2 DEF Follows
  <2>4. QED
    BY <2>3
<1>6. ASSUME NEW i \in 0..n, i \in S, i < n PROVE i + 1 \in S
  <2>1. PICK q \in Seq(Nodes) : q = f[i].order /\ P(i, q)
    BY <1>6
  <2>2. i + 1 \in DOMAIN o /\ 1..i \subseteq 1..(i + 1) /\ 1..i \subseteq DOMAIN o
    BY <1>2, <1>6
  <2>3. PICK x \in Nodes : x = o[i + 1]
    BY <2>2
  <2>4. f[i + 1] = Visit(f[i], x, out)
    BY <1>4, <1>6, <2>3
  <2>5. CASE x \in out
    <3>1. f[i + 1].order = q
      BY <2>1, <2>4, <2>5 DEF Visit
    <3>2. P(i + 1, q)
      BY <2>1, <2>2
    <3>3. P(i + 1, f[i + 1].order) /\ i + 1 \in 0..n
      <4> HIDE DEF P
      <4>1. QED
        BY <1>6, <3>1, <3>2
    <3>4. QED
      BY <3>3
  <2>6. CASE x \notin out
    <3>1. PICK z : z = Append(q, x)
      OBVIOUS
    <3>2. f[i + 1].order = z
      BY <2>1, <2>4, <2>6, <3>1 DEF Visit
    <3>3. /\ z \in Seq(Nodes) /\ Len(z) = Len(q) + 1 /\ z[Len(q) + 1] = x
          /\ \A j \in 1..Len(q) : z[j] = q[j]
      BY <3>1, AppendFacts
    <3>4. /\ DOMAIN z = DOMAIN q \cup {Len(q) + 1} /\ DOMAIN q = 1..Len(q) /\ Len(q) \in Nat
          /\ \A l \in DOMAIN q : z[l] = q[l] /\ l < Len(q) + 1 /\ ~(Len(q) + 1 < l)
      BY <3>3
    <3>5. \A l \in DOMAIN z : \E j \in 1..(i + 1) : z[l] = o[j]
      BY <2>1, <2>2, <2>3, <3>3, <3>4
    <3>6. \A l \in DOMAIN q : After(o, q[l].key, x.key)
      <4>1. SUFFICES ASSUME NEW l \in DOMAIN q PROVE After(o, q[l].key, x.key)
        OBVIOUS
      <4>2. PICK j \in 1..i : q[l] = o[j]
        BY <2>1
      <4>3. j < i + 1 /\ j \in DOMAIN o
        BY <1>6, <2>2
      <4>4. QED
        BY <2>2, <2>3, <4>2, <4>3 DEF After
    <3>7. Follows(z, o)
      <4>1. SUFFICES ASSUME NEW l \in DOMAIN z, NEW m \in DOMAIN z, l < m
                     PROVE  After(o, z[l].key, z[m].key)
        BY DEF Follows
      <4>2. CASE m \in DOMAIN q
        <5>1. l \in DOMAIN q
          BY <3>4, <4>1, <4>2
        <5>2. QED
          BY <2>1, <3>4, <4>1, <4>2, <5>1 DEF Follows
      <4>3. CASE m = Len(q) + 1
        <5>1. l \in DOMAIN q
          BY <3>4, <4>1, <4>3
        <5>2. QED
          BY <3>3, <3>4, <3>6, <4>3, <5>1
      <4>4. QED
        BY <3>4, <4>2, <4>3
    <3>8. P(i + 1, z)
      BY <3>3, <3>5, <3>7
    <3>9. P(i + 1, f[i + 1].order) /\ i + 1 \in 0..n
      <4> HIDE DEF P
      <4>1. QED
        BY <1>6, <3>2, <3>8
    <3>10. QED
      BY <3>9
  <2>7. QED
    BY <2>5, <2>6
<1>7. 0..n \subseteq S
  <2> HIDE DEF S
  <2>1. QED
    BY <1>5, <1>6, Induct
<1>8. P(n, f[n].order)
  BY <1>7
<1>9. OrderKept(f[n].order, o)
  BY <1>3, <1>8, FollowsKeeps
<1>10. QED
  BY <1>1, <1>4, <1>9

LEMMA FrontedOrder ==
    ASSUME NEW q \in Seq(Nodes), NEW x \in Nodes, NEW i, NEW j
    PROVE  After(<<x>> \o q, i, j) <=> (i = x.key /\ j \in KeysIn(q)) \/ After(q, i, j)
<1>1. PICK z : z = <<x>> \o q
  OBVIOUS
<1>2. PICK n \in Nat : n = Len(q) /\ DOMAIN q = 1..n
  OBVIOUS
<1>3. z[1] = x /\ DOMAIN z = 1..(n + 1) /\ \A l \in 1..n : z[l + 1] = q[l]
  BY <1>1, <1>2
<1>4. ASSUME After(z, i, j) PROVE (i = x.key /\ j \in KeysIn(q)) \/ After(q, i, j)
  <2>1. PICK a \in 1..(n + 1), b \in 1..(n + 1) : a < b /\ z[a].key = i /\ z[b].key = j
    BY <1>3, <1>4 DEF After
  <2>2. b - 1 \in 1..n /\ (b - 1) + 1 = b
    BY <1>2, <2>1
  <2>3. q[b - 1].key = j
    BY <1>3, <2>1, <2>2
  <2>4. CASE a = 1
    BY <1>2, <1>3, <2>1, <2>2, <2>3, <2>4 DEF KeysIn
  <2>5. CASE a # 1
    <3>1. a - 1 \in 1..n /\ (a - 1) + 1 = a /\ a - 1 < b - 1
      BY <1>2, <2>1, <2>5
    <3>2. q[a - 1].key = i
      BY <1>3, <2>1, <3>1
    <3>3. QED
      BY <1>2, <2>2, <2>3, <3>1, <3>2 DEF After
  <2>6. QED
    BY <2>4, <2>5
<1>5. ASSUME i = x.key, j \in KeysIn(q) PROVE After(z, i, j)
  <2>1. PICK b \in 1..n : q[b].key = j
    BY <1>2, <1>5 DEF KeysIn
  <2>2. b + 1 \in DOMAIN z /\ 1 \in DOMAIN z /\ 1 < b + 1 /\ z[b + 1].key = j
    BY <1>2, <1>3, <2>1
  <2>3. QED
    BY <1>3, <1>5, <2>2 DEF After
<1>6. ASSUME After(q, i, j) PROVE After(z, i, j)
  <2>1. PICK a \in 1..n, b \in 1..n : a < b /\ q[a].key = i /\ q[b].key = j
    BY <1>2, <1>6 DEF After
  <2>2. a + 1 \in DOMAIN z /\ b + 1 \in DOMAIN z /\ a + 1 < b + 1
    BY <1>2, <1>3, <2>1
  <2>3. z[a + 1].key = i /\ z[b + 1].key = j
    BY <1>3, <2>1
  <2>4. QED
    BY <2>2, <2>3, <2>1 DEF After
<1>7. QED
  BY <1>1, <1>4, <1>5, <1>6

\* The key k comes to the front of the list, and the others keep their order.
UsedInOrder(z, sh, k) ==
    \A i, j : After(z, i, j) <=>
                \/ i = k /\ j \in sh.index \ {k}
                \/ After(sh.order, i, j) /\ k \notin {i, j}

LEMMA UsedOrder ==
    ASSUME NEW sh, Sane(sh), NEW k \in Keys, NEW x \in Nodes, x.key = k
    PROVE  /\ UsedInOrder(<<x>> \o Without(sh, k).order, sh, k)
           /\ k \notin sh.index => UsedInOrder(<<x>> \o sh.order, sh, k)
<1>1. sh.order \in Seq(Nodes) /\ Distinct(sh.order) /\ sh.index = KeysIn(sh.order)
  BY DEF Sane, ShardRecords
<1>2. PICK w : w = Without(sh, k)
  OBVIOUS
<1>3. Sane(w) /\ w.index = sh.index \ {k}
  BY <1>2, WithoutFacts
<1>4. w.order \in Seq(Nodes) /\ w.index = KeysIn(w.order)
  BY <1>3 DEF Sane, ShardRecords
<1>5. OrderKept(w.order, sh.order)
  BY <1>2, RemoveKeepsOrder DEF Without
<1>6. UsedInOrder(<<x>> \o w.order, sh, k)
  <2>1. SUFFICES ASSUME NEW i, NEW j
                 PROVE  After(<<x>> \o w.order, i, j) <=>
                          \/ i = k /\ j \in sh.index \ {k}
                          \/ After(sh.order, i, j) /\ k \notin {i, j}
    BY DEF UsedInOrder
  <2>2. After(<<x>> \o w.order, i, j) <=> (i = k /\ j \in KeysIn(w.order)) \/ After(w.order, i, j)
    BY <1>4, FrontedOrder
  <2>3. After(w.order, i, j) <=> After(sh.order, i, j) /\ i \in KeysIn(w.order) /\ j \in KeysIn(w.order)
    BY <1>5 DEF OrderKept
  <2>4. After(sh.order, i, j) => i \in sh.index /\ j \in sh.index
    BY <1>1, AfterFacts
  <2>5. QED
    BY <1>3, <1>4, <2>2, <2>3, <2>4
<1>7. ASSUME k \notin sh.index PROVE UsedInOrder(<<x>> \o sh.order, sh, k)
  <2>1. SUFFICES ASSUME NEW i, NEW j
                 PROVE  After(<<x>> \o sh.order, i, j) <=>
                          \/ i = k /\ j \in sh.index \ {k}
                          \/ After(sh.order, i, j) /\ k \notin {i, j}
    BY DEF UsedInOrder
  <2>2. After(<<x>> \o sh.order, i, j) <=> (i = k /\ j \in sh.index) \/ After(sh.order, i, j)
    BY <1>1, FrontedOrder
  <2>3. After(sh.order, i, j) => i \in sh.index /\ j \in sh.index
    BY <1>1, AfterFacts
  <2>4. QED
    BY <1>7, <2>2, <2>3
<1>8. QED
  BY <1>2, <1>6, <1>7

\* evictToFit_ leaves a front part of the list, and only takes from the back as long as
\* what is left is too much.  h has the sums of the sizes from the front.
LEMMA EvictsFromBack ==
    ASSUME NEW sh, Sane(sh), NEW m \in Nat, NEW h, Sums(h, Weights(sh.order))
    PROVE  LET o == sh.order
               q == EvictToFit(sh, m).order
           IN  /\ Len(q) <= Len(o)
               /\ \A l \in 1..Len(q) : q[l] = o[l]
               /\ Len(q) < Len(o) => h[Len(q) + 1] > m
<1>1. PICK o \in Seq(Nodes) : o = sh.order
  BY DEF Sane, ShardRecords
<1>2. PICK n \in Nat : n = Len(o) /\ DOMAIN o = 1..n
  OBVIOUS
<1>3. PICK f : /\ f[0] = sh
               /\ \A i \in 0..n : i < n => f[i + 1] = EvictBack(f[i], m)
               /\ EvictToFit(sh, m) = f[n]
  BY <1>1, <1>2, EvictRounds
<1> DEFINE Part(q) == /\ Len(q) <= n
                      /\ \A l \in 1..Len(q) : q[l] = o[l]
                      /\ Len(q) < n => h[Len(q) + 1] > m
           P(i) == Sane(f[i]) /\ Part(f[i].order)
           S == {i \in 0..n : P(i)}
<1>4. 0 \in S
  BY <1>1, <1>2, <1>3
<1>5. ASSUME NEW i \in 0..n, i \in S, i < n PROVE i + 1 \in S
  <2>1. PICK x : x = f[i] /\ Sane(x) /\ Part(x.order)
    BY <1>5
  <2>2. PICK y : y = f[i + 1]
    OBVIOUS
  <2>3. y = EvictBack(x, m)
    BY <1>3, <1>5, <2>1, <2>2
  <2>4. Sane(y)
    BY <2>1, <2>3, EvictBackFacts
  <2>5. PICK q \in Seq(Nodes) : q = x.order
    BY <2>1 DEF Sane, ShardRecords
  <2>6. Part(y.order)
    <3>1. CASE ~(x.curBytes > m /\ x.order # <<>>)
      <4>1. y = x
        BY <2>3, <3>1 DEF EvictBack
      <4>2. QED
        BY <2>1, <4>1
    <3>2. CASE x.curBytes > m /\ q # <<>>
      <4>1. PICK z : z = SubSeq(q, 1, Len(q) - 1)
        OBVIOUS
      <4>2. y.order = z
        BY <2>3, <2>5, <3>2, <4>1 DEF EvictBack, Front
      <4>3. Len(z) = Len(q) - 1 /\ \A l \in 1..Len(z) : z[l] = q[l]
        BY <3>2, <4>1, FrontFacts
      <4>4. Len(q) \in Nat /\ Len(q) <= n /\ \A l \in 1..Len(q) : q[l] = o[l]
        BY <2>1, <2>5
      <4>5. Bytes(q) = h[Len(q)]
        <5>1. /\ Weights(q) \in Seq(Int) /\ Len(Weights(q)) = Len(q) /\ Bytes(q) = Total(Weights(q))
              /\ \A l \in 1..Len(q) : Weights(q)[l] = q[l].bytes
          BY WeightsType
        <5>2. /\ Weights(o) \in Seq(Int) /\ Len(Weights(o)) = n
              /\ \A l \in 1..n : Weights(o)[l] = o[l].bytes
          BY <1>2, WeightsType
        <5>3. PICK ns : ns = Weights(q)
          OBVIOUS
        <5>4. PICK ms : ms = Weights(o)
          OBVIOUS
        <5>5. PICK g : Sums(g, ns) /\ Total(ns) = g[Len(ns)]
          BY <5>1, <5>3, TotalIsSum
        <5>6. PICK c \in Nat : c = Len(q)
          BY <4>4
        <5>7. c <= Len(ns) /\ c <= Len(ms) /\ \A l \in 1..c : ns[l] = ms[l]
          <6>1. c <= Len(ns) /\ c <= Len(ms)
            BY <4>4, <5>1, <5>2, <5>3, <5>4, <5>6
          <6>2. ASSUME NEW l \in 1..c PROVE ns[l] = ms[l]
            <7>1. l \in 1..Len(q) /\ l \in 1..n
              BY <1>2, <4>4, <5>6
            <7>2. ns[l] = q[l].bytes /\ ms[l] = o[l].bytes /\ q[l] = o[l]
              BY ONLY <4>4, <5>1, <5>2, <5>3, <5>4, <7>1
            <7>3. QED
              BY ONLY <7>2
          <6>3. QED
            BY <6>1, <6>2
        <5>8. ns \in Seq(Int) /\ ms \in Seq(Int) /\ Sums(h, ms)
          BY <1>1, <5>1, <5>2, <5>3, <5>4
        <5>9. g[c] = h[c]
          BY ONLY <5>5, <5>7, <5>8, c \in Nat, SumsAgree
        <5>10. QED
          BY <5>1, <5>3, <5>5, <5>6, <5>9
      <4>6. h[Len(q)] > m
        BY <2>1, <2>5, <3>2, <4>5 DEF Sane
      <4>7. Len(z) + 1 = Len(q) /\ Len(z) <= n
        BY <4>3, <4>4
      <4>8. \A l \in 1..Len(z) : l \in 1..Len(q)
        BY <4>3, <4>4
      <4>9. Part(z)
        BY <4>3, <4>4, <4>6, <4>7, <4>8
      <4>10. QED
        BY <4>2, <4>9
    <3>3. QED
      BY <2>5, <3>1, <3>2
  <2>7. P(i + 1) /\ i + 1 \in 0..n
    <3> HIDE DEF Part
    <3>1. QED
      BY <1>5, <2>2, <2>4, <2>6
  <2>8. QED
    BY <2>7
<1>6. 0..n \subseteq S
  <2> HIDE DEF S
  <2>1. QED
    BY <1>4, <1>5, Induct
<1>7. P(n)
  BY <1>6
<1>8. QED
  BY <1>1, <1>2, <1>3, <1>7

-----------------------------------------------------------------------------
(* The size of some of the keys of a list.                                 *)

Counted(o, ks) == [i \in DOMAIN o |-> IF o[i].key \in ks THEN o[i].bytes ELSE 0]

LEMMA CountedType ==
    ASSUME NEW o \in Seq(Nodes), NEW ks
    PROVE  /\ Counted(o, ks) \in Seq(Int)
           /\ Len(Counted(o, ks)) = Len(o)
           /\ \A i \in 1..Len(o) : Counted(o, ks)[i] = IF o[i].key \in ks THEN o[i].bytes ELSE 0
           /\ BytesOf(o, ks) = Total(Counted(o, ks))
           /\ BytesOf(o, ks) \in Int
<1>1. DOMAIN o = 1..Len(o) /\ Len(o) \in Nat
  OBVIOUS
<1>2. \A i \in 1..Len(o) : o[i].bytes \in Int
  BY NodeFields
<1>3. Counted(o, ks) \in [1..Len(o) -> Int]
  BY <1>1, <1>2 DEF Counted
<1>4. Counted(o, ks) \in Seq(Int) /\ Len(Counted(o, ks)) = Len(o)
  BY <1>1, <1>3
<1>5. BytesOf(o, ks) = Total(Counted(o, ks))
  BY DEF BytesOf, Counted
<1>6. QED
  BY <1>1, <1>4, <1>5, TotalType DEF Counted

LEMMA CountedSnoc ==
    ASSUME NEW q \in Seq(Nodes), NEW x \in Nodes, NEW ks
    PROVE  BytesOf(Append(q, x), ks) = BytesOf(q, ks) + (IF x.key \in ks THEN x.bytes ELSE 0)
<1>1. PICK z : z = Append(q, x)
  OBVIOUS
<1>2. /\ z \in Seq(Nodes) /\ Len(z) = Len(q) + 1 /\ z[Len(q) + 1] = x
      /\ \A j \in 1..Len(q) : z[j] = q[j]
  BY <1>1, AppendFacts
<1>3. PICK ns : ns = Counted(q, ks)
  OBVIOUS
<1>4. PICK ms : ms = Counted(z, ks)
  OBVIOUS
<1>5. /\ ns \in Seq(Int) /\ Len(ns) = Len(q) /\ BytesOf(q, ks) = Total(ns)
      /\ \A i \in 1..Len(q) : ns[i] = IF q[i].key \in ks THEN q[i].bytes ELSE 0
  BY <1>3, CountedType
<1>6. /\ ms \in Seq(Int) /\ Len(ms) = Len(z) /\ BytesOf(z, ks) = Total(ms)
      /\ \A i \in 1..Len(z) : ms[i] = IF z[i].key \in ks THEN z[i].bytes ELSE 0
  BY <1>2, <1>4, CountedType
<1>7. Len(ms) = Len(ns) + 1 /\ \A i \in 1..Len(ns) : ms[i] = ns[i]
  <2>1. ASSUME NEW i \in 1..Len(q) PROVE ms[i] = ns[i]
    <3>1. i \in 1..Len(z) /\ z[i] = q[i]
      BY <1>2
    <3>2. QED
      BY ONLY <1>5, <1>6, <3>1, i \in 1..Len(q)
  <2>2. QED
    BY <1>2, <1>5, <1>6, <2>1
<1>8. Total(ms) = Total(ns) + ms[Len(ms)]
  BY ONLY <1>5, <1>6, <1>7, TotalSnoc
<1>9. Len(ms) \in 1..Len(z) /\ Len(ms) = Len(q) + 1
  BY <1>2, <1>6
<1>10. ms[Len(ms)] = IF x.key \in ks THEN x.bytes ELSE 0
  BY <1>2, <1>6, <1>9
<1>11. QED
  BY <1>1, <1>5, <1>6, <1>8, <1>10

LEMMA CountedCons ==
    ASSUME NEW q \in Seq(Nodes), NEW x \in Nodes, x.key \notin KeysIn(q), NEW ks
    PROVE  BytesOf(<<x>> \o q, ks \cup {x.key}) = x.bytes + BytesOf(q, ks)
<1>1. PICK z : z = <<x>> \o q
  OBVIOUS
<1>2. /\ z \in Seq(Nodes) /\ Len(z) = Len(q) + 1 /\ z[1] = x
      /\ \A i \in 1..Len(q) : z[i + 1] = q[i]
  BY <1>1
<1>3. PICK ns : ns = Counted(q, ks)
  OBVIOUS
<1>4. PICK ms : ms = Counted(z, ks \cup {x.key})
  OBVIOUS
<1>5. /\ ns \in Seq(Int) /\ Len(ns) = Len(q) /\ BytesOf(q, ks) = Total(ns)
      /\ \A i \in 1..Len(q) : ns[i] = IF q[i].key \in ks THEN q[i].bytes ELSE 0
  BY <1>3, CountedType
<1>6. /\ ms \in Seq(Int) /\ Len(ms) = Len(z) /\ BytesOf(z, ks \cup {x.key}) = Total(ms)
      /\ \A i \in 1..Len(z) : ms[i] = IF z[i].key \in ks \cup {x.key} THEN z[i].bytes ELSE 0
  BY <1>2, <1>4, CountedType
<1>7. Len(ms) = Len(ns) + 1 /\ \A i \in 1..Len(ns) : ms[i + 1] = ns[i]
  <2>1. ASSUME NEW i \in 1..Len(q) PROVE ms[i + 1] = ns[i]
    <3>1. i + 1 \in 1..Len(z) /\ z[i + 1] = q[i]
      BY <1>2
    <3>2. q[i].key # x.key
      BY <2>1 DEF KeysIn
    <3>3. QED
      BY ONLY <1>5, <1>6, <3>1, <3>2, i \in 1..Len(q)
  <2>2. QED
    BY <1>2, <1>5, <1>6, <2>1
<1>8. Total(ms) = ms[1] + Total(ns)
  BY ONLY <1>5, <1>6, <1>7, TotalCons
<1>9. 1 \in 1..Len(z)
  BY <1>2
<1>10. ms[1] = x.bytes
  BY <1>2, <1>6, <1>9
<1>11. QED
  BY <1>1, <1>5, <1>6, <1>8, <1>10

\* Keys that stay weigh what they did.
LEMMA RemoveKeepsSize ==
    ASSUME NEW sh, Sane(sh), NEW out, NEW ks, \A x \in out : x.key \notin ks
    PROVE  BytesOf(RemoveNodes(sh, out).order, ks) = BytesOf(sh.order, ks)
<1>1. PICK o \in Seq(Nodes) : o = sh.order
  BY DEF Sane, ShardRecords
<1>2. PICK n \in Nat : n = Len(o)
  OBVIOUS
<1>3. sh \in ShardRecords
  BY DEF Sane
<1>4. PICK f : /\ f[0] = [order |-> <<>>, index |-> sh.index, curBytes |-> sh.curBytes]
               /\ \A i \in 0..n : i < n => f[i + 1] = Visit(f[i], o[i + 1], out)
               /\ RemoveNodes(sh, out) = f[n]
  BY <1>1, <1>2, <1>3, VisitRounds
<1>5. PICK ns : ns = Counted(o, ks)
  OBVIOUS
<1>6. /\ ns \in Seq(Int) /\ Len(ns) = n /\ BytesOf(o, ks) = Total(ns)
      /\ \A i \in 1..n : ns[i] = IF o[i].key \in ks THEN o[i].bytes ELSE 0
  BY <1>2, <1>5, CountedType
<1>7. PICK h : Sums(h, ns) /\ Total(ns) = h[Len(ns)]
  BY <1>6, TotalIsSum
<1> DEFINE P(i, q) == q \in Seq(Nodes) /\ BytesOf(q, ks) = h[i]
           S == {i \in 0..n : P(i, f[i].order)}
<1>8. 0 \in S
  <2>1. f[0].order = <<>>
    BY <1>4
  <2>2. PICK e : e = <<>>
    OBVIOUS
  <2>3. e \in Seq(Nodes) /\ DOMAIN e = {}
    BY <2>2
  <2>4. Counted(e, ks) = e
    BY <2>2, <2>3 DEF Counted
  <2>5. BytesOf(e, ks) = 0
    <3>1. BytesOf(e, ks) = Total(Counted(e, ks))
      BY DEF BytesOf, Counted
    <3>2. Total(e) = 0
      BY <2>2, TotalEmpty
    <3>3. QED
      BY ONLY <2>4, <3>1, <3>2
  <2>6. h[0] = 0
    BY <1>7 DEF Sums
  <2>7. QED
    <3>1. f[0].order = e
      BY ONLY <2>1, <2>2
    <3>2. P(0, f[0].order)
      BY ONLY <2>3, <2>5, <2>6, <3>1
    <3>3. QED
      BY <3>2
<1>9. ASSUME NEW i \in 0..n, i \in S, i < n PROVE i + 1 \in S
  <2>1. PICK q \in Seq(Nodes) : q = f[i].order /\ BytesOf(q, ks) = h[i]
    BY <1>9
  <2>2. i + 1 \in 1..n
    BY <1>2, <1>9
  <2>3. PICK x \in Nodes : x = o[i + 1]
    BY <1>2, <2>2
  <2>4. f[i + 1] = Visit(f[i], x, out)
    BY <1>4, <1>9, <2>3
  <2>5. h[i + 1] = h[i] + ns[i + 1] /\ h[i] \in Int
    <3>1. i \in Nat /\ i < Len(ns)
      BY <1>2, <1>6, <1>9
    <3>2. QED
      BY ONLY <1>6, <1>7, <3>1, SumsStep
  <2>6. ns[i + 1] = IF x.key \in ks THEN x.bytes ELSE 0
    BY <1>6, <2>2, <2>3
  <2>7. CASE x \in out
    <3>1. f[i + 1].order = q
      BY <2>1, <2>4, <2>7 DEF Visit
    <3>2. h[i + 1] = h[i]
      BY <2>5, <2>6, <2>7
    <3>3. P(i + 1, f[i + 1].order)
      BY <2>1, <3>1, <3>2
    <3>4. QED
      BY <2>2, <3>3
  <2>8. CASE x \notin out
    <3>1. PICK z : z = Append(q, x)
      OBVIOUS
    <3>2. f[i + 1].order = z /\ z \in Seq(Nodes)
      BY <2>1, <2>4, <2>8, <3>1 DEF Visit
    <3>3. BytesOf(z, ks) = h[i + 1]
      BY <2>1, <2>5, <2>6, <3>1, CountedSnoc
    <3>4. P(i + 1, f[i + 1].order)
      BY <3>2, <3>3
    <3>5. QED
      BY <2>2, <3>4
  <2>9. QED
    BY <2>7, <2>8
<1>10. 0..n \subseteq S
  <2> HIDE DEF S
  <2>1. QED
    BY <1>8, <1>9, Induct
<1>11. BytesOf(f[n].order, ks) = h[n]
  BY <1>10
<1>12. QED
  BY <1>1, <1>4, <1>6, <1>7, <1>11

\* The keys of a front part of a list weigh what its sizes add up to.
LEMMA FrontSize ==
    ASSUME NEW o \in Seq(Nodes), NEW ks, NEW p \in 0..Len(o), NEW h, Sums(h, Weights(o)),
           \A l \in 1..Len(o) : o[l].key \in ks <=> l <= p
    PROVE  BytesOf(o, ks) = h[p]
<1>1. PICK n \in Nat : n = Len(o)
  OBVIOUS
<1>2. PICK ns : ns = Counted(o, ks)
  OBVIOUS
<1>3. PICK ms : ms = Weights(o)
  OBVIOUS
<1>4. /\ ns \in Seq(Int) /\ Len(ns) = n /\ BytesOf(o, ks) = Total(ns)
      /\ \A i \in 1..n : ns[i] = IF i <= p THEN o[i].bytes ELSE 0
  BY <1>1, <1>2, CountedType
<1>5. /\ ms \in Seq(Int) /\ Len(ms) = n /\ Sums(h, ms)
      /\ \A i \in 1..n : ms[i] = o[i].bytes
  BY <1>1, <1>3, WeightsType
<1>6. PICK g : Sums(g, ns) /\ Total(ns) = g[Len(ns)]
  BY <1>4, TotalIsSum
<1> DEFINE S == {i \in 0..n : g[i] = IF i <= p THEN h[i] ELSE h[p]}
<1>7. 0 \in S
  BY <1>1, <1>5, <1>6 DEF Sums
<1>8. ASSUME NEW i \in 0..n, i \in S, i < n PROVE i + 1 \in S
  <2>1. i \in Nat /\ i < Len(ns) /\ i < Len(ms) /\ i + 1 \in 1..n
    BY <1>1, <1>4, <1>5, <1>8
  <2>2. g[i + 1] = g[i] + ns[i + 1] /\ g[i] \in Int
    BY ONLY <1>4, <1>6, <2>1, SumsStep
  <2>3. h[i + 1] = h[i] + ms[i + 1] /\ h[i] \in Int
    BY ONLY <1>5, <2>1, SumsStep
  <2>4. g[i] = IF i <= p THEN h[i] ELSE h[p]
    BY <1>8
  <2>5. CASE i + 1 <= p
    <3>1. ns[i + 1] = ms[i + 1] /\ i <= p
      <4>1. ns[i + 1] = IF i + 1 <= p THEN o[i + 1].bytes ELSE 0
        BY ONLY <1>4, <2>1
      <4>2. ms[i + 1] = o[i + 1].bytes
        BY ONLY <1>5, <2>1
      <4>3. i <= p
        BY <2>5
      <4>4. QED
        BY ONLY <2>5, <4>1, <4>2, <4>3
    <3>2. g[i + 1] = h[i + 1]
      BY ONLY <2>2, <2>3, <2>4, <3>1
    <3>3. QED
      BY <2>1, <2>5, <3>2
  <2>6. CASE ~(i + 1 <= p)
    <3>1. ns[i + 1] = 0 /\ (i <= p => i = p)
      BY <1>4, <2>1, <2>6
    <3>2. g[i + 1] = h[p]
      BY <2>2, <2>4, <3>1
    <3>3. QED
      BY <2>1, <2>6, <3>2
  <2>7. QED
    BY <2>5, <2>6
<1>9. 0..n \subseteq S
  <2> HIDE DEF S
  <2>1. QED
    BY <1>7, <1>8, Induct
<1>10. g[n] = h[p]
  <2>1. g[n] = IF n <= p THEN h[n] ELSE h[p]
    BY <1>9
  <2>2. QED
    BY <1>1, <2>1
<1>11. QED
  BY <1>4, <1>6, <1>10

\* Sums of sizes grow.
LEMMA SumsGrow ==
    ASSUME NEW ns \in Seq(Int), NEW h, Sums(h, ns), \A i \in 1..Len(ns) : ns[i] >= 0,
           NEW p \in 0..Len(ns), NEW q \in 0..Len(ns), p <= q
    PROVE  h[p] <= h[q]
<1>1. PICK n \in Nat : n = Len(ns)
  OBVIOUS
<1> DEFINE S == {i \in 0..n : p <= i => h[p] <= h[i]}
<1>2. h[p] \in Int
  BY DEF Sums
<1>3. 0 \in S
  BY <1>1, <1>2
<1>4. ASSUME NEW i \in 0..n, i \in S, i < n PROVE i + 1 \in S
  <2>1. i \in Nat /\ i < Len(ns) /\ i + 1 \in 1..Len(ns)
    BY <1>1, <1>4
  <2>2. h[i + 1] = h[i] + ns[i + 1] /\ h[i] \in Int /\ ns[i + 1] \in Int
    BY <2>1, SumsStep
  <2>3. ns[i + 1] >= 0
    BY <2>1
  <2>4. CASE p <= i
    <3>1. h[p] <= h[i]
      BY <1>4, <2>4
    <3>2. h[p] <= h[i + 1]
      <4>1. \A a, b, c, d \in Int : a <= b /\ c >= 0 /\ d = b + c => a <= d
        OBVIOUS
      <4>2. h[i + 1] \in Int
        BY <2>2
      <4>3. QED
        BY ONLY <1>2, <2>2, <2>3, <3>1, <4>1, <4>2, Zenon
    <3>3. QED
      BY <1>4, <3>2
  <2>5. CASE ~(p <= i)
    <3>1. p <= i + 1 => p = i + 1
      BY <1>1, <2>5
    <3>2. QED
      BY <1>1, <1>2, <1>4, <3>1
  <2>6. QED
    BY <2>4, <2>5
<1>5. 0..n \subseteq S
  <2> HIDE DEF S
  <2>1. QED
    BY <1>3, <1>4, Induct
<1>6. QED
  BY <1>1, <1>5

-----------------------------------------------------------------------------
(* What put() evicts.                                                      *)

\* What put() does in its steps: w is the shard without the key's node, z has the new one in
\* front, and then room is made.
PutSteps(w, z, sh, k, b, m) ==
    /\ Sane(w) /\ w.index = sh.index \ {k}
    /\ \A ks : k \notin ks => BytesOf(w.order, ks) = BytesOf(sh.order, ks)
    /\ Sane(z) /\ z.order = <<Node(k, b)>> \o w.order
    /\ UsedInOrder(z.order, sh, k)
    /\ LruPut(sh, k, b, m) = EvictToFit(z, m)

LEMMA PutParts ==
    ASSUME NEW sh, Sane(sh), NEW k \in Keys, NEW b \in Sizes, NEW m \in Nat
    PROVE  \E w, z : PutSteps(w, z, sh, k, b, m)
<1>1. PICK w : w = IF k \in sh.index THEN Without(sh, k) ELSE sh
  OBVIOUS
<1>2. PICK z : z = Inserted(w, k, b)
  OBVIOUS
<1>3. PICK x \in Nodes : x = Node(k, b) /\ x.key = k
  <2>1. Node(k, b) \in Nodes /\ Node(k, b).key = k
    BY DEF Node, Nodes
  <2>2. QED
    BY <2>1
<1>4. Sane(w) /\ w.index = sh.index \ {k}
  BY <1>1, WithoutFacts
<1>5. Sane(z)
  BY <1>2, <1>4, InsertedFacts
<1>6. z.order = <<x>> \o w.order
  BY <1>2, <1>3 DEF Inserted
<1>7. UsedInOrder(z.order, sh, k)
  BY <1>1, <1>3, <1>6, UsedOrder
<1>8. ASSUME NEW ks, k \notin ks PROVE BytesOf(w.order, ks) = BytesOf(sh.order, ks)
  <2>1. CASE k \in sh.index
    <3>1. PICK out : out = {y \in Range(sh.order) : y.key = k}
      OBVIOUS
    <3>2. w = RemoveNodes(sh, out) /\ \A y \in out : y.key \notin ks
      BY <1>1, <1>8, <2>1, <3>1 DEF Without
    <3>3. QED
      BY <3>2, RemoveKeepsSize
  <2>2. CASE k \notin sh.index
    BY <1>1, <2>2
  <2>3. QED
    BY <2>1, <2>2
<1>9. LruPut(sh, k, b, m) = EvictToFit(z, m)
  BY <1>1, <1>2 DEF LruPut
<1>10. PutSteps(w, z, sh, k, b, m)
  BY <1>3, <1>4, <1>5, <1>6, <1>7, <1>8, <1>9 DEF PutSteps
<1>11. QED
  BY <1>10

\* The order of a list says which nodes are in front of which.
LEMMA AfterMeansBehind ==
    ASSUME NEW o \in Seq(Nodes), Distinct(o), NEW l \in 1..Len(o), NEW p \in 1..Len(o)
    PROVE  After(o, o[l].key, o[p].key) <=> l < p
<1>1. l \in DOMAIN o /\ p \in DOMAIN o
  OBVIOUS
<1>2. ASSUME After(o, o[l].key, o[p].key) PROVE l < p
  <2>1. PICK c \in DOMAIN o, d \in DOMAIN o : c < d /\ o[c].key = o[l].key /\ o[d].key = o[p].key
    BY <1>2 DEF After
  <2>2. c = l /\ d = p
    BY <1>1, <2>1 DEF Distinct
  <2>3. QED
    BY <2>1, <2>2
<1>3. QED
  BY <1>1, <1>2 DEF After

\* An entry that fits is kept, and whatever goes is the rear of what does not fit with it.
LEMMA PutEvicts ==
    ASSUME NEW sh, Sane(sh), NEW k \in Keys, NEW b \in Sizes, NEW m \in Nat, b <= m
    PROVE  LET e == LruPut(sh, k, b, m)
           IN  /\ k \in e.index
               /\ \A j \in sh.index \ {k} : j \notin e.index =>
                    LET later == {i \in Keys \ {k} : After(sh.order, i, j)}
                    IN  /\ BytesOf(sh.order, later \cup {j}) + b > m
                        /\ e.index \ {k} \subseteq later
<1>1. PICK w, z :
        /\ Sane(w) /\ w.index = sh.index \ {k}
        /\ \A ks : k \notin ks => BytesOf(w.order, ks) = BytesOf(sh.order, ks)
        /\ Sane(z) /\ z.order = <<Node(k, b)>> \o w.order
        /\ UsedInOrder(z.order, sh, k)
        /\ LruPut(sh, k, b, m) = EvictToFit(z, m)
  <2>1. PICK w, z : PutSteps(w, z, sh, k, b, m)
    BY PutParts
  <2>2. QED
    BY <2>1 DEF PutSteps
<1>2. PICK e : e = EvictToFit(z, m) /\ Sane(e)
  BY <1>1, EvictToFitFacts
<1>3. PICK q \in Seq(Nodes) : q = e.order /\ e.index = KeysIn(q) /\ e.index \subseteq Keys
  BY <1>2 DEF Sane, ShardRecords
<1>4. PICK o \in Seq(Nodes) : o = z.order /\ Distinct(o)
  BY <1>1 DEF Sane, ShardRecords
<1>5. PICK u \in Seq(Nodes) : u = w.order /\ w.index = KeysIn(u)
  BY <1>1 DEF Sane, ShardRecords
<1>6. PICK x \in Nodes : x = Node(k, b) /\ x.key = k /\ x.bytes = b
  <2>1. Node(k, b) \in Nodes /\ Node(k, b).key = k /\ Node(k, b).bytes = b
    BY DEF Node, Nodes
  <2>2. QED
    BY <2>1
<1>7. o = <<x>> \o u
  BY <1>1, <1>4, <1>5, <1>6
<1>8. PICK n \in Nat : n = Len(o) /\ DOMAIN o = 1..n
  OBVIOUS
<1>9. n >= 1 /\ o[1] = x /\ \A l \in 1..Len(u) : o[l + 1] = u[l] /\ l + 1 \in 1..n
  BY <1>7, <1>8
<1>10. PICK ms : ms = Weights(o)
  OBVIOUS
<1>11. ms \in Seq(Int) /\ Len(ms) = n /\ \A l \in 1..n : ms[l] = o[l].bytes /\ ms[l] >= 0
  <2>1. ms \in Seq(Int) /\ Len(ms) = n /\ \A l \in 1..n : ms[l] = o[l].bytes
    BY <1>8, <1>10, WeightsType
  <2>2. \A l \in 1..n : o[l] \in Nodes
    BY <1>8
  <2>3. \A l \in 1..n : o[l].bytes >= 0
    BY <2>2, NodeFields
  <2>4. QED
    BY <2>1, <2>3
<1>12. PICK h : Sums(h, ms)
  BY <1>11, TotalIsSum
<1>13. /\ Len(q) \in Nat /\ Len(q) <= n
       /\ \A l \in 1..Len(q) : q[l] = o[l]
       /\ Len(q) < n => h[Len(q) + 1] > m
  <2>1. Sane(z) /\ Sums(h, Weights(z.order)) /\ m \in Nat
    BY <1>1, <1>4, <1>10, <1>12
  <2>2. LET r == EvictToFit(z, m).order
        IN  /\ Len(r) <= Len(z.order)
            /\ \A l \in 1..Len(r) : r[l] = z.order[l]
            /\ Len(r) < Len(z.order) => h[Len(r) + 1] > m
    BY ONLY <2>1, EvictsFromBack
  <2>3. q = EvictToFit(z, m).order /\ o = z.order /\ n = Len(o) /\ Len(q) \in Nat
    BY <1>2, <1>3, <1>4, <1>8
  <2>4. QED
    BY ONLY <2>2, <2>3
<1>14. b \in Nat
  BY SizesArePositive
<1>15. Len(q) >= 1
  <2>1. h[0 + 1] = h[0] + ms[0 + 1] /\ h[0] = 0
    <3>1. 0 \in Nat /\ 0 < Len(ms)
      BY <1>9, <1>11
    <3>2. h[0] = 0
      BY <1>12 DEF Sums
    <3>3. QED
      BY ONLY <1>11, <1>12, <3>1, <3>2, SumsStep
  <2>2. ms[1] = b
    BY <1>6, <1>9, <1>11
  <2>3. h[1] = b
    BY <1>14, <2>1, <2>2
  <2>4. ~(h[1] > m)
    BY <1>14, <2>3
  <2>5. Len(q) # 0
    <3>1. Len(q) = 0 => Len(q) < n /\ Len(q) + 1 = 1
      BY <1>9
    <3>2. QED
      BY <1>13, <2>4, <3>1
  <2>6. QED
    BY <1>13, <2>5
<1>16. k \in e.index
  <2>1. 1 \in DOMAIN q /\ q[1] = x
    BY <1>9, <1>13, <1>15
  <2>2. QED
    BY <1>3, <1>6, <2>1 DEF KeysIn
<1>17. ASSUME NEW j \in sh.index \ {k}, j \notin e.index
       PROVE  LET later == {i \in Keys \ {k} : After(sh.order, i, j)}
              IN  /\ BytesOf(sh.order, later \cup {j}) + b > m
                  /\ e.index \ {k} \subseteq later
  <2>1. PICK p \in 1..n : o[p].key = j
    <3>1. PICK l \in DOMAIN u : u[l].key = j
      <4>1. j \in KeysIn(u)
        BY <1>1, <1>5, <1>17
      <4>2. QED
        BY <4>1 DEF KeysIn
    <3>2. l \in 1..Len(u)
      OBVIOUS
    <3>3. QED
      BY <1>9, <3>1, <3>2
  <2>2. Len(q) < p
    <3>1. SUFFICES ASSUME p <= Len(q) PROVE FALSE
      BY <1>13
    <3>2. p \in DOMAIN q /\ q[p] = o[p]
      BY <1>13, <3>1
    <3>3. QED
      BY <1>3, <1>17, <2>1, <3>2 DEF KeysIn
  <2>3. \A i : i # k => (After(o, i, j) <=> After(sh.order, i, j))
    BY <1>1, <1>4, <1>17 DEF UsedInOrder
  <2>4. PICK later : later = {i \in Keys \ {k} : After(sh.order, i, j)}
    OBVIOUS
  <2>5. ASSUME NEW l \in 1..n PROVE o[l].key \in (later \cup {j}) \cup {k} <=> l <= p
    <3>1. l \in 1..Len(o) /\ p \in 1..Len(o) /\ o[l].key \in Keys
      BY <1>8, NodeFields
    <3>2. After(o, o[l].key, j) <=> l < p
      BY <2>1, <3>1, <1>4, AfterMeansBehind
    <3>3. o[l].key = j <=> l = p
      BY <1>4, <1>8, <2>1 DEF Distinct
    <3>4. o[l].key = k <=> l = 1
      <4>1. 1 \in DOMAIN o /\ l \in DOMAIN o /\ o[1].key = k
        BY <1>6, <1>8, <1>9
      <4>2. QED
        BY <1>4, <4>1 DEF Distinct
    <3>5. o[l].key # k => (o[l].key \in later <=> l < p)
      BY <2>3, <2>4, <3>1, <3>2
    <3>6. QED
      BY <2>1, <2>4, <3>3, <3>4, <3>5
  <2>6. BytesOf(o, (later \cup {j}) \cup {k}) = h[p]
    <3>1. PICK ks : ks = (later \cup {j}) \cup {k}
      OBVIOUS
    <3>2. p \in 0..Len(o) /\ \A l \in 1..Len(o) : o[l].key \in ks <=> l <= p
      BY <1>8, <2>5, <3>1
    <3>3. Sums(h, Weights(o))
      BY <1>10, <1>12
    <3>4. BytesOf(o, ks) = h[p]
      BY ONLY <3>2, <3>3, FrontSize, o \in Seq(Nodes)
    <3>5. QED
      BY <3>1, <3>4
  <2>7. BytesOf(o, (later \cup {j}) \cup {k}) = b + BytesOf(u, later \cup {j})
    <3>1. PICK ks : ks = later \cup {j}
      OBVIOUS
    <3>2. x.key \notin KeysIn(u)
      BY <1>1, <1>5, <1>6
    <3>3. BytesOf(<<x>> \o u, ks \cup {x.key}) = x.bytes + BytesOf(u, ks)
      BY ONLY <3>2, CountedCons, x \in Nodes, u \in Seq(Nodes)
    <3>4. QED
      BY <1>6, <1>7, <3>1, <3>3
  <2>8. BytesOf(u, later \cup {j}) = BytesOf(sh.order, later \cup {j})
    BY <1>1, <1>5, <1>17, <2>4
  <2>9. h[p] > m
    <3>1. PICK c \in Nat : c = Len(q) + 1
      BY <1>13
    <3>2. h[c] > m /\ c \in 0..Len(ms) /\ p \in 0..Len(ms) /\ c <= p
      BY <1>11, <1>13, <2>1, <2>2, <3>1
    <3>3. h[c] <= h[p]
      <4>1. \A l \in 1..Len(ms) : ms[l] >= 0
        BY <1>11
      <4>2. QED
        BY ONLY <1>11, <1>12, <3>2, <4>1, SumsGrow
    <3>4. h[c] \in Int /\ h[p] \in Int
      BY <1>12, <3>2 DEF Sums
    <3>5. QED
      BY <3>2, <3>3, <3>4
  <2>10. BytesOf(u, later \cup {j}) \in Int
    BY CountedType
  <2>11. BytesOf(sh.order, later \cup {j}) + b > m
    BY <1>14, <2>6, <2>7, <2>8, <2>9, <2>10
  <2>12. e.index \ {k} \subseteq later
    <3>1. SUFFICES ASSUME NEW i \in e.index \ {k} PROVE i \in later
      OBVIOUS
    <3>2. PICK l \in DOMAIN q : q[l].key = i
      BY <1>3 DEF KeysIn
    <3>3. l \in 1..Len(o) /\ p \in 1..Len(o) /\ l < p /\ o[l].key = i
      <4>1. l \in 1..Len(q)
        BY <3>2
      <4>2. q[l] = o[l]
        BY <1>13, <4>1
      <4>3. l <= Len(q) /\ l \in Nat /\ l >= 1
        BY <1>13, <4>1
      <4>4. QED
        BY <1>8, <1>13, <2>2, <3>2, <4>2, <4>3
    <3>4. After(o, i, j)
      BY <1>4, <2>1, <3>3, AfterMeansBehind
    <3>5. QED
      BY <1>3, <2>3, <2>4, <3>4
  <2>13. QED
    BY <2>4, <2>11, <2>12
<1>18. QED
  BY <1>1, <1>2, <1>16, <1>17

-----------------------------------------------------------------------------
(* The lists are in the order of use.                                      *)

UseOrder ==
    /\ usedLater \subseteq Keys \X Keys
    /\ \A i, j \in Keys : <<i, j>> \in usedLater <=> After(shard[ShardOf[i]].order, i, j)

\* The invariant of the cache with the order of use.
UseInv == CacheInv /\ UseOrder

LEMMA SaneOrder ==
    ASSUME NEW sh, Sane(sh)
    PROVE  /\ sh.order \in Seq(Nodes) /\ Distinct(sh.order) /\ sh.index = KeysIn(sh.order)
           /\ \A i, j : After(sh.order, i, j) => i \in sh.index /\ j \in sh.index
<1>1. sh.order \in Seq(Nodes) /\ Distinct(sh.order) /\ sh.index = KeysIn(sh.order)
  BY DEF Sane, ShardRecords
<1>2. QED
  BY <1>1, AfterFacts

LEMMA SameOrderKept ==
    ASSUME NEW sh, Sane(sh)
    PROVE  OrderKept(sh.order, sh.order)
<1>1. sh.index = KeysIn(sh.order) /\ \A i, j : After(sh.order, i, j) => i \in sh.index /\ j \in sh.index
  BY SaneOrder
<1>2. QED
  BY <1>1 DEF OrderKept

LEMMA EvictKeepsOrder ==
    ASSUME NEW sh, Sane(sh), NEW m \in Nat
    PROVE  OrderKept(EvictToFit(sh, m).order, sh.order)
<1>1. PICK e : e = EvictToFit(sh, m) /\ Sane(e)
  BY EvictToFitFacts
<1>2. PICK o \in Seq(Nodes) : o = sh.order /\ Distinct(o)
  BY SaneOrder
<1>3. PICK q \in Seq(Nodes) : q = e.order
  BY <1>1, SaneOrder
<1>4. PICK h : Sums(h, Weights(sh.order))
  <2>1. PICK ns : ns = Weights(o) /\ ns \in Seq(Int)
    BY WeightsType
  <2>2. \E h : Sums(h, ns)
    BY <2>1, TotalIsSum
  <2>3. QED
    BY <1>2, <2>1, <2>2
<1>5. LET r == EvictToFit(sh, m).order
      IN  /\ Len(r) <= Len(sh.order)
          /\ \A l \in 1..Len(r) : r[l] = sh.order[l]
  BY ONLY <1>4, EvictsFromBack, Sane(sh), m \in Nat
<1>6. Len(q) <= Len(o) /\ \A l \in 1..Len(q) : q[l] = o[l]
  BY ONLY <1>1, <1>2, <1>3, <1>5
<1>7. ASSUME NEW l \in DOMAIN q, NEW n \in DOMAIN q, l < n PROVE After(o, q[l].key, q[n].key)
  <2>1. l \in 1..Len(q) /\ n \in 1..Len(q)
    OBVIOUS
  <2>2. l \in DOMAIN o /\ n \in DOMAIN o /\ q[l] = o[l] /\ q[n] = o[n]
    BY <1>6, <2>1
  <2>3. QED
    BY <1>7, <2>2 DEF After
<1>8. Follows(q, o)
  BY <1>7 DEF Follows
<1>9. OrderKept(q, o)
  BY <1>2, <1>8, FollowsKeeps
<1>10. QED
  BY <1>1, <1>2, <1>3, <1>9

\* A step changes the list of one shard, and the history says the same of it.
UsedMatches(s, e, used) ==
    /\ used \subseteq Keys \X Keys
    /\ \A i, j \in Keys : ShardOf[i] # s /\ ShardOf[j] # s =>
                            (<<i, j>> \in used <=> <<i, j>> \in usedLater)
    /\ \A i, j \in Keys : ShardOf[i] # s /\ ShardOf[j] = s => <<i, j>> \notin used
    /\ \A i, j \in Keys : ShardOf[i] = s =>
                            (After(e.order, i, j) <=> <<i, j>> \in used /\ {i, j} \subseteq e.index)
Changes(s, e) == shard' = [shard EXCEPT ![s] = e]

LEMMA OrderStep ==
    ASSUME UseInv, NEW s \in Shards, NEW e, Changes(s, e), NEW used, UsedMatches(s, e, used),
           NEW g, Recorded(used, g)
    PROVE  UseOrder'
<1> USE DEF UsedMatches
<1>1. \A t \in Shards : /\ shard'[t] = IF t = s THEN e ELSE shard[t]
                        /\ Sane(shard[t])
                        /\ \A i \in shard[t].index : ShardOf[i] = t
  BY DEF Changes, UseInv, CacheInv, ShardsGood, Good, Sane
<1>2. usedLater' = {p \in used : {p[1], p[2]} \subseteq shard'[ShardOf[p[1]]].index}
  BY DEF Recorded
<1>3. ASSUME NEW i \in Keys, NEW j \in Keys
      PROVE  <<i, j>> \in usedLater' <=> <<i, j>> \in used /\ {i, j} \subseteq shard'[ShardOf[i]].index
  <2>1. PICK p : p = <<i, j>>
    OBVIOUS
  <2>2. p[1] = i /\ p[2] = j
    BY ONLY <2>1
  <2>3. p \in usedLater' <=> p \in used /\ {p[1], p[2]} \subseteq shard'[ShardOf[p[1]]].index
    BY <1>2
  <2>4. QED
    BY ONLY <2>1, <2>2, <2>3
<1>4. ASSUME NEW i \in Keys, NEW j \in Keys
      PROVE  <<i, j>> \in usedLater' <=> After(shard'[ShardOf[i]].order, i, j)
  <2>1. PICK t \in Shards : t = ShardOf[i]
    BY HashIsShard
  <2>2. CASE t = s
    <3>1. shard'[t] = e
      BY <1>1, <2>2
    <3>2. QED
      <4>1. After(e.order, i, j) <=> <<i, j>> \in used /\ {i, j} \subseteq e.index
        BY <2>1, <2>2
      <4>2. <<i, j>> \in usedLater' <=> <<i, j>> \in used /\ {i, j} \subseteq shard'[ShardOf[i]].index
        BY <1>3
      <4>3. QED
        BY ONLY <2>1, <2>2, <3>1, <4>1, <4>2
  <2>3. CASE t # s
    <3>1. shard'[t] = shard[t] /\ Sane(shard[t])
      BY <1>1, <2>3
    <3>2. <<i, j>> \in usedLater <=> After(shard[t].order, i, j)
      BY <2>1 DEF UseInv, UseOrder
    <3>3. After(shard[t].order, i, j) => i \in shard[t].index /\ j \in shard[t].index
      BY <3>1, SaneOrder
    <3>4. j \in shard[t].index => ShardOf[j] = t
      BY <1>1
    <3>5. CASE ShardOf[j] = s
      BY <1>3, <2>1, <2>3, <3>1, <3>3, <3>4, <3>5
    <3>6. CASE ShardOf[j] # s
      <4>1. <<i, j>> \in used <=> <<i, j>> \in usedLater
        BY <2>1, <2>3, <3>6
      <4>2. QED
        BY <1>3, <2>1, <3>1, <3>2, <3>3, <4>1
    <3>7. QED
      BY <3>5, <3>6
  <2>4. QED
    BY <2>2, <2>3
<1>5. usedLater' \subseteq Keys \X Keys
  BY <1>2
<1>6. UseOrder' <=> /\ usedLater' \subseteq Keys \X Keys
                    /\ \A i, j \in Keys : <<i, j>> \in usedLater' <=> After(shard'[ShardOf[i]].order, i, j)
  BY DEF UseOrder, After
<1>7. QED
  BY <1>4, <1>5, <1>6

\* erase(), purge() and sweepExpired() keep the order.
LEMMA TrimKeepsUse ==
    ASSUME UseInv, NEW s \in Shards, NEW e, Sane(e), Changes(s, e),
           OrderKept(e.order, shard[s].order), NEW g, Recorded(usedLater, g)
    PROVE  UseOrder'
<1>1. usedLater \subseteq Keys \X Keys
  BY DEF UseInv, UseOrder
<1>2. /\ \A t \in Shards : Sane(shard[t]) /\ \A i \in shard[t].index : ShardOf[i] = t
      /\ \A i \in Keys : ShardOf[i] \in Shards
  BY HashIsShard DEF UseInv, CacheInv, ShardsGood, Good, Sane
<1>3. \A i, j \in Keys : <<i, j>> \in usedLater <=> After(shard[ShardOf[i]].order, i, j)
  BY ONLY UseInv, Zenon DEF UseInv, UseOrder
<1>4. \A i, j \in Keys : ShardOf[i] # s /\ ShardOf[j] = s => <<i, j>> \notin usedLater
  BY <1>2, <1>3, SaneOrder
<1>5. ASSUME NEW i \in Keys, NEW j \in Keys, ShardOf[i] = s
      PROVE  After(e.order, i, j) <=> <<i, j>> \in usedLater /\ {i, j} \subseteq e.index
  <2>1. e.index = KeysIn(e.order)
    BY SaneOrder
  <2>2. <<i, j>> \in usedLater <=> After(shard[s].order, i, j)
    BY <1>3, <1>5
  <2>3. After(e.order, i, j) <=> After(shard[s].order, i, j) /\ i \in KeysIn(e.order) /\ j \in KeysIn(e.order)
    BY DEF OrderKept
  <2>4. QED
    BY <2>1, <2>2, <2>3
<1>6. QED
  <2>1. UsedMatches(s, e, usedLater)
    BY <1>1, <1>4, <1>5 DEF UsedMatches
  <2>2. QED
    BY <2>1, OrderStep

\* What e has of the keys of sh is in the order that the use of k makes of it.
UsedKept(e, sh, k) ==
    \A i, j : After(e.order, i, j) <=>
                /\ i \in e.index /\ j \in e.index
                /\ (i = k /\ j \in sh.index \ {k}) \/ (After(sh.order, i, j) /\ k \notin {i, j})

\* get() and put() use their key, and keep the order of what else they leave.
LEMMA UseKeepsUse ==
    ASSUME UseInv, NEW k \in Keys, NEW e, Sane(e), Changes(ShardOf[k], e),
           UsedKept(e, shard[ShardOf[k]], k), NEW g, Recorded(Used(k), g)
    PROVE  UseOrder'
<1>1. PICK s \in Shards : s = ShardOf[k]
  BY HashIsShard
<1>2. PICK sh : sh = shard[s] /\ Sane(sh) /\ sh.index \subseteq Keys
  BY DEF UseInv, CacheInv, ShardsGood, Good, Sane, ShardRecords
<1>3. usedLater \subseteq Keys \X Keys
  BY DEF UseInv, UseOrder
<1>4. Used(k) \subseteq Keys \X Keys
  BY <1>1, <1>2, <1>3 DEF Used
<1>5. \A i, j : <<i, j>> \in Used(k) <=> \/ <<i, j>> \in usedLater /\ k \notin {i, j}
                                         \/ i = k /\ j \in sh.index \ {k}
  BY <1>1, <1>2 DEF Used
<1>6. /\ \A t \in Shards : Sane(shard[t]) /\ \A i \in shard[t].index : ShardOf[i] = t
      /\ \A i \in Keys : ShardOf[i] \in Shards
  BY HashIsShard DEF UseInv, CacheInv, ShardsGood, Good, Sane
<1>7. \A i, j \in Keys : <<i, j>> \in usedLater <=> After(shard[ShardOf[i]].order, i, j)
  BY ONLY UseInv, Zenon DEF UseInv, UseOrder
<1>8. \A i, j \in Keys : ShardOf[i] # s /\ ShardOf[j] # s =>
                           (<<i, j>> \in Used(k) <=> <<i, j>> \in usedLater)
  BY <1>1, <1>5
<1>9. \A i, j \in Keys : ShardOf[i] # s /\ ShardOf[j] = s => <<i, j>> \notin Used(k)
  <2>1. \A i, j \in Keys : ShardOf[i] # s /\ ShardOf[j] = s => <<i, j>> \notin usedLater
    BY <1>6, <1>7, SaneOrder
  <2>2. QED
    BY <1>1, <1>5, <2>1
<1>10. ASSUME NEW i \in Keys, NEW j \in Keys, ShardOf[i] = s
       PROVE  After(e.order, i, j) <=> <<i, j>> \in Used(k) /\ {i, j} \subseteq e.index
  <2>1. <<i, j>> \in usedLater <=> After(sh.order, i, j)
    BY <1>2, <1>7, <1>10
  <2>2. After(e.order, i, j) <=>
          /\ i \in e.index /\ j \in e.index
          /\ (i = k /\ j \in sh.index \ {k}) \/ (After(sh.order, i, j) /\ k \notin {i, j})
    BY <1>1, <1>2 DEF UsedKept
  <2>3. QED
    BY <1>5, <2>1, <2>2
<1>11. Changes(s, e)
  BY <1>1
<1>12. QED
  <2>1. UsedMatches(s, e, Used(k))
    BY <1>4, <1>8, <1>9, <1>10 DEF UsedMatches
  <2>2. QED
    BY <1>11, <2>1, OrderStep

\* What each call makes of its shard's list.
LEMMA GetUse ==
    ASSUME UseInv, NEW k \in Keys, Get(k)
    PROVE  UseOrder'
<1>1. PICK s \in Shards : s = ShardOf[k]
  BY HashIsShard
<1>2. PICK sh : sh = shard[s] /\ Sane(sh)
  BY DEF UseInv, CacheInv, ShardsGood, Good, Sane
<1>3. PICK e : e = LruGet(sh, k) /\ Sane(e)
  BY <1>2, GetFacts
<1>4. Changes(s, e) /\ Recorded(Used(k), lastPut)
  BY <1>1, <1>2, <1>3 DEF Get, Changes
<1>5. UsedKept(e, sh, k)
  <2>1. CASE k \in sh.index
    <3>1. PICK x \in Nodes : x = NodeOf(sh.order, k) /\ x.key = k
      BY <1>2, <2>1, SaneOrder, NodeOfFacts
    <3>2. e.order = <<x>> \o Without(sh, k).order
      BY <1>3, <2>1, <3>1 DEF LruGet, ToFront
    <3>3. UsedInOrder(e.order, sh, k)
      BY <1>2, <3>1, <3>2, UsedOrder
    <3>4. \A i, j : After(e.order, i, j) => i \in e.index /\ j \in e.index
      BY <1>3, SaneOrder
    <3>5. QED
      BY <3>3, <3>4 DEF UsedKept, UsedInOrder
  <2>2. CASE k \notin sh.index
    <3>1. e = sh
      BY <1>3, <2>2 DEF LruGet
    <3>2. \A i, j : After(sh.order, i, j) => i \in sh.index /\ j \in sh.index
      BY <1>2, SaneOrder
    <3>3. QED
      BY <2>2, <3>1, <3>2 DEF UsedKept
  <2>3. QED
    BY <2>1, <2>2
<1>6. Changes(ShardOf[k], e) /\ UsedKept(e, shard[ShardOf[k]], k)
  BY <1>1, <1>2, <1>4, <1>5
<1>7. QED
  BY <1>3, <1>4, <1>6, UseKeepsUse

LEMMA PutUse ==
    ASSUME UseInv, NEW k \in Keys, NEW b \in Sizes, Put(k, b)
    PROVE  UseOrder'
<1>1. PICK s \in Shards : s = ShardOf[k]
  BY HashIsShard
<1>2. PICK sh : sh = shard[s] /\ Sane(sh)
  BY DEF UseInv, CacheInv, ShardsGood, Good, Sane
<1>3. PerShard \in Nat
  BY ShardsFacts
<1>4. PICK w, z : PutSteps(w, z, sh, k, b, PerShard)
  BY <1>2, <1>3, PutParts
<1>5. Sane(z) /\ UsedInOrder(z.order, sh, k) /\ LruPut(sh, k, b, PerShard) = EvictToFit(z, PerShard)
  BY <1>4 DEF PutSteps
<1>6. PICK e : e = LruPut(sh, k, b, PerShard)
  OBVIOUS
<1>7. Sane(e) /\ OrderKept(e.order, z.order)
  BY <1>3, <1>5, <1>6, EvictToFitFacts, EvictKeepsOrder
<1>8. Changes(s, e) /\ Recorded(Used(k), [lastPut EXCEPT ![k] = b])
  BY <1>1, <1>2, <1>6 DEF Put, Changes
<1>9. UsedKept(e, sh, k)
  <2>1. e.index = KeysIn(e.order)
    BY <1>7, SaneOrder
  <2>2. QED
    BY <1>5, <1>7, <2>1 DEF UsedKept, UsedInOrder, OrderKept
<1>10. Changes(ShardOf[k], e) /\ UsedKept(e, shard[ShardOf[k]], k)
  BY <1>1, <1>2, <1>8, <1>9
<1>11. QED
  BY <1>7, <1>8, <1>10, UseKeepsUse

\* Taking nodes out keeps the order of the others.
LEMMA RemoveUse ==
    ASSUME UseInv, NEW s \in Shards, NEW out, Changes(s, RemoveNodes(shard[s], out)),
           Recorded(usedLater, lastPut)
    PROVE  UseOrder'
<1>1. PICK sh : sh = shard[s] /\ Sane(sh)
  BY DEF UseInv, CacheInv, ShardsGood, Good, Sane
<1>2. PICK e : e = RemoveNodes(sh, out)
  OBVIOUS
<1>3. Sane(e) /\ OrderKept(e.order, sh.order)
  BY <1>1, <1>2, RemoveFacts, RemoveKeepsOrder
<1>4. Changes(s, e) /\ OrderKept(e.order, shard[s].order)
  BY <1>1, <1>2, <1>3
<1>5. QED
  BY <1>3, <1>4, TrimKeepsUse

LEMMA EraseUse ==
    ASSUME UseInv, NEW k \in Keys, Erase(k)
    PROVE  UseOrder'
<1>1. PICK s \in Shards : s = ShardOf[k]
  BY HashIsShard
<1>2. Recorded(usedLater, lastPut) /\ Changes(s, LruErase(shard[s], k))
  BY <1>1 DEF Erase, Changes
<1>3. CASE k \in shard[s].index
  <2>1. PICK out : out = {n \in Range(shard[s].order) : n.key = k}
    OBVIOUS
  <2>2. Changes(s, RemoveNodes(shard[s], out))
    BY <1>2, <1>3, <2>1 DEF LruErase, Without
  <2>3. QED
    BY <1>2, <2>2, RemoveUse
<1>4. CASE k \notin shard[s].index
  <2>1. Changes(s, shard[s])
    BY <1>2, <1>4 DEF LruErase
  <2>2. Sane(shard[s])
    BY DEF UseInv, CacheInv, ShardsGood, Good, Sane
  <2>3. OrderKept(shard[s].order, shard[s].order)
    BY <2>2, SameOrderKept
  <2>4. QED
    BY <1>2, <2>1, <2>2, <2>3, TrimKeepsUse
<1>5. QED
  BY <1>3, <1>4

LEMMA ExpireUse ==
    ASSUME UseInv, NEW k \in Keys, Expire(k)
    PROVE  UseOrder'
<1>1. PICK s \in Shards : s = ShardOf[k]
  BY HashIsShard
<1>2. ShardsGood
  BY DEF UseInv, CacheInv
<1>3. PICK e : /\ Changes(s, e)
               /\ e.order \in Seq(Nodes) /\ Len(e.order) = Len(shard[s].order)
               /\ \A j \in 1..Len(e.order) : e.order[j].key = shard[s].order[j].key
  <2>1. PICK e : /\ shard' = [shard EXCEPT ![s] = e]
                 /\ Good(s, e)
                 /\ e.index = shard[s].index
                 /\ e.order \in Seq(Nodes) /\ Len(e.order) = Len(shard[s].order)
                 /\ \A j \in 1..Len(e.order) :
                      /\ e.order[j].key = shard[s].order[j].key
                      /\ e.order[j].bytes = shard[s].order[j].bytes
    BY <1>1, <1>2, ExpireFacts
  <2>2. QED
    BY <2>1 DEF Changes
<1>4. PICK o \in Seq(Nodes) : o = shard[s].order
  BY <1>2 DEF ShardsGood, Good, Sane, ShardRecords
<1>5. PICK q \in Seq(Nodes) : q = e.order
  BY <1>3
<1>6. DOMAIN q = DOMAIN o /\ \A j \in DOMAIN o : q[j].key = o[j].key
  <2>1. DOMAIN q = 1..Len(q) /\ DOMAIN o = 1..Len(o) /\ Len(q) = Len(o)
    BY <1>3, <1>4, <1>5
  <2>2. \A j \in 1..Len(q) : q[j].key = o[j].key
    BY <1>3, <1>4, <1>5
  <2>3. QED
    BY ONLY <2>1, <2>2
<1>7. \A i, j : After(q, i, j) <=> After(o, i, j)
  BY ONLY <1>6 DEF After
<1>8. \A t \in Shards : shard'[t] = IF t = s THEN e ELSE shard[t]
  BY <1>2, <1>3 DEF Changes, ShardsGood
<1>9. usedLater' = usedLater
  BY DEF Expire
<1>10. ASSUME NEW i \in Keys, NEW j \in Keys
       PROVE  <<i, j>> \in usedLater <=> After(shard'[ShardOf[i]].order, i, j)
  <2>1. PICK t \in Shards : t = ShardOf[i]
    BY HashIsShard
  <2>2. <<i, j>> \in usedLater <=> After(shard[ShardOf[i]].order, i, j)
    BY DEF UseInv, UseOrder
  <2>3. After(shard'[t].order, i, j) <=> After(shard[t].order, i, j)
    BY <1>4, <1>5, <1>7, <1>8
  <2>4. QED
    BY <2>1, <2>2, <2>3
<1>11. usedLater \subseteq Keys \X Keys
  BY DEF UseInv, UseOrder
<1>12. UseOrder' <=> /\ usedLater' \subseteq Keys \X Keys
                     /\ \A i, j \in Keys : <<i, j>> \in usedLater' <=> After(shard'[ShardOf[i]].order, i, j)
  BY DEF UseOrder, After
<1>13. QED
  BY <1>9, <1>10, <1>11, <1>12

LEMMA UseInitInv == Init => UseInv
<1>1. SUFFICES ASSUME Init PROVE UseOrder
  BY CacheInitInv DEF UseInv
<1>2. usedLater = {} /\ shard = [s \in Shards |-> EmptyShard]
  BY <1>1 DEF Init
<1>3. \A i, j : ~After(EmptyShard.order, i, j)
  <2>1. PICK e : e = <<>> /\ DOMAIN e = {}
    OBVIOUS
  <2>2. EmptyShard.order = e
    BY <2>1 DEF EmptyShard
  <2>3. QED
    BY <2>1, <2>2 DEF After
<1>4. \A i \in Keys : shard[ShardOf[i]] = EmptyShard
  BY <1>2, HashIsShard
<1>5. QED
  BY <1>2, <1>3, <1>4 DEF UseOrder

LEMMA UseNextInv == UseInv /\ [Next]_vars => UseInv'
<1>1. SUFFICES ASSUME UseInv, [Next]_vars PROVE UseOrder'
  BY CacheNextInv DEF UseInv
<1>2. CASE \E k \in Keys : Get(k)
  BY <1>1, <1>2, GetUse
<1>3. CASE \E k \in Keys : Erase(k)
  BY <1>1, <1>3, EraseUse
<1>4. CASE \E k \in Keys : Expire(k)
  BY <1>1, <1>4, ExpireUse
<1>5. CASE \E k \in Keys, b \in Sizes : Put(k, b)
  BY <1>1, <1>5, PutUse
<1>6. CASE PurgeShard
  <2>1. PICK s \in Shards : s = purge.next
    BY <1>1, <1>6 DEF UseInv, CacheInv, Loops, PurgeShard
  <2>2. PICK out : out = {n \in Range(shard[s].order) : n.key \in {k \in Keys : <<purge.pattern, k>> \in Purged}}
    OBVIOUS
  <2>3. Changes(s, RemoveNodes(shard[s], out)) /\ Recorded(usedLater, lastPut)
    BY <1>6, <2>1, <2>2 DEF PurgeShard, LruPurge, Changes
  <2>4. QED
    BY <1>1, <2>3, RemoveUse
<1>7. CASE SweepShard
  <2>1. PICK s \in Shards : s = sweep
    BY <1>1, <1>7 DEF UseInv, CacheInv, Loops, SweepShard
  <2>2. PICK out : out = {n \in Range(shard[s].order) : ~n.live}
    OBVIOUS
  <2>3. Changes(s, RemoveNodes(shard[s], out)) /\ Recorded(usedLater, lastPut)
    BY <1>7, <2>1, <2>2 DEF SweepShard, LruSweepExpired, Changes
  <2>4. QED
    BY <1>1, <2>3, RemoveUse
<1>8. CASE SweepBegin \/ UNCHANGED vars \/ \E p \in Patterns : PurgeBegin(p)
  <2>1. UNCHANGED <<shard, usedLater>>
    BY <1>8 DEF SweepBegin, PurgeBegin, vars
  <2>2. QED
    BY <1>1, <2>1 DEF UseInv, UseOrder, After
<1>9. QED
  BY <1>1, <1>2, <1>3, <1>4, <1>5, <1>6, <1>7, <1>8 DEF Next

\* put() of an entry that fits in a shard keeps it, and evicts a key only if that key, those
\* of its shard used later and the new entry are too much together; with it go all that were
\* used before.  No hits, overwrites, erasures, purges or sweeps disturb that order.
THEOREM EvictionIsLeastRecent == Spec => EvictsLeastRecent
<1>1. Spec => []UseInv
  BY UseInitInv, UseNextInv, PTL DEF Spec
<1>2. ASSUME UseInv, NEW k \in Keys, NEW b \in Sizes, Put(k, b), ~(b > PerShard)
      PROVE  EvictedRightly(k, b)
  <2>1. PICK s \in Shards : s = ShardOf[k]
    BY HashIsShard
  <2>2. PICK sh : sh = shard[s] /\ Sane(sh)
    BY <1>2 DEF UseInv, CacheInv, ShardsGood, Good, Sane
  <2>3. PerShard \in Nat /\ b <= PerShard
    <3>1. PerShard \in Nat /\ b \in Nat
      BY ShardsFacts, SizesArePositive
    <3>2. QED
      BY <1>2, <3>1
  <2>4. PICK e : e = LruPut(sh, k, b, PerShard)
    OBVIOUS
  <2>5. LET p == LruPut(sh, k, b, PerShard)
        IN  /\ k \in p.index
            /\ \A j \in sh.index \ {k} : j \notin p.index =>
                 LET later == {i \in Keys \ {k} : After(sh.order, i, j)}
                 IN  /\ BytesOf(sh.order, later \cup {j}) + b > PerShard
                     /\ p.index \ {k} \subseteq later
    BY ONLY <2>2, <2>3, PutEvicts, k \in Keys, b \in Sizes
  <2>6. \A t \in Shards : shard'[t] = IF t = s THEN e ELSE shard[t]
    BY <1>2, <2>1, <2>2, <2>4 DEF Put, UseInv, CacheInv, ShardsGood
  <2>7. (Present(k))'
    BY <2>1, <2>4, <2>5, <2>6 DEF Present
  <2>8. ASSUME NEW j \in Keys \ {k}, Present(j), ~(Present(j))'
        PROVE  LET later == {i \in Keys \ {k} : <<i, j>> \in usedLater}
               IN  /\ ShardOf[j] = s
                   /\ BytesOf(shard[s].order, later \cup {j}) + b > PerShard
                   /\ shard'[s].index \ {k} \subseteq later
    <3>1. ShardOf[j] \in Shards
      BY HashIsShard
    <3>2. ShardOf[j] = s
      BY <2>6, <2>8, <3>1 DEF Present
    <3>3. j \in sh.index \ {k} /\ j \notin e.index
      BY <2>2, <2>6, <2>8, <3>2 DEF Present
    <3>4. PICK later : later = {i \in Keys \ {k} : After(sh.order, i, j)}
      OBVIOUS
    <3>5. BytesOf(sh.order, later \cup {j}) + b > PerShard /\ e.index \ {k} \subseteq later
      BY ONLY <2>4, <2>5, <3>3, <3>4
    <3>6. later = {i \in Keys \ {k} : <<i, j>> \in usedLater}
      <4>1. ASSUME NEW i \in Keys PROVE <<i, j>> \in usedLater <=> After(sh.order, i, j)
        <5>1. PICK t \in Shards : t = ShardOf[i]
          BY HashIsShard
        <5>2. <<i, j>> \in usedLater <=> After(shard[t].order, i, j)
          BY <1>2, <5>1 DEF UseInv, UseOrder
        <5>3. CASE t = s
          BY <2>2, <5>2, <5>3
        <5>4. CASE t # s
          <6>1. Sane(shard[t]) /\ \A c \in shard[t].index : ShardOf[c] = t
            BY <1>2 DEF UseInv, CacheInv, ShardsGood, Good, Sane
          <6>2. ~After(shard[t].order, i, j)
            BY <3>2, <5>4, <6>1, SaneOrder
          <6>3. \A c \in sh.index : ShardOf[c] = s
            BY <1>2, <2>2 DEF UseInv, CacheInv, ShardsGood, Good
          <6>4. ~After(sh.order, i, j)
            BY <2>2, <5>1, <5>4, <6>3, SaneOrder
          <6>5. QED
            BY <5>2, <6>2, <6>4
        <5>5. QED
          BY <5>3, <5>4
      <4>2. QED
        BY <3>4, <4>1
    <3>7. shard'[s] = e
      BY <2>6
    <3>8. QED
      BY <2>2, <3>2, <3>5, <3>6, <3>7
  <2>9. QED
    BY <2>1, <2>7, <2>8 DEF EvictedRightly
<1>3. UseInv => \A k \in {i \in Keys : shard'[ShardOf[i]] # shard[ShardOf[i]]}, b \in Sizes :
                  EvictedRightly(k, b) \/ b > PerShard \/ ~Put(k, b)
  BY <1>2
<1>4. QED
  BY <1>1, <1>3, PTL DEF EvictsLeastRecent
=============================================================================
