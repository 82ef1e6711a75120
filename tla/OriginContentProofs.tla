-------------------------- MODULE OriginContentProofs --------------------------
(***************************************************************************)
(* The origin's content on its way into the caches and out of them.  That  *)
(* fetch() gives its descriptor back, that what is cached came from an     *)
(* exchange that was not cut short, and that the decision is the one the   *)
(* rules and the header ask for, for every set of responses and rules; and *)
(* when a purge of what was cached can be relied on, for any number of     *)
(* replicas, threads and concurrent purges.                                *)
(***************************************************************************)
EXTENDS OriginExchange, PurgePropagation, FiniteSetTheorems, WellFoundedInduction, TLAPS

-----------------------------------------------------------------------------
(* The operators of CachingDecision.                                       *)

\* A non-empty set of naturals has a least element, so that Min finds the first rule
\* and the first directive.
LEMMA MinIsLeast ==
    ASSUME NEW S \in SUBSET Nat, S # {}
    PROVE  Min(S) \in S /\ \A i \in S : Min(S) <= i
<1> DEFINE R == OpToRel(<, Nat)
<1>1. IsWellFoundedOn(R, Nat)
  BY NatLessThanWellFounded
<1>2. \A x, y \in Nat : <<y, x>> \in R <=> y < x
  BY DEF OpToRel
<1> HIDE DEF R
<1>3. PICK x \in S : \A y \in S : ~(<<y, x>> \in R)
  <2>1. S \subseteq Nat
    OBVIOUS
  <2>2. QED
    BY <1>1, <2>1, WFMin
<1>4. ASSUME NEW y \in S PROVE x <= y
  <2>1. ~(y < x)
    BY <1>2, <1>3
  <2>2. QED
    BY <2>1
<1>5. QED
  BY <1>4 DEF Min

Rules == [pattern : Seq(STRING), ttl : Nat, swr : Nat]
Header == Seq(Directives)

\* Longest pattern first, as std::sort leaves the rules.
InOrder(s) ==
    \A i, j \in DOMAIN s : i < j => Len(s[i].pattern) >= Len(s[j].pattern)

\* What replaceAll leaves is a sequence of rules with the longest pattern first.
LEMMA SortedInOrder ==
    ASSUME NEW rs \in RuleSets, NEW s \in Sorted(rs)
    PROVE  s \in Seq(Rules) /\ InOrder(s)
<1>1. IsFiniteSet(rs) /\ rs \subseteq Rules
  BY OriginAssumption DEF Rules
<1>2. Cardinality(rs) \in Nat
  BY <1>1, FS_CardinalityType
<1>3. s \in [1..Cardinality(rs) -> rs] /\ InOrder(s)
  BY DEF Sorted, SetToSeqs, InOrder
<1>4. QED
  BY <1>1, <1>2, <1>3

\* The rule that match() returns matches the path, and no rule that does has a longer
\* pattern; it returns nothing only if no rule matches.
LEMMA MatchIsLongest ==
    ASSUME NEW s \in Seq(Rules), InOrder(s)
    PROVE  LET m == Match(s, Path)
           IN  IF m = 0 THEN Longest(Range(s)) = {}
               ELSE m \in DOMAIN s /\ s[m] \in Longest(Range(s))
<1> DEFINE hits == {i \in DOMAIN s : Wildcard(s[i].pattern, Path)}
           m == Match(s, Path)
<1>1. DOMAIN s \subseteq Nat \ {0}
  OBVIOUS
<1>2. CASE hits = {}
  <2>1. m = 0
    BY <1>2 DEF Match
  <2>2. Longest(Range(s)) = {}
    BY <1>2 DEF Longest, Range
  <2>3. QED
    BY <2>1, <2>2
<1>3. CASE hits # {}
  <2>1. m = Min(hits)
    BY <1>3 DEF Match
  <2>2. hits \in SUBSET Nat
    BY <1>1
  <2>3. Min(hits) \in hits /\ \A i \in hits : Min(hits) <= i
    BY <1>3, <2>2, MinIsLeast
  <2>4. m \in DOMAIN s /\ Wildcard(s[m].pattern, Path) /\ m # 0
    BY <1>1, <2>1, <2>3
  <2>5. ASSUME NEW t \in Range(s), Wildcard(t.pattern, Path)
        PROVE  Len(t.pattern) <= Len(s[m].pattern)
    <3>1. PICK j \in DOMAIN s : t = s[j]
      BY DEF Range
    <3>2. j \in hits /\ m <= j
      BY <2>1, <2>3, <2>5, <3>1
    <3>3. s[m] \in Rules /\ s[j] \in Rules
      BY <2>4
    <3>4. CASE m = j
      BY <3>1, <3>3, <3>4 DEF Rules
    <3>5. CASE m < j
      BY <2>4, <3>1, <3>3, <3>5 DEF InOrder, Rules
    <3>6. QED
      BY <1>1, <2>4, <3>2, <3>4, <3>5
  <2>6. s[m] \in Range(s)
    BY <2>4 DEF Range
  <2>7. s[m] \in Longest(Range(s))
    BY <2>4, <2>5, <2>6 DEF Longest
  <2>8. QED
    BY <2>4, <2>7
<1>4. QED
  BY <1>2, <1>3

\* hasDirective finds the first occurrence of a name, which has the value FirstOf says.
LEMMA FirstValue ==
    ASSUME response.cc \in Header, NEW name
    PROVE  IF HasDirective(response.cc, name)
             THEN /\ FirstOf(name) = {response.cc[Min(Places(response.cc, name))].value}
                  /\ Min(Places(response.cc, name)) \in DOMAIN response.cc
             ELSE FirstOf(name) = {}
<1> DEFINE cc == response.cc
           places == Places(cc, name)
           first == Min(places)
<1>1. CASE places = {}
  BY <1>1 DEF HasDirective, FirstOf, Places
<1>2. CASE places # {}
  <2>1. DOMAIN cc = 1..Len(cc) /\ Len(cc) \in Nat
    BY DEF Header
  <2>2. places \in SUBSET Nat
    BY <2>1 DEF Places
  <2>3. first \in places /\ \A i \in places : first <= i
    BY <1>2, <2>2, MinIsLeast
  <2>4. first \in DOMAIN cc /\ cc[first].name = name
    BY <2>3 DEF Places
  <2>5. ASSUME NEW k \in 1..(first - 1) PROVE cc[k].name # name
    <3>1. k \in DOMAIN cc /\ k < first
      BY <2>1, <2>4
    <3>2. SUFFICES ASSUME cc[k].name = name PROVE FALSE
      OBVIOUS
    <3>3. k \in places
      BY <3>1, <3>2 DEF Places
    <3>4. QED
      BY <2>1, <2>3, <2>4, <3>1, <3>3
  <2>6. ASSUME NEW j \in DOMAIN cc, cc[j].name = name,
               \A k \in 1..(j - 1) : cc[k].name # name
        PROVE  j = first
    <3>1. j \in places
      BY <2>6 DEF Places
    <3>2. first <= j
      BY <2>3, <3>1
    <3>3. CASE first < j
      <4>1. first \in 1..(j - 1)
        BY <2>1, <2>4, <3>3
      <4>2. QED
        BY <2>4, <2>6, <4>1
    <3>4. QED
      BY <2>1, <2>4, <3>2, <3>3
  <2>7. {j \in DOMAIN cc : cc[j].name = name /\ \A k \in 1..(j - 1) : cc[k].name # name} = {first}
    BY <2>4, <2>5, <2>6
  <2>8. FirstOf(name) = {cc[first].value}
    BY <2>7 DEF FirstOf
  <2>9. QED
    BY <1>2, <2>4, <2>8 DEF HasDirective
<1>3. QED
  BY <1>1, <1>2

\* The value of a directive is a natural number or NoNumber.
LEMMA ValueType ==
    ASSUME NEW cc \in Header, NEW i \in DOMAIN cc
    PROVE  cc[i].value \in Nat \cup {NoNumber}
<1>1. cc[i] \in Directives
  BY DEF Header
<1>2. QED
  BY <1>1 DEF Directives

\* decision is one of those that says allows.
Follows(d, says) == IF says = {} THEN d = NotCached ELSE d \in says

\* HeaderBasedPolicy::decide does what HeaderSays says of the status and the header.
LEMMA HeaderFollows ==
    ASSUME response \in [status : Int, cc : Header]
    PROVE  Follows(HeaderDecide(response), HeaderSays)
<1> DEFINE cc == response.cc
           Has(name) == HasDirective(cc, name)
           at(name) == Min(Places(cc, name))
           forbidden == \E i \in DOMAIN cc : cc[i].name \in {"no-store", "private", "no-cache"}
           refused == ~StatusCacheable(response.status) \/ forbidden
<1>1. cc \in Header
  OBVIOUS
<1>2. forbidden <=> \E d \in {"no-store", "private", "no-cache"} : Has(d)
  BY DEF HasDirective, Places
<1>3. CASE refused
  <2>1. HeaderDecide(response) = NotCached
    BY <1>2, <1>3 DEF HeaderDecide
  <2>2. HeaderSays = {}
    BY <1>3 DEF HeaderSays
  <2>3. QED
    BY <2>1, <2>2 DEF Follows
<1>4. CASE ~refused
  <2>1. HeaderSays = {Decision(TRUE, t, 0) : t \in IF Lifetimes = {} THEN {DefaultTtl}
                                                   ELSE {t \in Lifetimes : t > 0}}
    BY <1>4 DEF HeaderSays
  <2>2. ASSUME NEW name, Has(name), Lifetimes = FirstOf(name),
               HeaderDecide(response) = IF DirectiveValue(cc, name) = 0 THEN NotCached
                                        ELSE Decision(TRUE, DirectiveValue(cc, name), 0)
        PROVE  Follows(HeaderDecide(response), HeaderSays)
    <3> DEFINE v == cc[at(name)].value
    <3>1. Lifetimes = {v} /\ at(name) \in DOMAIN cc
      BY <1>1, <2>2, FirstValue
    <3>2. v \in Nat \cup {NoNumber}
      BY <1>1, <3>1, ValueType
    <3>3. DirectiveValue(cc, name) = IF v = NoNumber THEN 0 ELSE v
      BY DEF DirectiveValue
    <3> HIDE DEF v
    <3>4. CASE v \in Nat /\ v > 0
      <4>1. HeaderDecide(response) = Decision(TRUE, v, 0)
        <5>1. v # NoNumber /\ v # 0
          BY <3>4 DEF NoNumber
        <5>2. DirectiveValue(cc, name) = v
          BY <3>3, <5>1
        <5>3. QED
          BY <2>2, <5>1, <5>2
      <4>2. HeaderSays = {Decision(TRUE, v, 0)}
        BY <2>1, <3>1, <3>4
      <4>3. QED
        BY <4>1, <4>2 DEF Follows
    <3>5. CASE v = 0 \/ v = NoNumber
      <4>1. HeaderDecide(response) = NotCached
        BY <2>2, <3>3, <3>5
      <4>2. {t \in Lifetimes : t > 0} = {}
        BY <3>1, <3>5 DEF NoNumber
      <4>3. HeaderSays = {}
        BY <2>1, <3>1, <4>2
      <4>4. QED
        BY <4>1, <4>3 DEF Follows
    <3>6. QED
      BY <3>2, <3>4, <3>5
  <2>3. ASSUME NEW name, Has(name) PROVE DirectiveValue(cc, name) \in Nat
    <3>1. at(name) \in DOMAIN cc
      BY <1>1, <2>3, FirstValue
    <3>2. cc[at(name)].value \in Nat \cup {NoNumber}
      BY <1>1, <3>1, ValueType
    <3>3. QED
      BY <3>2 DEF DirectiveValue
  <2>4. ~(\E d \in {"no-store", "private", "no-cache"} : Has(d)) /\ StatusCacheable(response.status)
    BY <1>2, <1>4
  <2>5. CASE Has("s-maxage")
    <3>1. Lifetimes = FirstOf("s-maxage")
      BY <1>1, <2>5, FirstValue DEF Lifetimes
    <3> DEFINE v == DirectiveValue(cc, "s-maxage")
    <3>2. v \in Nat
      BY <2>3, <2>5
    <3>3. HeaderDecide(response) = IF v = 0 THEN NotCached ELSE Decision(TRUE, v, 0)
      <4>1. HeaderDecide(response) = IF v < 0 THEN Decision(TRUE, DefaultTtl, 0)
                                     ELSE IF v = 0 THEN NotCached ELSE Decision(TRUE, v, 0)
        BY <2>4, <2>5 DEF HeaderDecide
      <4>2. ~(v < 0)
        BY <3>2
      <4>3. QED
        BY <4>1, <4>2
    <3>4. QED
      BY <2>2, <2>5, <3>1, <3>3
  <2>6. CASE ~Has("s-maxage") /\ Has("max-age")
    <3>1. Lifetimes = FirstOf("max-age")
      BY <1>1, <2>6, FirstValue DEF Lifetimes
    <3> DEFINE v == DirectiveValue(cc, "max-age")
    <3>2. v \in Nat
      BY <2>3, <2>6
    <3>3. HeaderDecide(response) = IF v = 0 THEN NotCached ELSE Decision(TRUE, v, 0)
      <4>1. HeaderDecide(response) = IF v < 0 THEN Decision(TRUE, DefaultTtl, 0)
                                     ELSE IF v = 0 THEN NotCached ELSE Decision(TRUE, v, 0)
        BY <2>4, <2>6 DEF HeaderDecide
      <4>2. ~(v < 0)
        BY <3>2
      <4>3. QED
        BY <4>1, <4>2
    <3>4. QED
      BY <2>2, <2>6, <3>1, <3>3
  <2>7. CASE ~Has("s-maxage") /\ ~Has("max-age")
    <3>1. Lifetimes = {}
      BY <1>1, <2>7, FirstValue DEF Lifetimes
    <3>2. HeaderDecide(response) = Decision(TRUE, DefaultTtl, 0)
      BY <2>4, <2>7 DEF HeaderDecide
    <3>3. HeaderSays = {Decision(TRUE, DefaultTtl, 0)}
      BY <2>1, <3>1
    <3>4. QED
      BY <3>2, <3>3 DEF Follows
  <2>8. QED
    BY <2>5, <2>6, <2>7
<1>5. QED
  BY <1>3, <1>4

\* RuleOverridePolicy::decide follows one of the longest rules of the set, or else the
\* header; a decision to cache is never for a server error.
LEMMA DecideFollows ==
    ASSUME response \in [status : Int, cc : Header], NEW s \in Seq(Rules), InOrder(s)
    PROVE  /\ \E says \in IF Longest(Range(s)) = {} THEN {HeaderSays}
                          ELSE {RuleSays(r) : r \in Longest(Range(s))} :
                Follows(Decide(s, Path, response), says)
           /\ Decide(s, Path, response).cacheable => response.status < 500
<1> DEFINE m == Match(s, Path)
           d == Decide(s, Path, response)
<1>1. ~NotCached.cacheable
  BY DEF NotCached, Decision
<1>2. CASE m = 0
  <2>1. Longest(Range(s)) = {}
    BY <1>2, MatchIsLongest
  <2>2. d = HeaderDecide(response)
    BY <1>2 DEF Decide
  <2>3. Follows(d, HeaderSays)
    BY <2>2, HeaderFollows
  <2>4. d.cacheable => response.status < 500
    <3>1. SUFFICES ASSUME d.cacheable PROVE response.status < 500
      OBVIOUS
    <3>2. StatusCacheable(response.status)
      BY <1>1, <2>2, <3>1 DEF HeaderDecide
    <3>3. QED
      BY <3>2 DEF StatusCacheable
  <2>5. QED
    BY <2>1, <2>3, <2>4
<1>3. CASE m # 0
  <2>1. m \in DOMAIN s /\ s[m] \in Longest(Range(s))
    BY <1>3, MatchIsLongest
  <2>2. s[m] \in Rules
    BY <2>1
  <2>3. s[m].ttl \in Nat /\ response.status \in Int
    BY <2>2 DEF Rules
  <2>4. d = IF s[m].ttl = 0 \/ response.status >= 500 THEN NotCached
            ELSE Decision(TRUE, s[m].ttl, s[m].swr)
    BY <1>3 DEF Decide
  <2>5. RuleSays(s[m]) = IF s[m].ttl > 0 /\ response.status < 500
                         THEN {Decision(TRUE, s[m].ttl, s[m].swr)} ELSE {}
    BY DEF RuleSays
  <2>6. (s[m].ttl = 0 \/ response.status >= 500) <=> ~(s[m].ttl > 0 /\ response.status < 500)
    BY <2>3
  <2>7. Follows(d, RuleSays(s[m]))
    BY <2>4, <2>5, <2>6 DEF Follows
  <2>8. d.cacheable => response.status < 500
    BY <1>1, <2>4, <2>6
  <2>9. QED
    BY <2>1, <2>7, <2>8
<1>4. QED
  BY <1>2, <1>3

-----------------------------------------------------------------------------
(* The inductive invariant.                                                *)

Types ==
    /\ pc \in {"resolve", "connect", "send", "recv", "parse", "decide", "done"}
    /\ fds \in Nat /\ got \in Nat
    /\ origin \in [size : Nat, head : Nat, reads : BOOLEAN]
    /\ ok \in BOOLEAN
    /\ response \in [status : Int, cc : Header]
    /\ rules \in Seq(Rules)

\* The descriptor is open exactly while the thread sends and reads.
OneDescriptor == fds = IF pc \in {"send", "recv"} THEN 1 ELSE 0

\* What a step has established stays so: only a reading that ended by itself is
\* parsed, only an answer with its head makes ok, and nothing is decided before the end.
Progress ==
    /\ pc \in {"parse", "decide"} => ended \in {"whole", "closed early", "cap"}
    /\ pc = "decide" => ok
    /\ ok => /\ pc \in {"decide", "done"}
             /\ ended \in {"whole", "closed early", "cap"}
             /\ got >= origin.head
    /\ (pc # "done" \/ ~ok) => decision = NotCached

IInv ==
    /\ Types
    /\ OneDescriptor
    /\ Progress
    /\ InOrder(rules)
    /\ CachedIsSound
    /\ DecisionFollowsRules

\* It holds before the fetch has begun.
LEMMA InitIInv == Init => IInv
<1>1. SUFFICES ASSUME Init PROVE IInv
  OBVIOUS
<1> USE OriginAssumption
<1>2. Types
  <2>1. Endless \in Nat /\ NoResponse \in [status : Int, cc : Header]
    BY DEF Endless, NoResponse, Header
  <2>2. origin \in [size : Nat, head : Nat, reads : BOOLEAN]
    BY <1>1, <2>1 DEF Init
  <2>3. rules \in Seq(Rules)
    BY <1>1 DEF Init
  <2>4. QED
    BY <1>1, <2>1, <2>2, <2>3 DEF Init, Types
<1>3. OneDescriptor /\ Progress
  BY <1>1 DEF Init, OneDescriptor, Progress
<1>4. InOrder(rules)
  BY <1>1 DEF Init, InOrder
<1>5. CachedIsSound /\ DecisionFollowsRules
  BY <1>1 DEF Init, CachedIsSound, DecisionFollowsRules, NotCached, Decision
<1>6. QED
  BY <1>2, <1>3, <1>4, <1>5 DEF IInv

\* Until there is a result nothing is decided.
LEMMA Undecided ==
    ASSUME IInv, ~ok, ok' = ok, decision' = decision
    PROVE  CachedIsSound' /\ DecisionFollowsRules'
<1>1. decision' = NotCached /\ ~ok'
  BY DEF IInv, Progress
<1>2. QED
  BY <1>1 DEF CachedIsSound, DecisionFollowsRules, NotCached, Decision

\* The rules that are loaded later do not change what was decided.
LEMMA Decided ==
    ASSUME IInv, UNCHANGED <<pc, origin, got, ended, response, ok, decision, ruled>>
    PROVE  CachedIsSound' /\ DecisionFollowsRules'
<1>1. CachedIsSound'
  BY DEF IInv, CachedIsSound
<1>2. HeaderSays' = HeaderSays
  BY DEF HeaderSays, Lifetimes, FirstOf
<1>3. Longest(ruled)' = Longest(ruled)
  BY DEF Longest
<1>4. \A r : RuleSays(r)' = RuleSays(r)
  BY DEF RuleSays
<1>5. DecisionFollowsRules'
  BY <1>2, <1>3, <1>4 DEF IInv, DecisionFollowsRules
<1>6. QED
  BY <1>1, <1>5

\* Every step keeps the invariant.
LEMMA NextIInv == IInv /\ [Next]_vars => IInv'
<1>1. SUFFICES ASSUME IInv, [Next]_vars PROVE IInv'
  OBVIOUS
\* Before the answer is parsed there is no result, and the rules are left alone.
<1>2. ASSUME pc \notin {"decide", "done"}, UNCHANGED <<origin, response, ok, rules, decision>>,
             Types', OneDescriptor', Progress'
      PROVE  IInv'
  <2>1. ~ok
    BY <1>1, <1>2 DEF IInv, Progress
  <2>2. CachedIsSound' /\ DecisionFollowsRules'
    BY <1>1, <1>2, <2>1, Undecided
  <2>3. InOrder(rules)'
    BY <1>1, <1>2 DEF IInv, InOrder
  <2>4. QED
    BY <1>2, <2>2, <2>3 DEF IInv
<1>3. CASE Resolve
  <2>1. Types'
    BY <1>1, <1>3 DEF IInv, Types, Resolve, Fail, peer, outcome
  <2>2. OneDescriptor' /\ Progress'
    BY <1>1, <1>3 DEF IInv, OneDescriptor, Progress, Types, Resolve, Fail, peer, outcome
  <2>3. QED
    BY <1>2, <1>3, <2>1, <2>2 DEF Resolve, peer, outcome
<1>4. CASE Connected
  <2>1. Types'
    BY <1>1, <1>4 DEF IInv, Types, Connected, peer, outcome
  <2>2. OneDescriptor' /\ Progress'
    BY <1>1, <1>4 DEF IInv, OneDescriptor, Progress, Types, Connected, peer, outcome
  <2>3. QED
    BY <1>2, <1>4, <2>1, <2>2 DEF Connected, peer, outcome
<1>5. CASE ConnectFails
  <2>1. Types'
    BY <1>1, <1>5 DEF IInv, Types, ConnectFails, Fail, peer, outcome
  <2>2. OneDescriptor' /\ Progress'
    BY <1>1, <1>5 DEF IInv, OneDescriptor, Progress, Types, ConnectFails, Fail, peer, outcome
  <2>3. QED
    BY <1>2, <1>5, <2>1, <2>2 DEF ConnectFails, peer, outcome
<1>6. CASE Sent
  <2>1. Types'
    BY <1>1, <1>6 DEF IInv, Types, Sent, peer, outcome
  <2>2. OneDescriptor' /\ Progress'
    BY <1>1, <1>6 DEF IInv, OneDescriptor, Progress, Types, Sent, peer, outcome
  <2>3. QED
    BY <1>2, <1>6, <2>1, <2>2 DEF Sent, peer, outcome
<1>7. CASE SendFails
  <2>1. Types'
    BY <1>1, <1>7 DEF IInv, Types, OneDescriptor, SendFails, Fail, peer, outcome
  <2>2. OneDescriptor'
    BY <1>1, <1>7 DEF IInv, OneDescriptor, SendFails, Fail, peer, outcome
  <2>3. Progress'
    BY <1>1, <1>7 DEF IInv, Progress, SendFails, Fail, peer, outcome
  <2>4. QED
    BY <1>2, <1>7, <2>1, <2>2, <2>3 DEF SendFails, peer, outcome
<1>8. CASE Recv
  <2>1. fds = 1 /\ ~ok /\ decision = NotCached /\ pc = "recv"
    BY <1>1, <1>8 DEF IInv, OneDescriptor, Progress, Recv
  <2>2. \/ pc' = "parse" /\ ended' = "cap" /\ fds' = 0
        \/ UNCHANGED <<pc, ended, fds>>
    BY <1>8, <2>1 DEF Recv
  <2>3. Types'
    BY <1>1, <1>8, <2>1, <2>2 DEF IInv, Types, Recv, peer, outcome
  <2>4. OneDescriptor'
    BY <2>1, <2>2 DEF OneDescriptor
  <2>5. Progress'
    BY <1>8, <2>1, <2>2 DEF Progress, Recv, outcome
  <2>6. QED
    BY <1>2, <1>8, <2>1, <2>3, <2>4, <2>5 DEF Recv, peer, outcome
<1>9. CASE RecvEof
  <2>1. fds = 1 /\ ~ok /\ decision = NotCached /\ pc = "recv"
    BY <1>1, <1>9 DEF IInv, OneDescriptor, Progress, RecvEof
  <2>2. pc' = "parse" /\ ended' \in {"whole", "closed early"} /\ fds' = fds - 1
    BY <1>9 DEF RecvEof
  <2>3. fds' = 0
    <3>1. fds = 1 /\ fds' = fds - 1
      BY <2>1, <2>2
    <3>2. QED
      BY <3>1
  <2>4. Types'
    <3>1. pc' = "parse"
      BY <2>2
    <3>2. fds' \in Nat
      BY <2>3
    <3>3. UNCHANGED <<got, origin, ok, response, rules>>
      BY <1>9 DEF RecvEof, peer, outcome
    <3>4. QED
      BY <1>1, <3>1, <3>2, <3>3 DEF IInv, Types
  <2>5. OneDescriptor'
    BY <2>2, <2>3 DEF OneDescriptor
  <2>6. Progress'
    BY <1>9, <2>1, <2>2 DEF Progress, RecvEof, outcome
  <2>7. QED
    BY <1>2, <1>9, <2>1, <2>4, <2>5, <2>6 DEF RecvEof, peer, outcome
<1>10. CASE RecvFails
  <2>1. Types'
    BY <1>1, <1>10 DEF IInv, Types, OneDescriptor, RecvFails, Fail, peer, outcome
  <2>2. OneDescriptor'
    BY <1>1, <1>10 DEF IInv, OneDescriptor, RecvFails, Fail, peer, outcome
  <2>3. Progress'
    BY <1>1, <1>10 DEF IInv, Progress, RecvFails, Fail, peer, outcome
  <2>4. QED
    BY <1>2, <1>10, <2>1, <2>2, <2>3 DEF RecvFails, peer, outcome
<1>11. CASE Parse
  <2>1. ~ok /\ decision = NotCached
    BY <1>1, <1>11 DEF IInv, Progress, Parse
  <2>2. response' \in [status : Int, cc : Header]
    <3>1. CASE got < origin.head
      BY <1>1, <1>11, <3>1 DEF IInv, Types, Parse
    <3>2. ASSUME NEW head \in Responses
          PROVE  Parsed(head) \in [status : Int, cc : Header]
      <4>1. head \in [status : Int, lines : Seq(Header)]
        BY <3>2, OriginAssumption DEF Header
      <4>2. head.lines # <<>> => Last(head.lines) \in Header
        BY <4>1 DEF Last
      <4>3. <<>> \in Header
        BY DEF Header
      <4>4. QED
        BY <4>1, <4>2, <4>3 DEF Parsed
    <3>3. QED
      BY <1>11, <3>1, <3>2 DEF Parse
  <2>3. Types'
    BY <1>1, <1>11, <2>2 DEF IInv, Types, Parse, peer
  <2>4. OneDescriptor' /\ Progress'
    <3>1. OneDescriptor'
      BY <1>1, <1>11 DEF IInv, OneDescriptor, Parse
    <3>2. CASE got < origin.head
      BY <1>11, <2>1, <3>1, <3>2 DEF Progress, Parse
    <3>3. CASE ~(got < origin.head)
      <4>1. got >= origin.head
        BY <1>1, <3>3 DEF IInv, Types
      <4>2. ended \in {"whole", "closed early", "cap"}
        BY <1>1, <1>11 DEF IInv, Progress, Parse
      <4>3. QED
        BY <1>11, <2>1, <3>1, <3>3, <4>1, <4>2 DEF Progress, Parse, peer
    <3>4. QED
      BY <3>1, <3>2, <3>3
  <2>5. CachedIsSound' /\ DecisionFollowsRules'
    <3>1. decision' = NotCached /\ (ok' => pc' = "decide")
      BY <1>11, <2>1 DEF Parse
    <3>2. QED
      BY <3>1 DEF CachedIsSound, DecisionFollowsRules, NotCached, Decision
  <2>6. InOrder(rules)'
    BY <1>1, <1>11 DEF IInv, InOrder, Parse
  <2>7. QED
    BY <2>3, <2>4, <2>5, <2>6 DEF IInv
<1>12. CASE MakeDecision
  <2>1. ok /\ response \in [status : Int, cc : Header] /\ rules \in Seq(Rules) /\ InOrder(rules)
    BY <1>1, <1>12 DEF IInv, Types, Progress, MakeDecision
  <2>2. decision' = Decide(rules, Path, response) /\ ruled' = Range(rules) /\ pc' = "done"
    BY <1>12 DEF MakeDecision
  <2>3. Types' /\ OneDescriptor' /\ Progress'
    BY <1>1, <1>12 DEF IInv, Types, OneDescriptor, Progress, MakeDecision, peer
  <2>4. InOrder(rules)'
    BY <1>1, <1>12 DEF IInv, InOrder, MakeDecision
  <2>5. CachedIsSound'
    <3>1. decision'.cacheable => response.status < 500
      BY <2>1, <2>2, DecideFollows
    <3>2. ended \in {"whole", "closed early", "cap"} /\ got >= origin.head
      BY <1>1, <2>1 DEF IInv, Progress
    <3>3. QED
      BY <1>12, <2>1, <3>1, <3>2 DEF CachedIsSound, MakeDecision, peer
  <2>6. DecisionFollowsRules'
    <3>1. HeaderSays' = HeaderSays
      BY <1>12 DEF HeaderSays, Lifetimes, FirstOf, MakeDecision
    <3>2. \A r : RuleSays(r)' = RuleSays(r)
      BY <1>12 DEF RuleSays, MakeDecision
    <3>3. Longest(ruled)' = Longest(Range(rules))
      BY <2>2 DEF Longest
    <3>4. \E says \in IF Longest(Range(rules)) = {} THEN {HeaderSays}
                      ELSE {RuleSays(r) : r \in Longest(Range(rules))} :
             IF says = {} THEN decision' = NotCached ELSE decision' \in says
      BY <2>1, <2>2, DecideFollows DEF Follows
    <3>5. QED
      BY <3>1, <3>2, <3>3, <3>4 DEF DecisionFollowsRules
  <2>7. QED
    BY <2>3, <2>4, <2>5, <2>6 DEF IInv
<1>13. ASSUME NEW rs \in RuleSets, LoadRules(rs) PROVE IInv'
  <2>1. rules' \in Seq(Rules) /\ InOrder(rules')
    BY <1>13, SortedInOrder DEF LoadRules
  <2>2. Types' /\ OneDescriptor' /\ Progress'
    BY <1>1, <1>13, <2>1 DEF IInv, Types, OneDescriptor, Progress, LoadRules, peer
  <2>3. CachedIsSound' /\ DecisionFollowsRules'
    BY <1>1, <1>13, Decided DEF LoadRules, peer
  <2>4. QED
    BY <2>1, <2>2, <2>3 DEF IInv, InOrder
<1>14. CASE UNCHANGED vars
  <2>1. Types' /\ OneDescriptor' /\ Progress' /\ InOrder(rules)'
    BY <1>1, <1>14 DEF IInv, Types, OneDescriptor, Progress, InOrder, vars
  <2>2. CachedIsSound' /\ DecisionFollowsRules'
    BY <1>1, <1>14, Decided DEF vars
  <2>3. QED
    BY <2>1, <2>2 DEF IInv
<1>15. QED
  BY <1>1, <1>3, <1>4, <1>5, <1>6, <1>7, <1>8, <1>9, <1>10, <1>11, <1>12, <1>13, <1>14
     DEF Next, FetchStep

\* So it is an invariant.
LEMMA SpecIInv == Spec => []IInv
  BY InitIInv, NextIInv, PTL DEF Spec

-----------------------------------------------------------------------------
\* fetch() closes its descriptor on every path: errors, timeouts, the limit of 32 MB and
\* an origin that closes early included.
THEOREM DescriptorsClosed == Spec => []NoDescriptorLeak
<1>1. IInv => NoDescriptorLeak
  BY DEF IInv, OneDescriptor, NoDescriptorLeak
<1>2. QED
  BY <1>1, SpecIInv, PTL

\* What is cached came from an exchange that the origin or the limit ended, with its
\* whole head, and is no server error, whatever rules apply to it.
THEOREM OnlySoundIsCached == Spec => []CachedIsSound
<1>1. IInv => CachedIsSound
  BY DEF IInv
<1>2. QED
  BY <1>1, SpecIInv, PTL

\* The decision is that of a longest matching rule of the rules that were loaded when it
\* was taken, or else of the status and the Cache-Control header, for all rule sets and
\* headers, however often the poller replaces the rules.
THEOREM LongestRuleDecides == Spec => []DecisionFollowsRules
<1>1. IInv => DecisionFollowsRules
  BY DEF IInv
<1>2. QED
  BY <1>1, SpecIInv, PTL

-----------------------------------------------------------------------------
(* Purges.                                                                 *)

\* The inductive invariant.  l2Settled bounds from below every source a copy can
\* come from (the origin, L2, and what fillers hold), and from above what any
\* replica counts as settled; so whatever is stored in an L1 is new enough.
SourcesAreNew ==
    /\ version >= l2Settled
    /\ l2 # NoCopy => l2 >= l2Settled
    /\ \A f \in Fillers : fill[f] # Idle => fill[f].ver >= l2Settled

MessagesBehindL2 ==
    /\ \A q \in Requests : /\ purge[q].floor <= version
                           /\ purge[q].settles => purge[q].floor <= l2Settled
    /\ \A r \in Replicas : \A i \in 1..Len(queue[r]) :
         queue[r][i].settles => queue[r][i].floor <= l2Settled
    /\ \A r \in Replicas : settled[r] <= l2Settled

L1IsNew == \A r \in Replicas : l1[r] # NoCopy => l1[r] >= settled[r]

PurgeInv ==
    /\ TypeOK
    /\ SourcesAreNew
    /\ MessagesBehindL2
    /\ L1IsNew

LEMMA PurgeInitInv == PurgeInit => PurgeInv
<1>1. SUFFICES ASSUME PurgeInit PROVE PurgeInv
  OBVIOUS
<1> USE PurgeAssumption DEF PurgeInit, Versions, NoCopy, Idle, NoPurge
<1>2. TypeOK
  BY <1>1 DEF TypeOK, Copies, Messages
<1>3. SourcesAreNew /\ MessagesBehindL2 /\ L1IsNew
  BY <1>1 DEF SourcesAreNew, MessagesBehindL2, L1IsNew
<1>4. QED
  BY <1>2, <1>3 DEF PurgeInv

\* A step that gives a filler no new content: it is done, or in another phase with the
\* content it had.
SameOrIdle(f) ==
    \/ fill'[f] = Idle
    \/ /\ fill[f] # Idle
       /\ fill'[f] # Idle
       /\ fill'[f] \in Held
       /\ fill'[f].ver = fill[f].ver

\* The fills change neither the history nor the control plane, and store only
\* what they hold.
LEMMA FillInv ==
    ASSUME PurgeInv, NEW f \in Fillers, NEW g \in Fillers,
           \/ FetchOrigin(f) \/ ReadL2(f) \/ Coalesce(f, g) \/ StoreL1(f) \/ StoreL2(f)
           \/ NotCacheable(f) \/ PublishSlot(f)
    PROVE  PurgeInv'
<1> USE PurgeAssumption DEF PurgeInv, TypeOK, Versions, Copies, NoCopy, Idle
<1> USE DEF cpVars, busVars, history, Held, Leading
<1>1. CASE FetchOrigin(f)
  <2>1. TypeOK'
    BY <1>1 DEF FetchOrigin
  <2>2. SourcesAreNew' /\ MessagesBehindL2' /\ L1IsNew'
    BY <1>1 DEF FetchOrigin, SourcesAreNew, MessagesBehindL2, L1IsNew
  <2>3. QED
    BY <2>1, <2>2
<1>2. CASE ReadL2(f)
  <2>1. TypeOK'
    BY <1>2 DEF ReadL2
  <2>2. SourcesAreNew' /\ MessagesBehindL2' /\ L1IsNew'
    BY <1>2 DEF ReadL2, SourcesAreNew, MessagesBehindL2, L1IsNew
  <2>3. QED
    BY <2>1, <2>2
<1>3. CASE Coalesce(f, g)
  <2>1. fill[g] # Idle /\ fill[g].ver \in 0..MaxVersion
    BY <1>3 DEF Coalesce, Leads
  <2>2. TypeOK'
    BY <1>3, <2>1 DEF Coalesce
  <2>3. SourcesAreNew' /\ MessagesBehindL2' /\ L1IsNew'
    BY <1>3, <2>1 DEF Coalesce, SourcesAreNew, MessagesBehindL2, L1IsNew
  <2>4. QED
    BY <2>2, <2>3
<1>4. CASE StoreL1(f)
  <2>1. /\ fill[f] # Idle
        /\ fill[f] \in Held
        /\ fill[f].ver \in 0..MaxVersion
        /\ fill[f].ver >= l2Settled
    BY <1>4 DEF StoreL1, SourcesAreNew
  <2>2. /\ fill'[f] \in {[fill[f] EXCEPT !.phase = "l2put"],
                         [fill[f] EXCEPT !.phase = "publish"], Idle}
        /\ \A h \in Fillers \ {f} : fill'[h] = fill[h]
        /\ DOMAIN fill' = Fillers /\ fill' = [h \in Fillers |-> fill'[h]]
    BY <1>4 DEF StoreL1
  <2>3. SameOrIdle(f)
    BY <2>1, <2>2 DEF SameOrIdle
  <2>4. TypeOK'
    <3>1. l1' \in [Replicas -> Versions \cup {NoCopy}]
      BY <1>4, <2>1 DEF StoreL1
    <3>2. fill' \in [Fillers -> {Idle} \cup Held]
      BY <2>2, <2>3 DEF SameOrIdle
    <3>3. QED
      BY <1>4, <3>1, <3>2 DEF StoreL1
  <2>5. SourcesAreNew' /\ MessagesBehindL2'
    BY <1>4, <2>2, <2>3 DEF StoreL1, SourcesAreNew, MessagesBehindL2, SameOrIdle
  <2>6. L1IsNew'
    BY <1>4, <2>1 DEF StoreL1, MessagesBehindL2, L1IsNew
  <2>7. QED
    BY <2>4, <2>5, <2>6
<1>5. CASE StoreL2(f)
  <2>1. fill[f] # Idle /\ fill[f].ver \in 0..MaxVersion /\ fill[f].ver >= l2Settled
    BY <1>5 DEF StoreL2, SourcesAreNew
  <2>2. TypeOK'
    BY <1>5, <2>1 DEF StoreL2
  <2>3. SourcesAreNew' /\ MessagesBehindL2' /\ L1IsNew'
    BY <1>5, <2>1 DEF StoreL2, SourcesAreNew, MessagesBehindL2, L1IsNew
  <2>4. QED
    BY <2>2, <2>3
<1>6. CASE NotCacheable(f)
  <2>1. fill[f] # Idle /\ fill[f] \in Held
    BY <1>6 DEF NotCacheable
  <2>2. /\ fill'[f] \in {[fill[f] EXCEPT !.phase = "publish"], Idle}
        /\ \A h \in Fillers \ {f} : fill'[h] = fill[h]
        /\ fill' = [h \in Fillers |-> fill'[h]]
    BY <1>6 DEF NotCacheable
  <2>3. SameOrIdle(f)
    BY <2>1, <2>2 DEF SameOrIdle
  <2>4. TypeOK'
    BY <1>6, <2>2, <2>3 DEF NotCacheable, SameOrIdle
  <2>5. SourcesAreNew' /\ MessagesBehindL2' /\ L1IsNew'
    BY <1>6, <2>2, <2>3 DEF NotCacheable, SourcesAreNew, MessagesBehindL2, L1IsNew, SameOrIdle
  <2>6. QED
    BY <2>4, <2>5
<1>7. CASE PublishSlot(f)
  <2>1. /\ \A h \in Fillers : SameOrIdle(h)
        /\ fill' = [h \in Fillers |-> fill'[h]]
    BY <1>7 DEF PublishSlot, SameOrIdle
  <2>2. TypeOK'
    BY <1>7, <2>1 DEF PublishSlot, SameOrIdle
  <2>3. SourcesAreNew' /\ MessagesBehindL2' /\ L1IsNew'
    BY <1>7, <2>1 DEF PublishSlot, SourcesAreNew, MessagesBehindL2, L1IsNew, SameOrIdle
  <2>4. QED
    BY <2>2, <2>3
<1>8. QED
  BY <1>1, <1>2, <1>3, <1>4, <1>5, <1>6, <1>7

LEMMA EnvironmentInv ==
    ASSUME PurgeInv, ForgetL2 \/ OriginChanges \/ \E r \in Replicas : ForgetL1(r)
    PROVE  PurgeInv'
<1> USE PurgeAssumption DEF PurgeInv, TypeOK, Versions, Copies, NoCopy, Idle
<1> USE DEF cpVars, busVars, history
<1>1. CASE ForgetL2
  BY <1>1 DEF ForgetL2, SourcesAreNew, MessagesBehindL2, L1IsNew
<1>2. CASE OriginChanges
  BY <1>2 DEF OriginChanges, SourcesAreNew, MessagesBehindL2, L1IsNew
<1>3. CASE \E r \in Replicas : ForgetL1(r)
  BY <1>3 DEF ForgetL1, SourcesAreNew, MessagesBehindL2, L1IsNew
<1>4. QED
  BY <1>1, <1>2, <1>3

LEMMA PurgeL2Inv ==
    ASSUME PurgeInv, NEW q \in Requests, PurgeL2(q)
    PROVE  PurgeInv'
<1> USE PurgeAssumption DEF PurgeInv, TypeOK, Versions, Copies, NoCopy, Idle
<1> USE DEF busVars
<1> DEFINE floor == purge[q].floor
           settles == \A f \in Fillers : fill[f] # Idle => fill[f].ver >= floor
<1>1. /\ purge' = [purge EXCEPT ![q] = [phase |-> "publish", floor |-> floor,
                                        settles |-> settles]]
      /\ l2Settled' = IF settles THEN Larger(l2Settled, floor) ELSE l2Settled
  BY DEF PurgeL2
<1>2. floor \in 0..MaxVersion /\ floor <= version
  BY DEF MessagesBehindL2
<1>3. l2Settled' >= l2Settled /\ l2Settled' \in 0..MaxVersion /\ l2Settled' <= version
  BY <1>1, <1>2 DEF Larger, SourcesAreNew
<1>4. /\ purge'[q] = [phase |-> "publish", floor |-> floor, settles |-> settles]
      /\ \A p \in Requests : p # q => purge'[p] = purge[p]
  BY <1>1
<1>5. settles => floor <= l2Settled'
  BY <1>1, <1>2 DEF Larger
<1>6. settles \in BOOLEAN
  OBVIOUS
<1>7. purge' \in [Requests -> [phase : {"none", "purgeL2", "publish"}, floor : 0..MaxVersion,
                              settles : BOOLEAN]]
  <2> HIDE DEF settles, floor
  <2>1. QED
    BY <1>1, <1>2, <1>6
<1>8. TypeOK'
  BY <1>3, <1>7 DEF PurgeL2
<1>9. SourcesAreNew'
  <2>1. ASSUME NEW f \in Fillers, fill[f] # Idle PROVE fill[f].ver >= l2Settled'
    BY <1>1, <2>1 DEF Larger, SourcesAreNew
  <2>2. QED
    BY <1>3, <2>1 DEF PurgeL2, SourcesAreNew
<1>10. MessagesBehindL2'
  <2>1. ASSUME NEW r \in Replicas, NEW i \in 1..Len(queue[r]), queue[r][i].settles
        PROVE  queue[r][i].floor <= l2Settled'
    <3>1. queue[r][i] \in Messages
      OBVIOUS
    <3>2. queue[r][i].floor \in 0..MaxVersion
      BY <3>1 DEF Messages
    <3>3. queue[r][i].floor <= l2Settled
      BY <2>1 DEF MessagesBehindL2
    <3>4. l2Settled \in 0..MaxVersion
      OBVIOUS
    <3> HIDE DEF PurgeInv, TypeOK
    <3>5. QED
      BY <1>3, <3>2, <3>3, <3>4
  <2>2. \A r \in Replicas : settled[r] <= l2Settled'
    BY <1>3 DEF MessagesBehindL2
  <2>3. ASSUME NEW p \in Requests
        PROVE  /\ purge'[p].floor <= version
               /\ purge'[p].settles => purge'[p].floor <= l2Settled'
    <3>1. CASE p = q
      BY <1>2, <1>4, <1>5, <3>1
    <3>2. CASE p # q
      BY <1>3, <1>4, <3>2 DEF MessagesBehindL2
    <3>3. QED
      BY <3>1, <3>2
  <2>4. QED
    BY <2>1, <2>2, <2>3 DEF PurgeL2, MessagesBehindL2
<1>11. L1IsNew'
  BY DEF PurgeL2, L1IsNew
<1>12. QED
  BY <1>8, <1>9, <1>10, <1>11

LEMMA PublishInv ==
    ASSUME PurgeInv, NEW q \in Requests, Publish(q)
    PROVE  PurgeInv'
<1> USE PurgeAssumption DEF PurgeInv, TypeOK, Versions, Copies, NoCopy, Idle, NoPurge
<1> USE DEF history
<1>1. purge[q] \in Messages
  BY DEF Publish, Messages
<1>2. TypeOK'
  BY <1>1 DEF Publish
<1>3. MessagesBehindL2'
  <2>1. ASSUME NEW r \in Replicas, NEW i \in 1..Len(queue'[r]), queue'[r][i].settles
        PROVE  queue'[r][i].floor <= l2Settled
    <3>1. queue'[r] = queue[r] \/ queue'[r] = Append(queue[r], purge[q])
      BY DEF Publish
    <3>2. queue[r] \in Seq(Messages) /\ Len(queue[r]) \in Nat
      OBVIOUS
    <3>3. queue'[r][i] = purge[q] \/ (i \in 1..Len(queue[r]) /\ queue'[r][i] = queue[r][i])
      <4>1. CASE queue'[r] = queue[r]
        BY <4>1
      <4>2. CASE queue'[r] = Append(queue[r], purge[q])
        <5>1. i \in 1..Len(queue[r]) \/ i = Len(queue[r]) + 1
          BY <1>1, <3>2, <4>2
        <5>2. CASE i = Len(queue[r]) + 1
          BY <1>1, <3>2, <4>2, <5>2
        <5>3. CASE i \in 1..Len(queue[r])
          BY <1>1, <3>2, <4>2, <5>3
        <5>4. QED
          BY <5>1, <5>2, <5>3
      <4>3. QED
        BY <3>1, <4>1, <4>2
    <3>4. QED
      BY <2>1, <3>3 DEF MessagesBehindL2
  <2>2. /\ purge'[q] = NoPurge
        /\ \A p \in Requests : p # q => purge'[p] = purge[p]
        /\ l2Settled' = l2Settled /\ settled' = settled /\ version' = version
    BY DEF Publish
  <2>3. ASSUME NEW p \in Requests
        PROVE  /\ purge'[p].floor <= version'
               /\ purge'[p].settles => purge'[p].floor <= l2Settled'
    <3>1. CASE p = q
      BY <2>2, <3>1
    <3>2. CASE p # q
      BY <2>2, <3>2 DEF MessagesBehindL2
    <3>3. QED
      BY <3>1, <3>2
  <2>4. \A r \in Replicas : settled'[r] <= l2Settled'
    BY <2>2 DEF MessagesBehindL2
  <2> HIDE DEF PurgeInv, TypeOK
  <2>5. QED
    BY <2>1, <2>2, <2>3, <2>4 DEF MessagesBehindL2
<1>4. SourcesAreNew' /\ L1IsNew'
  BY DEF Publish, SourcesAreNew, L1IsNew
<1>5. QED
  BY <1>2, <1>3, <1>4

LEMMA ControlPlaneInv ==
    ASSUME PurgeInv, NEW q \in Requests, PurgeAccepted(q) \/ PurgeL2Fails(q) \/ PublishFails(q)
    PROVE  PurgeInv'
<1> USE PurgeAssumption DEF PurgeInv, TypeOK, Versions, Copies, NoCopy, Idle, NoPurge
<1> USE DEF busVars, history
<1>1. CASE PurgeAccepted(q)
  BY <1>1 DEF PurgeAccepted, SourcesAreNew, MessagesBehindL2, L1IsNew
<1>2. CASE PurgeL2Fails(q)
  BY <1>2 DEF PurgeL2Fails, SourcesAreNew, MessagesBehindL2, L1IsNew
<1>3. CASE PublishFails(q)
  BY <1>3 DEF PublishFails, SourcesAreNew, MessagesBehindL2, L1IsNew
<1>4. QED
  BY <1>1, <1>2, <1>3

LEMMA SubscriberInv ==
    ASSUME PurgeInv, NEW r \in Replicas, Subscribe(r) \/ Disconnect(r) \/ Evict(r)
    PROVE  PurgeInv'
<1> USE PurgeAssumption DEF PurgeInv, TypeOK, Versions, Copies, NoCopy, Idle
<1> USE DEF cpVars, busVars, history
<1>1. CASE Subscribe(r)
  BY <1>1 DEF Subscribe, SourcesAreNew, MessagesBehindL2, L1IsNew
<1>2. CASE Disconnect(r)
  BY <1>2 DEF Disconnect, SourcesAreNew, MessagesBehindL2, L1IsNew
<1>3. CASE Evict(r)
  <2> DEFINE m == Head(queue[r])
  <2>1. queue[r] \in Seq(Messages) /\ queue[r] # <<>>
    BY <1>3 DEF Evict
  <2>2. m \in Messages /\ (m.settles => m.floor <= l2Settled)
    BY <2>1 DEF MessagesBehindL2
  <2>3. /\ Tail(queue[r]) \in Seq(Messages)
        /\ Len(Tail(queue[r])) = Len(queue[r]) - 1
        /\ \A i \in 1..(Len(queue[r]) - 1) : Tail(queue[r])[i] = queue[r][i + 1]
    BY <2>1
  <2>4. /\ settled'[r] \in 0..MaxVersion /\ settled'[r] <= l2Settled
        /\ \A q \in Replicas \ {r} : settled'[q] = settled[q]
    BY <1>3, <2>2 DEF Evict, Larger, Messages, MessagesBehindL2
  <2>5. TypeOK'
    <3>2. settled' \in [Replicas -> 0..MaxVersion]
      BY <1>3, <2>4 DEF Evict
    <3>3. queue' \in [Replicas -> Seq(Messages)]
      BY <1>3, <2>3 DEF Evict
    <3>4. QED
      BY <1>3, <3>2, <3>3 DEF Evict
  <2>6. MessagesBehindL2'
    <3>1. ASSUME NEW q \in Replicas, NEW i \in 1..Len(queue'[q]), queue'[q][i].settles
          PROVE  queue'[q][i].floor <= l2Settled
      <4>1. CASE q = r
        <5>1. queue'[q] = Tail(queue[r])
          BY <1>3, <4>1 DEF Evict
        <5>2. i \in 1..(Len(queue[r]) - 1) /\ i + 1 \in 1..Len(queue[r])
          BY <2>1, <2>3, <5>1
        <5>3. QED
          BY <2>3, <3>1, <5>1, <5>2 DEF MessagesBehindL2
      <4>2. CASE q # r
        BY <1>3, <3>1, <4>2 DEF Evict, MessagesBehindL2
      <4>3. QED
        BY <4>1, <4>2
    <3>2. \A q \in Replicas : settled'[q] <= l2Settled
      BY <2>4 DEF MessagesBehindL2
    <3>3. QED
      BY <1>3, <3>1, <3>2 DEF Evict, MessagesBehindL2
  <2>7. SourcesAreNew'
    BY <1>3 DEF Evict, SourcesAreNew
  <2>8. L1IsNew'
    BY <1>3, <2>4 DEF Evict, L1IsNew
  <2>9. QED
    BY <2>5, <2>6, <2>7, <2>8
<1>4. QED
  BY <1>1, <1>2, <1>3

LEMMA PurgeNextInv == PurgeInv /\ [PurgeNext]_purgeVars => PurgeInv'
<1>1. SUFFICES ASSUME PurgeInv, [PurgeNext]_purgeVars PROVE PurgeInv'
  OBVIOUS
<1>2. CASE UNCHANGED purgeVars
  BY <1>1, <1>2 DEF purgeVars, PurgeInv, TypeOK, SourcesAreNew, MessagesBehindL2, L1IsNew
<1>3. CASE PurgeNext
  BY <1>1, <1>3, FillInv, EnvironmentInv, PurgeL2Inv, PublishInv, ControlPlaneInv,
     SubscriberInv DEF PurgeNext
<1>4. QED
  BY <1>1, <1>2, <1>3

\* A purge whose L2 deletion found no thread holding older content stays in force
\* on every replica that evicted, and in L2.
THEOREM SettledPurges == PurgeSpec => []SettledPurgeHolds
<1>1. PurgeInv => SettledPurgeHolds
  BY DEF PurgeInv, L1IsNew, SourcesAreNew, SettledPurgeHolds
<1>2. QED
  BY <1>1, PurgeInitInv, PurgeNextInv, PTL DEF PurgeSpec
===============================================================================
