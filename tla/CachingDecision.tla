--------------------------- MODULE CachingDecision ---------------------------
(***************************************************************************)
(* Whether and for how long a response is cached: the rule of the longest  *)
(* matching pattern (proxy/src/redis/RuleStore.cpp, policy/                *)
(* RuleOverridePolicy.h), or else the status and the Cache-Control header  *)
(* (policy/CachePolicy.cpp).  A header is the sequence of its directives;  *)
(* the value of one is the number after its "=", NoNumber when no digit    *)
(* follows or the number does not fit in a long.                           *)
(***************************************************************************)
EXTENDS PathPatterns

CONSTANT DefaultTtl   \* defaultTtl_

ASSUME DecisionAssumption == DefaultTtl \in Nat

NoNumber == -1

Directives == [name : STRING, value : Nat \cup {NoNumber}]

\* Where a directive is in the header.
Places(cc, name) == {i \in DOMAIN cc : cc[i].name = name}

HasDirective(cc, name) == Places(cc, name) # {}

\* v is 0 before the call and stays 0 when the first occurrence has no number.
DirectiveValue(cc, name) ==
    LET first == cc[Min(Places(cc, name))]
    IN  IF first.value = NoNumber THEN 0 ELSE first.value

StatusCacheable(status) == status \in {200, 203, 204, 301, 404}

Decision(cacheable, ttl, swr) == [cacheable |-> cacheable, ttl |-> ttl, swr |-> swr]
NotCached == Decision(FALSE, 0, 0)

\* HeaderBasedPolicy::decide
HeaderDecide(resp) ==
    LET cc  == resp.cc
        ttl == IF HasDirective(cc, "s-maxage") THEN DirectiveValue(cc, "s-maxage")
               ELSE IF HasDirective(cc, "max-age") THEN DirectiveValue(cc, "max-age")
               ELSE -1
    IN  IF ~StatusCacheable(resp.status) THEN NotCached
        ELSE IF \E d \in {"no-store", "private", "no-cache"} : HasDirective(cc, d) THEN NotCached
        ELSE IF ttl < 0 THEN Decision(TRUE, DefaultTtl, 0)
        ELSE IF ttl = 0 THEN NotCached
        ELSE Decision(TRUE, ttl, 0)

\* The orders std::sort may leave the rules in: longest pattern first, equal lengths
\* in any order.
Sorted(rules) ==
    {s \in SetToSeqs(rules) :
       \A i, j \in DOMAIN s : i < j => Len(s[i].pattern) >= Len(s[j].pattern)}

\* RuleStore::match, the index of the first rule that matches; 0 for nullopt.
Match(sorted, path) ==
    LET hits == {i \in DOMAIN sorted : Wildcard(sorted[i].pattern, path)}
    IN  IF hits = {} THEN 0 ELSE Min(hits)

\* RuleOverridePolicy::decide
Decide(sorted, path, resp) ==
    LET m == Match(sorted, path)
    IN  IF m = 0 THEN HeaderDecide(resp)
        ELSE IF sorted[m].ttl = 0 \/ resp.status >= 500 THEN NotCached
        ELSE Decision(TRUE, sorted[m].ttl, sorted[m].swr)
=============================================================================
