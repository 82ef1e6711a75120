------------------------------ MODULE CacheKeys ------------------------------
(***************************************************************************)
(* The cache key of a request (proxy/src/cache/CacheKey.cpp).  A request   *)
(* has a method, a path without "?" and a query, the sequence of the       *)
(* parameters between its "&"s, of which some may be empty.  The host in a *)
(* key is that of the configured origin.                                   *)
(***************************************************************************)
EXTENDS PathPatterns, FiniteSets

CONSTANTS
    Params,  \* the non-empty query parameters, in the order of std::string's <
    Host

NoText == ""

ASSUME KeyAssumption ==
    /\ Host \in Seq(STRING) /\ Bar \notin Range(Host)
    /\ Params \in Seq(STRING) /\ NoText \notin Range(Params)
    /\ \A i, j \in DOMAIN Params : Params[i] = Params[j] => i = j

Rank(p) == CHOOSE i \in DOMAIN Params : Params[i] = p

\* Where the parameters are that are not empty.
NonEmpty(query) == {i \in DOMAIN query : query[i] # NoText}

\* Where std::sort puts the parameter i: so many are not greater; of equal ones, which
\* is where does not matter.
Place(query, i) ==
    Cardinality({j \in NonEmpty(query) :
                   \/ Rank(query[j]) < Rank(query[i])
                   \/ Rank(query[j]) = Rank(query[i]) /\ j <= i})

\* Empty parameters go, the others are sorted.
NormalizeQuery(query) ==
    [n \in 1..Cardinality(NonEmpty(query)) |->
       query[CHOOSE i \in NonEmpty(query) : Place(query, i) = n]]

\* The query's text: its parameters with "&" between them.
Joined(params) ==
    [i \in 1..(2 * Len(params) - 1) |-> IF i % 2 = 1 THEN params[(i + 1) \div 2] ELSE "&"]

FromRequest(req) ==
    LET q == NormalizeQuery(req.query)
    IN  <<req.method, Bar>> \o Host \o <<Bar>> \o req.path
          \o IF q = <<>> THEN <<>> ELSE <<Mark>> \o Joined(q)
=============================================================================
