--------------------------- MODULE MCOriginExchange ---------------------------
(* Up to two addresses, a limit of three blocks, heads of one or two blocks; *)
(* three rule sets, one with two patterns of the same length that match.     *)
EXTENDS OriginExchange
MCPath == <<"/", "a", "b">>
D(name, value) == [name |-> name, value |-> value]
Head1(status, lines) == [status |-> status, lines |-> lines]
MCResponses ==
    {Head1(0, <<>>), Head1(503, <<>>), Head1(302, <<>>), Head1(200, <<>>),
     Head1(200, <<<<D("max-age", 5), D("s-maxage", 9)>>>>),
     Head1(200, <<<<D("max-age", NoNumber)>>>>),
     Head1(200, <<<<D("s-maxage", 0), D("max-age", 5), D("s-maxage", 7)>>>>),
     Head1(404, <<<<D("public", NoNumber), D("max-age", 5)>>, <<D("no-store", NoNumber)>>>>),
     Head1(200, <<<<D("private", NoNumber)>>, <<D("max-age", 0)>>>>)}
Rule(pattern, ttl, swr) == [pattern |-> pattern, ttl |-> ttl, swr |-> swr]
MCRuleSets ==
    {{},
     {Rule(<<"/", "*">>, 7, 0), Rule(<<"/", "a", "*">>, 0, 0), Rule(<<"/", "b", "*">>, 8, 0)},
     {Rule(<<"/", "a", "*">>, 3, 1), Rule(<<"/", "a", "b">>, 4, 2), Rule(<<"*">>, 6, 0)}}
=============================================================================
