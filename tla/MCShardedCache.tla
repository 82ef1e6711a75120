---------------------------- MODULE MCShardedCache ----------------------------
(* Two shards of three bytes; three keys share a shard, so that an eviction *)
(* has a choice.  Sizes 1 and 2 fit together, 2 and 2 do not, and 4 is      *)
(* larger than a shard.  Four keys of six requests: /a, with the parameter  *)
(* x, with x and y in either order, and /ab with and without an empty       *)
(* parameter.                                                               *)
EXTENDS ShardedCache
Req(path, query) == [method |-> "GET", path |-> path, query |-> query]
A  == <<"/", "a">>
AB == <<"/", "a", "b">>
MCRequests ==
    {Req(A, <<>>), Req(A, <<"x">>), Req(A, <<"x", "y">>), Req(A, <<"y", "x">>),
     Req(AB, <<>>), Req(AB, <<"">>)}
KeyA   == <<"GET", "|", "o", "|", "/", "a">>
KeyAx  == KeyA \o <<"?", "x">>
KeyAxy == KeyA \o <<"?", "x", "&", "y">>
KeyAB  == KeyA \o <<"b">>
MCParams == <<"x", "y">>
MCHost == <<"o">>
MCShardOf == (KeyA :> 1) @@ (KeyAx :> 1) @@ (KeyAxy :> 1) @@ (KeyAB :> 2)
MCPatterns == {A, AB \o <<"*">>}
=============================================================================
