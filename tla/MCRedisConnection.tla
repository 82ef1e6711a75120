-------------------------- MODULE MCRedisConnection --------------------------
(* Two workers and two keys, one with a value of an older format, or a      *)
(* subscriber with two messages; two connections one after the other.  A    *)
(* payload is plain text, or what the parser would take for the header of   *)
(* an array and, on the next line, the length of a bulk string.             *)
EXTENDS RedisConnection
CONSTANTS w1, w2, k1, k2
MCLine(kind, n) == [kind |-> kind, n |-> n]
MCLines == {MCLine("text", 0), MCLine("array", 1), MCLine("length", 0)}
MCPayloads ==
    {[channel |-> "purge", lines |-> <<MCLine("array", 1), MCLine("length", 0)>>],
     [channel |-> "rules", lines |-> <<MCLine("text", 0)>>]}
=============================================================================
