----------------------------- MODULE PathPatterns -----------------------------
(***************************************************************************)
(* Path patterns, as the three places that match them do it: the rule      *)
(* store and the L1 cache of the proxy, and the control plane when it      *)
(* deletes from L2.  Paths, patterns and cache keys are sequences of       *)
(* one-character (or longer, where nothing looks inside) strings.          *)
(***************************************************************************)
EXTENDS Integers, Sequences, SequencesExt

\* RuleStore::patternMatches and the second half of purgeMatches.
Wildcard(pattern, path) ==
    \/ pattern = <<"*">> \/ pattern = <<"/", "*">>
    \/ IF pattern # <<>> /\ Last(pattern) = "*"
         THEN IsPrefix(Front(pattern), path)
         ELSE pattern = path

\* What separates the parts of a key.
Bar == "|"
Mark == "?"

\* string::find from position i on; 0 for npos.
Find(s, c, i) ==
    LET at == {j \in i..Len(s) : s[j] = c}
    IN  IF at = {} THEN 0 ELSE CHOOSE j \in at : \A k \in at : j <= k

From(s, i) == SubSeq(s, i, Len(s))

\* The part before the first c, the whole if there is none.
Until(s, c) == LET q == Find(s, c, 1) IN IF q = 0 THEN s ELSE SubSeq(s, 1, q - 1)

\* Mutant: the query is taken for a part of the path.
PathOfKeyWithQuery(key) == From(key, Find(key, Bar, Find(key, Bar, 1) + 1) + 1)

\* key is METHOD|host|path[?query].
PathOfKey(key) ==
    LET p1 == Find(key, Bar, 1)
        p2 == Find(key, Bar, p1 + 1)
    IN  IF p1 = 0 \/ p2 = 0 THEN key ELSE Until(From(key, p2 + 1), Mark)

PurgeMatches(pattern, key) == Wildcard(pattern, PathOfKey(key))

\* l2PathMatches, for a key without its prefix.
L2PathMatches(key, pattern) ==
    LET firstBar == Find(key, Bar, 1)
        secondBar == IF firstBar > 0 THEN Find(key, Bar, firstBar + 1) ELSE 0
        path == Until(IF secondBar > 0 THEN From(key, secondBar + 1) ELSE key, Mark)
    IN  \/ pattern = <<"*">> \/ pattern = <<"/", "*">>
        \/ IF pattern # <<>> /\ Last(pattern) = "*"
             THEN IsPrefix(Front(pattern), path)
             ELSE path = pattern
=============================================================================
