----------------------------- MODULE BoundedCache -----------------------------
(***************************************************************************)
(* What the request path is promised by the L1 cache: it may forget an     *)
(* entry at any time, but what it returns for a key is what was last put   *)
(* under that key.                                                         *)
(***************************************************************************)
CONSTANTS Keys, Values, Absent

VARIABLES
    content,  \* what a get returns
    latest    \* what was put last under the keys that are not forgotten

cacheVars == <<content, latest>>

Init ==
    /\ content = [k \in Keys |-> Absent]
    /\ latest = [k \in Keys |-> Absent]

\* Some of what would be there is forgotten, and does not come back.
Becomes(f, g) ==
    /\ \A k \in Keys : content'[k] \in {f[k], Absent}
    /\ latest' = [k \in Keys |-> IF content'[k] = Absent THEN Absent ELSE g[k]]

\* Other entries, and even the new one, may be forgotten on the way.
Store(k, v) == Becomes([content EXCEPT ![k] = v], [latest EXCEPT ![k] = v])

Forget == Becomes(content, latest)

Next == Forget \/ \E k \in Keys, v \in Values : Store(k, v)

Spec == Init /\ [][Next]_cacheVars
=============================================================================
