---------------------------- MODULE OriginExchange ----------------------------
(***************************************************************************)
(* A fetch from the origin (proxy/src/origin/HttpOriginClient.cpp) and the *)
(* decision to cache what it brings: addresses tried one after the other,  *)
(* a request sent without a timeout, an answer read until the origin       *)
(* closes, each recv with its own timeout, and parsed without regard to    *)
(* its Content-Length.  The rules may be replaced at any time by the       *)
(* poller.  The answer comes in blocks; its head is a number of them.      *)
(***************************************************************************)
EXTENDS CachingDecision

CONSTANTS
    MaxAddrs,     \* bound on the addresses of a host
    Cap,          \* the blocks that 32 MB hold
    Path,         \* the path of the request
    Responses,    \* heads an origin may send: status line and Cache-Control lines
    RuleSets      \* sets of rules the poller may load

ASSUME OriginAssumption ==
    /\ MaxAddrs \in Nat /\ Cap \in Nat
    /\ Responses \subseteq [status : Int, lines : Seq(Seq(Directives))]
    /\ \A rs \in RuleSets :
         /\ IsFiniteSet(rs)
         /\ rs \subseteq [pattern : Seq(STRING), ttl : Nat, swr : Nat]
         /\ \A r, t \in rs : r.pattern = t.pattern => r = t

Endless == Cap + 2   \* an origin that does not stop sending

VARIABLES
    pc,       \* "resolve", "connect", "send", "recv", "parse", "decide", "done"
    addrs,    \* the addresses left
    fds,      \* descriptors open
    large,    \* the request does not fit in the socket's buffer
    origin,   \* what it does: the blocks of its answer, of which the head; whether
              \* it reads the whole request before it answers
    got,      \* blocks of raw
    ended,    \* history: how the reading ended
    response, \* OriginResult.response
    ok,       \* OriginResult.ok
    rules,    \* RuleStore::rules_
    decision, \* CacheDecision of policy_.decide
    ruled     \* history: the rules it was taken with

vars == <<pc, addrs, fds, large, origin, got, ended, response, ok, rules, decision, ruled>>
peer == <<large, origin>>
outcome == <<response, ok, rules, decision, ruled>>

NoResponse == [status |-> 0, cc |-> <<>>]

Init ==
    /\ pc = "resolve" /\ addrs = 0 /\ fds = 0
    /\ large \in BOOLEAN
    /\ origin \in [size : 0..Endless, head : 1..2, reads : BOOLEAN]
    /\ got = 0 /\ ended = "not"
    /\ response = NoResponse /\ ok = FALSE
    /\ rules = <<>> /\ decision = NotCached /\ ruled = {}

\* fetch() returns with an error; e is how the exchange ended.
Fail(e) == pc' = "done" /\ ended' = e

Resolve ==
    /\ pc = "resolve"
    /\ \/ Fail("dns") /\ UNCHANGED addrs
       \/ addrs' \in 1..MaxAddrs /\ pc' = "connect" /\ UNCHANGED ended
    /\ UNCHANGED <<fds, peer, got, outcome>>

\* socket() and connect(), at once or within the timeout.
Connected ==
    /\ pc = "connect"
    /\ fds' = fds + 1
    /\ pc' = "send"
    /\ UNCHANGED <<addrs, peer, got, ended, outcome>>

\* No socket, a refusal, an error of select or its timeout: the descriptor is closed
\* and the next address is tried.
ConnectFails ==
    /\ pc = "connect"
    /\ addrs' = addrs - 1
    /\ IF addrs' = 0 THEN Fail("connect") ELSE UNCHANGED <<pc, ended>>
    /\ UNCHANGED <<fds, peer, got, outcome>>

\* sendAll; send() blocks while the buffer is full and the origin does not read.
Sent ==
    /\ pc = "send"
    /\ large => origin.reads
    /\ pc' = "recv"
    /\ UNCHANGED <<addrs, fds, peer, got, ended, outcome>>

SendFails ==
    /\ pc = "send"
    /\ Fail("send")
    /\ fds' = fds - 1
    /\ UNCHANGED <<addrs, peer, got, outcome>>

\* Mutant: raw may grow without a limit (Cap and Cap + 1 in turn).
RecvUncapped ==
    /\ pc = "recv"
    /\ got < origin.size
    /\ got' = IF got > Cap THEN Cap ELSE got + 1
    /\ UNCHANGED <<pc, addrs, fds, peer, ended, outcome>>

\* A block; more than the limit is not read.
Recv ==
    /\ pc = "recv"
    /\ got < origin.size
    /\ got' = got + 1
    /\ IF got' > Cap
         THEN pc' = "parse" /\ ended' = "cap" /\ fds' = fds - 1
         ELSE UNCHANGED <<pc, ended, fds>>
    /\ UNCHANGED <<addrs, peer, outcome>>

\* recv() returns 0: the origin has closed, also if it has not sent everything.
RecvEof ==
    /\ pc = "recv"
    /\ got <= origin.size /\ origin.size # Endless
    /\ pc' = "parse"
    /\ ended' = IF got = origin.size THEN "whole" ELSE "closed early"
    /\ fds' = fds - 1
    /\ UNCHANGED <<addrs, peer, got, outcome>>

\* Mutant: a timeout ends the reading like the end of the answer.
RecvTimeoutBreaks ==
    /\ pc = "recv"
    /\ pc' = "parse" /\ ended' = "timeout"
    /\ fds' = fds - 1
    /\ UNCHANGED <<addrs, peer, got, outcome>>

\* Mutant: the descriptor is not closed.
RecvFailsLeaks ==
    /\ pc = "recv"
    /\ \E e \in {"timeout", "reset"} : Fail(e)
    /\ UNCHANGED <<addrs, fds, peer, got, outcome>>

\* SO_RCVTIMEO, or an error.
RecvFails ==
    /\ pc = "recv"
    /\ \E e \in {"timeout", "reset"} : Fail(e)
    /\ fds' = fds - 1
    /\ UNCHANGED <<addrs, peer, got, outcome>>

\* A status that is no number becomes 502; of several Cache-Control lines the last is
\* kept, because headers is a map.
Parsed(head) ==
    [status |-> IF head.status = 0 THEN 502 ELSE head.status,
     cc     |-> IF head.lines = <<>> THEN <<>> ELSE Last(head.lines)]

\* parseResponse wants the empty line after the head, and nothing of the body.
Parse ==
    /\ pc = "parse"
    /\ IF got < origin.head
         THEN pc' = "done" /\ UNCHANGED <<response, ok>>
         ELSE /\ \E head \in Responses : response' = Parsed(head)
              /\ ok' = TRUE /\ pc' = "decide"
    /\ UNCHANGED <<addrs, fds, peer, got, ended, rules, decision, ruled>>

\* policy_.decide in storeTiers.
MakeDecision ==
    /\ pc = "decide"
    /\ decision' = Decide(rules, Path, response)
    /\ ruled' = Range(rules)
    /\ pc' = "done"
    /\ UNCHANGED <<addrs, fds, peer, got, ended, response, ok, rules>>

\* Mutant: the rules stay in the order of the HGETALL reply.
LoadUnsorted(rs) ==
    /\ rules' \in SetToSeqs(rs)
    /\ UNCHANGED <<pc, addrs, fds, peer, got, ended, response, ok, decision, ruled>>

\* RuleStore::replaceAll by the poller.
LoadRules(rs) ==
    /\ rules' \in Sorted(rs)
    /\ UNCHANGED <<pc, addrs, fds, peer, got, ended, response, ok, decision, ruled>>

\* What the thread does by itself, and when a time is up.
FetchStep ==
    \/ Resolve \/ Connected \/ ConnectFails \/ Sent
    \/ Recv \/ RecvEof \/ RecvFails \/ Parse \/ MakeDecision

Next == FetchStep \/ SendFails \/ \E rs \in RuleSets : LoadRules(rs)

Spec == Init /\ [][Next]_vars

\* The thread runs; connect and recv return at the latest when their time is up.  A
\* send that blocks need not fail.
FairSpec == Spec /\ WF_vars(FetchStep)

-----------------------------------------------------------------------------
\* What is cached came from an exchange that the origin ended, or the limit of 32 MB
\* did, and never from one that a timeout, a reset or a connection failure cut short;
\* its head was complete, and its status no server error, a status line that makes no
\* sense included, whatever the rules say.
CachedIsSound ==
    decision.cacheable =>
        /\ ok /\ ended \in {"whole", "closed early", "cap"}
        /\ got >= origin.head
        /\ response.status < 500

\* The decision is that of one of the longest rules that match the path, of one rule
\* set, even while the poller replaces it; without a rule, a response is cached if its
\* status allows it and its directives do not forbid it, for what the first s-maxage,
\* else the first max-age says, and not if that is no positive number, or for the
\* default if there is neither.
Longest(rs) == {r \in rs : Wildcard(r.pattern, Path) /\
                  \A t \in rs : Wildcard(t.pattern, Path) => Len(t.pattern) <= Len(r.pattern)}
FirstOf(name) ==
    {response.cc[i].value : i \in {j \in DOMAIN response.cc :
        response.cc[j].name = name /\ \A k \in 1..(j - 1) : response.cc[k].name # name}}
Lifetimes == IF FirstOf("s-maxage") # {} THEN FirstOf("s-maxage") ELSE FirstOf("max-age")
HeaderSays ==
    IF \/ ~StatusCacheable(response.status)
       \/ \E i \in DOMAIN response.cc : response.cc[i].name \in {"no-store", "private", "no-cache"}
      THEN {}
      ELSE {Decision(TRUE, t, 0) : t \in IF Lifetimes = {} THEN {DefaultTtl} ELSE {t \in Lifetimes : t > 0}}
RuleSays(r) == IF r.ttl > 0 /\ response.status < 500 THEN {Decision(TRUE, r.ttl, r.swr)} ELSE {}
DecisionFollowsRules ==
    pc = "done" /\ ok =>
        \E says \in IF Longest(ruled) = {} THEN {HeaderSays} ELSE {RuleSays(r) : r \in Longest(ruled)} :
            IF says = {} THEN decision = NotCached ELSE decision \in says

\* fetch() gives its descriptor back on every path.
NoDescriptorLeak == pc \in {"parse", "decide", "done"} => fds = 0

\* A fetch ends, whatever the origin does, even one that never stops sending; except
\* that an origin which does not read can block a large request for ever, for there
\* is no timeout for sending.
FetchEnds == <>(pc = "done") \/ <>[](pc = "send" /\ large /\ ~origin.reads)
=============================================================================
