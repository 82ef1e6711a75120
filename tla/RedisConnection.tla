--------------------------- MODULE RedisConnection ---------------------------
(***************************************************************************)
(* One connection of the proxy to Redis (proxy/src/redis/RedisClient.cpp)  *)
(* and its two kinds of user: the L2 cache, whose workers share one        *)
(* connection for GET and SET under mu_ and wait for the reply without a   *)
(* timeout (RedisL2Cache.cpp), and the subscriber thread, which reads      *)
(* pushed messages with a timeout that may expire within one               *)
(* (RedisCoordinator::subscriberLoop).  What Redis sends is a stream of    *)
(* tokens, the pieces that readLine and readN take from rbuf_; a token is  *)
(* there once its last byte is, so rbuf_ and the network are one sequence. *)
(***************************************************************************)
EXTENDS Integers, Sequences

CONSTANTS
    Workers,      \* threads that use the L2 cache
    Keys,
    Foreign,      \* the keys with a value of another format at the start
    Lines,        \* what a line of a payload may be for the parser: its kind, and the
                  \* count of an array
    Payloads,     \* what may be published: a channel, and a payload that is not empty
    MaxPuts,      \* bound on SETs; the n-th stores version n
    MaxMessages,  \* bound on published messages
    MaxConnects,  \* bound on connections
    None

ASSUME RedisAssumption ==
    /\ MaxPuts \in Nat /\ MaxMessages \in Nat /\ MaxConnects \in Nat
    /\ None \notin Workers
    /\ Foreign \subseteq Keys
    /\ Lines \subseteq [kind : {"text", "status", "error", "integer", "nil", "array", "length"}, n : Nat]
    /\ Payloads \subseteq [channel : {"purge", "rules"}, lines : Seq(Lines) \ {<<>>}]

VARIABLES
    use,       \* "l2" or "subscriber"
    conn,      \* "closed" (fd_ < 0), "up", "eof" (Redis closed it), "silent"
    stream,    \* tokens sent by Redis and not yet taken by the parser
    parse,     \* the parseReply under way
    connects,
    mu,        \* who holds mu_
    worker,    \* the call each worker is in; its last result
    store,     \* Redis: the version under a key (0: none, -1: not in format EC2)
    puts,
    seen,      \* history: what the key of a call has held since it began, the result
               \* of one that has ended
    sub,       \* the subscriber: "down", "confirm", "loop"
    confirmed, \* replies that subscribe() has read
    server,    \* Redis has this connection in its list of subscribers
    published, \* the messages published, by number
    handled,   \* the messages the subscriber acted upon, while not astray
    astray,    \* history: what was left of a message has been taken for more than one
               \* line or for the beginning of an array or of a bulk string, and the
               \* parser has not yet read all that was sent since
    cut,       \* history: messages that a timeout interrupted, or that the parser met
               \* while astray
    lost       \* history: messages not sent, or gone with a connection

netVars == <<conn, stream, parse, connects>>
l2Vars == <<mu, worker, store, puts, seen>>
subVars == <<sub, confirmed, server, published, handled, astray, cut, lost>>
vars == <<use, netVars, l2Vars, subVars>>

-----------------------------------------------------------------------------
(* RESP.  n is the count of an array, and of a blob whether it begins with *)
(* "EC2"; val of a payload is the lines that it would be for readLine; msg *)
(* is the message a token is part of.                                      *)

Tok(kind, n, val, msg) == [kind |-> kind, n |-> n, val |-> val, msg |-> msg]
Line(kind) == Tok(kind, 0, None, 0)
Bulk(body) == <<Tok("bulk", 0, None, body.msg), body>>

MessageTokens(i, m) ==
    <<Tok("array", 3, None, i)>> \o Bulk(Tok("word", 0, "message", i))
      \o Bulk(Tok("word", 0, m.channel, i)) \o Bulk(Tok("payload", 0, m.lines, i))

Confirmation(channel) ==
    <<Tok("array", 3, None, 0)>> \o Bulk(Tok("word", 0, "subscribe", 0))
      \o Bulk(Tok("word", 0, channel, 0)) \o <<Line("integer")>>

\* need: the replies still to be parsed, over all levels of the recursion; body: a
\* bulk header has been read and readN is next; toks: what has been read.
Fresh == [need |-> 1, body |-> FALSE, toks |-> <<>>]

Took(p, t, need) == [need |-> need, body |-> t.kind \in {"bulk", "length"}, toks |-> Append(p.toks, t)]

\* What readLine takes of a token: all of it, or the first line of a payload.  A purge
\* pattern or a rule's pattern is any text, so that line may be for the parser a header
\* ("*1"; "*" is "*0"), a length that has nothing to do with what follows ("$5"), or a
\* reply ("+x", ":1").
AsLine(t) == IF t.kind = "payload" THEN Tok(t.val[1].kind, t.val[1].n, None, t.msg) ELSE t

\* Mutant: the loop over the elements runs once too often.
ConsumeOneMore(p, t) ==
    LET l == AsLine(t)
    IN  IF p.body THEN Took(p, t, p.need - 1)
        ELSE Took(p, l, CASE l.kind = "array" -> p.need + l.n
                          [] l.kind \in {"bulk", "length"} -> p.need
                          [] OTHER            -> p.need - 1)

\* One token of parseReply: readN for a body, else readLine and the switch.
Consume(p, t) ==
    LET l == AsLine(t)
    IN  IF p.body THEN Took(p, t, p.need - 1)
        ELSE Took(p, l, CASE l.kind = "array" -> p.need - 1 + l.n
                          [] l.kind \in {"bulk", "length"} -> p.need
                          [] OTHER            -> p.need - 1)

\* The default of the switch: a body read as a line.  parseReply returns false, and
\* the line is gone.
BadLine(p, t) == ~p.body /\ AsLine(t).kind \in {"word", "text", "blob", "lf"}

\* What the next token of the stream makes of the parse under way.
Parsed == Consume(parse, Head(stream))
Outcome == IF BadLine(parse, Head(stream)) THEN "false"
           ELSE IF Parsed.need = 0 THEN "reply" ELSE "more"

-----------------------------------------------------------------------------
(* The connection.                                                         *)

Close == conn' = "closed" /\ stream' = <<>> /\ parse' = Fresh /\ UNCHANGED connects

Connect ==
    /\ conn = "closed" /\ connects < MaxConnects
    /\ conn' = "up"
    /\ connects' = connects + 1
    /\ parse' = Fresh

\* The messages that tokens are part of.
Messages(toks) == {toks[i].msg : i \in DOMAIN toks} \ {0}

\* Redis closes the connection, or stops without closing it (a process that hangs, a
\* network that drops packets): some of what was on its way never arrives.
NetworkFails ==
    /\ conn = "up"
    /\ conn' \in {"eof", "silent"}
    /\ \E n \in 0..Len(stream) :
         /\ stream' = SubSeq(stream, 1, n)
         /\ lost' = lost \cup Messages(SubSeq(stream, n + 1, Len(stream)))
    /\ server' = FALSE
    /\ UNCHANGED <<use, parse, connects, l2Vars, sub, confirmed, published, handled, astray, cut>>

-----------------------------------------------------------------------------
(* RedisL2Cache.                                                           *)

Idle == [pc |-> "idle", op |-> "none", key |-> None, res |-> 0]

Call(w, op, k) ==
    /\ worker[w].pc = "idle"
    /\ worker' = [worker EXCEPT ![w] = [pc |-> "lock", op |-> op, key |-> k, res |-> 0]]
    /\ seen' = [seen EXCEPT ![w] = {store[k]}]
    /\ UNCHANGED <<use, netVars, mu, store, puts, subVars>>

\* The call returns; res is the entry's version, 0 for nullopt.
Answer(w, res) ==
    /\ mu' = None
    /\ worker' = [worker EXCEPT ![w] = [Idle EXCEPT !.res = res]]
    /\ seen' = [seen EXCEPT ![w] = @ \cap {res}]
    /\ UNCHANGED <<use, store, puts, subVars>>

\* Mutant: get and put leave the connection open after an error.
FailedStaysOpen(w) ==
    /\ Answer(w, 0)
    /\ parse' = Fresh
    /\ UNCHANGED <<conn, stream, connects>>

\* r.isError(): conn_.close()
Failed(w) == Close /\ Answer(w, 0)

\* lock_guard, ensureConnected_
Lock(w) ==
    /\ worker[w].pc = "lock" /\ mu = None
    /\ mu' = w
    /\ worker' = [worker EXCEPT ![w].pc = "send"]
    /\ IF conn = "closed" THEN Connect /\ stream' = <<>> ELSE UNCHANGED netVars
    /\ UNCHANGED <<use, store, puts, seen, subVars>>

\* connect() fails, AUTH included.
LockFails(w) ==
    /\ worker[w].pc = "lock" /\ mu = None
    /\ conn = "closed"
    /\ Answer(w, 0)
    /\ UNCHANGED netVars

Saw(k, v) == seen' = [w \in Workers |-> IF worker[w].key = k THEN seen[w] \cup {v} ELSE seen[w]]

\* serialize: an entry in the format that "EC2" announces.  A value of any other format
\* (-1) does not begin so.
Serialize(v) == Tok("blob", IF v > 0 THEN 1 ELSE 0, v, 0)

\* deserialize: the entry, or 0 when a check fails.
Deserialize(blob) == IF blob.n = 1 THEN blob.val ELSE 0

Redis(op, k) ==
    \/ /\ op = "get"
       /\ stream' = stream \o IF store[k] = 0 THEN <<Line("nil")>> ELSE Bulk(Serialize(store[k]))
       /\ UNCHANGED <<store, puts, seen>>
    \/ /\ op = "put" /\ puts < MaxPuts
       /\ puts' = puts + 1
       /\ store' = [store EXCEPT ![k] = puts']
       /\ Saw(k, puts')
       /\ stream' = Append(stream, Line("status"))
    \/ /\ stream' = Append(stream, Line("error"))
       /\ UNCHANGED <<store, puts, seen>>

\* command(): writeAll succeeds, although perhaps nobody receives it.
Send(w) ==
    /\ worker[w].pc = "send"
    /\ worker' = [worker EXCEPT ![w].pc = "reply"]
    /\ IF conn = "up" THEN Redis(worker[w].op, worker[w].key)
                      ELSE UNCHANGED <<stream, store, puts, seen>>
    /\ UNCHANGED <<use, conn, parse, connects, mu, subVars>>

SendFails(w) ==
    /\ worker[w].pc = "send" /\ conn = "eof"
    /\ Failed(w)

\* Of a reply that is complete, get() wants a bulk string that deserialize()
\* accepts; put() wants anything but an error.
Result(w, toks) ==
    IF worker[w].op = "get" /\ toks[1].kind = "bulk" THEN Deserialize(toks[2]) ELSE 0

Read(w) ==
    /\ worker[w].pc = "reply" /\ stream # <<>>
    /\ LET isError == Outcome = "reply" /\ Parsed.toks[1].kind = "error"
       IN  \/ Outcome = "false" /\ Failed(w)
           \/ isError /\ Failed(w)
           \/ /\ Outcome = "reply" /\ ~isError
              /\ Answer(w, Result(w, Parsed.toks))
              /\ parse' = Fresh /\ stream' = Tail(stream)
              /\ UNCHANGED <<conn, connects>>
           \/ /\ Outcome = "more"
              /\ parse' = Parsed /\ stream' = Tail(stream)
              /\ UNCHANGED <<use, conn, connects, l2Vars, subVars>>

\* poll() is interrupted (EINTR): "read failed", while the reply is on its way.
Interrupted(w) ==
    /\ worker[w].pc = "reply"
    /\ Failed(w)

\* Mutant: recv() returning 0 is taken for nothing to read yet.
L2EofIgnored(w) == FALSE /\ Failed(w)

\* recv() returns 0.
L2Eof(w) ==
    /\ worker[w].pc = "reply"
    /\ conn = "eof" /\ stream = <<>>
    /\ Failed(w)

\* The TTL of a key, or a purge of the control plane.
Expires(k) ==
    /\ store[k] # 0
    /\ store' = [store EXCEPT ![k] = 0]
    /\ Saw(k, 0)
    /\ UNCHANGED <<use, netVars, mu, worker, puts, subVars>>

-----------------------------------------------------------------------------
(* RedisCoordinator::subscriberLoop.                                       *)

Channels == <<"purge", "rules">>

\* connect() and the SUBSCRIBE of subscribe(); Redis may refuse it with an error.
Subscribe ==
    /\ Connect
    /\ sub' = "confirm" /\ confirmed' = 0
    /\ \/ server' = TRUE /\ stream' = Confirmation(Channels[1]) \o Confirmation(Channels[2])
       \/ server' = FALSE /\ stream' = <<Line("error")>>
    /\ UNCHANGED <<use, l2Vars, published, handled, astray, cut, lost>>

\* connect() fails, or the SUBSCRIBE cannot be written: the thread sleeps.
SubscribeFails ==
    /\ sub = "down"
    /\ UNCHANGED vars

IsMessage(toks) ==
    /\ toks[1].kind = "array" /\ toks[1].n = 3
    /\ toks[3].kind = "word" /\ toks[3].val = "message"

Handle(toks) ==
    handled' = IF ~astray /\ IsMessage(toks)
                 THEN Append(handled, [channel |-> toks[5].val, msg |-> toks[7].msg])
                 ELSE handled

\* A reply is complete: a confirmation for subscribe(), whatever it says, or something
\* for the loop.
Replied(toks) ==
    \/ /\ sub = "confirm"
       /\ confirmed' = confirmed + 1
       /\ sub' = IF confirmed' = Len(Channels) THEN "loop" ELSE sub
       /\ UNCHANGED handled
    \/ /\ sub = "loop"
       /\ Handle(toks)
       /\ UNCHANGED <<sub, confirmed>>

\* The bulk string under way has a length that was the text of a payload.
OfLength == parse.body /\ parse.toks[Len(parse.toks)].kind = "length"

\* parseReply may need more than there is.
Starved == stream = <<>> \/ (Len(stream) = 1 /\ Head(stream).kind = "lf") \/ OfLength

\* The lines of a payload after its first.
LinesLeft(t) ==
    IF t.kind = "payload" /\ Len(t.val) > 1 THEN <<Tok("payload", 0, Tail(t.val), t.msg)>> ELSE <<>>

\* readN takes a whole body; readLine a line, which a "\n" that is left over joins.
AfterToken ==
    LET s == IF Head(stream).kind = "lf" THEN Tail(stream) ELSE stream
    IN  IF parse.body THEN Tail(stream) ELSE LinesLeft(Head(s)) \o Tail(s)

Misled ==
    /\ ~astray /\ ~parse.body /\ Head(stream).kind = "payload"
    /\ Outcome = "more" \/ LinesLeft(Head(stream)) # <<>>

\* Astray until everything that was sent has been read.
Settle == astray' = (astray /\ ~(parse' = Fresh /\ stream' = <<>>))

ReadToken ==
    /\ sub # "down" /\ ~Starved
    /\ stream' = AfterToken
    /\ parse' = IF Outcome = "more" THEN Parsed ELSE Fresh
    /\ \/ /\ Outcome = "false"
          /\ sub' = "loop"
          /\ UNCHANGED <<confirmed, handled>>
       \/ /\ Outcome = "reply"
          /\ Replied(Parsed.toks)
       \/ /\ Outcome = "more"
          /\ UNCHANGED <<sub, confirmed, handled>>
    /\ \/ Misled /\ astray' = TRUE /\ cut' = cut \cup Messages(stream')
       \/ ~Misled /\ Settle /\ UNCHANGED cut
    /\ UNCHANGED <<use, conn, connects, l2Vars, server, published, lost>>

\* What readN may leave of a token that it takes in part: "\n", "\r\n" or the end of a
\* line ("essage"; of a channel's name perhaps ":purge"); of a payload any end.
FromLine(t, k, l) == Tok("payload", 0, <<l>> \o SubSeq(t.val, k + 1, Len(t.val)), t.msg)
Torn(t) ==
    {Line("lf"), Line("text")}
      \cup (IF t.kind = "word" THEN {Line("integer")} ELSE {})
      \cup (IF t.kind = "payload" THEN {FromLine(t, k, l) : k \in DOMAIN t.val, l \in Lines} ELSE {})

\* readN with such a length: it takes some tokens, the last perhaps in part.
ReadAcross ==
    /\ sub # "down" /\ OfLength
    /\ \E n \in 0..Len(stream) :
         \/ n > 0 /\ stream' = SubSeq(stream, n + 1, Len(stream))
         \/ /\ n < Len(stream)
            /\ \E t \in Torn(stream[n + 1]) : stream' = <<t>> \o SubSeq(stream, n + 2, Len(stream))
    /\ parse' = IF parse.need = 1 THEN Fresh
                ELSE [need |-> parse.need - 1, body |-> FALSE, toks |-> parse.toks]
    /\ Settle
    /\ UNCHANGED <<use, conn, connects, l2Vars, sub, confirmed, server, published, handled, cut, lost>>

\* Mutant: a subscription that was not confirmed in time ends the thread.
TimeoutGivesUp ==
    /\ sub = "confirm"
    /\ sub' = "down" /\ parse' = Fresh
    /\ UNCHANGED <<use, conn, stream, connects, l2Vars, confirmed, server, published, handled, astray, cut, lost>>

\* poll() returns 0, or EINTR: parseReply returns false and forgets what it has read,
\* which is gone from rbuf_.  When subscribe() returns false the connection is open,
\* and the loop goes on to read from it.
Timeout ==
    /\ sub # "down"
    /\ sub' = "loop" /\ parse' = Fresh
    /\ cut' = cut \cup Messages(parse.toks)
    /\ UNCHANGED stream /\ Settle
    /\ UNCHANGED <<use, conn, connects, l2Vars, confirmed, server, published, handled, lost>>

SubscriberEof ==
    /\ sub # "down"
    /\ conn = "eof" /\ Starved
    /\ Close
    /\ sub' = "down" /\ astray' = FALSE
    /\ UNCHANGED <<use, l2Vars, confirmed, server, published, handled, cut, lost>>

\* Redis pushes a message to its subscribers.
Publish(m) ==
    /\ Len(published) < MaxMessages
    /\ published' = Append(published, m)
    /\ IF server
         THEN /\ stream' = stream \o MessageTokens(Len(published'), m)
              /\ cut' = IF astray THEN cut \cup {Len(published')} ELSE cut
              /\ UNCHANGED lost
         ELSE lost' = lost \cup {Len(published')} /\ UNCHANGED <<stream, cut>>
    /\ UNCHANGED <<use, conn, parse, connects, l2Vars, sub, confirmed, server, handled, astray>>

-----------------------------------------------------------------------------
Init ==
    /\ use \in {"l2", "subscriber"}
    /\ conn = "closed" /\ stream = <<>> /\ parse = Fresh /\ connects = 0
    /\ mu = None
    /\ worker = [w \in Workers |-> Idle]
    /\ store = [k \in Keys |-> IF k \in Foreign THEN -1 ELSE 0]
    /\ puts = 0
    /\ seen = [w \in Workers |-> {}]
    /\ sub = "down" /\ confirmed = 0 /\ server = FALSE
    /\ published = <<>> /\ handled = <<>> /\ astray = FALSE /\ cut = {} /\ lost = {}

L2Step(w) ==
    \/ Lock(w) \/ Send(w) \/ Read(w) \/ L2Eof(w)

Next ==
    \/ NetworkFails
    \/ /\ use = "l2"
       /\ \/ \E w \in Workers :
               \/ \E k \in Keys, op \in {"get", "put"} : Call(w, op, k)
               \/ L2Step(w) \/ LockFails(w) \/ SendFails(w) \/ Interrupted(w)
          \/ \E k \in Keys : Expires(k)
    \/ /\ use = "subscriber"
       /\ \/ Subscribe \/ SubscribeFails \/ ReadToken \/ ReadAcross \/ Timeout \/ SubscriberEof
          \/ \E m \in Payloads : Publish(m)

\* Threads run, what was sent arrives, poll() returns when its time is up and what
\* there is does not suffice, and Redis lets the subscriber connect.
Fairness ==
    /\ \A w \in Workers : WF_vars(use = "l2" /\ L2Step(w))
    /\ WF_vars(use = "subscriber" /\ (Subscribe \/ ReadToken \/ SubscriberEof))
    /\ WF_vars(use = "subscriber" /\ Starved /\ Timeout)

Spec == Init /\ [][Next]_vars
FairSpec == Spec /\ Fairness

-----------------------------------------------------------------------------
\* RedisL2Cache::get returns nothing or what its key held at some time during the
\* call: replies are told apart by their order alone, and neither another worker's
\* call nor one that was given up shifts it.
GetIsCurrent ==
    \A w \in Workers : worker[w].res # 0 => worker[w].res \in seen[w]

Pending == Messages(stream) \cup Messages(parse.toks)

\* The subscriber acts upon the messages in the order of publication, each once,
\* with its own channel, and misses only those that a timeout of readReply interrupted
\* and those that a lost connection took: parsing that begins in the middle of a message
\* is back in step with the next.  Only when the rest of an interrupted message looks
\* like RESP (a pattern such as "*1" or "$5", or one of several lines) may those behind
\* it be swallowed too, until the parser has read all that was sent; what the subscriber
\* acts upon until then is not in handled.
HandledExactly ==
    /\ \A i \in DOMAIN handled :
         /\ handled[i].msg \in DOMAIN published
         /\ handled[i].channel = published[handled[i].msg].channel
    /\ \A i, j \in DOMAIN handled : i < j => handled[i].msg < handled[j].msg
    /\ Messages(handled) = DOMAIN published \ (cut \cup lost \cup Pending)

\* The subscriber keeps up: a message in the stream does not stay there, also when the
\* confirmations of SUBSCRIBE were late and subscribe() returned false on an open
\* connection; and when Redis closes the connection, the subscriber notices and
\* subscribes again (docs/FAILURE_MODES.md 3).
SubscriberKeepsUp ==
    /\ \A i \in 1..MaxMessages : i \in Pending ~> i \notin Pending
    /\ use = "subscriber" /\ conn = "eof" ~> conn = "up" \/ connects = MaxConnects

\* mu_ is given back, whatever fails, unless Redis stops without closing the
\* connection: command() waits for ever then, and every worker with it.
L2CallReturns == \A w \in Workers : mu = w ~> mu # w \/ conn = "silent"
=============================================================================
