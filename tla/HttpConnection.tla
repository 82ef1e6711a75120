---------------------------- MODULE HttpConnection ----------------------------
(***************************************************************************)
(* One client connection of an event loop (proxy/src/net/EventLoop.cpp)    *)
(* with its request parser (proxy/src/http/Http.cpp): non-blocking reads,  *)
(* pipelined requests, answers that are sent in pieces, half-closed and    *)
(* reset connections, the end of the loop, and the next connection that    *)
(* gets the same file descriptor.                                          *)
(*                                                                         *)
(* Requests and answers are cut into units, which are what one recv() or   *)
(* send() may separate.  A unit of a request knows its kind, how many      *)
(* units of it follow, and how much of the request parse() takes when it   *)
(* is complete; what the request says is left out.  The kinds are          *)
(*   keep   a request that keepAlive() accepts,                            *)
(*   close  one that it does not,                                          *)
(*   bad    a header block that parse() rejects,                           *)
(*   long   a header block that parse() rejects for its length until the   *)
(*          rest of it is there,                                           *)
(*   torn   no request but the last bytes of one: parse() rejects them     *)
(*          with the header block that follows.                            *)
(* parse() takes all of a request, unless its Content-Length is negative   *)
(* or near 2^64: then the sum with the length of the header block wraps,   *)
(* and parse() takes nothing or only part of the header block.             *)
(* The two kernel queues of the socket, epoll and the client are external. *)
(***************************************************************************)
EXTENDS Integers, Sequences

CONSTANTS
    Kinds,        \* the kinds of requests that the client sends
    MaxRequests,  \* requests on one connection
    MaxUnits,     \* units of one request
    AnswerUnits,  \* units of an answer
    SndBuf,       \* room in the socket's send buffer, in units
    MaxOut        \* size of outBuf beyond which the client keeps up (Wake) and a loop
                  \* that serves one request for ever is not followed (Serve)

ASSUME ConstantsAssumption ==
    /\ Kinds \subseteq {"keep", "close", "bad", "long"}
    /\ MaxRequests \in Nat
    /\ MaxUnits \in Nat \ {0}
    /\ AnswerUnits \in Nat \ {0}
    /\ SndBuf \in Nat /\ SndBuf > AnswerUnits
    /\ MaxOut \in Nat

VARIABLES
    running,     \* *running_
    conn,        \* "idle", "pending" in the listen queue, or "open": in conns_
    c,           \* the Conn of conns_, NewConn when there is none
    wantOut,     \* EPOLLOUT is in the interest of the descriptor
    phase,       \* where the loop is
    events,      \* what epoll_wait() returned for the descriptor
    peerClosed,  \* the local variable of onReadable()
    peer,        \* the client: "up", "fin" (will send no more) or "reset"
    sent,        \* units the client has sent on this connection
    recvq,       \* units in the socket's receive buffer
    sndq,        \* units in the socket's send buffer
    got          \* units the client has received

loopVars == <<running, conn, c, wantOut, phase, events, peerClosed>>
clientVars == <<peer, sent, recvq, sndq, got>>
vars == <<loopVars, clientVars>>

NewConn == [parser |-> <<>>, outBuf |-> <<>>, outOff |-> 0, closeAfterFlush |-> FALSE]

Init ==
    /\ running = TRUE
    /\ conn = "idle"
    /\ c = NewConn
    /\ wantOut = FALSE
    /\ phase = "wait"
    /\ events = {}
    /\ peerClosed = FALSE
    /\ peer = "up"
    /\ sent = <<>>
    /\ recvq = <<>>
    /\ sndq = <<>>
    /\ got = <<>>

-----------------------------------------------------------------------------
(* RequestParser::parse() and the answers.                                 *)

\* All units of the first request are there.
IsWhole(b) == b # <<>> /\ Len(b) > Head(b).left

HeaderState(b) ==
    IF b = <<>> THEN "NeedMore"
    ELSE IF Head(b).kind = "bad" THEN "Error"
    ELSE IF IsWhole(b) THEN "Complete"
    ELSE IF Head(b).kind = "long" THEN "Error"
    ELSE "NeedMore"

ParseState(b) ==
    IF b # <<>> /\ Head(b).kind = "torn"
    THEN IF HeaderState(Tail(b)) = "NeedMore" THEN "NeedMore" ELSE "Error"
    ELSE HeaderState(b)

\* What the rest of a header block can be for parse(), when its first bytes are gone:
\* nothing that it accepts, or, if the rest begins with a line of three words, another
\* request.  One that still has the Content-Length leaves the parser as it is.
Remains(r) ==
    {[r EXCEPT !.kind = kind, !.left = 0, !.takes = "all"] : kind \in {"bad", "torn", "keep", "close"}}
      \cup {[r EXCEPT !.kind = kind, !.left = 0, !.takes = "none"] : kind \in {"keep", "close"}}

\* What buffer_.erase(0, total) may leave of b, which begins with the request r.
Erased(b, r) ==
    LET following == SubSeq(b, r.left + 2, Len(b))
    IN  CASE r.takes = "all"  -> {following}
          [] r.takes = "none" -> {b}
          [] r.takes = "part" -> {<<u>> \o following : u \in Remains(r)}

\* HttpRequest::keepAlive().
KeepAlive(request) == request.kind # "close"

\* HttpResponse::serialize(): the answer says whether it is the last one.
Answer(n, keepAlive) ==
    [i \in 1..AnswerUnits |-> [req |-> n, part |-> i, last |-> ~keepAlive]]

Unsent == SubSeq(c.outBuf, c.outOff + 1, Len(c.outBuf))

-----------------------------------------------------------------------------
(* The client and the network.                                             *)

\* A connection is made once the one before it is over.
Connect ==
    /\ running
    /\ conn = "idle" /\ sndq = <<>>
    /\ conn' = "pending"
    /\ peer' = "up"
    /\ sent' = <<>> /\ recvq' = <<>> /\ got' = <<>>
    /\ UNCHANGED <<running, c, wantOut, phase, events, peerClosed, sndq>>

Requests == IF sent = <<>> THEN 0 ELSE sent[Len(sent)].req

Transmit(unit) ==
    /\ conn # "idle" /\ peer = "up"
    /\ sent' = Append(sent, unit)
    /\ recvq' = Append(recvq, unit)
    /\ UNCHANGED <<loopVars, peer, sndq, got>>

BeginRequest(kind, units, takes) ==
    /\ Requests < MaxRequests
    /\ sent # <<>> => sent[Len(sent)].left = 0
    /\ kind = "long" => units > 1
    /\ takes # "all" => kind \in {"keep", "close"}
    /\ Transmit([req |-> Requests + 1, kind |-> kind, left |-> units - 1, takes |-> takes])

ContinueRequest ==
    /\ sent # <<>> /\ sent[Len(sent)].left > 0
    /\ Transmit([sent[Len(sent)] EXCEPT !.left = @ - 1])

\* shutdown(SHUT_WR): the client still reads.
HalfClose ==
    /\ conn # "idle" /\ peer = "up"
    /\ peer' = "fin"
    /\ UNCHANGED <<loopVars, sent, recvq, sndq, got>>

\* The client goes away; what either side had not read is gone.
Reset ==
    /\ conn # "idle" /\ peer # "reset"
    /\ peer' = "reset"
    /\ recvq' = <<>> /\ sndq' = <<>>
    /\ UNCHANGED <<loopVars, sent, got>>

Receive ==
    /\ sndq # <<>>
    /\ got' = Append(got, Head(sndq))
    /\ sndq' = Tail(sndq)
    /\ UNCHANGED <<loopVars, peer, sent, recvq>>

-----------------------------------------------------------------------------
(* closeConn(), and what close() does to data under way: with unread input *)
(* the kernel resets the connection, and the client may lose the answers   *)
(* it has not read yet.                                                    *)

SocketCloses ==
    /\ sndq' \in IF recvq # <<>> THEN {sndq, <<>>} ELSE {sndq}
    /\ recvq' = <<>>
    /\ UNCHANGED <<peer, sent, got>>

\* Mutant: the entry stays in conns_.
CloseConnKeepsEntry ==
    /\ conn' = "idle"
    /\ c' = c
    /\ wantOut' = FALSE
    /\ events' = {}
    /\ peerClosed' = FALSE
    /\ SocketCloses

CloseConn ==
    /\ conn' = "idle"
    /\ c' = NewConn
    /\ wantOut' = FALSE
    /\ events' = {}
    /\ peerClosed' = FALSE
    /\ SocketCloses

-----------------------------------------------------------------------------
(* run() and acceptLoop().                                                 *)

Accept ==
    /\ running /\ phase = "wait" /\ conn = "pending"
    /\ conn' = "open"
    /\ wantOut' = FALSE
    /\ UNCHANGED <<running, c, phase, events, peerClosed, clientVars>>

\* epoll_ctl(EPOLL_CTL_ADD) fails and the descriptor is closed.
AcceptFails ==
    /\ running /\ phase = "wait" /\ conn = "pending"
    /\ conn' = "idle"
    /\ SocketCloses
    /\ UNCHANGED <<running, c, wantOut, phase, events, peerClosed>>

\* Level-triggered: the end of the client's stream stays readable.
Ready ==
    {e \in {"HUP", "OUT", "IN"} :
        CASE e = "HUP" -> peer = "reset"
          [] e = "OUT" -> wantOut /\ Len(sndq) < SndBuf
          [] e = "IN"  -> recvq # <<>> \/ peer # "up"}

\* epoll_wait() returns the descriptor.  An answer is added for every event
\* that finds a rejected header block, so that nothing bounds outBuf; beyond
\* MaxOut the loop is not woken before the client has read its answers.
Wake ==
    /\ running /\ phase = "wait" /\ conn = "open"
    /\ Ready # {}
    /\ Len(c.outBuf) > MaxOut => sndq = <<>>
    /\ events' = Ready
    /\ phase' = IF "OUT" \in Ready THEN "out" ELSE "recv"
    /\ UNCHANGED <<running, conn, c, wantOut, peerClosed, clientVars>>

HangUp ==
    /\ phase \in {"out", "recv"} /\ "HUP" \in events
    /\ phase' = "wait"
    /\ CloseConn
    /\ UNCHANGED running

-----------------------------------------------------------------------------
(* onReadable(): read until there is no more, then parse and serve.        *)

Recv ==
    /\ phase = "recv" /\ "HUP" \notin events
    /\ recvq # <<>>
    /\ c' = [c EXCEPT !.parser = @ \o recvq]
    /\ recvq' = <<>>
    /\ UNCHANGED <<running, conn, wantOut, phase, events, peerClosed, peer, sent, sndq, got>>

\* Mutant: the end of the stream is taken for EAGAIN.
RecvMissesEnd ==
    /\ phase = "recv" /\ "HUP" \notin events
    /\ recvq = <<>>
    /\ phase' = "serve"
    /\ UNCHANGED <<running, conn, c, wantOut, events, peerClosed, clientVars>>

\* EAGAIN, or the end of the stream, or an error.
RecvEnds ==
    /\ phase = "recv" /\ "HUP" \notin events
    /\ recvq = <<>>
    /\ peerClosed' = (peer # "up")
    /\ phase' = "serve"
    /\ UNCHANGED <<running, conn, c, wantOut, events, clientVars>>

\* requestFn_ is called and its answer appended.
Serve ==
    /\ phase = "serve" /\ ParseState(c.parser) = "Complete"
    /\ LET r == Head(c.parser)
           keepAlive == KeepAlive(r)
       IN  /\ r.takes = "none" => Len(c.outBuf) <= MaxOut
           /\ \E rest \in Erased(c.parser, r) :
                c' = [c EXCEPT !.parser = rest,
                               !.outBuf = @ \o Answer(r.req, keepAlive),
                               !.closeAfterFlush = @ \/ ~keepAlive]
           /\ phase' = IF keepAlive THEN "serve" ELSE "flush"
    /\ UNCHANGED <<running, conn, wantOut, events, peerClosed, clientVars>>

\* A 400; the parser keeps what it could not parse.
ServeBad ==
    /\ phase = "serve" /\ ParseState(c.parser) = "Error"
    /\ c' = [c EXCEPT !.outBuf = @ \o Answer(Head(c.parser).req, FALSE),
                      !.closeAfterFlush = TRUE]
    /\ phase' = "flush"
    /\ UNCHANGED <<running, conn, wantOut, events, peerClosed, clientVars>>

ServeEnds ==
    /\ phase = "serve" /\ ParseState(c.parser) = "NeedMore"
    /\ phase' = "flush"
    /\ UNCHANGED <<running, conn, c, wantOut, events, peerClosed, clientVars>>

-----------------------------------------------------------------------------
(* flush(), called for EPOLLOUT (phase "out") and at the end of            *)
(* onReadable() (phase "flush").                                           *)

Flushing == phase = "flush" \/ (phase = "out" /\ "HUP" \notin events)

AfterFlush == IF phase = "out" /\ "IN" \in events THEN "recv" ELSE "wait"

\* send() takes what the socket has room for.
Send ==
    /\ Flushing /\ peer # "reset"
    /\ Unsent # <<>> /\ Len(sndq) < SndBuf
    /\ LET room == SndBuf - Len(sndq)
           n    == IF Len(Unsent) < room THEN Len(Unsent) ELSE room
       IN  /\ sndq' = sndq \o SubSeq(Unsent, 1, n)
           /\ c' = [c EXCEPT !.outOff = @ + n]
    /\ UNCHANGED <<running, conn, wantOut, phase, events, peerClosed, peer, sent, recvq, got>>

SendFails ==
    /\ Flushing /\ peer = "reset"
    /\ Unsent # <<>>
    /\ phase' = "wait"
    /\ CloseConn
    /\ UNCHANGED running

\* Mutant: onReadable() closes for a client that will send no more although
\* outBuf is not empty.
SendWouldBlockCloses ==
    /\ Flushing /\ peer # "reset"
    /\ Unsent # <<>> /\ Len(sndq) = SndBuf
    /\ IF phase = "flush" /\ peerClosed
       THEN phase' = "wait" /\ CloseConn
       ELSE /\ wantOut' = TRUE
            /\ phase' = AfterFlush
            /\ events' = {"IN"} \cap events
            /\ UNCHANGED <<conn, c, peerClosed, clientVars>>
    /\ UNCHANGED running

\* EAGAIN: the rest is sent when the socket is writable again.
SendWouldBlock ==
    /\ Flushing /\ peer # "reset"
    /\ Unsent # <<>> /\ Len(sndq) = SndBuf
    /\ wantOut' = TRUE
    /\ phase' = AfterFlush
    /\ events' = {"IN"} \cap events
    /\ peerClosed' = FALSE
    /\ UNCHANGED <<running, conn, c, clientVars>>

\* Everything is out: flush() closes after a last answer, and onReadable()
\* closes when the client will send no more.
FlushedAndCloses ==
    /\ Flushing /\ Unsent = <<>>
    /\ c.closeAfterFlush \/ (phase = "flush" /\ peerClosed)
    /\ phase' = "wait"
    /\ CloseConn
    /\ UNCHANGED running

Flushed ==
    /\ Flushing /\ Unsent = <<>>
    /\ ~c.closeAfterFlush /\ ~(phase = "flush" /\ peerClosed)
    /\ c' = [c EXCEPT !.outBuf = <<>>, !.outOff = 0]
    /\ wantOut' = FALSE
    /\ phase' = AfterFlush
    /\ events' = {"IN"} \cap events
    /\ peerClosed' = FALSE
    /\ UNCHANGED <<running, conn, clientVars>>

-----------------------------------------------------------------------------
(* The end of run().                                                       *)

Stop ==
    /\ running
    /\ running' = FALSE
    /\ UNCHANGED <<conn, c, wantOut, phase, events, peerClosed, clientVars>>

\* The loop sees running_ when it has handled the events it had.
Exit ==
    /\ ~running /\ phase = "wait"
    /\ phase' = "stopped"
    /\ CloseConn
    /\ UNCHANGED running

-----------------------------------------------------------------------------

Loop ==
    \/ Accept \/ AcceptFails
    \/ Wake \/ HangUp
    \/ Recv \/ RecvEnds
    \/ Serve \/ ServeBad \/ ServeEnds
    \/ Send \/ SendFails \/ SendWouldBlock
    \/ FlushedAndCloses \/ Flushed
    \/ Exit

Client ==
    \/ Connect
    \/ \E kind \in Kinds, units \in 1..MaxUnits, takes \in {"all", "none", "part"} :
         BeginRequest(kind, units, takes)
    \/ ContinueRequest
    \/ HalfClose
    \/ Reset
    \/ Receive

Next == Loop \/ Client \/ Stop

Spec == Init /\ [][Next]_vars

\* The loop's thread runs, requestFn_ returns, and the client reads what is
\* there for it.  There is no idle timeout: of a client that does not read
\* nothing can be promised.
FairSpec == Spec /\ WF_vars(Loop) /\ WF_vars(Receive)
-----------------------------------------------------------------------------
(* Properties.                                                             *)

RequestUnits == [req : 1..MaxRequests, kind : {"keep", "close", "bad", "long", "torn"},
                 left : 0..MaxUnits, takes : {"all", "none", "part"}]
AnswerUnit == [req : 1..MaxRequests, part : 1..AnswerUnits, last : BOOLEAN]

\* The type invariant.  The socket never holds more than it has room for, and
\* the offset of flush() stays inside outBuf.
TypeOK ==
    /\ running \in BOOLEAN
    /\ conn \in {"idle", "pending", "open"}
    /\ c \in [parser : Seq(RequestUnits), outBuf : Seq(AnswerUnit),
              outOff : Nat, closeAfterFlush : BOOLEAN]
    /\ c.outOff <= Len(c.outBuf)
    /\ wantOut \in BOOLEAN
    /\ phase \in {"wait", "out", "recv", "serve", "flush", "stopped"}
    /\ events \subseteq {"HUP", "OUT", "IN"}
    /\ peerClosed \in BOOLEAN
    /\ peer \in {"up", "fin", "reset"}
    /\ sent \in Seq(RequestUnits) /\ recvq \in Seq(RequestUnits)
    /\ got \in Seq(AnswerUnit)
    /\ sndq \in Seq(AnswerUnit) /\ Len(sndq) <= SndBuf

OfKind(n, kinds) == \E i \in DOMAIN sent : sent[i].req = n /\ sent[i].kind \in kinds

WhollySent(n) == \E i \in DOMAIN sent : sent[i].req = n /\ sent[i].left = 0

\* What the client has received, followed by what is on its way to it.
Stream == IF peer = "reset" THEN got ELSE got \o sndq \o Unsent

IsLast(u) == u.last /\ u.part = AnswerUnits

Wraps(u) == u.takes # "all"

\* Place i of the answers is behind that of a request whose length wraps.
AfterWrapped(i) == \E j \in DOMAIN sent : Wraps(sent[j]) /\ i > sent[j].req * AnswerUnits

\* The answers of EventLoop::onReadable() and flush(), up to the first that
\* says "Connection: close", are whole and in the order of the requests, one
\* for each, only a request that is completely there is served, and an answer
\* ends the connection only if the client asked for that or its header block
\* was rejected.  Nothing of an earlier connection is in them.  After a request
\* whose length wraps nothing is promised: its remains may be answered too.
AnswersInOrder ==
    \A i \in 1..Len(Stream) :
        (\A j \in 1..(i - 1) : ~IsLast(Stream[j])) /\ ~AfterWrapped(i) =>
            LET u == Stream[i] IN
            /\ u.part \in 1..AnswerUnits
            /\ i = (u.req - 1) * AnswerUnits + u.part
            /\ IF u.last THEN OfKind(u.req, {"close", "bad", "long"})
                         ELSE WhollySent(u.req) /\ OfKind(u.req, {"keep", "long"})

\* The client sent something after a request that ends the connection, so that
\* close() may cost it the answers.
SentTooMuch ==
    \E i \in 1..(Len(sent) - 1) :
        sent[i].kind \in {"bad", "long"} \/ (sent[i].kind = "close" /\ sent[i].left = 0)

\* A request with a length that wraps has been sent on this connection.
WrapSent == \E i \in DOMAIN sent : Wraps(sent[i])

Answered(n) ==
    \A k \in 1..AnswerUnits : \E i \in DOMAIN got : got[i].req = n /\ got[i].part = k

\* A request that is completely sent, after others that keep the connection,
\* is answered in full, also when the client has half-closed and the answer
\* takes many calls of flush(), unless the client goes away, sends more than
\* it may or a length that wraps, or the loop is stopped.
CompleteRequestsAnswered ==
    \A n \in 1..MaxRequests :
        (conn = "open" /\ WhollySent(n))
            ~> (Answered(n) \/ peer = "reset" \/ SentTooMuch \/ WrapSent \/ ~running)

\* A connection whose client is done with it, or that was told it is over, is
\* closed and its Conn given back.  The exceptions are a rejected header block of
\* a half-closed client, for which onReadable() adds an answer at every turn, and
\* a length that wraps, for which it may never leave its loop.
ConnectionEnds ==
    (conn = "open" /\ (peer # "up" \/ c.closeAfterFlush))
        ~> (conn = "idle" \/ (peer = "fin" /\ ParseState(c.parser) = "Error") \/ WrapSent)
=============================================================================
