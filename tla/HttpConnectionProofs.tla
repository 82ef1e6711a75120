------------------------- MODULE HttpConnectionProofs -------------------------
(***************************************************************************)
(* That the answers on a client connection are whole, in order and about   *)
(* requests that are there, however the requests and the answers are cut   *)
(* into pieces: for any number of requests and units, any size of an       *)
(* answer and of the send buffer, up to a request whose length wraps.      *)
(***************************************************************************)
EXTENDS HttpConnection, SequenceTheorems, TLAPS

-----------------------------------------------------------------------------
(* The invariant's parts.                                                  *)

\* Only an accepted connection has a Conn, and only for one does the loop do anything.
OnlyOpen ==
    /\ conn # "open" => c = NewConn
    /\ phase \in {"out", "recv", "serve", "flush"} => conn = "open"
    /\ peer = "reset" => sndq = <<>> /\ recvq = <<>>

\* Requests are sent one after the other, and the units of one in order.
SentInOrder ==
    /\ Len(sent) > 0 => sent[1].req = 1
    /\ \A i \in 1..Len(sent) : i + 1 <= Len(sent) /\ sent[i].left = 0 => sent[i + 1].req = sent[i].req + 1
    /\ \A i, j \in 1..Len(sent) : i <= j /\ j - i <= sent[i].left =>
         /\ sent[j].req = sent[i].req /\ sent[j].kind = sent[i].kind
         /\ sent[j].left = sent[i].left - (j - i)
    /\ \A i \in 1..Len(sent) : sent[i].kind \in Kinds

\* The parser and the socket hold what the client has sent after its first k units.
HeldFrom(k) ==
    /\ k \in 0..Len(sent)
    /\ k + Len(c.parser) + Len(recvq) = Len(sent)
    /\ \A i \in 1..Len(c.parser) : c.parser[i] = sent[k + i]
    /\ \A i \in 1..Len(recvq) : recvq[i] = sent[k + Len(c.parser) + i]

\* The first k units are d requests.
Requested(k, d) == IF k = 0 THEN d = 0 ELSE sent[k].req = d /\ sent[k].left = 0

\* No answer so far ends the connection.
GoesOn(s) == \A i \in 1..Len(s) : ~IsLast(s[i])

\* Until then one answer has been given for each request that has left the parser.
Served ==
    \E k \in Nat :
        /\ HeldFrom(k)
        /\ GoesOn(Stream) => \E d \in Nat : Len(Stream) = d * AnswerUnits /\ Requested(k, d)

\* A request whose length wraps has been answered, so that what the parser holds may be
\* no request of the client, or an answer has said that it is the last.
Over ==
    GoesOn(Stream) =>
        \E i \in 1..Len(sent) : Wraps(sent[i]) /\ Len(Stream) >= sent[i].req * AnswerUnits

\* u is the unit that belongs at place i of the answers.
Fits(u, i) ==
    /\ u.part \in 1..AnswerUnits
    /\ i = (u.req - 1) * AnswerUnits + u.part
    /\ IF u.last THEN OfKind(u.req, {"close", "bad", "long"})
                 ELSE WhollySent(u.req) /\ OfKind(u.req, {"keep", "long"})

\* The inductive invariant.  AnswersInOrder is about what Serve appends, so it needs to
\* know that the head of the parser is the request after those answered (Served), and
\* that the parser begins with the first unit of a request (Requested, SentInOrder).
\* That ends where a length wraps; the places after it are those that AnswersInOrder
\* leaves open (Over).
IInv ==
    /\ TypeOK
    /\ OnlyOpen
    /\ SentInOrder
    /\ AnswersInOrder
    /\ conn # "idle" /\ peer # "reset" => Served \/ Over

-----------------------------------------------------------------------------
(* The types.                                                              *)

Conns == [parser : Seq(RequestUnits), outBuf : Seq(AnswerUnit), outOff : Nat, closeAfterFlush : BOOLEAN]

\* What a Conn consists of.
LEMMA ConnFields ==
    ASSUME TypeOK
    PROVE  /\ c.parser \in Seq(RequestUnits) /\ c.outBuf \in Seq(AnswerUnit) /\ c.outOff \in Nat
           /\ c.outOff <= Len(c.outBuf) /\ c.closeAfterFlush \in BOOLEAN
           /\ Len(c.parser) \in Nat /\ Len(c.outBuf) \in Nat
           /\ Len(recvq) \in Nat /\ Len(sndq) \in Nat /\ Len(got) \in Nat /\ Len(sent) \in Nat
  BY DEF TypeOK

\* A new one.
LEMMA NewConnTyped ==
    /\ NewConn \in Conns /\ NewConn.outOff <= Len(NewConn.outBuf)
    /\ NewConn.parser = <<>> /\ NewConn.outBuf = <<>> /\ NewConn.outOff = 0
  BY DEF NewConn, Conns

\* One with another outBuf and offset.
LEMMA ConnWith ==
    ASSUME NEW x \in Conns, NEW e \in Seq(AnswerUnit), NEW n \in Nat
    PROVE  [x EXCEPT !.outBuf = e, !.outOff = n] \in Conns
  BY DEF Conns

\* An answer.
LEMMA AnswerTyped ==
    ASSUME NEW n \in 1..MaxRequests, NEW keepAlive \in BOOLEAN
    PROVE  /\ Answer(n, keepAlive) \in Seq(AnswerUnit) /\ Len(Answer(n, keepAlive)) = AnswerUnits
           /\ \A i \in 1..AnswerUnits :
                /\ Answer(n, keepAlive)[i].req = n /\ Answer(n, keepAlive)[i].part = i
                /\ Answer(n, keepAlive)[i].last <=> ~keepAlive
<1> DEFINE e(i) == [req |-> n, part |-> i, last |-> ~keepAlive]
<1>1. AnswerUnits \in Nat
  BY ConstantsAssumption
<1>2. \A i \in 1..AnswerUnits : e(i) \in AnswerUnit
  BY DEF AnswerUnit
<1>3. \A i \in 1..AnswerUnits : e(i).req = n /\ e(i).part = i /\ (e(i).last <=> ~keepAlive)
  OBVIOUS
<1>4. Answer(n, keepAlive) = [i \in 1..AnswerUnits |-> e(i)]
  BY DEF Answer
<1> HIDE DEF e
<1> DEFINE a == Answer(n, keepAlive)
<1>5. a \in [1..AnswerUnits -> AnswerUnit] /\ \A i \in 1..AnswerUnits : a[i] = e(i)
  BY <1>2, <1>4
<1> HIDE DEF a
<1>6. a \in Seq(AnswerUnit) /\ Len(a) = AnswerUnits
  BY <1>1, <1>5
<1>7. QED
  BY <1>3, <1>5, <1>6 DEF a

\* The elements of b after the first o: what flush() has still to send.
LEMMA RestTyped ==
    ASSUME NEW S, NEW b \in Seq(S), NEW o \in Nat, o <= Len(b)
    PROVE  /\ SubSeq(b, o + 1, Len(b)) \in Seq(S) /\ Len(SubSeq(b, o + 1, Len(b))) = Len(b) - o
           /\ \A i \in 1..(Len(b) - o) : SubSeq(b, o + 1, Len(b))[i] = b[o + i]
<1>1. Len(b) \in Nat
  OBVIOUS
<1>3. \A i \in (o + 1)..Len(b) : b[i] \in S
  BY <1>1
<1>4. /\ SubSeq(b, o + 1, Len(b)) \in Seq(S)
      /\ Len(SubSeq(b, o + 1, Len(b))) = IF o + 1 <= Len(b) THEN Len(b) - (o + 1) + 1 ELSE 0
      /\ \A i \in 1..(Len(b) - (o + 1) + 1) : SubSeq(b, o + 1, Len(b))[i] = b[o + 1 + i - 1]
  BY <1>1, <1>3, SubSeqProperties
<1> DEFINE z == SubSeq(b, o + 1, Len(b))
<1> HIDE DEF z
<1>5. z \in Seq(S) /\ Len(z) = Len(b) - o /\ \A i \in 1..(Len(b) - o) : z[i] = b[o + i]
  BY <1>1, <1>4 DEF z
<1>6. QED
  BY <1>5 DEF z

\* Two sequences, one after the other.
LEMMA JoinedTwo ==
    ASSUME NEW S, NEW g \in Seq(S), NEW q \in Seq(S)
    PROVE  /\ g \o q \in Seq(S) /\ Len(g \o q) = Len(g) + Len(q) /\ Len(g) \in Nat /\ Len(q) \in Nat
           /\ \A i \in 1..Len(g) : (g \o q)[i] = g[i]
           /\ \A i \in 1..Len(q) : (g \o q)[Len(g) + i] = q[i]
  OBVIOUS

\* Three sequences, one after the other.
LEMMA JoinedThree ==
    ASSUME NEW S, NEW g \in Seq(S), NEW q \in Seq(S), NEW u \in Seq(S)
    PROVE  /\ g \o q \o u \in Seq(S) /\ Len(g \o q \o u) = Len(g) + Len(q) + Len(u)
           /\ \A i \in 1..Len(g) : (g \o q \o u)[i] = g[i]
           /\ \A i \in 1..Len(q) : (g \o q \o u)[Len(g) + i] = q[i]
           /\ \A i \in 1..Len(u) : (g \o q \o u)[Len(g) + Len(q) + i] = u[i]
<1> DEFINE h == g \o q
<1>1. /\ h \in Seq(S) /\ Len(h) = Len(g) + Len(q) /\ Len(g) \in Nat /\ Len(q) \in Nat
      /\ \A i \in 1..Len(g) : h[i] = g[i]
      /\ \A i \in 1..Len(q) : h[Len(g) + i] = q[i]
  BY JoinedTwo
<1> HIDE DEF h
<1> DEFINE t == h \o u
<1>2. /\ t \in Seq(S) /\ Len(t) = Len(h) + Len(u) /\ Len(u) \in Nat
      /\ \A i \in 1..Len(h) : t[i] = h[i]
      /\ \A i \in 1..Len(u) : t[Len(h) + i] = u[i]
  <2>1. h \in Seq(S) /\ u \in Seq(S)
    BY <1>1
  <2>2. QED
    BY ONLY <2>1, JoinedTwo
<1> HIDE DEF t
<1>3. QED
  BY <1>1, <1>2 DEF t, h

\* The constants.
LEMMA Bounds == MaxRequests \in Nat /\ MaxUnits \in Nat /\ AnswerUnits \in Nat /\ AnswerUnits > 0 /\ SndBuf \in Nat
  BY ConstantsAssumption

\* What is not sent yet.
LEMMA UnsentTyped ==
    ASSUME TypeOK
    PROVE  /\ Unsent \in Seq(AnswerUnit) /\ Len(Unsent) = Len(c.outBuf) - c.outOff /\ Len(Unsent) \in Nat
           /\ \A i \in 1..Len(Unsent) : Unsent[i] = c.outBuf[c.outOff + i]
<1> DEFINE b == c.outBuf
           o == c.outOff
<1>1. b \in Seq(AnswerUnit) /\ o \in Nat /\ o <= Len(b) /\ Len(b) \in Nat
  BY ConnFields
<1>2. Unsent = SubSeq(b, o + 1, Len(b))
  BY DEF Unsent
<1> HIDE DEF b, o
<1>3. /\ Unsent \in Seq(AnswerUnit) /\ Len(Unsent) = Len(b) - o
      /\ \A i \in 1..(Len(b) - o) : Unsent[i] = b[o + i]
  BY <1>1, <1>2, RestTyped
<1>4. Len(Unsent) \in Nat
  BY <1>1, <1>3
<1>5. QED
  BY <1>3, <1>4 DEF b, o

\* A unit of a request.
LEMMA UnitFields ==
    ASSUME NEW u \in RequestUnits
    PROVE  /\ u.left \in Nat /\ u.req \in Nat /\ u.req \in 1..MaxRequests
           /\ u.takes \in {"all", "none", "part"}
  BY Bounds DEF RequestUnits

\* The last unit that was sent.
LEMMA LastSent ==
    ASSUME TypeOK
    PROVE  /\ Requests \in 0..MaxRequests
           /\ sent # <<>> => /\ sent[Len(sent)] \in RequestUnits /\ Len(sent) \in 1..Len(sent)
                             /\ Requests = sent[Len(sent)].req
<1>1. sent \in Seq(RequestUnits) /\ Len(sent) \in Nat
  BY DEF TypeOK
<1>2. sent # <<>> => Len(sent) \in 1..Len(sent)
  BY <1>1
<1>3. sent # <<>> => sent[Len(sent)] \in RequestUnits
  BY <1>1, <1>2, ElementOfSeq
<1>4. QED
  BY <1>2, <1>3, Bounds DEF Requests, RequestUnits

\* The close of a connection.
LEMMA CloseTyped ==
    ASSUME TypeOK, CloseConn, running' = running, phase' \in {"wait", "stopped"}
    PROVE  TypeOK'
<1>1. /\ conn' = "idle" /\ c' = NewConn /\ wantOut' = FALSE /\ events' = {} /\ peerClosed' = FALSE
      /\ recvq' = <<>> /\ sndq' \in {sndq, <<>>} /\ UNCHANGED <<peer, sent, got>>
  BY DEF CloseConn, SocketCloses
<1>2. c' \in Conns /\ c'.outOff <= Len(c'.outBuf)
  BY <1>1, NewConnTyped
<1>3. sndq' \in Seq(AnswerUnit) /\ Len(sndq') <= SndBuf
  <2>1. CASE sndq' = <<>>
    BY <2>1, Bounds
  <2>2. CASE sndq' = sndq
    BY <2>2 DEF TypeOK
  <2>3. QED
    BY <1>1, <2>1, <2>2
<1>4. recvq' \in Seq(RequestUnits)
  BY <1>1
<1>5. QED
  BY <1>1, <1>2, <1>3, <1>4 DEF TypeOK, Conns

\* The steps of the client.
LEMMA ClientTyped ==
    ASSUME TypeOK, Client
    PROVE  TypeOK'
<1>1. CASE Connect
  BY <1>1 DEF Connect, TypeOK
<1>2. ASSUME NEW u \in RequestUnits, Transmit(u) PROVE TypeOK'
  BY <1>2 DEF Transmit, TypeOK, loopVars
<1>3. ASSUME NEW kind \in Kinds, NEW units \in 1..MaxUnits, NEW takes \in {"all", "none", "part"},
             BeginRequest(kind, units, takes)
      PROVE  TypeOK'
  <2>1. [req |-> Requests + 1, kind |-> kind, left |-> units - 1, takes |-> takes] \in RequestUnits
    BY <1>3, LastSent, Bounds, ConstantsAssumption DEF BeginRequest, RequestUnits
  <2>2. QED
    BY <1>2, <1>3, <2>1 DEF BeginRequest
<1>4. CASE ContinueRequest
  <2>1. [sent[Len(sent)] EXCEPT !.left = @ - 1] \in RequestUnits
    BY <1>4, LastSent, Bounds DEF ContinueRequest, RequestUnits
  <2>2. QED
    BY <1>2, <1>4, <2>1 DEF ContinueRequest
<1>5. CASE HalfClose
  BY <1>5 DEF HalfClose, TypeOK, loopVars
<1>6. CASE Reset
  BY <1>6, Bounds DEF Reset, TypeOK, loopVars
<1>7. CASE Receive
  <2>1. sndq # <<>> /\ sndq \in Seq(AnswerUnit) /\ got \in Seq(AnswerUnit) /\ Len(sndq) <= SndBuf
    BY <1>7 DEF Receive, TypeOK
  <2>2. Head(sndq) \in AnswerUnit /\ Tail(sndq) \in Seq(AnswerUnit) /\ Len(Tail(sndq)) = Len(sndq) - 1
    BY <2>1
  <2>3. got' \in Seq(AnswerUnit) /\ sndq' \in Seq(AnswerUnit) /\ Len(sndq') <= SndBuf
    BY <1>7, <2>1, <2>2, Bounds DEF Receive
  <2>4. QED
    BY <1>7, <2>3 DEF Receive, TypeOK, loopVars
<1>8. QED
  BY <1>1, <1>3, <1>4, <1>5, <1>6, <1>7 DEF Client

\* What the rest of a request is taken for.
LEMMA RemainsTyped ==
    ASSUME NEW q \in RequestUnits, NEW u \in Remains(q)
    PROVE  u \in RequestUnits
<1>1. PICK kind \in {"bad", "torn", "keep", "close"}, takes \in {"all", "none"} :
        u = [q EXCEPT !.kind = kind, !.left = 0, !.takes = takes]
  BY DEF Remains
<1>2. 0 \in 0..MaxUnits
  BY Bounds
<1>3. QED
  BY <1>1, <1>2 DEF RequestUnits

\* What parse() may leave in its buffer.
LEMMA ErasedTyped ==
    ASSUME NEW p \in Seq(RequestUnits), p # <<>>, Len(p) > Head(p).left, NEW z \in Erased(p, Head(p))
    PROVE  z \in Seq(RequestUnits)
<1> DEFINE r == Head(p)
           y == SubSeq(p, r.left + 2, Len(p))
<1>1. r \in RequestUnits /\ Len(p) \in Nat
  OBVIOUS
<1>2. r.left \in Nat /\ r.takes \in {"all", "none", "part"}
  BY <1>1, UnitFields
<1>3. y \in Seq(RequestUnits)
  <2> HIDE DEF r
  <2>1. Len(p) > r.left
    BY DEF r
  <2>2. r.left + 1 \in Nat /\ r.left + 1 <= Len(p) /\ (r.left + 1) + 1 = r.left + 2
    BY <1>1, <1>2, <2>1
  <2>3. SubSeq(p, (r.left + 1) + 1, Len(p)) \in Seq(RequestUnits)
    BY ONLY <2>2, p \in Seq(RequestUnits), RestTyped
  <2>4. QED
    BY <2>2, <2>3
<1>4. z \in CASE r.takes = "all"  -> {y}
              [] r.takes = "none" -> {p}
              [] r.takes = "part" -> {<<u>> \o y : u \in Remains(r)}
  BY DEF Erased
<1>5. \A u \in Remains(r) : u \in RequestUnits
  BY <1>1, RemainsTyped
<1> HIDE DEF r, y
<1>6. CASE r.takes = "part"
  <2>1. PICK u \in Remains(r) : z = <<u>> \o y
    BY <1>4, <1>6
  <2>2. <<u>> \in Seq(RequestUnits)
    BY <1>5
  <2>3. QED
    BY <1>3, <2>1, <2>2
<1>7. QED
  BY <1>2, <1>3, <1>4, <1>6

\* The steps of the loop that read and serve.
LEMMA ReadTyped ==
    ASSUME TypeOK, Accept \/ AcceptFails \/ Wake \/ Recv \/ RecvEnds \/ Serve \/ ServeBad \/ ServeEnds
    PROVE  TypeOK'
<1>1. CASE Accept
  BY <1>1 DEF Accept, TypeOK, clientVars
<1>2. CASE AcceptFails
  <2>1. sndq' = sndq \/ sndq' = <<>>
    BY <1>2 DEF AcceptFails, SocketCloses
  <2>2. sndq' \in Seq(AnswerUnit) /\ Len(sndq') <= SndBuf
    <3>1. CASE sndq' = <<>>
      BY <3>1, Bounds
    <3>2. CASE sndq' = sndq
      BY <3>2 DEF TypeOK
    <3>3. QED
      BY <2>1, <3>1, <3>2
  <2>3. QED
    BY <1>2, <2>2 DEF AcceptFails, SocketCloses, TypeOK
<1>3. CASE Wake
  BY <1>3 DEF Wake, Ready, TypeOK, clientVars
<1>4. CASE Recv
  <2>1. c' = [c EXCEPT !.parser = c.parser \o recvq]
    BY <1>4 DEF Recv
  <2>2. c.parser \in Seq(RequestUnits) /\ recvq \in Seq(RequestUnits) /\ c \in Conns
    BY DEF TypeOK, Conns
  <2>3. c.parser \o recvq \in Seq(RequestUnits)
    BY <2>2
  <2>4. c' \in Conns /\ c'.outOff = c.outOff /\ c'.outBuf = c.outBuf
    BY <2>1, <2>2, <2>3 DEF Conns
  <2>5. QED
    BY <1>4, <2>4 DEF Recv, TypeOK, Conns
<1>5. CASE RecvEnds
  BY <1>5 DEF RecvEnds, TypeOK, clientVars
<1>6. CASE Serve
  <2> DEFINE p == c.parser
             r == Head(p)
  <2>1. p # <<>> /\ Len(p) > r.left
    BY <1>6 DEF Serve, ParseState, HeaderState, IsWhole
  <2>2. p \in Seq(RequestUnits) /\ c.outBuf \in Seq(AnswerUnit) /\ c \in Conns /\ c.outOff \in Nat
        /\ c.outOff <= Len(c.outBuf)
    BY DEF TypeOK, Conns
  <2>3. r \in RequestUnits
    BY <2>1, <2>2
  <2>4. r.left \in Nat /\ r.req \in 1..MaxRequests /\ KeepAlive(r) \in BOOLEAN
    BY <2>3 DEF RequestUnits, KeepAlive
  <2> DEFINE a == Answer(r.req, KeepAlive(r))
  <2>5. PICK z \in Erased(p, r) :
          c' = [c EXCEPT !.parser = z, !.outBuf = c.outBuf \o a,
                         !.closeAfterFlush = c.closeAfterFlush \/ ~KeepAlive(r)]
    BY <1>6 DEF Serve
  <2>6. a \in Seq(AnswerUnit)
    BY <2>4, AnswerTyped
  <2>7. z \in Seq(RequestUnits)
    BY <2>1, <2>2, ErasedTyped
  <2> HIDE DEF p, r, a
  <2>8. c.outBuf \o a \in Seq(AnswerUnit) /\ Len(c.outBuf \o a) >= Len(c.outBuf) /\ Len(c.outBuf) \in Nat
    BY <2>2, <2>6
  <2>9. c' \in Conns /\ c'.outOff = c.outOff /\ c'.outBuf = c.outBuf \o a
    BY <2>2, <2>5, <2>7, <2>8 DEF Conns
  <2>10. c'.outOff <= Len(c'.outBuf)
    BY <2>2, <2>8, <2>9
  <2>11. phase' \in {"serve", "flush"}
    BY <1>6 DEF Serve
  <2>12. QED
    BY <1>6, <2>9, <2>10, <2>11 DEF Serve, TypeOK, Conns, clientVars
<1>7. CASE ServeBad
  <2> DEFINE a == Answer(Head(c.parser).req, FALSE)
  <2>1. c.parser # <<>>
    BY <1>7 DEF ServeBad, ParseState, HeaderState
  <2>2. c.parser \in Seq(RequestUnits) /\ c.outBuf \in Seq(AnswerUnit) /\ c \in Conns /\ c.outOff \in Nat
        /\ c.outOff <= Len(c.outBuf)
    BY DEF TypeOK, Conns
  <2>3. Head(c.parser) \in RequestUnits
    BY <2>1, <2>2
  <2>4. a \in Seq(AnswerUnit)
    BY <2>3, AnswerTyped DEF RequestUnits
  <2>5. c' = [c EXCEPT !.outBuf = c.outBuf \o a, !.closeAfterFlush = TRUE]
    BY <1>7 DEF ServeBad
  <2> HIDE DEF a
  <2>8. c.outBuf \o a \in Seq(AnswerUnit) /\ Len(c.outBuf \o a) >= Len(c.outBuf) /\ Len(c.outBuf) \in Nat
    BY <2>2, <2>4
  <2>9. c' \in Conns /\ c'.outOff = c.outOff /\ c'.outBuf = c.outBuf \o a
    BY <2>2, <2>5, <2>8 DEF Conns
  <2>10. c'.outOff <= Len(c'.outBuf)
    BY <2>2, <2>8, <2>9
  <2>12. QED
    BY <1>7, <2>9, <2>10 DEF ServeBad, TypeOK, Conns, clientVars
<1>8. CASE ServeEnds
  BY <1>8 DEF ServeEnds, TypeOK, clientVars
<1>9. QED
  BY <1>1, <1>2, <1>3, <1>4, <1>5, <1>6, <1>7, <1>8

\* What one call of send() takes.
LEMMA SendFacts ==
    ASSUME TypeOK, Send
    PROVE  \E n \in 1..Len(Unsent) :
             /\ sndq' = sndq \o SubSeq(Unsent, 1, n) /\ Len(sndq) + n <= SndBuf
             /\ c' = [c EXCEPT !.outOff = c.outOff + n]
<1> DEFINE room == SndBuf - Len(sndq)
           n == IF Len(Unsent) < room THEN Len(Unsent) ELSE room
<1>1. Unsent \in Seq(AnswerUnit) /\ Unsent # <<>> /\ Len(sndq) < SndBuf /\ Len(sndq) \in Nat /\ SndBuf \in Nat
  BY UnsentTyped, ConnFields, Bounds DEF Send
<1>2. sndq' = sndq \o SubSeq(Unsent, 1, n) /\ c' = [c EXCEPT !.outOff = c.outOff + n]
  BY DEF Send
<1>3. Len(Unsent) \in Nat \ {0}
  BY <1>1
<1>4. n \in 1..Len(Unsent) /\ Len(sndq) + n <= SndBuf
  BY <1>1, <1>3
<1> HIDE DEF n
<1>5. QED
  BY <1>2, <1>4

\* The steps of flush(), and those that close.
LEMMA FlushTyped ==
    ASSUME TypeOK, Send \/ SendFails \/ SendWouldBlock \/ FlushedAndCloses \/ Flushed \/ HangUp \/ Exit
    PROVE  TypeOK'
<1>1. CASE Send
  <2>1. PICK n \in 1..Len(Unsent) :
             /\ sndq' = sndq \o SubSeq(Unsent, 1, n) /\ Len(sndq) + n <= SndBuf
             /\ c' = [c EXCEPT !.outOff = c.outOff + n]
    BY <1>1, SendFacts
  <2>2. /\ Unsent \in Seq(AnswerUnit) /\ Len(Unsent) = Len(c.outBuf) - c.outOff /\ Len(Unsent) \in Nat
        /\ sndq \in Seq(AnswerUnit) /\ c \in Conns /\ c.outOff \in Nat /\ Len(c.outBuf) \in Nat
    BY UnsentTyped DEF TypeOK, Conns
  <2> DEFINE z == SubSeq(Unsent, 1, n)
  <2>3. z \in Seq(AnswerUnit) /\ Len(z) = n
    <3>1. \A i \in 1..n : Unsent[i] \in AnswerUnit
      BY <2>2
    <3>2. QED
      BY <2>2, <3>1, SubSeqProperties
  <2> HIDE DEF z
  <2>4. sndq \o z \in Seq(AnswerUnit) /\ Len(sndq \o z) = Len(sndq) + n
    BY <2>2, <2>3
  <2>5. sndq' \in Seq(AnswerUnit) /\ Len(sndq') <= SndBuf
    BY <2>1, <2>4 DEF z
  <2>6. c' \in Conns /\ c'.outOff = c.outOff + n /\ c'.outBuf = c.outBuf
    <3>1. c.outOff + n \in Nat
      BY <2>2
    <3> DEFINE m == c.outOff + n
    <3> HIDE DEF m
    <3>2. c' = [c EXCEPT !.outOff = m] /\ m \in Nat
      BY <2>1, <3>1 DEF m
    <3>3. c' \in Conns /\ c'.outOff = m /\ c'.outBuf = c.outBuf
      BY <2>2, <3>2 DEF Conns
    <3>4. QED
      BY <3>3 DEF m
  <2>7. c'.outOff <= Len(c'.outBuf)
    BY <2>2, <2>6
  <2>8. QED
    BY <1>1, <2>5, <2>6, <2>7 DEF Send, TypeOK, Conns
<1>2. CASE SendFails \/ FlushedAndCloses \/ HangUp \/ Exit
  BY <1>2, CloseTyped DEF SendFails, FlushedAndCloses, HangUp, Exit
<1>3. CASE SendWouldBlock
  BY <1>3 DEF SendWouldBlock, AfterFlush, TypeOK, clientVars
<1>4. CASE Flushed
  <2>1. c' = [c EXCEPT !.outBuf = <<>>, !.outOff = 0] /\ c \in Conns
    BY <1>4 DEF Flushed, TypeOK, Conns
  <2>2. c' \in Conns /\ c'.outOff <= Len(c'.outBuf)
    <3>1. c'.outBuf = <<>> /\ c'.outOff = 0
      BY <2>1 DEF Conns
    <3>2. PICK e \in Seq(AnswerUnit) : e = <<>>
      BY ONLY EmptySeq
    <3>3. c' = [c EXCEPT !.outBuf = e, !.outOff = 0]
      BY <2>1, <3>2
    <3>4. [c EXCEPT !.outBuf = e, !.outOff = 0] \in Conns
      <4>1. c \in Conns /\ 0 \in Nat
        BY <2>1
      <4>2. QED
        BY ONLY <4>1, <3>2, ConnWith
    <3>5. QED
      BY <3>1, <3>3, <3>4
  <2>3. QED
    BY <1>4, <2>2 DEF Flushed, AfterFlush, TypeOK, Conns, clientVars
<1>5. QED
  BY <1>1, <1>2, <1>3, <1>4

\* Every step keeps the types.
LEMMA TypeStep == TypeOK /\ [Next]_vars => TypeOK'
<1>1. SUFFICES ASSUME TypeOK, [Next]_vars PROVE TypeOK'
  OBVIOUS
<1>2. CASE Client
  BY <1>1, <1>2, ClientTyped
<1>3. CASE Loop
  BY <1>1, <1>3, ReadTyped, FlushTyped DEF Loop
<1>4. CASE Stop
  BY <1>1, <1>4 DEF Stop, TypeOK, clientVars
<1>5. CASE UNCHANGED vars
  BY <1>1, <1>5 DEF vars, loopVars, clientVars, TypeOK
<1>6. QED
  BY <1>1, <1>2, <1>3, <1>4, <1>5 DEF Next

-----------------------------------------------------------------------------
(* The stream of answers.                                                  *)

\* It is a sequence of units, and before a reset it has the three parts.
StreamParts ==
    /\ Stream \in Seq(AnswerUnit) /\ Len(Stream) \in Nat
    /\ peer # "reset" => Stream = got \o sndq \o Unsent
    /\ peer = "reset" => Stream = got

LEMMA StreamTyped == TypeOK => StreamParts
<1>1. SUFFICES ASSUME TypeOK PROVE StreamParts
  OBVIOUS
<1>2. Unsent \in Seq(AnswerUnit) /\ got \in Seq(AnswerUnit) /\ sndq \in Seq(AnswerUnit)
  BY <1>1, UnsentTyped DEF TypeOK
<1>3. got \o sndq \o Unsent \in Seq(AnswerUnit)
  BY ONLY <1>2, JoinedThree
<1>4. Stream \in Seq(AnswerUnit)
  BY <1>2, <1>3 DEF Stream
<1>5. Len(Stream) \in Nat
  BY ONLY <1>4
<1>6. QED
  BY <1>4, <1>5 DEF Stream, StreamParts

\* The same of the next state.
LEMMA StreamTypedNext == TypeOK' => StreamParts'
BY StreamTyped, PTL

\* What was sent stays sent.
Grows == \A i \in 1..Len(sent) : i \in 1..Len(sent') /\ sent'[i] = sent[i]

LEMMA GrowsKeeps ==
    ASSUME TypeOK, TypeOK', Grows, NEW n, NEW kinds
    PROVE  /\ OfKind(n, kinds) => OfKind(n, kinds)'
           /\ WhollySent(n) => WhollySent(n)'
           /\ AfterWrapped(n) => AfterWrapped(n)'
<1>1. DOMAIN sent = 1..Len(sent) /\ DOMAIN sent' = 1..Len(sent')
  BY DEF TypeOK
<1>2. (OfKind(n, kinds) => OfKind(n, kinds)') /\ (WhollySent(n) => WhollySent(n)')
  BY <1>1 DEF Grows, OfKind, WhollySent
<1>3. AfterWrapped(n) => AfterWrapped(n)'
  BY <1>1 DEF Grows, AfterWrapped, Wraps
<1>4. QED
  BY <1>2, <1>3

\* A part of the stream from its beginning is in order when the whole stream is.
LEMMA KeepOrder ==
    ASSUME TypeOK, TypeOK', AnswersInOrder, Grows, Len(Stream') <= Len(Stream),
           \A i \in 1..Len(Stream') : Stream'[i] = Stream[i]
    PROVE  AnswersInOrder'
<1>1. PICK s : s = Stream
  OBVIOUS
<1>2. PICK t : t = Stream'
  OBVIOUS
<1>3. Len(s) \in Nat /\ Len(t) \in Nat /\ Len(t) <= Len(s) /\ \A i \in 1..Len(t) : t[i] = s[i]
  BY <1>1, <1>2, StreamTyped, StreamTypedNext DEF StreamParts
<1>4. \A i \in 1..Len(s) : (\A j \in 1..(i - 1) : ~IsLast(s[j])) /\ ~AfterWrapped(i) => Fits(s[i], i)
  BY <1>1 DEF AnswersInOrder, Fits
<1>5. ASSUME NEW u, NEW i, Fits(u, i) PROVE Fits(u, i)'
  BY <1>5, GrowsKeeps DEF Fits
<1>6. ASSUME NEW i \in 1..Len(t), \A j \in 1..(i - 1) : ~IsLast(t[j]), ~AfterWrapped(i)'
      PROVE  Fits(t[i], i)'
  <2>1. i \in 1..Len(s) /\ t[i] = s[i] /\ \A j \in 1..(i - 1) : t[j] = s[j]
    BY <1>3
  <2>2. Fits(s[i], i)
    BY <1>4, <1>6, <2>1, GrowsKeeps
  <2>3. QED
    BY <1>5, <2>1, <2>2
<1>7. QED
  BY <1>2, <1>6 DEF AnswersInOrder, Fits, IsLast

\* The client takes a unit out of the socket.
LEMMA HeadMoves ==
    ASSUME NEW S, NEW g \in Seq(S), NEW q \in Seq(S), q # <<>>
    PROVE  Append(g, Head(q)) \o Tail(q) = g \o q
<1> DEFINE a == Append(g, Head(q))
           t == Tail(q)
<1>1. /\ a \in Seq(S) /\ Len(a) = Len(g) + 1 /\ a[Len(g) + 1] = q[1]
      /\ \A i \in 1..Len(g) : a[i] = g[i]
      /\ t \in Seq(S) /\ Len(t) = Len(q) - 1 /\ \A i \in 1..Len(t) : t[i] = q[i + 1]
      /\ Len(g) \in Nat /\ Len(q) \in Nat \ {0}
  OBVIOUS
<1> HIDE DEF a, t
<1>2. /\ a \o t \in Seq(S) /\ Len(a \o t) = Len(a) + Len(t)
      /\ \A i \in 1..Len(a) : (a \o t)[i] = a[i]
      /\ \A i \in 1..Len(t) : (a \o t)[Len(a) + i] = t[i]
  <2>1. a \in Seq(S) /\ t \in Seq(S)
    BY <1>1
  <2>2. QED
    BY ONLY <2>1, JoinedTwo
<1>3. /\ g \o q \in Seq(S) /\ Len(g \o q) = Len(g) + Len(q)
      /\ \A i \in 1..Len(g) : (g \o q)[i] = g[i]
      /\ \A i \in 1..Len(q) : (g \o q)[Len(g) + i] = q[i]
  BY JoinedTwo
<1> DEFINE x == a \o t
           y == g \o q
<1> HIDE DEF x, y
<1>4. x \in Seq(S) /\ y \in Seq(S) /\ Len(x) = Len(y)
  BY <1>1, <1>2, <1>3 DEF x, y
<1>5. ASSUME NEW i \in 1..Len(x) PROVE x[i] = y[i]
  <2>1. CASE i <= Len(g)
    <3>1. x[i] = a[i] /\ a[i] = g[i]
      BY <1>1, <1>2, <2>1 DEF x
    <3>2. y[i] = g[i]
      BY <1>1, <1>3, <2>1 DEF y
    <3>3. QED
      BY <3>1, <3>2
  <2>2. CASE i = Len(g) + 1
    <3>1. i \in 1..Len(a) /\ 1 \in 1..Len(q)
      BY <1>1, <2>2
    <3>2. x[i] = q[1]
      BY <1>1, <1>2, <2>2, <3>1 DEF x
    <3>3. y[i] = q[1]
      BY <1>3, <2>2, <3>1 DEF y
    <3>4. QED
      BY <3>2, <3>3
  <2>3. CASE i > Len(g) + 1
    <3>1. PICK j \in 1..Len(t) : i = Len(a) + j
      <4>1. i - Len(a) \in 1..Len(t)
        BY <1>1, <1>2, <2>3 DEF x
      <4>2. i = Len(a) + (i - Len(a))
        BY <1>1
      <4>3. QED
        BY ONLY <4>1, <4>2
    <3>2. x[i] = q[j + 1]
      BY <1>1, <1>2, <3>1 DEF x
    <3>3. j + 1 \in 1..Len(q) /\ i = Len(g) + (j + 1)
      BY <1>1, <3>1
    <3>4. y[i] = q[j + 1]
      BY <1>3, <3>3 DEF y
    <3>5. QED
      BY <3>2, <3>4
  <2>4. QED
    BY <1>1, <1>4, <2>1, <2>2, <2>3
<1>6. QED
  BY ONLY <1>4, <1>5, SeqEqual DEF x, y, a, t

\* z is s followed by t.
Joined(z, s, t) ==
    /\ Len(z) = Len(s) + Len(t)
    /\ \A i \in 1..Len(s) : z[i] = s[i]
    /\ \A i \in 1..Len(t) : z[Len(s) + i] = t[i]

\* As a concatenation is.
LEMMA ConcatJoined ==
    ASSUME NEW S, NEW s \in Seq(S), NEW t \in Seq(S)
    PROVE  Joined(s \o t, s, t) /\ s \o t \in Seq(S)
  BY JoinedTwo DEF Joined

\* A unit of t in s followed by t.
LEMMA JoinedSecond ==
    ASSUME NEW z, NEW s, NEW t, Joined(z, s, t), Len(s) \in Nat, Len(t) \in Nat, NEW i \in Nat, i > Len(s), i <= Len(z)
    PROVE  i - Len(s) \in 1..Len(t) /\ z[i] = t[i - Len(s)]
<1>1. Len(z) = Len(s) + Len(t) /\ \A j \in 1..Len(t) : z[Len(s) + j] = t[j]
  BY DEF Joined
<1>2. PICK j : j = i - Len(s)
  OBVIOUS
<1>3. j \in 1..Len(t) /\ Len(s) + j = i
  BY <1>1, <1>2
<1>4. z[Len(s) + j] = t[j]
  BY ONLY <1>1, <1>3
<1>5. QED
  BY <1>2, <1>3, <1>4

\* A unit of s in s followed by t.
LEMMA JoinedFirst ==
    ASSUME NEW z, NEW s, NEW t, Joined(z, s, t), Len(s) \in Nat, Len(t) \in Nat, NEW i \in Nat, i > 0, i <= Len(s)
    PROVE  i \in 1..Len(s) /\ z[i] = s[i] /\ i <= Len(z)
  BY DEF Joined

\* send() takes v, the first part of u, and appends it to q.
LEMMA PartMoves ==
    ASSUME NEW S, NEW g \in Seq(S), NEW q \in Seq(S), NEW u \in Seq(S), NEW v \in Seq(S), NEW w \in Seq(S),
           NEW z \in Seq(S), NEW h \in Seq(S), NEW k \in Seq(S), NEW x \in Seq(S), NEW y \in Seq(S),
           Joined(u, v, w), Joined(z, q, v),
           Joined(h, g, z), Joined(x, h, w), Joined(k, g, q), Joined(y, k, u)
    PROVE  x = y
<1>1. /\ Len(g) \in Nat /\ Len(q) \in Nat /\ Len(u) \in Nat /\ Len(v) \in Nat /\ Len(w) \in Nat
      /\ Len(z) \in Nat /\ Len(h) \in Nat /\ Len(k) \in Nat
  OBVIOUS
<1>2. /\ Len(u) = Len(v) + Len(w) /\ Len(z) = Len(q) + Len(v) /\ Len(h) = Len(g) + Len(z)
      /\ Len(x) = Len(h) + Len(w) /\ Len(k) = Len(g) + Len(q) /\ Len(y) = Len(k) + Len(u)
  BY DEF Joined
<1>3. PICK a, b, d, e : a = Len(g) /\ b = Len(q) /\ d = Len(v) /\ e = Len(w)
  OBVIOUS
<1>4. a \in Nat /\ b \in Nat /\ d \in Nat /\ e \in Nat
  BY <1>1, <1>3
<1>5. /\ Len(u) = d + e /\ Len(z) = b + d /\ Len(h) = a + b + d /\ Len(x) = a + b + d + e
      /\ Len(k) = a + b /\ Len(y) = a + b + d + e
  BY <1>2, <1>3, <1>4
<1>6. ASSUME NEW i \in 1..Len(x) PROVE x[i] = y[i]
  <2>1. i \in Nat /\ i > 0 /\ i <= Len(x) /\ i <= Len(y)
    BY <1>4, <1>5
  <2>2. CASE i <= a
    <3>1. i <= Len(h) /\ i <= Len(k) /\ i <= Len(g)
      BY <1>3, <1>4, <1>5, <2>1, <2>2
    <3>2. x[i] = h[i] /\ h[i] = g[i]
      BY <1>1, <2>1, <3>1, JoinedFirst
    <3>3. y[i] = k[i] /\ k[i] = g[i]
      BY <1>1, <2>1, <3>1, JoinedFirst
    <3>4. QED
      BY <3>2, <3>3
  <2>3. CASE i > a /\ i <= a + b
    <3>1. i <= Len(h) /\ i <= Len(k) /\ i > Len(g)
      BY <1>3, <1>4, <1>5, <2>1, <2>3
    <3>2. PICK j : j = i - Len(g)
      OBVIOUS
    <3>3. j \in Nat /\ j > 0 /\ j <= Len(q)
      BY <1>3, <1>4, <2>3, <3>2
    <3>4. x[i] = h[i] /\ h[i] = z[j] /\ z[j] = q[j]
      BY <1>1, <2>1, <3>1, <3>2, <3>3, JoinedFirst, JoinedSecond
    <3>5. y[i] = k[i] /\ k[i] = q[j]
      BY <1>1, <2>1, <3>1, <3>2, <3>3, JoinedFirst, JoinedSecond
    <3>6. QED
      BY <3>4, <3>5
  <2>4. CASE i > a + b /\ i <= a + b + d
    <3>1. i <= Len(h) /\ i > Len(k) /\ i > Len(g)
      BY <1>3, <1>4, <1>5, <2>1, <2>4
    <3>2. PICK j, l : j = i - Len(g) /\ l = i - Len(k)
      OBVIOUS
    <3>3. j \in Nat /\ j > Len(q) /\ j <= Len(z) /\ l \in Nat /\ l > 0 /\ l <= Len(v) /\ l = j - Len(q)
      BY <1>3, <1>4, <1>5, <2>4, <3>2
    <3>4. x[i] = h[i] /\ h[i] = z[j] /\ z[j] = v[l]
      <4>1. x[i] = h[i] /\ h[i] = z[j]
        BY <1>1, <2>1, <3>1, <3>2, JoinedFirst, JoinedSecond
      <4>2. z[j] = v[j - Len(q)]
        BY <1>1, <3>3, JoinedSecond
      <4>3. QED
        BY <3>3, <4>1, <4>2
    <3>5. y[i] = u[l] /\ u[l] = v[l]
      BY <1>1, <2>1, <3>1, <3>2, <3>3, JoinedFirst, JoinedSecond
    <3>6. QED
      BY <3>4, <3>5
  <2>5. CASE i > a + b + d
    <3>1. i > Len(h) /\ i > Len(k)
      BY <1>4, <1>5, <2>1, <2>5
    <3>2. PICK j, l : j = i - Len(h) /\ l = i - Len(k)
      OBVIOUS
    <3>3. l \in Nat /\ l > Len(v) /\ l <= Len(u) /\ j = l - Len(v)
      BY <1>3, <1>4, <1>5, <2>1, <2>5, <3>2
    <3>4. x[i] = w[j]
      BY <1>1, <2>1, <3>1, <3>2, JoinedSecond
    <3>5. y[i] = u[l] /\ u[l] = w[j]
      <4>1. y[i] = u[l]
        BY <1>1, <2>1, <3>1, <3>2, JoinedSecond
      <4>2. u[l] = w[l - Len(v)]
        BY <1>1, <3>3, JoinedSecond
      <4>3. QED
        BY <3>3, <4>1, <4>2
    <3>6. QED
      BY <3>4, <3>5
  <2>6. QED
    BY <1>4, <2>1, <2>2, <2>3, <2>4, <2>5
<1>7. Len(x) = Len(y)
  BY <1>5
<1>8. QED
  BY ONLY x \in Seq(S), y \in Seq(S), <1>6, <1>7, SeqEqual

\* The steps that leave the stream as it is: a unit only moves along it.
LEMMA StreamKept ==
    ASSUME TypeOK, TypeOK', OnlyOpen,
           \/ Accept \/ Wake \/ Recv \/ RecvEnds \/ ServeEnds \/ Send \/ SendWouldBlock \/ Flushed
           \/ (\E u \in RequestUnits : Transmit(u)) \/ HalfClose \/ Receive \/ Stop \/ UNCHANGED vars
    PROVE  Stream' = Stream
<1>1. CASE Accept \/ Wake \/ RecvEnds \/ ServeEnds \/ SendWouldBlock \/ Stop \/ UNCHANGED vars
  BY <1>1 DEF Accept, Wake, RecvEnds, ServeEnds, SendWouldBlock, Stop, vars, loopVars, clientVars,
              Stream, Unsent
<1>2. CASE HalfClose \/ \E u \in RequestUnits : Transmit(u)
  BY <1>2 DEF HalfClose, Transmit, loopVars, Stream, Unsent
<1>3. CASE Recv
  <2>1. c'.outBuf = c.outBuf /\ c'.outOff = c.outOff
    BY <1>3 DEF Recv, TypeOK
  <2>2. QED
    BY <1>3, <2>1 DEF Recv, Stream, Unsent
<1>4. CASE Receive
  <2>1. /\ sndq # <<>> /\ sndq \in Seq(AnswerUnit) /\ got \in Seq(AnswerUnit) /\ peer' = peer /\ peer # "reset"
        /\ c' = c
    BY <1>4 DEF Receive, OnlyOpen, TypeOK, loopVars
  <2>2. got' = Append(got, Head(sndq)) /\ sndq' = Tail(sndq)
    BY <1>4 DEF Receive
  <2>3. Append(got, Head(sndq)) \o Tail(sndq) = got \o sndq
    BY ONLY <2>1, HeadMoves
  <2>4. got' \o sndq' = got \o sndq /\ Unsent' = Unsent
    BY <2>1, <2>2, <2>3 DEF Unsent
  <2>5. QED
    BY <2>1, <2>4 DEF Stream
<1>5. CASE Send
  <2>1. PICK n \in 1..Len(Unsent) :
             /\ sndq' = sndq \o SubSeq(Unsent, 1, n) /\ Len(sndq) + n <= SndBuf
             /\ c' = [c EXCEPT !.outOff = c.outOff + n]
    BY <1>5, SendFacts
  <2>2. PICK b, o, q, g, u, v, w : /\ b = c.outBuf /\ o = c.outOff /\ q = sndq /\ g = got
                                   /\ u = Unsent /\ v = SubSeq(u, 1, n) /\ w = Unsent'
    OBVIOUS
  <2>3. b \in Seq(AnswerUnit) /\ o \in Nat /\ o <= Len(b) /\ q \in Seq(AnswerUnit) /\ g \in Seq(AnswerUnit)
    BY <2>2, ConnFields DEF TypeOK
  <2>4. /\ u \in Seq(AnswerUnit) /\ Len(u) = Len(b) - o /\ \A i \in 1..Len(u) : u[i] = b[o + i]
        /\ n \in 1..Len(u)
    BY <2>1, <2>2, UnsentTyped
  <2>5. o + n \in Nat /\ o + n <= Len(b) /\ Len(b) \in Nat
    BY <2>3, <2>4
  <2>6. w = SubSeq(b, o + n + 1, Len(b))
    <3>1. c'.outOff = o + n /\ c'.outBuf = b
      BY <2>1, <2>2 DEF TypeOK
    <3>2. QED
      BY <2>2, <3>1 DEF Unsent
  <2>7. w \in Seq(AnswerUnit) /\ Len(w) = Len(b) - (o + n) /\ \A i \in 1..(Len(b) - (o + n)) : w[i] = b[o + n + i]
    <3> DEFINE m == o + n
    <3>1. m \in Nat /\ m <= Len(b) /\ w = SubSeq(b, m + 1, Len(b))
      BY <2>5, <2>6
    <3> HIDE DEF m
    <3>2. w \in Seq(AnswerUnit) /\ Len(w) = Len(b) - m /\ \A i \in 1..(Len(b) - m) : w[i] = b[m + i]
      BY <2>3, <3>1, RestTyped
    <3>3. QED
      BY <3>2 DEF m
  <2>8. v \in Seq(AnswerUnit) /\ Len(v) = n /\ \A i \in 1..n : v[i] = u[i]
    <3>1. \A i \in 1..n : u[i] \in AnswerUnit
      BY <2>4
    <3>2. Len(u) \in Nat
      BY <2>4
    <3>3. QED
      BY <2>2, <2>4, <3>1, <3>2, SubSeqProperties
  <2>9. Joined(u, v, w)
    <3>1. Len(u) = n + Len(w)
      BY <2>3, <2>4, <2>5, <2>7
    <3>2. ASSUME NEW i \in 1..Len(w) PROVE u[n + i] = w[i]
      <4>1. n + i \in 1..Len(u) /\ o + (n + i) = o + n + i
        BY <2>3, <2>4, <2>5, <3>1, <2>7
      <4>2. u[n + i] = b[o + (n + i)]
        BY ONLY <2>4, <4>1
      <4>3. QED
        BY <2>7, <4>1, <4>2
    <3>3. QED
      BY <2>8, <3>1, <3>2 DEF Joined
  <2>10. PICK z, h, k, x, y : /\ z = q \o v /\ h = g \o z /\ x = h \o w /\ k = g \o q /\ y = k \o u
    OBVIOUS
  <2>11. z \in Seq(AnswerUnit) /\ Joined(z, q, v) /\ k \in Seq(AnswerUnit) /\ Joined(k, g, q)
    BY <2>3, <2>8, <2>10, ConcatJoined
  <2>12. h \in Seq(AnswerUnit) /\ Joined(h, g, z)
    BY <2>3, <2>10, <2>11, ConcatJoined
  <2>13. x \in Seq(AnswerUnit) /\ Joined(x, h, w) /\ y \in Seq(AnswerUnit) /\ Joined(y, k, u)
    BY <2>4, <2>7, <2>10, <2>11, <2>12, ConcatJoined
  <2>14. x = y
    BY ONLY <2>3, <2>4, <2>7, <2>8, <2>9, <2>11, <2>12, <2>13, PartMoves
  <2>15. peer' = peer /\ peer # "reset" /\ got' = g /\ sndq' = z
    BY <1>5, <2>1, <2>2, <2>10 DEF Send
  <2>16. Stream' = x
    BY <2>2, <2>10, <2>15, Zenon DEF Stream
  <2>17. Stream = y
    BY <2>2, <2>10, <2>15, Zenon DEF Stream
  <2>18. QED
    BY <2>14, <2>16, <2>17
<1>6. CASE Flushed
  <2>1. Unsent = <<>> /\ peer' = peer /\ got' = got /\ sndq' = sndq
    BY <1>6 DEF Flushed, clientVars
  <2>2. c'.outBuf = <<>> /\ c'.outOff = 0
    BY <1>6 DEF Flushed, TypeOK
  <2>3. Unsent' = <<>>
    BY <2>2 DEF Unsent
  <2>4. QED
    BY <2>1, <2>3 DEF Stream
<1>7. QED
  BY <1>1, <1>2, <1>3, <1>4, <1>5, <1>6

\* The steps that close a connection, and a reset: the stream may be cut, nothing else.
LEMMA StreamCut ==
    ASSUME TypeOK, TypeOK', OnlyOpen, Reset \/ CloseConn \/ AcceptFails
    PROVE  Len(Stream') <= Len(Stream) /\ \A i \in 1..Len(Stream') : Stream'[i] = Stream[i]
<1>1. PICK g, q, u : g = got /\ q = sndq /\ u = Unsent
  OBVIOUS
<1>2. g \in Seq(AnswerUnit) /\ q \in Seq(AnswerUnit) /\ u \in Seq(AnswerUnit)
  BY <1>1, UnsentTyped DEF TypeOK
<1>3. Stream = IF peer = "reset" THEN g ELSE g \o q \o u
  BY <1>1 DEF Stream
<1>4. /\ Len(g \o q \o u) = Len(g) + Len(q) + Len(u)
      /\ Len(g) \in Nat /\ Len(q) \in Nat /\ Len(u) \in Nat
      /\ \A i \in 1..Len(g) : (g \o q \o u)[i] = g[i]
      /\ \A i \in 1..Len(q) : (g \o q \o u)[Len(g) + i] = q[i]
  BY <1>2, JoinedThree
<1>5. /\ Len(g \o q) = Len(g) + Len(q)
      /\ \A i \in 1..Len(g) : (g \o q)[i] = g[i]
      /\ \A i \in 1..Len(q) : (g \o q)[Len(g) + i] = q[i]
  BY <1>2, JoinedTwo
<1>6. Stream' = g \/ (Stream' = g \o q /\ peer # "reset") \/ Stream' = Stream
  <2>1. CASE Reset
    BY <1>1, <2>1 DEF Reset, Stream
  <2>2. CASE CloseConn
    <3>1. got' = got /\ peer' = peer /\ (sndq' = sndq \/ sndq' = <<>>) /\ c' = NewConn
      BY <2>2 DEF CloseConn, SocketCloses
    <3>2. Unsent' = <<>>
      BY <3>1, NewConnTyped DEF Unsent
    <3>3. Stream' = IF peer = "reset" THEN g ELSE g \o sndq' \o <<>>
      BY <1>1, <3>1, <3>2 DEF Stream
    <3>4. g \o <<>> \o <<>> = g /\ g \o q \o <<>> = g \o q
      BY ONLY <1>2
    <3>5. QED
      BY <1>1, <3>1, <3>3, <3>4
  <2>3. CASE AcceptFails
    <3>1. got' = got /\ peer' = peer /\ (sndq' = sndq \/ sndq' = <<>>) /\ c' = c /\ c = NewConn
      BY <2>3 DEF AcceptFails, SocketCloses, OnlyOpen
    <3>2. Unsent' = <<>>
      BY <3>1, NewConnTyped DEF Unsent
    <3>3. Stream' = IF peer = "reset" THEN g ELSE g \o sndq' \o <<>>
      BY <1>1, <3>1, <3>2 DEF Stream
    <3>4. g \o <<>> \o <<>> = g /\ g \o q \o <<>> = g \o q
      BY ONLY <1>2
    <3>5. QED
      BY <1>1, <3>1, <3>3, <3>4
  <2>4. QED
    BY <2>1, <2>2, <2>3
<1>7. PICK s, t : s = Stream /\ t = Stream'
  OBVIOUS
<1>8. Len(s) \in Nat
  BY <1>7, StreamTyped DEF StreamParts
<1>9. CASE t = s
  BY <1>7, <1>8, <1>9
<1>10. CASE t = g
  BY <1>3, <1>4, <1>7, <1>10
<1>11. CASE t = g \o q /\ peer # "reset"
  <2> DEFINE x == g \o q
             y == g \o q \o u
  <2>1. t = x /\ s = y
    BY <1>3, <1>7, <1>11
  <2> HIDE DEF x, y
  <2>2. Len(x) <= Len(y) /\ Len(x) = Len(g) + Len(q)
    BY <1>4, <1>5 DEF x, y
  <2>3. ASSUME NEW i \in 1..Len(x) PROVE x[i] = y[i]
    <3>1. CASE i <= Len(g)
      <4>1. i \in 1..Len(g)
        BY <1>4, <2>2, <3>1
      <4>2. QED
        BY <4>1, <1>4, <1>5 DEF x, y
    <3>2. CASE i > Len(g)
      <4>1. PICK j \in 1..Len(q) : i = Len(g) + j
        <5>1. i - Len(g) \in 1..Len(q) /\ i = Len(g) + (i - Len(g))
          BY <1>4, <2>2, <3>2
        <5>2. QED
          BY ONLY <5>1
      <4>2. QED
        BY <4>1, <1>4, <1>5 DEF x, y
    <3>3. QED
      BY <1>4, <2>2, <3>1, <3>2
  <2>4. QED
    BY <1>7, <2>1, <2>2, <2>3
<1>12. QED
  BY <1>6, <1>7, <1>9, <1>10, <1>11

-----------------------------------------------------------------------------
(* What was sent, and what is held of it.                                  *)

LEMMA OnlyOpenStep ==
    ASSUME TypeOK, OnlyOpen, [Next]_vars
    PROVE  OnlyOpen'
<1>1. CASE Connect
  BY <1>1 DEF Connect, OnlyOpen
<1>2. ASSUME NEW u, Transmit(u) PROVE OnlyOpen'
  BY <1>2 DEF Transmit, OnlyOpen, loopVars
<1>3. CASE HalfClose \/ Reset \/ Receive
  BY <1>3 DEF HalfClose, Reset, Receive, OnlyOpen, loopVars
<1>4. CASE HangUp \/ SendFails \/ FlushedAndCloses \/ Exit
  <2>1. CloseConn /\ phase' \in {"wait", "stopped"}
    BY <1>4 DEF HangUp, SendFails, FlushedAndCloses, Exit
  <2>2. conn' = "idle" /\ c' = NewConn /\ recvq' = <<>> /\ peer' = peer /\ (sndq' = sndq \/ sndq' = <<>>)
    BY <2>1 DEF CloseConn, SocketCloses
  <2>3. QED
    BY <2>1, <2>2 DEF OnlyOpen
<1>5. CASE AcceptFails
  <2>1. /\ conn' = "idle" /\ c' = c /\ conn = "pending" /\ recvq' = <<>> /\ peer' = peer
        /\ (sndq' = sndq \/ sndq' = <<>>) /\ phase' = phase /\ phase = "wait"
    BY <1>5 DEF AcceptFails, SocketCloses
  <2>2. QED
    BY <2>1 DEF OnlyOpen
<1>6. CASE Accept \/ Wake \/ RecvEnds \/ ServeEnds \/ SendWouldBlock \/ Stop
  BY <1>6 DEF Accept, Wake, RecvEnds, ServeEnds, SendWouldBlock, Stop, OnlyOpen, clientVars, Flushing, AfterFlush
<1>7. CASE Recv \/ Serve \/ ServeBad \/ Send \/ Flushed
  <2>1. conn = "open" /\ conn' = conn /\ peer' = peer
    BY <1>7 DEF Recv, Serve, ServeBad, Send, Flushed, Flushing, OnlyOpen, clientVars
  <2>2. peer = "reset" => sndq' = sndq /\ recvq' = recvq
    BY <1>7 DEF Recv, Serve, ServeBad, Send, Flushed, OnlyOpen, clientVars
  <2>3. QED
    BY <2>1, <2>2 DEF OnlyOpen
<1>8. CASE UNCHANGED vars
  BY <1>8 DEF vars, loopVars, clientVars, OnlyOpen
<1>9. QED
  BY <1>1, <1>2, <1>3, <1>4, <1>5, <1>6, <1>7, <1>8
     DEF Next, Loop, Client, BeginRequest, ContinueRequest

\* A request begins, or another unit of it follows.
Follows(u) ==
    \/ sent = <<>> /\ u.req = 1 /\ u.kind \in Kinds
    \/ sent # <<>> /\ sent[Len(sent)].left = 0 /\ u.req = sent[Len(sent)].req + 1 /\ u.kind \in Kinds
    \/ /\ sent # <<>> /\ sent[Len(sent)].left > 0
       /\ u.req = sent[Len(sent)].req /\ u.kind = sent[Len(sent)].kind /\ u.left = sent[Len(sent)].left - 1

LEMMA SentStep ==
    ASSUME TypeOK, SentInOrder, NEW u \in RequestUnits, Follows(u), sent' = Append(sent, u)
    PROVE  SentInOrder' /\ Grows
<1>1. PICK x, y, m : x = sent /\ y = Append(x, u) /\ m = Len(x)
  OBVIOUS
<1>2. /\ x \in Seq(RequestUnits) /\ m \in Nat /\ y \in Seq(RequestUnits) /\ Len(y) = m + 1 /\ y[m + 1] = u
      /\ \A i \in 1..m : y[i] = x[i]
  BY <1>1 DEF TypeOK
<1>3. /\ \A i \in 1..m : x[i].left \in Nat /\ x[i].req \in Nat
      /\ u.left \in Nat /\ u.req \in Nat
  <2>1. \A i \in 1..m : x[i] \in RequestUnits
    BY <1>1, <1>2, ElementOfSeq
  <2>2. QED
    BY <2>1, UnitFields
<1>4. /\ m > 0 => x[1].req = 1
      /\ \A i \in 1..m : i + 1 <= m /\ x[i].left = 0 => x[i + 1].req = x[i].req + 1
      /\ \A i, j \in 1..m : i <= j /\ j - i <= x[i].left =>
         /\ x[j].req = x[i].req /\ x[j].kind = x[i].kind
         /\ x[j].left = x[i].left - (j - i)
  BY <1>1 DEF SentInOrder
<1>5. \/ m = 0 /\ u.req = 1
      \/ m > 0 /\ x[m].left = 0 /\ u.req = x[m].req + 1
      \/ m > 0 /\ x[m].left > 0 /\ u.req = x[m].req /\ u.kind = x[m].kind /\ u.left = x[m].left - 1
  <2>1. sent = <<>> => m = 0
    BY <1>1
  <2>2. sent # <<>> => m > 0
    BY <1>1, <1>2
  <2>3. QED
    BY <1>1, <2>1, <2>2 DEF Follows
<1>6. Len(y) > 0 /\ y[1].req = 1
  <2>1. CASE m = 0
    BY <1>2, <1>5, <2>1
  <2>2. CASE m > 0
    BY <1>2, <1>4, <2>2
  <2>3. QED
    BY <1>2, <2>1, <2>2
<1>7. ASSUME NEW i \in 1..Len(y), i + 1 <= Len(y), y[i].left = 0 PROVE y[i + 1].req = y[i].req + 1
  <2>1. i \in 1..m /\ y[i] = x[i]
    BY <1>2, <1>7
  <2>2. CASE i = m
    BY <1>2, <1>3, <1>5, <1>7, <2>1, <2>2
  <2>3. CASE i < m
    <3>1. i + 1 \in 1..m
      BY <1>2, <2>1, <2>3
    <3>2. y[i + 1] = x[i + 1]
      BY <1>2, <3>1
    <3>3. QED
      BY <1>4, <1>7, <2>1, <3>1, <3>2
  <2>4. QED
    BY <1>2, <2>1, <2>2, <2>3
<1>8. ASSUME NEW i \in 1..Len(y), NEW j \in 1..Len(y), i <= j, j - i <= y[i].left
      PROVE  /\ y[j].req = y[i].req /\ y[j].kind = y[i].kind /\ y[j].left = y[i].left - (j - i)
  <2>1. CASE j <= m
    <3>1. i \in 1..m /\ j \in 1..m /\ y[i] = x[i] /\ y[j] = x[j]
      BY <1>2, <1>8, <2>1
    <3>2. QED
      BY <1>4, <1>8, <3>1
  <2>2. CASE i = m + 1
    <3>1. j = i /\ y[i] = u
      BY <1>2, <1>8, <2>2
    <3>2. QED
      BY <1>3, <3>1
  <2>3. CASE j = m + 1 /\ i <= m
    <3>1. i \in 1..m /\ m \in 1..m /\ y[i] = x[i] /\ y[j] = u
      BY <1>2, <2>3
    <3>2. x[i].left \in Nat /\ x[m].left \in Nat /\ i <= m /\ m - i <= x[i].left
      BY <1>2, <1>3, <1>8, <2>3, <3>1
    <3>3. x[m].req = x[i].req /\ x[m].kind = x[i].kind /\ x[m].left = x[i].left - (m - i)
      BY <1>4, <3>1, <3>2
    <3>4. x[m].left > 0
      BY <1>2, <1>8, <2>3, <3>1, <3>2, <3>3
    <3>5. u.req = x[m].req /\ u.kind = x[m].kind /\ u.left = x[m].left - 1
      BY <1>5, <3>1, <3>2, <3>4
    <3>6. QED
      BY <1>2, <2>3, <3>1, <3>2, <3>3, <3>5
  <2>4. QED
    BY <1>2, <2>1, <2>2, <2>3
<1>9. sent' = y
  BY <1>1
<1>10. ASSUME NEW i \in 1..Len(y) PROVE y[i].kind \in Kinds
  <2>1. \A j \in 1..m : x[j].kind \in Kinds
    BY <1>1 DEF SentInOrder
  <2>2. u.kind \in Kinds \/ (m \in 1..m /\ u.kind = x[m].kind)
    BY <1>1, <1>2 DEF Follows
  <2>3. i \in 1..m \/ i = m + 1
    BY <1>2
  <2>4. QED
    BY <1>2, <2>1, <2>2, <2>3
<1>11. SentInOrder'
  BY <1>6, <1>7, <1>8, <1>9, <1>10 DEF SentInOrder
<1>12. \A i \in 1..m : i \in 1..Len(y)
  BY <1>2
<1>13. QED
  BY <1>1, <1>2, <1>9, <1>11, <1>12 DEF Grows

\* What the two steps of the client that send do.
LEMMA TransmitFacts ==
    ASSUME TypeOK,
           \/ ContinueRequest
           \/ \E kind \in Kinds, units \in 1..MaxUnits, takes \in {"all", "none", "part"} :
                BeginRequest(kind, units, takes)
    PROVE  \E u \in RequestUnits : Transmit(u) /\ Follows(u)
<1>1. ASSUME NEW kind \in Kinds, NEW units \in 1..MaxUnits, NEW takes \in {"all", "none", "part"},
             BeginRequest(kind, units, takes)
      PROVE  \E u \in RequestUnits : Transmit(u) /\ Follows(u)
  <2> DEFINE u == [req |-> Requests + 1, kind |-> kind, left |-> units - 1, takes |-> takes]
  <2>1. u \in RequestUnits
    BY <1>1, LastSent, Bounds, ConstantsAssumption DEF BeginRequest, RequestUnits
  <2>2. Transmit(u)
    BY <1>1 DEF BeginRequest
  <2>3. u.req = Requests + 1 /\ u.kind \in Kinds
    OBVIOUS
  <2> HIDE DEF u
  <2>4. Follows(u)
    BY <1>1, <2>3, LastSent DEF Follows, BeginRequest, Requests
  <2>5. QED
    BY <2>1, <2>2, <2>4
<1>2. CASE ContinueRequest
  <2> DEFINE u == [sent[Len(sent)] EXCEPT !.left = @ - 1]
  <2>1. u \in RequestUnits
    BY <1>2, LastSent, Bounds DEF ContinueRequest, RequestUnits
  <2>2. Transmit(u)
    BY <1>2 DEF ContinueRequest
  <2>3. u.req = sent[Len(sent)].req /\ u.kind = sent[Len(sent)].kind /\ u.left = sent[Len(sent)].left - 1
    BY <1>2, LastSent DEF ContinueRequest, RequestUnits
  <2> HIDE DEF u
  <2>4. Follows(u)
    BY <1>2, <2>3 DEF Follows, ContinueRequest
  <2>5. QED
    BY <2>1, <2>2, <2>4
<1>3. QED
  BY <1>1, <1>2

\* What is over stays so, while the answers and what was sent only grow.
LEMMA OverKept ==
    ASSUME TypeOK, TypeOK', Over, Grows, Len(Stream) <= Len(Stream'),
           \A i \in 1..Len(Stream) : Stream'[i] = Stream[i]
    PROVE  Over'
<1>1. PICK s, t, x, y : s = Stream /\ t = Stream' /\ x = sent /\ y = sent'
  OBVIOUS
<1>2. /\ Len(s) \in Nat /\ Len(t) \in Nat /\ Len(s) <= Len(t) /\ \A i \in 1..Len(s) : t[i] = s[i]
      /\ \A i \in 1..Len(x) : i \in 1..Len(y) /\ y[i] = x[i]
      /\ \A i \in 1..Len(x) : x[i].req * AnswerUnits \in Nat
  <2>1. \A i \in 1..Len(x) : x[i] \in RequestUnits
    BY <1>1, ElementOfSeq DEF TypeOK
  <2>2. \A i \in 1..Len(x) : x[i].req * AnswerUnits \in Nat
    BY <2>1, UnitFields, Bounds
  <2>3. QED
    BY <1>1, <2>2, StreamTyped, StreamTypedNext DEF StreamParts, Grows
<1>3. ASSUME GoesOn(t)
      PROVE  \E i \in 1..Len(y) : Wraps(y[i]) /\ Len(t) >= y[i].req * AnswerUnits
  <2>1. GoesOn(s)
    BY <1>2, <1>3 DEF GoesOn
  <2>2. PICK i \in 1..Len(x) : Wraps(x[i]) /\ Len(s) >= x[i].req * AnswerUnits
    BY <1>1, <2>1 DEF Over
  <2>3. i \in 1..Len(y) /\ y[i] = x[i]
    BY <1>2
  <2>4. Len(t) >= x[i].req * AnswerUnits
    BY <1>2, <2>2
  <2>5. QED
    BY <2>2, <2>3, <2>4
<1>4. QED
  BY <1>1, <1>3 DEF Over, GoesOn, IsLast, Wraps

\* Steps that touch neither the requests nor the stream.
LEMMA ServedKept ==
    ASSUME Served, Stream' = Stream, c'.parser = c.parser, recvq' = recvq, sent' = sent
    PROVE  Served'
<1>1. PICK k \in Nat :
        /\ HeldFrom(k)
        /\ GoesOn(Stream) => \E d \in Nat : Len(Stream) = d * AnswerUnits /\ Requested(k, d)
  BY DEF Served
<1>2. HeldFrom(k)'
  BY <1>1 DEF HeldFrom
<1>3. GoesOn(Stream)' => GoesOn(Stream)
  BY DEF GoesOn, IsLast
<1>4. \A d \in Nat : Requested(k, d) => Requested(k, d)'
  BY DEF Requested
<1>5. GoesOn(Stream)' => \E d \in Nat : Len(Stream') = d * AnswerUnits /\ Requested(k, d)'
  BY <1>1, <1>3, <1>4
<1>6. QED
  BY <1>1, <1>2, <1>5 DEF Served

\* recv() moves what the socket holds to the parser.
LEMMA RecvServed ==
    ASSUME TypeOK, Served, Stream' = Stream, Recv
    PROVE  Served'
<1>1. PICK k \in Nat :
        /\ HeldFrom(k)
        /\ GoesOn(Stream) => \E d \in Nat : Len(Stream) = d * AnswerUnits /\ Requested(k, d)
  BY DEF Served
<1>2. PICK p, q, s, z : p = c.parser /\ q = recvq /\ s = sent /\ z = p \o q
  OBVIOUS
<1>3. p \in Seq(RequestUnits) /\ q \in Seq(RequestUnits)
  BY <1>2, ConnFields DEF TypeOK
<1>4. Len(p) \in Nat /\ Len(q) \in Nat /\ Joined(z, p, q)
  BY <1>2, <1>3, ConcatJoined
<1>5. k \in 0..Len(s) /\ k + Len(p) + Len(q) = Len(s) /\ (\A i \in 1..Len(p) : p[i] = s[k + i])
      /\ (\A i \in 1..Len(q) : q[i] = s[k + Len(p) + i])
  BY <1>1, <1>2 DEF HeldFrom
<1>6. c'.parser = z /\ recvq' = <<>> /\ sent' = s
  BY <1>2 DEF Recv, TypeOK
<1>7. Len(z) = Len(p) + Len(q)
  BY <1>4 DEF Joined
<1>8. ASSUME NEW i \in 1..Len(z) PROVE z[i] = s[k + i]
  <2>1. CASE i <= Len(p)
    BY <1>4, <1>5, <2>1, JoinedFirst
  <2>2. CASE i > Len(p)
    <3>1. PICK j : j = i - Len(p)
      OBVIOUS
    <3>2. j \in 1..Len(q) /\ z[i] = q[j] /\ k + Len(p) + j = k + i
      <4>1. i \in Nat /\ i <= Len(z)
        BY <1>4, <1>7
      <4>2. i - Len(p) \in 1..Len(q) /\ z[i] = q[i - Len(p)]
        BY ONLY <1>4, <2>2, <4>1, JoinedSecond
      <4>3. k + Len(p) + j = k + i
        BY <1>4, <3>1
      <4>4. QED
        BY <3>1, <4>2, <4>3
    <3>3. q[j] = s[k + Len(p) + j]
      BY <1>5, <3>2
    <3>4. QED
      BY <3>2, <3>3
  <2>3. QED
    BY <1>4, <1>7, <2>1, <2>2
<1>9. k + Len(z) + 0 = Len(s)
  BY <1>4, <1>5, <1>7
<1>10. HeldFrom(k)'
  BY <1>5, <1>6, <1>8, <1>9 DEF HeldFrom
<1>11. GoesOn(Stream)' => GoesOn(Stream)
  BY DEF GoesOn, IsLast
<1>12. \A d \in Nat : Requested(k, d) => Requested(k, d)'
  BY <1>2, <1>6 DEF Requested
<1>13. GoesOn(Stream)' => \E d \in Nat : Len(Stream') = d * AnswerUnits /\ Requested(k, d)'
  BY <1>1, <1>11, <1>12
<1>14. QED
  BY <1>1, <1>10, <1>13 DEF Served

\* A unit is sent and arrives at the socket.
LEMMA TransmitServed ==
    ASSUME TypeOK, Served, Stream' = Stream, NEW u \in RequestUnits, Transmit(u), Grows
    PROVE  Served'
<1>1. PICK k \in Nat :
        /\ HeldFrom(k)
        /\ GoesOn(Stream) => \E d \in Nat : Len(Stream) = d * AnswerUnits /\ Requested(k, d)
  BY DEF Served
<1>2. PICK p, q, s, y, z : p = c.parser /\ q = recvq /\ s = sent /\ y = Append(s, u) /\ z = Append(q, u)
  OBVIOUS
<1>3. p \in Seq(RequestUnits) /\ q \in Seq(RequestUnits) /\ s \in Seq(RequestUnits)
  BY <1>2, ConnFields DEF TypeOK
<1>4. /\ Len(p) \in Nat /\ Len(q) \in Nat /\ Len(s) \in Nat
      /\ Len(y) = Len(s) + 1 /\ y[Len(s) + 1] = u /\ (\A i \in 1..Len(s) : y[i] = s[i])
      /\ Len(z) = Len(q) + 1 /\ z[Len(q) + 1] = u /\ (\A i \in 1..Len(q) : z[i] = q[i])
  BY <1>2, <1>3, AppendProperties
<1>5. k \in 0..Len(s) /\ k + Len(p) + Len(q) = Len(s) /\ (\A i \in 1..Len(p) : p[i] = s[k + i])
      /\ (\A i \in 1..Len(q) : q[i] = s[k + Len(p) + i])
  BY <1>1, <1>2 DEF HeldFrom
<1>6. c'.parser = p /\ recvq' = z /\ sent' = y
  BY <1>2 DEF Transmit, loopVars
<1>7. k \in 0..Len(y) /\ k + Len(p) + Len(z) = Len(y)
  BY <1>4, <1>5
<1>8. ASSUME NEW i \in 1..Len(p) PROVE p[i] = y[k + i]
  <2>1. k + i \in 1..Len(s)
    BY <1>4, <1>5
  <2>2. QED
    BY <1>4, <1>5, <2>1
<1>9. ASSUME NEW i \in 1..Len(z) PROVE z[i] = y[k + Len(p) + i]
  <2>1. CASE i <= Len(q)
    <3>1. i \in 1..Len(q) /\ k + Len(p) + i \in 1..Len(s)
      BY <1>4, <1>5, <2>1
    <3>2. QED
      BY <1>4, <1>5, <3>1
  <2>2. CASE i > Len(q)
    <3>1. i = Len(q) + 1 /\ k + Len(p) + i = Len(s) + 1
      BY <1>4, <1>5, <2>2
    <3>2. QED
      BY <1>4, <3>1
  <2>3. QED
    BY <1>4, <2>1, <2>2
<1>10. HeldFrom(k)'
  BY <1>6, <1>7, <1>8, <1>9 DEF HeldFrom
<1>11. GoesOn(Stream)' => GoesOn(Stream)
  BY DEF GoesOn, IsLast
<1>12. \A d \in Nat : Requested(k, d) => Requested(k, d)'
  <2>1. k > 0 => k \in 1..Len(s) /\ y[k] = s[k]
    BY <1>4, <1>5
  <2>2. QED
    BY <1>2, <1>5, <1>6, <2>1 DEF Requested
<1>13. GoesOn(Stream)' => \E d \in Nat : Len(Stream') = d * AnswerUnits /\ Requested(k, d)'
  BY <1>1, <1>11, <1>12
<1>14. QED
  BY <1>1, <1>10, <1>13 DEF Served

\* A new connection.
LEMMA ConnectServed ==
    ASSUME TypeOK, OnlyOpen, Connect
    PROVE  Stream' = <<>> /\ Served'
<1>1. c' = NewConn /\ peer' = "up" /\ sent' = <<>> /\ recvq' = <<>> /\ got' = <<>> /\ sndq' = <<>>
  BY DEF Connect, OnlyOpen
<1>2. Unsent' = <<>>
  BY <1>1, NewConnTyped DEF Unsent
<1>3. Stream' = <<>>
  BY <1>1, <1>2 DEF Stream
<1>4. HeldFrom(0)'
  BY <1>1, NewConnTyped DEF HeldFrom
<1>5. Len(Stream') = 0 * AnswerUnits /\ Requested(0, 0)'
  BY <1>3, Bounds DEF Requested
<1>6. QED
  BY <1>3, <1>4, <1>5 DEF Served

-----------------------------------------------------------------------------
(* The answers that are added.                                             *)

\* More at the end of u is more at the end of what ends with u.
LEMMA JoinMore ==
    ASSUME NEW S, NEW k \in Seq(S), NEW u \in Seq(S), NEW a \in Seq(S), NEW u2 \in Seq(S),
           NEW s \in Seq(S), NEW t \in Seq(S), Joined(u2, u, a), Joined(s, k, u), Joined(t, k, u2)
    PROVE  Joined(t, s, a)
<1>1. Len(k) \in Nat /\ Len(u) \in Nat /\ Len(a) \in Nat /\ Len(u2) \in Nat /\ Len(s) \in Nat /\ Len(t) \in Nat
  OBVIOUS
<1>2. Len(u2) = Len(u) + Len(a) /\ Len(s) = Len(k) + Len(u) /\ Len(t) = Len(k) + Len(u2)
  BY DEF Joined
<1>3. ASSUME NEW i \in 1..Len(s) PROVE t[i] = s[i]
  <2>0. i \in Nat /\ i > 0 /\ i <= Len(s) /\ i <= Len(t)
    BY <1>1, <1>2
  <2>1. CASE i <= Len(k)
    BY <1>1, <2>0, <2>1, JoinedFirst
  <2>2. CASE i > Len(k)
    <3>1. PICK j : j = i - Len(k)
      OBVIOUS
    <3>2. t[i] = u2[j] /\ s[i] = u[j] /\ j \in 1..Len(u)
      <4>1. t[i] = u2[i - Len(k)]
        BY ONLY <1>1, <2>0, <2>2, Joined(t, k, u2), JoinedSecond
      <4>2. s[i] = u[i - Len(k)] /\ i - Len(k) \in 1..Len(u)
        BY ONLY <1>1, <2>0, <2>2, Joined(s, k, u), JoinedSecond
      <4>3. QED
        BY <3>1, <4>1, <4>2
    <3>3. u2[j] = u[j]
      BY <3>2 DEF Joined
    <3>4. QED
      BY <3>2, <3>3
  <2>3. QED
    BY <1>1, <2>0, <2>1, <2>2
<1>4. ASSUME NEW i \in 1..Len(a) PROVE t[Len(s) + i] = a[i]
  <2>1. PICK l : l = Len(u) + i
    OBVIOUS
  <2>2. l \in 1..Len(u2) /\ Len(k) + l = Len(s) + i
    BY <1>1, <1>2, <2>1
  <2>3. t[Len(k) + l] = u2[l]
    BY <2>2 DEF Joined
  <2>4. u2[l] = a[i]
    BY <2>1 DEF Joined
  <2>5. QED
    BY <2>2, <2>3, <2>4
<1>5. Len(t) = Len(s) + Len(a)
  BY <1>1, <1>2
<1>6. QED
  BY <1>3, <1>4, <1>5 DEF Joined

\* u is b without its first o elements.
Rest(u, b, o) == Len(u) = Len(b) - o /\ \A i \in 1..(Len(b) - o) : u[i] = b[o + i]

\* What is appended to outBuf is appended to what is not sent yet.
LEMMA RestMore ==
    ASSUME NEW S, NEW b \in Seq(S), NEW a \in Seq(S), NEW o \in Nat, o <= Len(b),
           NEW z \in Seq(S), Joined(z, b, a), NEW u \in Seq(S), Rest(u, b, o), NEW u2 \in Seq(S), Rest(u2, z, o)
    PROVE  Joined(u2, u, a)
<1>1. Len(b) \in Nat /\ Len(a) \in Nat /\ Len(z) \in Nat /\ Len(z) = Len(b) + Len(a) /\ o <= Len(z)
  <2>1. Len(b) \in Nat /\ Len(a) \in Nat /\ Len(z) \in Nat
    OBVIOUS
  <2>2. Len(z) = Len(b) + Len(a)
    BY DEF Joined
  <2>3. QED
    BY <2>1, <2>2
<1>2. Len(u) = Len(b) - o /\ \A i \in 1..(Len(b) - o) : u[i] = b[o + i]
  BY DEF Rest
<1>3. Len(u2) = Len(z) - o /\ \A i \in 1..(Len(z) - o) : u2[i] = z[o + i]
  BY DEF Rest
<1>4. Len(u2) = Len(u) + Len(a)
  BY <1>1, <1>2, <1>3
<1>5. ASSUME NEW i \in 1..Len(u) PROVE u2[i] = u[i]
  <2>1. o + i \in 1..Len(b) /\ i \in 1..(Len(b) - o) /\ i \in 1..(Len(z) - o)
    BY <1>1, <1>2
  <2>2. z[o + i] = b[o + i]
    BY <2>1 DEF Joined
  <2>3. QED
    BY <1>2, <1>3, <2>1, <2>2
<1>6. ASSUME NEW i \in 1..Len(a) PROVE u2[Len(u) + i] = a[i]
  <2>1. Len(u) + i \in 1..(Len(z) - o) /\ o + (Len(u) + i) = Len(b) + i
    <3>1. Len(u) = Len(b) - o
      BY <1>2
    <3>2. QED
      BY ONLY <1>1, <3>1, i \in 1..Len(a), o \in Nat, o <= Len(b)
  <2>2. u2[Len(u) + i] = z[o + (Len(u) + i)]
    BY ONLY <1>3, <2>1
  <2>3. z[Len(b) + i] = a[i]
    BY DEF Joined
  <2>4. QED
    BY <2>1, <2>2, <2>3
<1>7. QED
  BY <1>2, <1>3, <1>4, <1>5, <1>6 DEF Joined

\* So it is appended to the stream.
LEMMA StreamMore ==
    ASSUME TypeOK, TypeOK', peer # "reset", peer' = peer, got' = got, sndq' = sndq,
           NEW a \in Seq(AnswerUnit), c'.outBuf = c.outBuf \o a, c'.outOff = c.outOff
    PROVE  Joined(Stream', Stream, a)
<1>1. PICK b, o, z, g, q, k, u, u2, s, t :
        /\ b = c.outBuf /\ o = c.outOff /\ z = b \o a /\ g = got /\ q = sndq /\ k = g \o q
        /\ u = SubSeq(b, o + 1, Len(b)) /\ u2 = SubSeq(z, o + 1, Len(z)) /\ s = k \o u /\ t = k \o u2
  OBVIOUS
<1>2. b \in Seq(AnswerUnit) /\ o \in Nat /\ o <= Len(b) /\ g \in Seq(AnswerUnit) /\ q \in Seq(AnswerUnit)
  BY <1>1, ConnFields DEF TypeOK
<1>3. z \in Seq(AnswerUnit) /\ Joined(z, b, a) /\ k \in Seq(AnswerUnit)
  BY <1>1, <1>2, ConcatJoined
<1>4. u \in Seq(AnswerUnit) /\ u2 \in Seq(AnswerUnit) /\ Joined(u2, u, a)
  <2>1. u \in Seq(AnswerUnit) /\ Rest(u, b, o)
    BY <1>1, <1>2, RestTyped DEF Rest
  <2>2. o <= Len(z)
    BY <1>2, <1>3 DEF Joined
  <2>3. u2 \in Seq(AnswerUnit) /\ Rest(u2, z, o)
    <3>1. u2 = SubSeq(z, o + 1, Len(z)) /\ z \in Seq(AnswerUnit) /\ o \in Nat
      BY <1>1, <1>2, <1>3
    <3>2. QED
      BY ONLY <2>2, <3>1, RestTyped DEF Rest
  <2>4. QED
    BY ONLY <1>2, <1>3, <2>1, <2>3, a \in Seq(AnswerUnit), RestMore
<1>5. s \in Seq(AnswerUnit) /\ t \in Seq(AnswerUnit) /\ Joined(s, k, u) /\ Joined(t, k, u2)
  BY <1>1, <1>3, <1>4, ConcatJoined
<1>6. Joined(t, s, a)
  BY ONLY <1>3, <1>4, <1>5, a \in Seq(AnswerUnit), JoinMore
<1>7. Stream = s
  BY <1>1, Zenon DEF Stream, Unsent
<1>8. Stream' = t
  BY <1>1, Zenon DEF Stream, Unsent
<1>9. QED
  BY <1>6, <1>7, <1>8

\* An answer that belongs after the ones before it.
LEMMA AddAnswer ==
    ASSUME TypeOK, TypeOK', AnswersInOrder, sent' = sent, NEW n \in 1..MaxRequests, NEW ka \in BOOLEAN,
           Joined(Stream', Stream, Answer(n, ka)),
           GoesOn(Stream) => /\ Len(Stream) = (n - 1) * AnswerUnits
                             /\ IF ka THEN WhollySent(n) /\ OfKind(n, {"keep", "long"})
                                      ELSE OfKind(n, {"close", "bad", "long"})
    PROVE  /\ AnswersInOrder'
           /\ GoesOn(Stream)' => ka /\ GoesOn(Stream)
           /\ Len(Stream') = Len(Stream) + AnswerUnits
<1>1. PICK s, t, a : s = Stream /\ t = Stream' /\ a = Answer(n, ka)
  OBVIOUS
<1>2. Joined(t, s, a) /\ Len(s) \in Nat /\ Len(t) \in Nat
  BY <1>1, StreamTyped, StreamTypedNext DEF StreamParts
<1>3. Len(a) = AnswerUnits /\ \A i \in 1..AnswerUnits : a[i].req = n /\ a[i].part = i /\ (a[i].last <=> ~ka)
  BY <1>1, AnswerTyped
<1>4. /\ Len(t) = Len(s) + AnswerUnits /\ (\A i \in 1..Len(s) : t[i] = s[i])
      /\ \A i \in 1..AnswerUnits : t[Len(s) + i] = a[i]
  BY <1>2, <1>3 DEF Joined
<1>5. \A i \in 1..Len(s) : (\A j \in 1..(i - 1) : ~IsLast(s[j])) /\ ~AfterWrapped(i) => Fits(s[i], i)
  BY <1>1 DEF AnswersInOrder, Fits
<1>6. ASSUME NEW i \in 1..Len(t), \A j \in 1..(i - 1) : ~IsLast(t[j]), ~AfterWrapped(i)
      PROVE  Fits(t[i], i)
  <2>1. CASE i <= Len(s)
    <3>1. i \in 1..Len(s) /\ t[i] = s[i] /\ \A j \in 1..(i - 1) : t[j] = s[j]
      BY <1>2, <1>4, <2>1
    <3>2. QED
      BY <1>5, <1>6, <3>1
  <2>2. CASE i > Len(s)
    <3>1. GoesOn(s)
      <4>1. ASSUME NEW j \in 1..Len(s) PROVE ~IsLast(s[j])
        <5>1. j \in 1..(i - 1) /\ t[j] = s[j]
          BY <1>2, <1>4, <2>2
        <5>2. QED
          BY <1>6, <5>1
      <4>2. QED
        BY <4>1 DEF GoesOn
    <3>2. /\ Len(s) = (n - 1) * AnswerUnits
          /\ ka => WhollySent(n) /\ OfKind(n, {"keep", "long"})
          /\ ~ka => OfKind(n, {"close", "bad", "long"})
      BY <1>1, <3>1
    <3>3. PICK m \in 1..AnswerUnits : i = Len(s) + m
      <4>1. i - Len(s) \in 1..AnswerUnits /\ i = Len(s) + (i - Len(s))
        BY <1>2, <1>4, <2>2, Bounds
      <4>2. QED
        BY ONLY <4>1
    <3>4. t[i].req = n /\ t[i].part = m /\ (t[i].last <=> ~ka)
      BY <1>3, <1>4, <3>3
    <3>5. i = (t[i].req - 1) * AnswerUnits + t[i].part
      BY <3>2, <3>3, <3>4
    <3>6. QED
      BY <3>2, <3>4, <3>5 DEF Fits
  <2>3. QED
    BY <1>2, <2>1, <2>2
<1>7. /\ \A u, i : Fits(u, i)' <=> Fits(u, i)
      /\ \A i : AfterWrapped(i)' <=> AfterWrapped(i)
  BY DEF Fits, OfKind, WhollySent, AfterWrapped, Wraps
<1>8. AnswersInOrder'
  <2>1. \A i \in 1..Len(t) :
          (\A j \in 1..(i - 1) : ~IsLast(t[j])) /\ ~AfterWrapped(i)' => Fits(t[i], i)'
    BY <1>6, <1>7
  <2>2. QED
    BY <1>1, <2>1 DEF AnswersInOrder, Fits, IsLast
<1>9. GoesOn(t) => ka /\ GoesOn(s)
  <2>1. ASSUME GoesOn(t) PROVE GoesOn(s)
    BY <1>2, <1>4, <2>1, Bounds DEF GoesOn
  <2>2. ASSUME GoesOn(t), ~ka PROVE FALSE
    <3>1. AnswerUnits \in 1..AnswerUnits /\ Len(s) + AnswerUnits \in 1..Len(t)
      BY <1>2, <1>4, Bounds
    <3>2. t[Len(s) + AnswerUnits] = a[AnswerUnits]
      BY <1>4, <3>1
    <3>3. IsLast(a[AnswerUnits])
      BY <1>3, <2>2, <3>1 DEF IsLast
    <3>4. QED
      BY <2>2, <3>1, <3>2, <3>3 DEF GoesOn
  <2>3. QED
    BY <2>1, <2>2
<1>10. GoesOn(Stream)' => GoesOn(t)
  BY <1>1 DEF GoesOn, IsLast
<1>11. QED
  BY <1>1, <1>4, <1>8, <1>9, <1>10

\* An answer that is given when it is over is at a place that is left open.
LEMMA AddOver ==
    ASSUME TypeOK, TypeOK', AnswersInOrder, sent' = sent, Over, NEW a \in Seq(AnswerUnit),
           Joined(Stream', Stream, a)
    PROVE  AnswersInOrder' /\ Over'
<1>1. PICK s, t : s = Stream /\ t = Stream'
  OBVIOUS
<1>2. Joined(t, s, a) /\ Len(s) \in Nat /\ Len(t) \in Nat /\ Len(a) \in Nat
  BY <1>1, StreamTyped, StreamTypedNext DEF StreamParts
<1>3. Len(s) <= Len(t) /\ \A i \in 1..Len(s) : t[i] = s[i]
  BY <1>2 DEF Joined
<1>4. \A i \in 1..Len(s) : (\A j \in 1..(i - 1) : ~IsLast(s[j])) /\ ~AfterWrapped(i) => Fits(s[i], i)
  BY <1>1 DEF AnswersInOrder, Fits
<1>5. ASSUME NEW i \in 1..Len(t), \A j \in 1..(i - 1) : ~IsLast(t[j]), ~AfterWrapped(i)
      PROVE  Fits(t[i], i)
  <2>1. CASE i <= Len(s)
    <3>1. i \in 1..Len(s) /\ t[i] = s[i] /\ \A j \in 1..(i - 1) : t[j] = s[j]
      BY <1>2, <1>3, <2>1
    <3>2. QED
      BY <1>4, <1>5, <3>1
  <2>2. CASE i > Len(s)
    <3>1. \A j \in 1..Len(s) : j \in 1..(i - 1) /\ t[j] = s[j]
      BY <1>2, <1>3, <2>2
    <3>2. GoesOn(Stream)
      BY <1>1, <1>5, <3>1 DEF GoesOn
    <3>3. PICK j \in 1..Len(sent) : Wraps(sent[j]) /\ Len(s) >= sent[j].req * AnswerUnits
      BY <1>1, <3>2 DEF Over
    <3>4. DOMAIN sent = 1..Len(sent) /\ sent[j] \in RequestUnits
      BY ElementOfSeq DEF TypeOK
    <3>5. sent[j].req * AnswerUnits \in Nat
      BY <3>4, UnitFields, Bounds
    <3>6. i > sent[j].req * AnswerUnits
      BY <1>2, <2>2, <3>3, <3>5
    <3>7. QED
      BY <1>5, <3>3, <3>4, <3>6 DEF AfterWrapped
  <2>3. QED
    BY <1>2, <2>1, <2>2
<1>6. /\ \A u, i : Fits(u, i)' <=> Fits(u, i)
      /\ \A i : AfterWrapped(i)' <=> AfterWrapped(i)
  BY DEF Fits, OfKind, WhollySent, AfterWrapped, Wraps
<1>7. AnswersInOrder'
  <2>1. \A i \in 1..Len(t) :
          (\A j \in 1..(i - 1) : ~IsLast(t[j])) /\ ~AfterWrapped(i)' => Fits(t[i], i)'
    BY <1>5, <1>6
  <2>2. QED
    BY <1>1, <2>1 DEF AnswersInOrder, Fits, IsLast
<1>8. Grows
  BY DEF Grows
<1>9. Over'
  BY <1>1, <1>3, <1>8, OverKept
<1>10. QED
  BY <1>7, <1>9

\* While the connection goes on, the parser begins with the request after the answered ones.
LEMMA HeadIsNext ==
    ASSUME TypeOK, SentInOrder, NEW k \in Nat, HeldFrom(k), c.parser # <<>>
    PROVE  /\ k + 1 \in 1..Len(sent) /\ Head(c.parser) = sent[k + 1] /\ sent[k + 1] \in RequestUnits
           /\ \A d \in Nat : Requested(k, d) => sent[k + 1].req = d + 1
           /\ sent[k + 1].left < Len(c.parser) =>
                /\ k + 1 + sent[k + 1].left \in 1..Len(sent)
                /\ sent[k + 1 + sent[k + 1].left].req = sent[k + 1].req
                /\ sent[k + 1 + sent[k + 1].left].left = 0
<1>1. PICK p, s, m : p = c.parser /\ s = sent /\ m = Len(recvq)
  OBVIOUS
<1>2. p \in Seq(RequestUnits) /\ s \in Seq(RequestUnits) /\ m \in Nat /\ p # <<>>
  BY <1>1, ConnFields DEF TypeOK
<1>3. k + Len(p) + m = Len(s) /\ \A i \in 1..Len(p) : p[i] = s[k + i]
  BY <1>1 DEF HeldFrom
<1>4. Len(p) \in Nat /\ Len(p) > 0 /\ Len(s) \in Nat /\ Head(p) = p[1]
  BY <1>2
<1>5. k + 1 \in 1..Len(s) /\ Head(p) = s[k + 1]
  BY <1>3, <1>4, <1>2
<1>6. s[k + 1] \in RequestUnits
  BY <1>2, <1>5, ElementOfSeq
<1>7. s[k + 1].left \in Nat
  BY <1>6, UnitFields
<1>8. ASSUME NEW d \in Nat, Requested(k, d) PROVE s[k + 1].req = d + 1
  <2>1. CASE k = 0
    BY <1>1, <1>4, <1>5, <1>8, <2>1 DEF Requested, SentInOrder
  <2>2. CASE k # 0
    <3>1. k \in 1..Len(s) /\ k + 1 <= Len(s)
      BY <1>4, <1>5, <2>2
    <3>2. s[k].req = d /\ s[k].left = 0
      BY <1>1, <1>8, <2>2 DEF Requested
    <3>3. QED
      BY <1>1, <3>1, <3>2 DEF SentInOrder
  <2>3. QED
    BY <2>1, <2>2
<1>9. ASSUME s[k + 1].left < Len(p)
      PROVE  /\ k + 1 + s[k + 1].left \in 1..Len(s)
             /\ s[k + 1 + s[k + 1].left].req = s[k + 1].req
             /\ s[k + 1 + s[k + 1].left].left = 0
  <2>1. PICK i, j, l : i = k + 1 /\ l = s[i].left /\ j = i + l
    OBVIOUS
  <2>2. l \in Nat /\ l < Len(p)
    BY <1>7, <1>9, <2>1
  <2>3. i \in 1..Len(s) /\ j \in 1..Len(s) /\ i <= j /\ j - i <= l /\ l - (j - i) = 0
    BY <1>2, <1>3, <1>4, <1>5, <2>1, <2>2
  <2>4. s[j].req = s[i].req /\ s[j].left = s[i].left - (j - i)
    BY <1>1, <2>1, <2>3 DEF SentInOrder
  <2>5. QED
    BY <2>1, <2>3, <2>4
<1>10. QED
  BY <1>1, <1>5, <1>6, <1>8, <1>9

\* What is held after a request has left the parser.
LEMMA HeldAfter ==
    ASSUME TypeOK, NEW k \in Nat, HeldFrom(k), NEW l \in Nat, l < Len(c.parser),
           c'.parser = SubSeq(c.parser, l + 2, Len(c.parser)), recvq' = recvq, sent' = sent
    PROVE  HeldFrom(k + l + 1)'
<1>1. PICK p, s, z, q, o, n : /\ p = c.parser /\ s = sent /\ q = recvq /\ o = l + 1 /\ n = k + l + 1
                              /\ z = SubSeq(p, l + 2, Len(p))
  OBVIOUS
<1>2. p \in Seq(RequestUnits) /\ Len(p) \in Nat /\ Len(s) \in Nat /\ Len(q) \in Nat
  BY <1>1, ConnFields
<1>3. /\ k + Len(p) + Len(q) = Len(s) /\ (\A i \in 1..Len(p) : p[i] = s[k + i])
      /\ \A i \in 1..Len(q) : q[i] = s[k + Len(p) + i]
  BY <1>1 DEF HeldFrom
<1>4. o \in Nat /\ o <= Len(p) /\ o + 1 = l + 2 /\ n = k + o /\ n \in Nat
  BY <1>1, <1>2
<1>5. Len(z) = Len(p) - o /\ \A i \in 1..(Len(p) - o) : z[i] = p[o + i]
  <2>1. z = SubSeq(p, o + 1, Len(p))
    BY <1>1, <1>4
  <2>2. o \in Nat /\ o <= Len(p) /\ p \in Seq(RequestUnits)
    BY <1>2, <1>4
  <2>3. QED
    BY ONLY <2>1, <2>2, RestTyped
<1>6. n \in 0..Len(s) /\ n + Len(z) + Len(q) = Len(s) /\ n + Len(z) = k + Len(p)
  <2>1. PICK a, b, d, e : a = Len(p) /\ b = Len(q) /\ d = Len(s) /\ e = Len(z)
    OBVIOUS
  <2>2. a \in Nat /\ b \in Nat /\ d \in Nat /\ k + a + b = d /\ e = a - o /\ o <= a /\ o \in Nat /\ n = k + o
    BY <1>2, <1>3, <1>4, <1>5, <2>1
  <2>3. n \in 0..d /\ n + e + b = d /\ n + e = k + a
    BY ONLY <2>2, k \in Nat
  <2>4. QED
    BY <2>1, <2>3
<1>7. ASSUME NEW i \in 1..Len(z) PROVE z[i] = s[n + i]
  <2>1. o + i \in 1..Len(p) /\ k + (o + i) = n + i /\ i \in 1..(Len(p) - o)
    BY <1>2, <1>4, <1>5
  <2>2. p[o + i] = s[k + (o + i)]
    BY ONLY <1>3, <2>1
  <2>3. QED
    BY <1>5, <2>1, <2>2
<1>8. ASSUME NEW i \in 1..Len(q) PROVE q[i] = s[n + Len(z) + i]
  BY <1>3, <1>6
<1>9. c'.parser = z /\ recvq' = q /\ sent' = s
  BY <1>1
<1>10. HeldFrom(n)'
  BY <1>6, <1>7, <1>8, <1>9 DEF HeldFrom
<1>11. QED
  BY <1>1, <1>10

\* A complete request is served.
LEMMA ServeAnswers ==
    ASSUME TypeOK, TypeOK', SentInOrder, AnswersInOrder, peer # "reset", Served, Serve
    PROVE  AnswersInOrder' /\ (Served' \/ Over')
<1>1. PICK k \in Nat :
        /\ HeldFrom(k)
        /\ GoesOn(Stream) => \E d \in Nat : Len(Stream) = d * AnswerUnits /\ Requested(k, d)
  BY DEF Served
<1>2. c.parser # <<>> /\ Head(c.parser).left < Len(c.parser) /\ Head(c.parser).kind # "bad"
  <2>1. c.parser # <<>> /\ Len(c.parser) > Head(c.parser).left /\ Head(c.parser).kind # "bad"
    BY DEF Serve, ParseState, HeaderState, IsWhole
  <2>2. c.parser \in Seq(RequestUnits)
    BY ConnFields
  <2>3. Head(c.parser) \in RequestUnits /\ Len(c.parser) \in Nat
    BY <2>1, <2>2
  <2>4. QED
    BY <2>1, <2>3, UnitFields
<1>3. PICK r, l, n, ka, j : /\ r = Head(c.parser) /\ l = r.left /\ n = r.req /\ ka = KeepAlive(r)
                            /\ j = k + 1 + l
  OBVIOUS
<1>4. /\ r = sent[k + 1] /\ r \in RequestUnits /\ k + 1 \in 1..Len(sent)
      /\ \A d \in Nat : Requested(k, d) => n = d + 1
      /\ j \in 1..Len(sent) /\ sent[j].req = n /\ sent[j].left = 0
  BY <1>1, <1>2, <1>3, HeadIsNext
<1>5. l \in Nat /\ n \in 1..MaxRequests /\ r.kind \in Kinds /\ ka \in BOOLEAN /\ r.req = n
  BY <1>3, <1>4, UnitFields DEF KeepAlive, SentInOrder
<1>6. DOMAIN sent = 1..Len(sent) /\ Len(sent) \in Nat
  BY DEF TypeOK
<1>7. WhollySent(n) /\ (ka => OfKind(n, {"keep", "long"})) /\ (~ka => OfKind(n, {"close", "bad", "long"}))
  <2>1. WhollySent(n)
    BY <1>4, <1>6 DEF WhollySent
  <2>2. ka => r.kind \in {"keep", "long"}
    BY <1>2, <1>3, <1>5, ConstantsAssumption DEF KeepAlive
  <2>3. ~ka => r.kind \in {"close", "bad", "long"}
    BY <1>3, <1>5 DEF KeepAlive
  <2>4. QED
    BY <1>4, <1>5, <1>6, <2>1, <2>2, <2>3 DEF OfKind
<1>8. /\ r.takes = "all" => c'.parser = SubSeq(c.parser, l + 2, Len(c.parser))
      /\ c'.outBuf = c.outBuf \o Answer(n, ka) /\ c'.outOff = c.outOff
      /\ recvq' = recvq /\ sent' = sent /\ peer' = peer /\ got' = got /\ sndq' = sndq
  BY <1>3 DEF Serve, Erased, TypeOK, clientVars
<1>9. Joined(Stream', Stream, Answer(n, ka))
  <2>1. Answer(n, ka) \in Seq(AnswerUnit)
    BY <1>5, AnswerTyped
  <2>2. PICK a : a = Answer(n, ka)
    OBVIOUS
  <2>3. a \in Seq(AnswerUnit) /\ c'.outBuf = c.outBuf \o a /\ c'.outOff = c.outOff /\ peer' = peer
        /\ got' = got /\ sndq' = sndq
    BY <1>8, <2>1, <2>2
  <2>4. Joined(Stream', Stream, a)
    BY <2>3, StreamMore
  <2>5. QED
    BY <2>2, <2>4
<1>10. ASSUME GoesOn(Stream)
       PROVE  Len(Stream) = (n - 1) * AnswerUnits
  <2>1. PICK d \in Nat : Len(Stream) = d * AnswerUnits /\ Requested(k, d)
    BY <1>1, <1>10
  <2>2. d = n - 1
    BY <1>4, <2>1
  <2>3. QED
    BY <2>1, <2>2
<1>11. /\ AnswersInOrder' /\ (GoesOn(Stream)' => ka /\ GoesOn(Stream))
       /\ Len(Stream') = Len(Stream) + AnswerUnits
  BY <1>5, <1>7, <1>8, <1>9, <1>10, AddAnswer
<1>12. r.takes = "all" => HeldFrom(j)'
  <2> HAVE r.takes = "all"
  <2>1. HeldFrom(k + l + 1)'
    BY <1>1, <1>2, <1>3, <1>5, <1>8, HeldAfter
  <2>2. j = k + l + 1
    BY <1>3, <1>5
  <2>3. QED
    BY <2>1, <2>2
<1>13. ASSUME GoesOn(Stream)'
       PROVE  Len(Stream') = n * AnswerUnits /\ Requested(j, n)'
  <2>1. Len(Stream) = (n - 1) * AnswerUnits
    BY <1>10, <1>11, <1>13
  <2>2. (n - 1) * AnswerUnits + AnswerUnits = n * AnswerUnits
    BY <1>5, Bounds
  <2>3. Requested(j, n)'
    BY <1>4, <1>8 DEF Requested
  <2>4. QED
    BY <1>11, <2>1, <2>2, <2>3
<1>14. j \in Nat /\ n \in Nat
  BY <1>4, <1>5, <1>6
<1>15. CASE r.takes = "all"
  <2>1. Served'
    BY <1>12, <1>13, <1>14, <1>15 DEF Served
  <2>2. QED
    BY <1>11, <2>1
<1>16. CASE r.takes # "all"
  <2>1. k + 1 \in 1..Len(sent') /\ sent'[k + 1] = r /\ r.req * AnswerUnits = n * AnswerUnits
    BY <1>4, <1>5, <1>8
  <2>2. n * AnswerUnits \in Nat
    BY <1>5, Bounds
  <2>3. Over'
    BY <1>13, <1>16, <2>1, <2>2 DEF Over, Wraps
  <2>4. QED
    BY <1>11, <2>3
<1>17. QED
  BY <1>15, <1>16

\* A header block that is rejected is answered too, and that answer is the last one.
LEMMA ServeBadAnswers ==
    ASSUME TypeOK, TypeOK', SentInOrder, AnswersInOrder, peer # "reset", Served, ServeBad
    PROVE  AnswersInOrder' /\ Served'
<1>1. PICK k \in Nat :
        /\ HeldFrom(k)
        /\ GoesOn(Stream) => \E d \in Nat : Len(Stream) = d * AnswerUnits /\ Requested(k, d)
  BY DEF Served
<1>2. c.parser # <<>> /\ Head(c.parser).kind \in {"bad", "long", "torn"}
  BY DEF ServeBad, ParseState, HeaderState
<1>3. PICK r, n : r = Head(c.parser) /\ n = r.req
  OBVIOUS
<1>4. /\ r = sent[k + 1] /\ r \in RequestUnits /\ k + 1 \in 1..Len(sent)
      /\ \A d \in Nat : Requested(k, d) => n = d + 1
  BY <1>1, <1>2, <1>3, HeadIsNext
<1>5. n \in 1..MaxRequests /\ r.kind \in Kinds /\ r.req = n
  BY <1>3, <1>4, UnitFields DEF SentInOrder
<1>6. DOMAIN sent = 1..Len(sent)
  BY DEF TypeOK
<1>7. OfKind(n, {"close", "bad", "long"})
  BY <1>2, <1>3, <1>4, <1>5, <1>6, ConstantsAssumption DEF OfKind
<1>8. /\ c'.parser = c.parser /\ c'.outBuf = c.outBuf \o Answer(n, FALSE) /\ c'.outOff = c.outOff
      /\ recvq' = recvq /\ sent' = sent /\ peer' = peer /\ got' = got /\ sndq' = sndq
  BY <1>3 DEF ServeBad, TypeOK, clientVars
<1>9. Joined(Stream', Stream, Answer(n, FALSE))
  <2>1. Answer(n, FALSE) \in Seq(AnswerUnit)
    BY <1>5, AnswerTyped
  <2>2. PICK a : a = Answer(n, FALSE)
    OBVIOUS
  <2>3. a \in Seq(AnswerUnit) /\ c'.outBuf = c.outBuf \o a /\ c'.outOff = c.outOff /\ peer' = peer
        /\ got' = got /\ sndq' = sndq
    BY <1>8, <2>1, <2>2
  <2>4. Joined(Stream', Stream, a)
    BY <2>3, StreamMore
  <2>5. QED
    BY <2>2, <2>4
<1>10. ASSUME GoesOn(Stream)
       PROVE  Len(Stream) = (n - 1) * AnswerUnits
  <2>1. PICK d \in Nat : Len(Stream) = d * AnswerUnits /\ Requested(k, d)
    BY <1>1, <1>10
  <2>2. d = n - 1
    BY <1>4, <2>1
  <2>3. QED
    BY <2>1, <2>2
<1>11. AnswersInOrder' /\ ~GoesOn(Stream)'
  BY <1>5, <1>7, <1>8, <1>9, <1>10, AddAnswer
<1>12. HeldFrom(k)'
  BY <1>1, <1>8 DEF HeldFrom
<1>13. Served'
  BY <1>11, <1>12 DEF Served
<1>14. QED
  BY <1>11, <1>13

\* When it is over an answer may be about anything.
LEMMA OverAnswers ==
    ASSUME TypeOK, TypeOK', AnswersInOrder, peer # "reset", Over, Serve \/ ServeBad
    PROVE  AnswersInOrder' /\ Over'
<1>1. PICK n, ka : /\ n = Head(c.parser).req /\ ka \in BOOLEAN
                   /\ c'.outBuf = c.outBuf \o Answer(n, ka) /\ c'.outOff = c.outOff
  <2>1. CASE Serve
    <3>1. KeepAlive(Head(c.parser)) \in BOOLEAN
      BY DEF KeepAlive
    <3>2. /\ c'.outBuf = c.outBuf \o Answer(Head(c.parser).req, KeepAlive(Head(c.parser)))
          /\ c'.outOff = c.outOff
      BY <2>1 DEF Serve, TypeOK
    <3>3. QED
      BY <3>1, <3>2
  <2>2. CASE ServeBad
    BY <2>2 DEF ServeBad, TypeOK
  <2>3. QED
    BY <2>1, <2>2
<1>2. c.parser # <<>>
  BY DEF Serve, ServeBad, ParseState, HeaderState
<1>3. Head(c.parser) \in RequestUnits
  BY <1>2 DEF TypeOK
<1>4. n \in 1..MaxRequests
  BY <1>1, <1>3, UnitFields
<1>5. PICK a : a = Answer(n, ka)
  OBVIOUS
<1>6. a \in Seq(AnswerUnit)
  BY <1>1, <1>4, <1>5, AnswerTyped
<1>7. sent' = sent /\ peer' = peer /\ got' = got /\ sndq' = sndq
  BY DEF Serve, ServeBad, clientVars
<1>8. c'.outBuf = c.outBuf \o a /\ c'.outOff = c.outOff
  BY <1>1, <1>5
<1>9. Joined(Stream', Stream, a)
  BY <1>6, <1>7, <1>8, StreamMore
<1>10. QED
  BY <1>6, <1>7, <1>9, AddOver

-----------------------------------------------------------------------------
(* The invariant, and the theorems.                                        *)

LEMMA InitIInv == Init => IInv
<1>1. SUFFICES ASSUME Init PROVE IInv
  OBVIOUS
<1>2. TypeOK
  <2>1. c \in Conns /\ c.outOff <= Len(c.outBuf)
    BY <1>1, NewConnTyped DEF Init
  <2>2. /\ Len(sndq) <= SndBuf /\ sndq \in Seq(AnswerUnit) /\ got \in Seq(AnswerUnit)
        /\ sent \in Seq(RequestUnits) /\ recvq \in Seq(RequestUnits)
    BY <1>1, Bounds DEF Init
  <2>3. QED
    BY <1>1, <2>1, <2>2 DEF Init, TypeOK, Conns
<1>3. OnlyOpen /\ SentInOrder
  BY <1>1 DEF Init, OnlyOpen, SentInOrder
<1>4. Unsent = <<>>
  BY <1>1, NewConnTyped DEF Init, Unsent
<1>5. Stream = <<>>
  BY <1>1, <1>4 DEF Init, Stream
<1>6. AnswersInOrder
  BY <1>5 DEF AnswersInOrder
<1>7. QED
  BY <1>1, <1>2, <1>3, <1>6 DEF IInv, Init

\* Steps after which the requests sent are those sent before.
LEMMA SentKept ==
    ASSUME SentInOrder, sent' = sent
    PROVE  SentInOrder' /\ Grows
  BY DEF SentInOrder, Grows

\* With the same answers it is over as before.
LEMMA SameStream ==
    ASSUME TypeOK, TypeOK', Over, Grows, Stream' = Stream
    PROVE  Over'
<1>1. Len(Stream) <= Len(Stream') /\ \A i \in 1..Len(Stream) : Stream'[i] = Stream[i]
  BY StreamTyped DEF StreamParts
<1>2. QED
  BY <1>1, OverKept

LEMMA NextIInv == IInv /\ [Next]_vars => IInv'
<1>1. SUFFICES ASSUME IInv, [Next]_vars PROVE IInv'
  OBVIOUS
<1>2. TypeOK /\ OnlyOpen /\ SentInOrder /\ AnswersInOrder
  BY <1>1 DEF IInv
<1>3. TypeOK' /\ OnlyOpen'
  BY <1>1, <1>2, TypeStep, OnlyOpenStep
<1>4. CASE \/ Accept \/ Wake \/ RecvEnds \/ ServeEnds \/ Send \/ SendWouldBlock \/ Flushed
           \/ HalfClose \/ Receive \/ Stop \/ UNCHANGED vars
  <2>1. Stream' = Stream
    BY <1>2, <1>3, <1>4, StreamKept
  <2>2. sent' = sent /\ recvq' = recvq /\ c'.parser = c.parser
    BY <1>2, <1>4 DEF Accept, Wake, RecvEnds, ServeEnds, Send, SendWouldBlock, Flushed, HalfClose,
       Receive, Stop, vars, loopVars, clientVars, TypeOK
  <2>3. SentInOrder' /\ Grows
    BY <1>2, <2>2, SentKept
  <2>4. AnswersInOrder'
    <3>1. Len(Stream') <= Len(Stream) /\ \A i \in 1..Len(Stream') : Stream'[i] = Stream[i]
      BY <1>2, <2>1, StreamTyped DEF StreamParts
    <3>2. QED
      BY <1>2, <1>3, <2>3, <3>1, KeepOrder
  <2>5. conn' # "idle" /\ peer' # "reset" => conn # "idle" /\ peer # "reset"
    BY <1>2, <1>4 DEF Accept, Wake, RecvEnds, ServeEnds, Send, SendWouldBlock, Flushed, HalfClose,
       Receive, Stop, vars, loopVars, clientVars, OnlyOpen
  <2>6. Over => Over'
    BY <1>2, <1>3, <2>1, <2>3, SameStream
  <2>7. Served => Served'
    BY <2>1, <2>2, ServedKept
  <2>8. QED
    BY <1>1, <1>3, <2>3, <2>4, <2>5, <2>6, <2>7 DEF IInv
<1>5. CASE Recv
  <2>1. Stream' = Stream
    BY <1>2, <1>3, <1>5, StreamKept
  <2>2. sent' = sent /\ conn' = conn /\ peer' = peer
    BY <1>5 DEF Recv
  <2>3. SentInOrder' /\ Grows
    BY <1>2, <2>2, SentKept
  <2>4. AnswersInOrder'
    <3>1. Len(Stream') <= Len(Stream) /\ \A i \in 1..Len(Stream') : Stream'[i] = Stream[i]
      BY <1>2, <2>1, StreamTyped DEF StreamParts
    <3>2. QED
      BY <1>2, <1>3, <2>3, <3>1, KeepOrder
  <2>5. Over => Over'
    BY <1>2, <1>3, <2>1, <2>3, SameStream
  <2>6. Served => Served'
    BY <1>2, <1>5, <2>1, RecvServed
  <2>7. QED
    BY <1>1, <1>3, <2>2, <2>3, <2>4, <2>5, <2>6 DEF IInv
<1>6. CASE \/ ContinueRequest
           \/ \E kind \in Kinds, units \in 1..MaxUnits, takes \in {"all", "none", "part"} :
                BeginRequest(kind, units, takes)
  <2>1. PICK u \in RequestUnits : Transmit(u) /\ Follows(u)
    BY <1>2, <1>6, TransmitFacts
  <2>2. Stream' = Stream
    BY <1>2, <1>3, <2>1, StreamKept
  <2>3. sent' = Append(sent, u) /\ conn' = conn /\ peer' = peer
    BY <2>1 DEF Transmit, loopVars
  <2>4. SentInOrder' /\ Grows
    BY <1>2, <2>1, <2>3, SentStep
  <2>5. AnswersInOrder'
    <3>1. Len(Stream') <= Len(Stream) /\ \A i \in 1..Len(Stream') : Stream'[i] = Stream[i]
      BY <1>2, <2>2, StreamTyped DEF StreamParts
    <3>2. QED
      BY <1>2, <1>3, <2>4, <3>1, KeepOrder
  <2>6. Over => Over'
    BY <1>2, <1>3, <2>2, <2>4, SameStream
  <2>7. Served => Served'
    BY <1>2, <2>1, <2>2, <2>4, TransmitServed
  <2>8. QED
    BY <1>1, <1>3, <2>3, <2>4, <2>5, <2>6, <2>7 DEF IInv
<1>7. CASE Connect
  <2>1. Stream' = <<>> /\ Served' /\ sent' = <<>>
    BY <1>2, <1>7, ConnectServed DEF Connect
  <2>2. SentInOrder'
    BY <2>1 DEF SentInOrder
  <2>3. AnswersInOrder'
    BY <2>1 DEF AnswersInOrder
  <2>4. QED
    BY <1>3, <2>1, <2>2, <2>3 DEF IInv
<1>8. CASE Reset \/ AcceptFails \/ HangUp \/ SendFails \/ FlushedAndCloses \/ Exit
  <2>1. Reset \/ AcceptFails \/ CloseConn
    BY <1>8 DEF HangUp, SendFails, FlushedAndCloses, Exit
  <2>2. sent' = sent /\ (peer' = "reset" \/ conn' = "idle")
    BY <2>1 DEF Reset, AcceptFails, CloseConn, SocketCloses
  <2>3. SentInOrder' /\ Grows
    BY <1>2, <2>2, SentKept
  <2>4. Len(Stream') <= Len(Stream) /\ \A i \in 1..Len(Stream') : Stream'[i] = Stream[i]
    BY <1>2, <1>3, <2>1, StreamCut
  <2>5. AnswersInOrder'
    BY <1>2, <1>3, <2>3, <2>4, KeepOrder
  <2>6. QED
    BY <1>3, <2>2, <2>3, <2>5 DEF IInv
<1>9. CASE Serve \/ ServeBad
  <2>1. sent' = sent /\ conn' = conn /\ peer' = peer /\ conn = "open" /\ got' = got
    BY <1>2, <1>9 DEF Serve, ServeBad, clientVars, OnlyOpen
  <2>2. SentInOrder' /\ Grows
    BY <1>2, <2>1, SentKept
  <2>3. CASE peer = "reset"
    <3>1. Stream' = Stream
      BY <2>1, <2>3 DEF Stream
    <3>2. Len(Stream') <= Len(Stream) /\ \A i \in 1..Len(Stream') : Stream'[i] = Stream[i]
      BY <1>2, <3>1, StreamTyped DEF StreamParts
    <3>3. AnswersInOrder'
      BY <1>2, <1>3, <2>2, <3>2, KeepOrder
    <3>4. QED
      BY <1>3, <2>1, <2>2, <2>3, <3>3 DEF IInv
  <2>4. CASE peer # "reset"
    <3>1. Served \/ Over
      BY <1>1, <2>1, <2>4 DEF IInv
    <3>2. AnswersInOrder' /\ (Served' \/ Over')
      BY <1>2, <1>3, <1>9, <2>4, <3>1, ServeAnswers, ServeBadAnswers, OverAnswers
    <3>3. QED
      BY <1>3, <2>2, <3>2 DEF IInv
  <2>5. QED
    BY <2>3, <2>4
<1>10. QED
  BY <1>1, <1>4, <1>5, <1>6, <1>7, <1>8, <1>9 DEF Next, Loop, Client

LEMMA SpecIInv == Spec => []IInv
BY InitIInv, NextIInv, PTL DEF Spec

\* The variables keep their types: the socket never holds more than it has room
\* for, and the offset of flush() stays inside outBuf.
THEOREM TypeCorrect == Spec => []TypeOK
<1>1. IInv => TypeOK
  BY DEF IInv
<1>2. QED
  BY <1>1, SpecIInv, PTL

\* onReadable() and flush() give the client whole answers in the order of its
\* requests, one for each request that was there, and end the connection only
\* where the client asked for it or its header block was rejected; up to a request
\* whose length wraps, after which nothing is said.
THEOREM ClientGetsItsAnswers == Spec => []AnswersInOrder
<1>1. IInv => AnswersInOrder
  BY DEF IInv
<1>2. QED
  BY <1>1, SpecIInv, PTL
=============================================================================
