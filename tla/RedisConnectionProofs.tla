------------------------ MODULE RedisConnectionProofs ------------------------
(***************************************************************************)
(* That a GET of the L2 cache returns what its key held during the call,   *)
(* for any number of workers, keys, stores and connections.  Replies carry *)
(* no name of the call they answer, so the proof is that the connection    *)
(* never holds anything but (a part of) the answer to the call whose       *)
(* worker has mu_: a call that gives up closes the connection.             *)
(* And that the subscriber acts upon every message once and in order,      *)
(* those aside that a timeout interrupted or a connection took with it.    *)
(***************************************************************************)
EXTENDS RedisConnection, SequenceTheorems, TLAPS

Calls == [pc : {"idle", "lock", "send", "reply"}, op : {"none", "get", "put"},
          key : Keys \cup {None}, res : Int]

Types ==
    /\ use \in {"l2", "subscriber"}
    /\ worker \in [Workers -> Calls]
    /\ store \in [Keys -> Int]
    /\ puts \in Nat
    /\ seen \in [Workers -> SUBSET Int]

\* mu_ is held from ensureConnected_ to the end of the call.
Mutex == \A w \in Workers : worker[w].pc \in {"send", "reply"} <=> mu = w

\* A call has seen what its key holds now, and returned something it has seen.
CallSound(w) ==
    IF worker[w].pc = "idle"
      THEN worker[w].res = 0 \/ worker[w].res \in seen[w]
      ELSE /\ worker[w].res = 0
           /\ worker[w].key \in Keys
           /\ store[worker[w].key] \in seen[w]
CallsSound == \A w \in Workers : CallSound(w)

BulkHeader == Tok("bulk", 0, None, 0)
AwaitsBody == [need |-> 1, body |-> TRUE, toks |-> <<BulkHeader>>]

Quiet == parse = Fresh /\ stream = <<>>

\* The values a GET of w may be answered with.
Blobs(w) == {Serialize(v) : v \in {u \in seen[w] : u # 0}}

\* Nothing, or the answer to w's command, from some token on and up to some token.
ALine == parse = Fresh /\ \E kind \in {"nil", "status", "error"} : stream = <<Line(kind)>>
ABulk(w) ==
    /\ worker[w].op = "get" /\ parse = Fresh
    /\ \/ stream = <<BulkHeader>>
       \/ \E b \in Blobs(w) : stream = <<BulkHeader, b>>
ABody(w) ==
    /\ worker[w].op = "get" /\ parse = AwaitsBody
    /\ \/ stream = <<>>
       \/ \E b \in Blobs(w) : stream = <<b>>
OnTheWire(w) == Quiet \/ ALine \/ ABulk(w) \/ ABody(w)

Wire ==
    use = "l2" =>
        /\ (\A w \in Workers : worker[w].pc # "reply") => Quiet
        /\ \A w \in Workers : worker[w].pc = "reply" => OnTheWire(w)

\* The subscriber's connection is another one.
NoCalls == use = "subscriber" => \A w \in Workers : worker[w].pc = "idle"

IInv == Types /\ Mutex /\ CallsSound /\ Wire /\ NoCalls

-----------------------------------------------------------------------------
(* Sequences of one and two tokens.                                        *)

\* Their elements and tails.
LEMMA Elements ==
    ASSUME NEW a, NEW b
    PROVE  /\ <<a>>[1] = a /\ <<a, b>>[1] = a /\ <<a, b>>[2] = b
           /\ Tail(<<a>>) = <<>> /\ Tail(<<a, b>>) = <<b>>
  OBVIOUS

\* A second token behind a first.
LEMMA PairSeq ==
    ASSUME NEW a, NEW b
    PROVE  Append(<<a>>, b) = <<a, b>>
<1> DEFINE S == {a, b}
<1>1. <<a>> \in Seq(S) /\ <<a, b>> \in Seq(S) /\ b \in S /\ Len(<<a>>) = 1 /\ Len(<<a, b>>) = 2
  OBVIOUS
<1>2. /\ Append(<<a>>, b) \in Seq(S) /\ Len(Append(<<a>>, b)) = 2
      /\ Append(<<a>>, b)[1] = a /\ Append(<<a>>, b)[2] = b
  BY <1>1, AppendProperties
<1>3. \A i \in 1..2 : Append(<<a>>, b)[i] = <<a, b>>[i]
  <2>1. 1..2 = {1, 2}
    OBVIOUS
  <2>2. QED
    BY <1>2, <2>1
<1>4. QED
  BY <1>1, <1>2, <1>3, SeqEqual

\* What may be left of one token.
LEMMA Prefix1 ==
    ASSUME NEW a, NEW n \in 0..1
    PROVE  SubSeq(<<a>>, 1, n) \in {<<>>, <<a>>}
<1>1. <<a>> \in Seq({a}) /\ Len(<<a>>) = 1
  OBVIOUS
<1>2. CASE n = 0
  BY <1>1, <1>2, SubSeqEmpty
<1>3. CASE n = 1
  BY <1>1, <1>3, SubSeqFull
<1>4. QED
  BY <1>2, <1>3

\* What may be left of two.
LEMMA Prefix2 ==
    ASSUME NEW a, NEW b, NEW n \in 0..2
    PROVE  SubSeq(<<a, b>>, 1, n) \in {<<>>, <<a>>, <<a, b>>}
<1> DEFINE S == {a, b}
<1>1. <<a, b>> \in Seq(S) /\ Len(<<a, b>>) = 2 /\ <<a, b>>[1] = a
  OBVIOUS
<1>2. CASE n = 0
  BY <1>1, <1>2, SubSeqEmpty
<1>3. CASE n = 2
  BY <1>1, <1>3, SubSeqFull
<1>4. CASE n = 1
  <2> DEFINE p == SubSeq(<<a, b>>, 1, 1)
  <2> HIDE DEF S
  <2>1. p \in Seq(S) /\ Len(p) = 1 /\ p[1] = a
    BY <1>1, SubSeqProperties
  <2>2. <<a>> \in Seq(S) /\ Len(<<a>>) = 1 /\ <<a>>[1] = a
    BY DEF S
  <2> HIDE DEF p
  <2>3. \A i \in 1..1 : p[i] = <<a>>[i]
    BY <2>1, <2>2
  <2>4. p = <<a>>
    BY <2>1, <2>2, <2>3, SeqEqual
  <2>5. QED
    BY <1>4, <2>4 DEF p
<1>5. QED
  BY <1>2, <1>3, <1>4

-----------------------------------------------------------------------------
(* The parser.                                                             *)

\* A reply of one line.
LEMMA ParseLine ==
    ASSUME NEW kind \in {"nil", "status", "error"}, parse = Fresh, stream = <<Line(kind)>>
    PROVE  Outcome = "reply" /\ Parsed.toks = <<Line(kind)>>
<1>1. Head(stream) = Line(kind)
  OBVIOUS
<1>2. AsLine(Line(kind)) = Line(kind) /\ Line(kind).kind = kind
  BY DEF AsLine, Line, Tok
<1>3. ~Fresh.body /\ Fresh.need = 1 /\ Fresh.toks = <<>>
  BY DEF Fresh
<1>4. Parsed = Took(Fresh, Line(kind), 0)
  BY <1>1, <1>2, <1>3 DEF Parsed, Consume
<1>5. Parsed.need = 0 /\ Parsed.toks = <<Line(kind)>>
  BY <1>3, <1>4 DEF Took
<1>6. ~BadLine(parse, Head(stream))
  BY <1>1, <1>2 DEF BadLine
<1>7. QED
  BY <1>5, <1>6 DEF Outcome

\* The header of a bulk reply.
LEMMA ParseHeader ==
    ASSUME parse = Fresh, Head(stream) = BulkHeader
    PROVE  Outcome = "more" /\ Parsed = AwaitsBody
<1>1. AsLine(BulkHeader) = BulkHeader /\ BulkHeader.kind = "bulk"
  BY DEF AsLine, BulkHeader, Tok
<1>2. ~Fresh.body /\ Fresh.need = 1 /\ Fresh.toks = <<>>
  BY DEF Fresh
<1>3. Parsed = Took(Fresh, BulkHeader, 1)
  BY <1>1, <1>2 DEF Parsed, Consume
<1>4. Parsed = AwaitsBody
  <2>1. (BulkHeader.kind = "bulk") = TRUE
    BY <1>1
  <2>2. Append(<<>>, BulkHeader) = <<BulkHeader>>
    OBVIOUS
  <2>3. QED
    BY <1>2, <1>3, <2>1, <2>2, Zenon DEF Took, AwaitsBody
<1>5. ~BadLine(parse, Head(stream))
  BY <1>1 DEF BadLine
<1>6. Parsed.need = 1
  BY <1>4 DEF AwaitsBody
<1>7. QED
  BY <1>4, <1>5, <1>6 DEF Outcome

\* Its body, whatever it looks like.
LEMMA ParseBody ==
    ASSUME parse = AwaitsBody, NEW b, Head(stream) = b
    PROVE  Outcome = "reply" /\ Parsed.toks = <<BulkHeader, b>>
<1>1. AwaitsBody.body /\ AwaitsBody.need = 1 /\ AwaitsBody.toks = <<BulkHeader>>
  BY DEF AwaitsBody
<1>2. Parsed = Took(AwaitsBody, b, 0)
  BY <1>1 DEF Parsed, Consume
<1>3. Parsed.need = 0 /\ Parsed.toks = <<BulkHeader, b>>
  <2>1. Append(<<BulkHeader>>, b) = <<BulkHeader, b>>
    BY PairSeq
  <2>2. QED
    BY <1>1, <1>2, <2>1, Zenon DEF Took
<1>4. ~BadLine(parse, Head(stream))
  BY <1>1 DEF BadLine
<1>5. QED
  BY <1>3, <1>4 DEF Outcome

\* deserialize gives back what serialize wrote, and nothing for another format.
LEMMA RoundTrip ==
    ASSUME NEW v \in Int
    PROVE  Deserialize(Serialize(v)) = IF v > 0 THEN v ELSE 0
  BY DEF Deserialize, Serialize, Tok

-----------------------------------------------------------------------------
\* It holds before anyone has connected.
LEMMA InitIInv == Init => IInv
<1>1. SUFFICES ASSUME Init PROVE IInv
  OBVIOUS
<1>a. MaxPuts \in Nat /\ MaxConnects \in Nat /\ None \notin Workers /\ Foreign \subseteq Keys
  BY RedisAssumption
<1> USE <1>a
<1>2. \A w \in Workers : worker[w] = Idle
  BY <1>1 DEF Init
<1>3. Idle \in Calls /\ Idle.pc = "idle" /\ Idle.res = 0
  BY DEF Idle, Calls
<1>4. Types
  BY <1>1, <1>3 DEF Init, Types
<1>5. Mutex
  BY <1>1, <1>2, <1>3 DEF Init, Mutex
<1>6. CallsSound
  BY <1>2, <1>3 DEF CallsSound, CallSound
<1>7. Wire /\ NoCalls
  BY <1>1, <1>2, <1>3 DEF Init, Wire, NoCalls, Quiet
<1>8. QED
  BY <1>4, <1>5, <1>6, <1>7 DEF IInv

\* What w may find on the wire depends on its call, on what it has seen and on the
\* connection; seeing more changes nothing.
LEMMA WireKept ==
    ASSUME NEW w \in Workers, OnTheWire(w), parse' = parse, stream' = stream,
           worker'[w].op = worker[w].op, seen[w] \subseteq seen'[w]
    PROVE  OnTheWire(w)'
<1>1. Blobs(w) \subseteq Blobs(w)'
  BY DEF Blobs
<1>2. (Quiet => Quiet') /\ (ALine => ALine')
  BY DEF Quiet, ALine
<1>3. ABulk(w) => ABulk(w)'
  BY <1>1 DEF ABulk
<1>4. ABody(w) => ABody(w)'
  BY <1>1 DEF ABody
<1>5. QED
  BY <1>2, <1>3, <1>4 DEF OnTheWire

\* A step that leaves the calls and Redis alone keeps all but the wire.
LEMMA CallsKept ==
    ASSUME IInv, use' = use, UNCHANGED l2Vars
    PROVE  Types' /\ Mutex' /\ CallsSound' /\ NoCalls'
  BY DEF IInv, l2Vars, Types, Mutex, CallsSound, CallSound, NoCalls

\* What the network loses leaves a part of the answer.
LEMMA WireCut ==
    ASSUME NEW w \in Workers, OnTheWire(w), parse' = parse, UNCHANGED l2Vars,
           NEW n \in 0..Len(stream), stream' = SubSeq(stream, 1, n)
    PROVE  OnTheWire(w)'
<1>1. Blobs(w)' = Blobs(w) /\ worker' = worker
  BY DEF Blobs, l2Vars
<1>2. CASE stream = <<>>
  <2>1. Len(stream) = 0
    BY <1>2
  <2>2. stream' = <<>>
    BY <2>1, SubSeqEmpty
  <2>3. QED
    BY <1>1, <1>2, <2>2, WireKept DEF l2Vars
<1>3. ASSUME NEW a, stream = <<a>> PROVE stream' = <<>> \/ stream' = stream
  BY <1>3, Prefix1
<1>4. ASSUME NEW a, NEW b, stream = <<a, b>>
      PROVE  stream' = <<>> \/ stream' = <<a>> \/ stream' = stream
  BY <1>4, Prefix2
<1>5. CASE Quiet
  BY <1>2, <1>5 DEF Quiet
<1>6. CASE ALine
  BY <1>3, <1>6 DEF ALine, OnTheWire, Quiet
<1>7. CASE ABulk(w)
  <2>1. CASE stream = <<BulkHeader>>
    BY <1>1, <1>3, <1>7, <2>1 DEF ABulk, OnTheWire, Quiet
  <2>2. ASSUME NEW b \in Blobs(w), stream = <<BulkHeader, b>> PROVE OnTheWire(w)'
    BY <1>1, <1>4, <1>7, <2>2 DEF ABulk, OnTheWire, Quiet
  <2>3. QED
    BY <1>7, <2>1, <2>2 DEF ABulk
<1>8. CASE ABody(w)
  <2>1. ASSUME NEW b \in Blobs(w), stream = <<b>> PROVE OnTheWire(w)'
    BY <1>1, <1>3, <1>8, <2>1 DEF ABody, OnTheWire
  <2>2. QED
    BY <1>2, <1>8, <2>1 DEF ABody
<1>9. QED
  BY <1>5, <1>6, <1>7, <1>8 DEF OnTheWire

\* The call of w ends, with nothing or with something it has seen, and leaves the
\* connection without an answer under way.
LEMMA CallEnds ==
    ASSUME IInv, use = "l2", NEW w \in Workers, mu = w \/ mu = None, NEW res \in Int,
           res = 0 \/ res \in seen[w], Answer(w, res), Quiet'
    PROVE  IInv'
<1> USE RedisAssumption
<1>1. /\ mu' = None /\ use' = use /\ store' = store /\ puts' = puts
      /\ worker' = [worker EXCEPT ![w] = [Idle EXCEPT !.res = res]]
      /\ seen' = [seen EXCEPT ![w] = @ \cap {res}]
  BY DEF Answer
<1> DEFINE idle == [Idle EXCEPT !.res = res]
<1>2. idle \in Calls /\ idle.pc = "idle" /\ idle.res = res
  BY DEF Idle, Calls
<1>3. Types
  BY DEF IInv
<1>4. worker'[w] = idle /\ seen'[w] = seen[w] \cap {res}
  BY <1>1, <1>3 DEF Types
<1>5. \A v \in Workers \ {w} : worker'[v] = worker[v] /\ seen'[v] = seen[v]
  BY <1>1, <1>3 DEF Types
<1>6. \A v \in Workers : worker'[v].pc \notin {"send", "reply"}
  <2>1. \A v \in Workers \ {w} : worker[v].pc \notin {"send", "reply"}
    BY DEF IInv, Mutex
  <2>2. QED
    BY <1>2, <1>4, <1>5, <2>1
<1> HIDE DEF idle
<1>7. Types'
  <2>1. worker' \in [Workers -> Calls]
    BY <1>1, <1>2, <1>3 DEF Types, idle
  <2>2. seen' \in [Workers -> SUBSET Int]
    BY <1>1, <1>3 DEF Types
  <2>3. QED
    BY <1>1, <1>3, <2>1, <2>2 DEF Types
<1>8. Mutex'
  BY <1>1, <1>6 DEF Mutex
<1>9. CallsSound'
  <2>1. CallSound(w)'
    BY <1>2, <1>4 DEF CallSound
  <2>2. ASSUME NEW v \in Workers \ {w} PROVE CallSound(v)'
    BY <1>1, <1>5 DEF IInv, CallsSound, CallSound
  <2>3. QED
    BY <2>1, <2>2 DEF CallsSound
<1>10. Wire' /\ NoCalls'
  BY <1>1, <1>6 DEF Wire, NoCalls
<1>11. QED
  BY <1>7, <1>8, <1>9, <1>10 DEF IInv

\* The holder of mu_ is the only one with a command or a reply under way.
LEMMA OnlyHolder ==
    ASSUME IInv, NEW w \in Workers, worker[w].pc \in {"send", "reply"}
    PROVE  mu = w /\ \A v \in Workers \ {w} : worker[v].pc \notin {"send", "reply"}
  BY DEF IInv, Mutex

\* The connection is closed and the call returns nothing.
LEMMA FailedIInv ==
    ASSUME IInv, use = "l2", NEW w \in Workers, worker[w].pc \in {"send", "reply"}, Failed(w)
    PROVE  IInv'
<1>1. mu = w
  BY OnlyHolder
<1>2. Quiet' /\ Answer(w, 0)
  BY DEF Failed, Close, Quiet
<1>3. QED
  BY <1>1, <1>2, CallEnds

\* A call begins with what its key holds.
LEMMA CallIInv ==
    ASSUME IInv, use = "l2", NEW w \in Workers, NEW k \in Keys, NEW op \in {"get", "put"},
           Call(w, op, k)
    PROVE  IInv'
<1> DEFINE call == [pc |-> "lock", op |-> op, key |-> k, res |-> 0]
<1>1. /\ worker[w].pc = "idle"
      /\ worker' = [worker EXCEPT ![w] = call]
      /\ seen' = [seen EXCEPT ![w] = {store[k]}]
      /\ UNCHANGED <<use, mu, store, puts, parse, stream>>
  BY DEF Call, netVars
<1>2. Types
  BY DEF IInv
<1>3. call \in Calls /\ call.pc = "lock" /\ call.res = 0 /\ call.key = k
  BY DEF Calls
<1> HIDE DEF call
<1>4. worker'[w] = call /\ seen'[w] = {store[k]}
  BY <1>1, <1>2 DEF Types
<1>5. \A v \in Workers \ {w} : worker'[v] = worker[v] /\ seen'[v] = seen[v]
  BY <1>1, <1>2 DEF Types
<1>6. Types'
  BY <1>1, <1>2, <1>3 DEF Types
<1>7. Mutex'
  BY <1>1, <1>3, <1>4, <1>5 DEF IInv, Mutex
<1>8. CallsSound'
  <2>1. CallSound(w)'
    BY <1>1, <1>3, <1>4 DEF CallSound
  <2>2. ASSUME NEW v \in Workers \ {w} PROVE CallSound(v)'
    BY <1>1, <1>5 DEF IInv, CallsSound, CallSound
  <2>3. QED
    BY <2>1, <2>2 DEF CallsSound
<1>9. Wire'
  <2>1. (\A v \in Workers : worker'[v].pc # "reply") => Quiet'
    <3>1. (\A v \in Workers : worker'[v].pc # "reply") => \A v \in Workers : worker[v].pc # "reply"
      BY <1>1, <1>5
    <3>2. QED
      BY <1>1, <3>1 DEF IInv, Wire, Quiet
  <2>2. ASSUME NEW v \in Workers, worker'[v].pc = "reply" PROVE OnTheWire(v)'
    <3>1. v # w
      BY <1>3, <1>4, <2>2
    <3>2. OnTheWire(v)
      BY <1>5, <2>2, <3>1 DEF IInv, Wire
    <3>3. QED
      BY <1>1, <1>5, <3>1, <3>2, WireKept
  <2>3. QED
    BY <2>1, <2>2 DEF Wire
<1>10. NoCalls'
  BY <1>1 DEF NoCalls
<1>11. QED
  BY <1>6, <1>7, <1>8, <1>9, <1>10 DEF IInv

\* Whoever gets mu_ finds the connection, or makes it, without an answer under way.
LEMMA LockIInv ==
    ASSUME IInv, use = "l2", NEW w \in Workers, Lock(w)
    PROVE  IInv'
<1> USE RedisAssumption
<1>1. /\ worker[w].pc = "lock" /\ mu = None /\ mu' = w
      /\ worker' = [worker EXCEPT ![w].pc = "send"]
      /\ UNCHANGED <<use, store, puts, seen>>
  BY DEF Lock
<1>2. Types
  BY DEF IInv
<1>3. \A v \in Workers : worker[v].pc \notin {"send", "reply"}
  BY <1>1 DEF IInv, Mutex
<1>4. Quiet
  BY <1>3 DEF IInv, Wire
<1>5. Quiet'
  BY <1>4 DEF Lock, Connect, Quiet, netVars
<1>6. worker'[w] = [worker[w] EXCEPT !.pc = "send"] /\ worker[w] \in Calls
  BY <1>1, <1>2 DEF Types
<1>7. /\ worker'[w].pc = "send" /\ worker'[w].res = worker[w].res /\ worker'[w].key = worker[w].key
      /\ worker'[w] \in Calls
  BY <1>6 DEF Calls
<1>8. \A v \in Workers \ {w} : worker'[v] = worker[v]
  BY <1>1, <1>2 DEF Types
<1>9. Types'
  <2>1. worker' = [worker EXCEPT ![w] = worker'[w]]
    BY <1>1, <1>2, <1>6 DEF Types
  <2>2. worker' \in [Workers -> Calls]
    BY <1>2, <1>7, <2>1 DEF Types
  <2>3. QED
    BY <1>1, <1>2, <2>2 DEF Types
<1>10. Mutex'
  BY <1>1, <1>3, <1>7, <1>8 DEF Mutex
<1>11. CallsSound'
  <2>1. CallSound(w)'
    BY <1>1, <1>7 DEF IInv, CallsSound, CallSound
  <2>2. ASSUME NEW v \in Workers \ {w} PROVE CallSound(v)'
    BY <1>1, <1>8 DEF IInv, CallsSound, CallSound
  <2>3. QED
    BY <2>1, <2>2 DEF CallsSound
<1>12. Wire'
  BY <1>3, <1>5, <1>7, <1>8 DEF Wire
<1>13. NoCalls'
  BY <1>1 DEF NoCalls
<1>14. QED
  BY <1>9, <1>10, <1>11, <1>12, <1>13 DEF IInv

\* When the value of a key changes, the calls for that key have seen the new one.
LEMMA ChangeIsSeen ==
    ASSUME IInv, NEW k \in Keys, NEW x \in Int, store' = [store EXCEPT ![k] = x], Saw(k, x)
    PROVE  /\ store' \in [Keys -> Int] /\ seen' \in [Workers -> SUBSET Int]
           /\ \A u \in Workers :
                /\ seen[u] \subseteq seen'[u]
                /\ worker[u].pc # "idle" => store'[worker[u].key] \in seen'[u]
<1>1. Types /\ CallsSound
  BY DEF IInv
<1>2. seen' = [u \in Workers |-> IF worker[u].key = k THEN seen[u] \cup {x} ELSE seen[u]]
  BY DEF Saw
<1>3. store' \in [Keys -> Int] /\ seen' \in [Workers -> SUBSET Int]
  BY <1>1, <1>2 DEF Types
<1>4. ASSUME NEW u \in Workers
      PROVE  /\ seen[u] \subseteq seen'[u]
             /\ worker[u].pc # "idle" => store'[worker[u].key] \in seen'[u]
  <2>1. worker[u].pc # "idle" => worker[u].key \in Keys /\ store[worker[u].key] \in seen[u]
    BY <1>1 DEF CallsSound, CallSound
  <2>2. CASE worker[u].key = k
    BY <1>1, <1>2, <2>2 DEF Types
  <2>3. CASE worker[u].key # k
    BY <1>1, <1>2, <2>1, <2>3 DEF Types
  <2>4. QED
    BY <2>2, <2>3
<1>5. QED
  BY <1>3, <1>4

\* A value that expires has been seen, and so has its absence.
LEMMA ExpiresIInv ==
    ASSUME IInv, use = "l2", NEW k \in Keys, Expires(k)
    PROVE  IInv'
<1>1. /\ store' = [store EXCEPT ![k] = 0] /\ Saw(k, 0)
      /\ UNCHANGED <<use, mu, worker, puts, parse, stream>>
  BY DEF Expires, netVars
<1>2. /\ store' \in [Keys -> Int] /\ seen' \in [Workers -> SUBSET Int]
      /\ \A u \in Workers :
           /\ seen[u] \subseteq seen'[u]
           /\ worker[u].pc # "idle" => store'[worker[u].key] \in seen'[u]
  <2>1. 0 \in Int
    OBVIOUS
  <2>2. QED
    BY <1>1, <2>1, ChangeIsSeen
<1>3. Types'
  BY <1>1, <1>2 DEF IInv, Types
<1>4. Mutex' /\ NoCalls'
  BY <1>1 DEF IInv, Mutex, NoCalls
<1>5. CallsSound'
  <2>1. ASSUME NEW u \in Workers PROVE CallSound(u)'
    <3>1. CallSound(u)
      BY DEF IInv, CallsSound
    <3>2. QED
      BY <1>1, <1>2, <3>1 DEF CallSound
  <2>2. QED
    BY <2>1 DEF CallsSound
<1>6. Wire'
  <2>1. ASSUME NEW u \in Workers, worker'[u].pc = "reply" PROVE OnTheWire(u)'
    <3>1. OnTheWire(u)
      BY <1>1, <2>1 DEF IInv, Wire
    <3>2. QED
      BY <1>1, <1>2, <3>1, WireKept
  <2>2. (\A u \in Workers : worker'[u].pc # "reply") => Quiet'
    BY <1>1 DEF IInv, Wire, Quiet
  <2>3. QED
    BY <2>1, <2>2 DEF Wire
<1>7. QED
  BY <1>3, <1>4, <1>5, <1>6 DEF IInv

\* What Redis sends is the answer to the command, and w has seen the value in it.
LEMMA Replies ==
    ASSUME IInv, NEW w \in Workers, worker[w].pc = "send", Quiet, parse' = parse,
           worker'[w].op = worker[w].op, Redis(worker[w].op, worker[w].key)
    PROVE  /\ OnTheWire(w)'
           /\ store' \in [Keys -> Int] /\ puts' \in Nat /\ seen' \in [Workers -> SUBSET Int]
           /\ \A u \in Workers :
                /\ seen[u] \subseteq seen'[u]
                /\ worker[u].pc # "idle" => store'[worker[u].key] \in seen'[u]
<1> DEFINE k == worker[w].key
<1>1. Types /\ CallsSound
  BY DEF IInv
<1>2. k \in Keys /\ store[k] \in seen[w] /\ store[k] \in Int
  BY <1>1 DEF CallsSound, CallSound, Types
<1>3. parse' = Fresh /\ stream = <<>>
  BY DEF Quiet
<1> DEFINE Line1(kind) == stream' = stream \o <<Line(kind)>> \/ stream' = Append(stream, Line(kind))
<1>4. ASSUME NEW kind \in {"nil", "status", "error"}, Line1(kind) PROVE OnTheWire(w)'
  <2>1. stream' = <<Line(kind)>>
    BY <1>3, <1>4
  <2>2. QED
    BY <1>3, <2>1 DEF OnTheWire, ALine
<1>5. ASSUME UNCHANGED <<store, puts, seen>>
      PROVE  /\ store' \in [Keys -> Int] /\ puts' \in Nat /\ seen' \in [Workers -> SUBSET Int]
             /\ \A u \in Workers :
                  /\ seen[u] \subseteq seen'[u]
                  /\ worker[u].pc # "idle" => store'[worker[u].key] \in seen'[u]
  BY <1>1, <1>5 DEF Types, CallsSound, CallSound
<1>6. ASSUME worker[w].op = "get", UNCHANGED <<store, puts, seen>>,
             stream' = stream \o IF store[k] = 0 THEN <<Line("nil")>> ELSE Bulk(Serialize(store[k]))
      PROVE  OnTheWire(w)'
  <2>1. CASE store[k] = 0
    BY <1>4, <1>6, <2>1
  <2>2. CASE store[k] # 0
    <3> DEFINE b == Serialize(store[k])
    <3>1. b.msg = 0
      BY DEF Serialize, Tok
    <3>2. Bulk(b) = <<BulkHeader, b>>
      BY <3>1 DEF Bulk, BulkHeader
    <3>3. b \in Blobs(w)'
      BY <1>2, <1>6, <2>2 DEF Blobs
    <3> HIDE DEF b
    <3>4. <<>> \o <<BulkHeader, b>> = <<BulkHeader, b>>
      OBVIOUS
    <3>5. stream' = <<BulkHeader, b>>
      BY <1>3, <1>6, <2>2, <3>2, <3>4 DEF b
    <3>6. QED
      BY <1>3, <1>6, <3>3, <3>5 DEF OnTheWire, ABulk
  <2>3. QED
    BY <2>1, <2>2
<1>7. ASSUME puts' = puts + 1, store' = [store EXCEPT ![k] = puts'], Saw(k, puts')
      PROVE  /\ store' \in [Keys -> Int] /\ puts' \in Nat /\ seen' \in [Workers -> SUBSET Int]
             /\ \A u \in Workers :
                  /\ seen[u] \subseteq seen'[u]
                  /\ worker[u].pc # "idle" => store'[worker[u].key] \in seen'[u]
  <2>1. puts' \in Nat
    BY <1>1, <1>7 DEF Types
  <2>2. puts' \in Int
    BY <2>1
  <2> DEFINE x == puts'
  <2> HIDE DEF x
  <2>3. x \in Int /\ store' = [store EXCEPT ![k] = x] /\ Saw(k, x)
    BY <1>7, <2>2 DEF x, Saw
  <2>4. QED
    BY <1>2, <2>1, <2>3, ChangeIsSeen
<1>8. QED
  BY <1>4, <1>5, <1>6, <1>7 DEF Redis

\* A command brings its own answer, or nothing.
LEMMA SendIInv ==
    ASSUME IInv, use = "l2", NEW w \in Workers, Send(w)
    PROVE  IInv'
<1>1. /\ worker[w].pc = "send"
      /\ worker' = [worker EXCEPT ![w].pc = "reply"]
      /\ UNCHANGED <<use, parse, mu>>
  BY DEF Send
<1>2. Types
  BY DEF IInv
<1>3. mu = w /\ \A v \in Workers \ {w} : worker[v].pc \notin {"send", "reply"}
  BY <1>1, OnlyHolder
<1>4. Quiet
  BY <1>1, <1>3 DEF IInv, Wire
<1>5. worker'[w] = [worker[w] EXCEPT !.pc = "reply"] /\ worker[w] \in Calls
  BY <1>1, <1>2 DEF Types
<1>6. /\ worker'[w].pc = "reply" /\ worker'[w].res = worker[w].res /\ worker'[w].key = worker[w].key
      /\ worker'[w].op = worker[w].op /\ worker'[w] \in Calls
  BY <1>5 DEF Calls
<1>7. \A v \in Workers \ {w} : worker'[v] = worker[v]
  BY <1>1, <1>2 DEF Types
<1>8. /\ OnTheWire(w)'
      /\ store' \in [Keys -> Int] /\ puts' \in Nat /\ seen' \in [Workers -> SUBSET Int]
      /\ \A u \in Workers :
           /\ seen[u] \subseteq seen'[u]
           /\ worker[u].pc # "idle" => store'[worker[u].key] \in seen'[u]
  <2>1. CASE Redis(worker[w].op, worker[w].key)
    BY <1>1, <1>4, <1>6, <2>1, Replies
  <2>2. CASE UNCHANGED <<stream, store, puts, seen>>
    <3>1. OnTheWire(w)'
      BY <1>1, <1>4, <2>2 DEF OnTheWire, Quiet
    <3>2. QED
      BY <1>2, <2>2, <3>1 DEF IInv, Types, CallsSound, CallSound
  <2>3. QED
    BY <2>1, <2>2 DEF Send
<1>9. Types'
  <2>1. worker' = [worker EXCEPT ![w] = worker'[w]]
    BY <1>1, <1>2, <1>5 DEF Types
  <2>2. worker' \in [Workers -> Calls]
    BY <1>2, <1>6, <2>1 DEF Types
  <2>3. QED
    BY <1>1, <1>2, <1>8, <2>2 DEF Types
<1>10. Mutex'
  BY <1>1, <1>3, <1>6, <1>7 DEF Mutex
<1>11. CallsSound'
  <2>1. CallSound(w)'
    BY <1>1, <1>6, <1>8 DEF IInv, CallsSound, CallSound
  <2>2. ASSUME NEW v \in Workers \ {w} PROVE CallSound(v)'
    <3>1. CallSound(v)
      BY DEF IInv, CallsSound
    <3>2. QED
      BY <1>7, <1>8, <3>1 DEF CallSound
  <2>3. QED
    BY <2>1, <2>2 DEF CallsSound
<1>12. Wire'
  BY <1>3, <1>6, <1>7, <1>8 DEF Wire
<1>13. NoCalls'
  BY <1>1 DEF NoCalls
<1>14. QED
  BY <1>9, <1>10, <1>11, <1>12, <1>13 DEF IInv

\* Of what may be on the wire, a complete reply takes the last token of it, and a GET
\* gets nothing or a value it has seen; the header of a bulk reply leaves its body.
LEMMA ReadsReply ==
    ASSUME IInv, use = "l2", NEW w \in Workers, worker[w].pc = "reply", stream # <<>>
    PROVE  \/ /\ Outcome = "reply" /\ Tail(stream) = <<>>
              /\ Result(w, Parsed.toks) \in Int
              /\ Result(w, Parsed.toks) = 0 \/ Result(w, Parsed.toks) \in seen[w]
           \/ /\ Outcome = "more" /\ Parsed = AwaitsBody
              /\ worker[w].op = "get"
              /\ Tail(stream) = <<>> \/ \E b \in Blobs(w) : Tail(stream) = <<b>>
<1>1. OnTheWire(w) /\ ~Quiet
  BY DEF IInv, Wire, Quiet
<1>2. CASE ALine
  <2>1. PICK kind \in {"nil", "status", "error"} : stream = <<Line(kind)>>
    BY <1>2 DEF ALine
  <2>2. Outcome = "reply" /\ Parsed.toks = <<Line(kind)>>
    BY <1>2, <2>1, ParseLine DEF ALine
  <2>3. Tail(stream) = <<>>
    BY <2>1
  <2>4. Parsed.toks[1] = Line(kind) /\ Line(kind).kind = kind
    BY <2>2, Elements DEF Line, Tok
  <2>5. Result(w, Parsed.toks) = 0
    BY <2>4 DEF Result
  <2>6. QED
    BY <2>2, <2>3, <2>5
<1>3. CASE ABulk(w)
  <2>1. Head(stream) = BulkHeader
    BY <1>3 DEF ABulk
  <2>2. Outcome = "more" /\ Parsed = AwaitsBody
    BY <1>3, <2>1, ParseHeader DEF ABulk
  <2>3. Tail(stream) = <<>> \/ \E b \in Blobs(w) : Tail(stream) = <<b>>
    <3>1. CASE stream = <<BulkHeader>>
      BY <3>1
    <3>2. ASSUME NEW b \in Blobs(w), stream = <<BulkHeader, b>> PROVE Tail(stream) = <<b>>
      BY <3>2, Elements
    <3>3. QED
      BY <1>3, <3>1, <3>2 DEF ABulk
  <2>4. QED
    BY <1>3, <2>2, <2>3 DEF ABulk
<1>4. CASE ABody(w)
  <2>1. PICK b \in Blobs(w) : stream = <<b>>
    BY <1>4 DEF ABody
  <2>2. Head(stream) = b /\ Tail(stream) = <<>>
    BY <2>1
  <2>3. Outcome = "reply" /\ Parsed.toks = <<BulkHeader, b>>
    BY <1>4, <2>2, ParseBody DEF ABody
  <2>4. Parsed.toks[1].kind = "bulk" /\ Parsed.toks[2] = b
    <3>1. Parsed.toks[1] = BulkHeader /\ Parsed.toks[2] = b
      BY <2>3, Elements
    <3>2. BulkHeader.kind = "bulk"
      BY DEF BulkHeader, Tok
    <3>3. QED
      BY <3>1, <3>2
  <2>5. Result(w, Parsed.toks) = Deserialize(b)
    BY <1>4, <2>4 DEF Result, ABody
  <2>6. PICK v \in seen[w] : b = Serialize(v)
    BY DEF Blobs
  <2>7. v \in Int
    BY DEF IInv, Types
  <2>8. Deserialize(b) = IF v > 0 THEN v ELSE 0
    BY <2>6, <2>7, RoundTrip
  <2>9. Deserialize(b) \in Int /\ (Deserialize(b) = 0 \/ Deserialize(b) \in seen[w])
    BY <2>7, <2>8
  <2>10. QED
    BY <2>2, <2>3, <2>5, <2>9
<1>5. QED
  BY <1>1, <1>2, <1>3, <1>4 DEF OnTheWire

\* Reading a token of the answer ends the call or leaves the rest of the answer.
LEMMA ReadIInv ==
    ASSUME IInv, use = "l2", NEW w \in Workers, Read(w)
    PROVE  IInv'
<1>1. worker[w].pc = "reply" /\ stream # <<>>
  BY DEF Read
<1>2. mu = w /\ \A v \in Workers \ {w} : worker[v].pc \notin {"send", "reply"}
  BY <1>1, OnlyHolder
<1>3. CASE Failed(w)
  BY <1>1, <1>3, FailedIInv
<1>4. CASE /\ Outcome = "reply" /\ Answer(w, Result(w, Parsed.toks))
           /\ parse' = Fresh /\ stream' = Tail(stream)
  <2>1. /\ Tail(stream) = <<>>
        /\ Result(w, Parsed.toks) \in Int
        /\ Result(w, Parsed.toks) = 0 \/ Result(w, Parsed.toks) \in seen[w]
    BY <1>1, <1>4, ReadsReply
  <2>2. Quiet'
    BY <1>4, <2>1 DEF Quiet
  <2>3. QED
    BY <1>2, <1>4, <2>1, <2>2, CallEnds
<1>5. CASE /\ Outcome = "more" /\ parse' = Parsed /\ stream' = Tail(stream)
           /\ UNCHANGED <<use, l2Vars>>
  <2>1. /\ Parsed = AwaitsBody /\ worker[w].op = "get"
        /\ Tail(stream) = <<>> \/ \E b \in Blobs(w) : Tail(stream) = <<b>>
    BY <1>1, <1>5, ReadsReply
  <2>2. Blobs(w)' = Blobs(w) /\ worker' = worker
    BY <1>5 DEF Blobs, l2Vars
  <2>3. OnTheWire(w)'
    BY <1>5, <2>1, <2>2 DEF OnTheWire, ABody
  <2>4. Wire'
    BY <1>1, <1>2, <2>2, <2>3 DEF Wire
  <2>5. QED
    BY <1>5, <2>4, CallsKept DEF IInv
<1>6. QED
  BY <1>3, <1>4, <1>5 DEF Read

\* Every step keeps the invariant.
LEMMA NextIInv == IInv /\ [Next]_vars => IInv'
<1>1. SUFFICES ASSUME IInv, [Next]_vars PROVE IInv'
  OBVIOUS
<1>2. use \in {"l2", "subscriber"}
  BY <1>1 DEF IInv, Types
<1>3. CASE NetworkFails
  <2>1. use' = use /\ parse' = parse /\ UNCHANGED l2Vars
    BY <1>3 DEF NetworkFails
  <2>2. PICK n \in 0..Len(stream) : stream' = SubSeq(stream, 1, n)
    BY <1>3 DEF NetworkFails
  <2>3. Wire'
    <3>1. SUFFICES ASSUME use = "l2" PROVE Wire'
      BY <2>1 DEF Wire
    <3>2. worker' = worker
      BY <2>1 DEF l2Vars
    <3>3. Quiet => Quiet'
      <4>1. SUFFICES ASSUME stream = <<>> PROVE stream' = <<>>
        BY <2>1 DEF Quiet
      <4>2. Len(stream) = 0
        BY <4>1
      <4>3. QED
        BY <2>2, <4>2, SubSeqEmpty
    <3>4. ASSUME NEW w \in Workers, worker[w].pc = "reply" PROVE OnTheWire(w)'
      <4>1. OnTheWire(w)
        BY <1>1, <3>1, <3>4 DEF IInv, Wire
      <4>2. QED
        BY <2>1, <2>2, <4>1, WireCut
    <3>5. QED
      BY <1>1, <3>1, <3>2, <3>3, <3>4 DEF IInv, Wire
  <2>4. QED
    BY <1>1, <2>1, <2>3, CallsKept DEF IInv
\* The L2 cache.
<1>4. CASE use = "l2"
  <2>1. ASSUME NEW w \in Workers, NEW k \in Keys, NEW op \in {"get", "put"}, Call(w, op, k)
        PROVE  IInv'
    BY <1>1, <1>4, <2>1, CallIInv
  <2>2. ASSUME NEW w \in Workers, Lock(w) PROVE IInv'
    BY <1>1, <1>4, <2>2, LockIInv
  <2>3. ASSUME NEW w \in Workers, LockFails(w) PROVE IInv'
    <3>1. mu = None /\ Answer(w, 0) /\ UNCHANGED <<parse, stream>>
      BY <2>3 DEF LockFails, netVars
    <3>2. Quiet
      <4>1. \A v \in Workers : worker[v].pc # "reply"
        BY <1>1, <3>1, RedisAssumption DEF IInv, Mutex
      <4>2. QED
        BY <1>1, <1>4, <4>1 DEF IInv, Wire
    <3>3. Quiet' /\ 0 \in Int
      BY <3>1, <3>2 DEF Quiet
    <3>4. QED
      BY <1>1, <1>4, <3>1, <3>3, CallEnds
  <2>4. ASSUME NEW w \in Workers, Send(w) PROVE IInv'
    BY <1>1, <1>4, <2>4, SendIInv
  <2>5. ASSUME NEW w \in Workers, Read(w) PROVE IInv'
    BY <1>1, <1>4, <2>5, ReadIInv
  <2>6. ASSUME NEW w \in Workers, SendFails(w) \/ Interrupted(w) \/ L2Eof(w) PROVE IInv'
    BY <1>1, <1>4, <2>6, FailedIInv DEF SendFails, Interrupted, L2Eof
  <2>7. ASSUME NEW k \in Keys, Expires(k) PROVE IInv'
    BY <1>1, <1>4, <2>7, ExpiresIInv
  <2>8. CASE UNCHANGED vars
    <3>1. use' = use /\ UNCHANGED <<parse, stream>> /\ UNCHANGED l2Vars
      BY <2>8 DEF vars, netVars
    <3>2. Wire'
      BY <1>1, <3>1 DEF IInv, Wire, OnTheWire, Quiet, ALine, ABulk, ABody, Blobs, l2Vars
    <3>3. QED
      BY <1>1, <3>1, <3>2, CallsKept DEF IInv
  <2>9. QED
    BY <1>1, <1>3, <1>4, <2>1, <2>2, <2>3, <2>4, <2>5, <2>6, <2>7, <2>8 DEF Next, L2Step
\* The subscriber has a connection of its own and leaves the calls alone.
<1>5. CASE use = "subscriber"
  <2>1. CASE NetworkFails
    BY <1>3, <2>1
  <2>2. ASSUME use' = use, UNCHANGED l2Vars PROVE IInv'
    <3>1. Wire'
      BY <1>5, <2>2 DEF Wire
    <3>2. QED
      BY <1>1, <2>2, <3>1, CallsKept DEF IInv
  <2>3. Subscribe => use' = use /\ UNCHANGED l2Vars
    BY DEF Subscribe
  <2>4. SubscribeFails \/ UNCHANGED vars => use' = use /\ UNCHANGED l2Vars
    BY DEF SubscribeFails, vars
  <2>5. ReadToken \/ ReadAcross \/ Timeout \/ SubscriberEof => use' = use /\ UNCHANGED l2Vars
    BY DEF ReadToken, ReadAcross, Timeout, SubscriberEof
  <2>6. ASSUME NEW m \in Payloads PROVE Publish(m) => use' = use /\ UNCHANGED l2Vars
    BY DEF Publish
  <2>7. QED
    BY <1>1, <1>5, <2>1, <2>2, <2>3, <2>4, <2>5, <2>6 DEF Next
<1>6. QED
  BY <1>2, <1>4, <1>5

\* So it is an invariant.
LEMMA SpecIInv == Spec => []IInv
  BY InitIInv, NextIInv, PTL DEF Spec

\* RedisL2Cache::get returns nothing or a value that its key held during the call, for
\* any number of workers that share the connection, and whatever the network and Redis
\* do: errors, lost replies, reconnections, values of another format.
THEOREM GetsAreCurrent == Spec => []GetIsCurrent
<1>1. IInv => GetIsCurrent
  BY DEF IInv, CallsSound, CallSound, GetIsCurrent
<1>2. QED
  BY <1>1, SpecIInv, PTL

-----------------------------------------------------------------------------
(* The subscriber's connection.  The stream of tokens is a run of units:   *)
(* the answer to the SUBSCRIBE, then the messages.  The invariant labels   *)
(* every token with its unit and its place there and says where the parser *)
(* is: between two units, within one that it reads from its beginning, or  *)
(* in the rest of one whose beginning a timeout has cut off.               *)

\* What the subscriber's connection carries, unit by unit: the error that refuses the
\* SUBSCRIBE (-2), the two confirmations (-1 and 0), the messages by their numbers.
Size(u) == IF u = -2 THEN 1 ELSE IF u \in {-1, 0} THEN 6 ELSE 7

Token(u, p) ==
    IF u = -2 THEN Line("error")
    ELSE IF u \in {-1, 0} THEN Confirmation(Channels[u + 2])[p]
    ELSE MessageTokens(u, published[u])[p]

Words == {None, "message", "subscribe", "purge", "rules"}
TokenKinds == {"array", "bulk", "word", "payload", "integer", "error"}
LineSeqs == Seq(Lines) \ {<<>>}
Tokens == [kind : TokenKinds, n : Int, val : Words \cup LineSeqs, msg : Int]
Labels == [u : Int, p : Int]

\* y is the label of the token after x's: in its unit or at the beginning of a later one.
Follows(x, y) ==
    \/ y.u = x.u /\ y.p = x.p + 1
    \/ /\ x.p = Size(x.u) /\ x.u # -2
       /\ y.p = 1 /\ y.u > x.u /\ (x.u = -1 => y.u = 0)

Before(x, y) == x.u < y.u \/ (x.u = y.u /\ x.p < y.p)

\* lab says which token of which unit each token of the stream is.
Labelled(lab) ==
    /\ stream \in Seq(Tokens)
    /\ lab \in Seq(Labels) /\ Len(lab) = Len(stream)
    /\ \A k \in 1..Len(lab) :
         /\ lab[k].u \in -2..Len(published)
         /\ lab[k].p \in 1..Size(lab[k].u)
         /\ stream[k] = Token(lab[k].u, lab[k].p)
    /\ \A k, l \in 1..Len(lab) : k < l => Before(lab[k], lab[l])
    /\ \A k \in 1..Len(lab) : k + 1 <= Len(lab) => Follows(lab[k], lab[k + 1])

\* A message whose last token is there is not lost, one whose first is there has not
\* been cut, and none that is there has been acted upon.
Accounted(lab) ==
    \A k \in 1..Len(lab) : lab[k].u > 0 =>
        /\ lab[k].p = 7 => lab[k].u \notin lost
        /\ lab[k].p = 1 => lab[k].u \notin cut
        /\ \A i \in DOMAIN handled : handled[i].msg < lab[k].u

\* The last message of the stream is whole or lost.
EndsWhole(lab) ==
    Len(lab) > 0 =>
        LET z == lab[Len(lab)]
        IN  /\ z.u > 0 /\ z.p < Size(z.u) => z.u \in lost
            /\ server => z.u >= 0 /\ z.p = Size(z.u)

\* parseReply has read the first p tokens of u.
Needs(p) == IF p <= 2 THEN 3 ELSE IF p <= 4 THEN 2 ELSE 1
FirstToks(toks, u, p) ==
    /\ toks \in Seq(Tokens) /\ Len(toks) = p
    /\ \A q \in 1..p : toks[q] = Token(u, q)
Parsing(q, u, p) ==
    /\ q.need = Needs(p)
    /\ q.body <=> p \in {2, 4, 6}
    /\ FirstToks(q.toks, u, p)

\* Between two units.
Between(lab) ==
    /\ parse = Fresh
    /\ Len(lab) > 0 => lab[1].p = 1
    /\ sub = "confirm" =>
         /\ Len(lab) = 0 => ~server
         /\ Len(lab) > 0 => lab[1].u = confirmed - 1 \/ lab[1].u = -2

\* Within a unit, from its beginning on.
Within(lab, u, p) ==
    /\ u \in -1..Len(published) /\ p \in 1..(Size(u) - 1)
    /\ Parsing(parse, u, p)
    /\ Len(lab) = 0 => ~server /\ (u > 0 => u \in lost)
    /\ Len(lab) > 0 => lab[1].u = u /\ lab[1].p = p + 1
    /\ u > 0 => u \notin cut
    /\ sub = "confirm" => u = confirmed - 1

\* Within a unit whose beginning a timeout has cut off.
Skipping(lab) ==
    /\ parse = Fresh /\ sub = "loop"
    /\ Len(lab) > 0 /\ lab[1].p > 1
    /\ lab[1].u > 0 => lab[1].u \in cut

\* The same, after the header of a bulk string.
SkippingBody(lab, u) ==
    /\ parse.need = 1 /\ parse.body /\ sub = "loop"
    /\ u \in -1..Len(published)
    /\ parse.toks \in Seq(Tokens) /\ Len(parse.toks) = 1
    /\ parse.toks[1].kind = "bulk" /\ parse.toks[1].msg = (IF u > 0 THEN u ELSE 0)
    /\ u > 0 => u \in cut
    /\ Len(lab) = 0 => ~server
    /\ Len(lab) > 0 => lab[1].u = u /\ lab[1].p > 1

Cursor(lab) ==
    \/ Between(lab)
    \/ \E u, p \in Int : Within(lab, u, p)
    \/ Skipping(lab)
    \/ \E u \in Int : SkippingBody(lab, u)

SubTypes ==
    /\ published \in Seq(Payloads)
    /\ handled \in Seq([channel : {"purge", "rules"}, msg : Nat])
    /\ sub \in {"down", "confirm", "loop"}
    /\ sub = "confirm" => confirmed \in {0, 1}
    /\ server => conn = "up"
    /\ conn = "closed" => stream = <<>> /\ parse = Fresh
    /\ cut \subseteq 1..Len(published) /\ lost \subseteq 1..Len(published)

Subscribed == \E lab : Labelled(lab) /\ Accounted(lab) /\ EndsWhole(lab) /\ Cursor(lab)

\* Out of step: nothing that has been sent and is not yet read counts as missed for no
\* reason.
Straying ==
    /\ sub = "loop" /\ conn # "closed"
    /\ \E S : stream \in Seq(S)
    /\ \E S : parse.toks \in Seq(S)
    /\ Pending \subseteq cut \cup lost

Located ==
    /\ astray \in BOOLEAN
    /\ astray => Straying
    /\ ~astray => Subscribed

SInv ==
    /\ use \in {"l2", "subscriber"}
    /\ use = "l2" => published = <<>> /\ handled = <<>>
    /\ use = "subscriber" => SubTypes /\ Located
    /\ HandledExactly

-----------------------------------------------------------------------------
\* The values of tokens.
LEMMA InWords ==
    None \in Words /\ "message" \in Words /\ "subscribe" \in Words /\ "purge" \in Words /\ "rules" \in Words
  BY DEF Words

\* Their kinds.
LEMMA InKinds ==
    /\ "array" \in TokenKinds /\ "bulk" \in TokenKinds /\ "word" \in TokenKinds
    /\ "payload" \in TokenKinds /\ "integer" \in TokenKinds /\ "error" \in TokenKinds
  BY DEF TokenKinds

\* A token and its fields.
LEMMA AToken ==
    ASSUME NEW kind \in TokenKinds, NEW n \in Int, NEW val \in Words, NEW msg \in Int
    PROVE  /\ Tok(kind, n, val, msg) \in Tokens
           /\ Tok(kind, n, val, msg).kind = kind /\ Tok(kind, n, val, msg).n = n
           /\ Tok(kind, n, val, msg).val = val /\ Tok(kind, n, val, msg).msg = msg
  BY DEF Tok, Tokens

\* Sequences of one and two.
LEMMA OneTwo ==
    ASSUME NEW S, NEW x \in S, NEW y \in S
    PROVE  /\ <<x>> \in Seq(S) /\ Len(<<x>>) = 1 /\ <<x>>[1] = x
           /\ <<x, y>> \in Seq(S) /\ Len(<<x, y>>) = 2 /\ <<x, y>>[1] = x /\ <<x, y>>[2] = y
  OBVIOUS

\* One or two tokens behind others.
LEMMA JoinedTwo ==
    ASSUME NEW S, NEW a \in Seq(S), NEW b \in Seq(S), Len(b) \in {1, 2}
    PROVE  /\ a \o b \in Seq(S) /\ Len(a \o b) = Len(a) + Len(b)
           /\ \A i \in 1..Len(a) : (a \o b)[i] = a[i]
           /\ (a \o b)[Len(a) + 1] = b[1]
           /\ Len(b) = 2 => (a \o b)[Len(a) + 2] = b[2]
<1>1. /\ a \o b \in Seq(S) /\ Len(a \o b) = Len(a) + Len(b)
      /\ \A i \in 1..Len(a) + Len(b) :
           (a \o b)[i] = IF i <= Len(a) THEN a[i] ELSE b[i - Len(a)]
  BY ConcatProperties
<1> DEFINE s == a \o b
           n == Len(a)
           m == Len(b)
<1>2. n \in Nat /\ m \in {1, 2}
  OBVIOUS
<1> HIDE DEF s, n, m
<1>3. /\ s \in Seq(S) /\ Len(s) = n + m
      /\ \A i \in 1..(n + m) : s[i] = IF i <= n THEN a[i] ELSE b[i - n]
  BY <1>1 DEF s, n, m
<1>4. \A i \in 1..n : s[i] = a[i]
  BY <1>2, <1>3
<1>5. s[n + 1] = b[1] /\ (m = 2 => s[n + 2] = b[2])
  BY <1>2, <1>3
<1>6. QED
  BY <1>3, <1>4, <1>5 DEF s, n, m

\* The tokens of a unit: a header and three elements.
LEMMA Joined ==
    ASSUME NEW S, NEW a \in Seq(S), NEW b \in Seq(S), NEW c \in Seq(S), NEW d \in Seq(S)
    PROVE  Len(a) = 1 /\ Len(b) = 2 /\ Len(c) = 2 /\ Len(d) \in {1, 2} =>
             LET s == a \o b \o c \o d
             IN  /\ s \in Seq(S) /\ Len(s) = 5 + Len(d)
                 /\ s[1] = a[1] /\ s[2] = b[1] /\ s[3] = b[2] /\ s[4] = c[1] /\ s[5] = c[2]
                 /\ s[6] = d[1] /\ (Len(d) = 2 => s[7] = d[2])
<1> DEFINE x == a \o b
           y == x \o c
           s == y \o d
<1>1. SUFFICES ASSUME Len(a) = 1, Len(b) = 2, Len(c) = 2, Len(d) \in {1, 2}
               PROVE  /\ s \in Seq(S) /\ Len(s) = 5 + Len(d)
                      /\ s[1] = a[1] /\ s[2] = b[1] /\ s[3] = b[2] /\ s[4] = c[1] /\ s[5] = c[2]
                      /\ s[6] = d[1] /\ (Len(d) = 2 => s[7] = d[2])
  OBVIOUS
<1>2. Len(b) \in {1, 2} /\ Len(c) \in {1, 2}
  BY <1>1
<1>3. /\ x \in Seq(S) /\ Len(x) = Len(a) + Len(b) /\ \A i \in 1..Len(a) : x[i] = a[i]
      /\ x[Len(a) + 1] = b[1] /\ (Len(b) = 2 => x[Len(a) + 2] = b[2])
  BY <1>2, JoinedTwo
<1> HIDE DEF x
<1>4. Len(x) = 3 /\ x[1] = a[1] /\ x[2] = b[1] /\ x[3] = b[2]
  BY <1>1, <1>3
<1>5. x \in Seq(S)
  BY <1>3
<1>6. /\ y \in Seq(S) /\ Len(y) = Len(x) + Len(c) /\ \A i \in 1..Len(x) : y[i] = x[i]
      /\ y[Len(x) + 1] = c[1] /\ (Len(c) = 2 => y[Len(x) + 2] = c[2])
  BY <1>2, <1>5, JoinedTwo
<1> HIDE DEF y
<1>7. Len(y) = 5 /\ y[1] = a[1] /\ y[2] = b[1] /\ y[3] = b[2] /\ y[4] = c[1] /\ y[5] = c[2]
  BY <1>1, <1>4, <1>6
<1>8. y \in Seq(S) /\ Len(d) \in {1, 2}
  BY <1>1, <1>6
<1>9. /\ s \in Seq(S) /\ Len(s) = Len(y) + Len(d) /\ \A i \in 1..Len(y) : s[i] = y[i]
      /\ s[Len(y) + 1] = d[1] /\ (Len(d) = 2 => s[Len(y) + 2] = d[2])
  BY <1>8, JoinedTwo
<1> HIDE DEF s
<1>10. QED
  BY <1>1, <1>7, <1>9

\* The tokens of a message.
LEMMA MessageToks ==
    ASSUME NEW i \in Int, NEW m \in Payloads
    PROVE  LET s == MessageTokens(i, m)
           IN  /\ s \in Seq(Tokens) /\ Len(s) = 7
               /\ s[1] = Tok("array", 3, None, i)
               /\ s[2] = Tok("bulk", 0, None, i) /\ s[3] = Tok("word", 0, "message", i)
               /\ s[4] = Tok("bulk", 0, None, i) /\ s[5] = Tok("word", 0, m.channel, i)
               /\ s[6] = Tok("bulk", 0, None, i) /\ s[7] = Tok("payload", 0, m.lines, i)
<1> DEFINE h == Tok("array", 3, None, i)
           k == Tok("bulk", 0, None, i)
           w == Tok("word", 0, "message", i)
           v == Tok("word", 0, m.channel, i)
           z == Tok("payload", 0, m.lines, i)
<1>1. m.channel \in {"purge", "rules"} /\ m.lines \in LineSeqs
  BY RedisAssumption DEF LineSeqs
<1>2. h \in Tokens /\ k \in Tokens /\ w \in Tokens /\ v \in Tokens /\ z \in Tokens
  BY <1>1 DEF Tok, Tokens, Words, TokenKinds
<1>3. w.msg = i /\ v.msg = i /\ z.msg = i
  BY DEF Tok
<1>4. MessageTokens(i, m) = <<h>> \o <<k, w>> \o <<k, v>> \o <<k, z>>
  BY <1>3 DEF MessageTokens, Bulk
<1> HIDE DEF h, k, w, v, z
<1>5. /\ <<h>> \in Seq(Tokens) /\ Len(<<h>>) = 1 /\ <<h>>[1] = h
      /\ <<k, w>> \in Seq(Tokens) /\ Len(<<k, w>>) = 2 /\ <<k, w>>[1] = k /\ <<k, w>>[2] = w
      /\ <<k, v>> \in Seq(Tokens) /\ Len(<<k, v>>) = 2 /\ <<k, v>>[1] = k /\ <<k, v>>[2] = v
      /\ <<k, z>> \in Seq(Tokens) /\ Len(<<k, z>>) = 2 /\ <<k, z>>[1] = k /\ <<k, z>>[2] = z
  BY <1>2, OneTwo
<1> DEFINE s == <<h>> \o <<k, w>> \o <<k, v>> \o <<k, z>>
<1>6. /\ s \in Seq(Tokens) /\ Len(s) = 5 + Len(<<k, z>>)
      /\ s[1] = <<h>>[1] /\ s[2] = <<k, w>>[1] /\ s[3] = <<k, w>>[2]
      /\ s[4] = <<k, v>>[1] /\ s[5] = <<k, v>>[2] /\ s[6] = <<k, z>>[1] /\ s[7] = <<k, z>>[2]
  BY <1>5, Joined
<1> HIDE DEF s
<1>7. Len(s) = 7
  BY <1>5, <1>6
<1>8. /\ s \in Seq(Tokens)
      /\ s[1] = h /\ s[2] = k /\ s[3] = w /\ s[4] = k /\ s[5] = v /\ s[6] = k /\ s[7] = z
  BY <1>5, <1>6
<1>9. QED
  BY <1>4, <1>7, <1>8, Zenon DEF h, k, w, v, z, s

\* The tokens of a confirmation.
LEMMA ConfirmationToks ==
    ASSUME NEW channel \in Words
    PROVE  LET s == Confirmation(channel)
           IN  /\ s \in Seq(Tokens) /\ Len(s) = 6
               /\ s[1] = Tok("array", 3, None, 0)
               /\ s[2] = Tok("bulk", 0, None, 0) /\ s[3] = Tok("word", 0, "subscribe", 0)
               /\ s[4] = Tok("bulk", 0, None, 0) /\ s[5] = Tok("word", 0, channel, 0)
               /\ s[6] = Line("integer")
<1> DEFINE h == Tok("array", 3, None, 0)
           k == Tok("bulk", 0, None, 0)
           w == Tok("word", 0, "subscribe", 0)
           v == Tok("word", 0, channel, 0)
           z == Line("integer")
<1>2. h \in Tokens /\ k \in Tokens /\ w \in Tokens /\ v \in Tokens /\ z \in Tokens
  BY AToken, InWords, InKinds DEF Line
<1>3. w.msg = 0 /\ v.msg = 0
  BY DEF Tok
<1>4. Confirmation(channel) = <<h>> \o <<k, w>> \o <<k, v>> \o <<z>>
  BY <1>3 DEF Confirmation, Bulk
<1> HIDE DEF h, k, w, v, z
<1>5. /\ <<h>> \in Seq(Tokens) /\ Len(<<h>>) = 1 /\ <<h>>[1] = h
      /\ <<k, w>> \in Seq(Tokens) /\ Len(<<k, w>>) = 2 /\ <<k, w>>[1] = k /\ <<k, w>>[2] = w
      /\ <<k, v>> \in Seq(Tokens) /\ Len(<<k, v>>) = 2 /\ <<k, v>>[1] = k /\ <<k, v>>[2] = v
      /\ <<z>> \in Seq(Tokens) /\ Len(<<z>>) = 1 /\ <<z>>[1] = z
  BY <1>2, OneTwo
<1> DEFINE s == <<h>> \o <<k, w>> \o <<k, v>> \o <<z>>
<1>6. /\ s \in Seq(Tokens) /\ Len(s) = 5 + Len(<<z>>)
      /\ s[1] = <<h>>[1] /\ s[2] = <<k, w>>[1] /\ s[3] = <<k, w>>[2]
      /\ s[4] = <<k, v>>[1] /\ s[5] = <<k, v>>[2] /\ s[6] = <<z>>[1]
  BY <1>5, Joined
<1> HIDE DEF s
<1>7. Len(s) = 6
  BY <1>5, <1>6
<1>8. /\ s \in Seq(Tokens)
      /\ s[1] = h /\ s[2] = k /\ s[3] = w /\ s[4] = k /\ s[5] = v /\ s[6] = z
  BY <1>5, <1>6
<1>9. QED
  BY <1>4, <1>7, <1>8, Zenon DEF h, k, w, v, z, s

\* What the parser sees of a token.
LEMMA TokenFields ==
    ASSUME published \in Seq(Payloads), NEW u \in -2..Len(published), NEW p \in 1..Size(u)
    PROVE  /\ Token(u, p) \in Tokens
           /\ Token(u, p).msg = (IF u > 0 THEN u ELSE 0)
           /\ u = -2 => Token(u, p).kind = "error"
           /\ u # -2 /\ p = 1 => Token(u, p).kind = "array" /\ Token(u, p).n = 3
           /\ (u # -2 /\ p \in {2, 4}) \/ (u > 0 /\ p = 6) => Token(u, p).kind = "bulk"
           /\ u # -2 /\ p \in {3, 5} => Token(u, p).kind = "word"
           /\ u > 0 /\ p = 3 => Token(u, p).val = "message"
           /\ u > 0 /\ p = 5 => Token(u, p).val = published[u].channel
           /\ u > 0 /\ p = 7 => Token(u, p).kind = "payload"
           /\ u \in {-1, 0} /\ p = 6 => Token(u, p).kind = "integer"
           /\ u \in {-1, 0} /\ p = 3 => Token(u, p).val = "subscribe"
<1>0. Len(published) \in Nat
  OBVIOUS
<1>1. CASE u = -2
  <2>1. Token(u, p) = Line("error") /\ ~(u > 0) /\ u \notin {-1, 0}
    BY <1>1 DEF Token
  <2>2. Line("error") \in Tokens /\ Line("error").msg = 0 /\ Line("error").kind = "error"
    BY DEF Line, Tok, Tokens, Words, TokenKinds
  <2>3. QED
    BY <1>1, <2>1, <2>2
<1>2. CASE u \in {-1, 0}
  <2> DEFINE ch == Channels[u + 2]
             s == Confirmation(ch)
  <2>1. ch \in Words
    <3>1. ch \in {"purge", "rules"}
      BY <1>2 DEF Channels
    <3>2. QED
      BY <3>1, InWords
  <2>2. Token(u, p) = s[p] /\ p \in 1..6 /\ ~(u > 0) /\ u # -2
    BY <1>2 DEF Token, Size
  <2> HIDE DEF ch
  <2>3. /\ s \in Seq(Tokens) /\ Len(s) = 6
        /\ s[1] = Tok("array", 3, None, 0)
        /\ s[2] = Tok("bulk", 0, None, 0) /\ s[3] = Tok("word", 0, "subscribe", 0)
        /\ s[4] = Tok("bulk", 0, None, 0) /\ s[5] = Tok("word", 0, ch, 0)
        /\ s[6] = Line("integer")
    BY <2>1, ConfirmationToks
  <2> HIDE DEF s
  <2>4. s[p] \in Tokens
    BY <2>2, <2>3, ElementOfSeq
  <2>5. /\ s[1].kind = "array" /\ s[1].n = 3 /\ s[2].kind = "bulk" /\ s[4].kind = "bulk"
        /\ s[3].kind = "word" /\ s[3].val = "subscribe" /\ s[5].kind = "word" /\ s[6].kind = "integer"
        /\ \A q \in 1..6 : s[q].msg = 0
    <3>1. /\ s[1].kind = "array" /\ s[1].n = 3 /\ s[1].msg = 0
          /\ s[2].kind = "bulk" /\ s[2].msg = 0
          /\ s[3].kind = "word" /\ s[3].val = "subscribe" /\ s[3].msg = 0
          /\ s[4].kind = "bulk" /\ s[4].msg = 0 /\ s[5].kind = "word" /\ s[5].msg = 0
          /\ s[6].kind = "integer" /\ s[6].msg = 0
      BY <2>3 DEF Line, Tok
    <3>2. QED
      BY <3>1
  <2>6. QED
    BY <1>2, <2>2, <2>4, <2>5
<1>3. CASE u > 0
  <2> DEFINE m == published[u]
             s == MessageTokens(u, m)
  <2>1. u \in Int /\ u # -2 /\ u \notin {-1, 0} /\ u \in 1..Len(published)
    BY <1>0, <1>3
  <2>2. m \in Payloads
    BY <2>1, ElementOfSeq
  <2>4. Token(u, p) = s[p] /\ p \in 1..7
    BY <2>1 DEF Token, Size
  <2>5. /\ s \in Seq(Tokens) /\ Len(s) = 7
        /\ s[1] = Tok("array", 3, None, u)
        /\ s[2] = Tok("bulk", 0, None, u) /\ s[3] = Tok("word", 0, "message", u)
        /\ s[4] = Tok("bulk", 0, None, u) /\ s[5] = Tok("word", 0, m.channel, u)
        /\ s[6] = Tok("bulk", 0, None, u) /\ s[7] = Tok("payload", 0, m.lines, u)
    BY <2>1, <2>2, MessageToks
  <2> HIDE DEF s
  <2>6. s[p] \in Tokens
    BY <2>4, <2>5, ElementOfSeq
  <2>7. /\ s[1].kind = "array" /\ s[1].n = 3 /\ s[1].msg = u
        /\ s[2].kind = "bulk" /\ s[2].msg = u
        /\ s[3].kind = "word" /\ s[3].val = "message" /\ s[3].msg = u
        /\ s[4].kind = "bulk" /\ s[4].msg = u
        /\ s[5].kind = "word" /\ s[5].val = m.channel /\ s[5].msg = u
        /\ s[6].kind = "bulk" /\ s[6].msg = u
        /\ s[7].kind = "payload" /\ s[7].msg = u
    BY <2>5 DEF Tok
  <2>8. \A q \in 1..7 : s[q].msg = u
    BY <2>7
  <2>9. QED
    BY <1>3, <2>1, <2>4, <2>6, <2>7, <2>8
<1>4. QED
  BY <1>0, <1>1, <1>2, <1>3

-----------------------------------------------------------------------------
(* One token of parseReply.                                                *)

\* The parse after a token.
LEMMA TookFields ==
    ASSUME NEW q, NEW t, NEW need
    PROVE  /\ Took(q, t, need).need = need
           /\ Took(q, t, need).body <=> t.kind \in {"bulk", "length"}
           /\ Took(q, t, need).toks = Append(q.toks, t)
  BY DEF Took

\* The body of a bulk string, whatever it looks like.
LEMMA TakesBody ==
    ASSUME NEW t, Head(stream) = t, parse.body
    PROVE  /\ Parsed = Took(parse, t, parse.need - 1)
           /\ Outcome = IF parse.need - 1 = 0 THEN "reply" ELSE "more"
<1> DEFINE need == parse.need - 1
<1>1. Parsed = Took(parse, t, need)
  BY DEF Parsed, Consume
<1>2. ~BadLine(parse, Head(stream))
  BY DEF BadLine
<1> HIDE DEF need
<1>3. Outcome = IF need = 0 THEN "reply" ELSE "more"
  BY <1>1, <1>2, TookFields DEF Outcome
<1>4. QED
  BY <1>1, <1>3 DEF need

\* A line that the switch of parseReply knows.
LEMMA TakesLine ==
    ASSUME NEW t, Head(stream) = t, ~parse.body, t.kind \in {"array", "bulk", "integer", "error"}
    PROVE  LET need == IF t.kind = "array" THEN parse.need - 1 + t.n
                       ELSE IF t.kind = "bulk" THEN parse.need ELSE parse.need - 1
           IN  /\ Parsed = Took(parse, t, need)
               /\ Outcome = IF need = 0 THEN "reply" ELSE "more"
<1> DEFINE need == IF t.kind = "array" THEN parse.need - 1 + t.n
                   ELSE IF t.kind = "bulk" THEN parse.need ELSE parse.need - 1
<1>1. AsLine(t) = t
  BY DEF AsLine
<1>2. Parsed = Took(parse, t, need)
  BY <1>1 DEF Parsed, Consume
<1>3. ~BadLine(parse, Head(stream))
  BY <1>1 DEF BadLine
<1> HIDE DEF need
<1>4. Outcome = IF need = 0 THEN "reply" ELSE "more"
  BY <1>2, <1>3, TookFields DEF Outcome
<1>5. QED
  BY <1>2, <1>4 DEF need

\* A word, or a payload, read as a line: an error, a reply that is not a message, or, of
\* a payload, the beginning of something.
LEMMA TakesStray ==
    ASSUME NEW t, Head(stream) = t, parse = Fresh, t.kind \in {"word", "payload"}
    PROVE  \/ Outcome = "false"
           \/ Outcome = "reply" /\ ~IsMessage(Parsed.toks)
           \/ Outcome = "more" /\ t.kind = "payload" /\ Parsed.toks = <<AsLine(t)>>
<1>1. ~parse.body /\ parse.need = 1 /\ parse.toks = <<>>
  BY DEF Fresh
<1>2. CASE t.kind = "word"
  <2>1. AsLine(t) = t
    BY <1>2 DEF AsLine
  <2>2. BadLine(parse, Head(stream))
    BY <1>1, <1>2, <2>1 DEF BadLine
  <2>3. QED
    BY <2>2 DEF Outcome
<1>3. CASE t.kind = "payload" /\ Outcome # "false"
  <2> DEFINE l == AsLine(t)
             need == CASE l.kind = "array" -> 0 + l.n
                       [] l.kind \in {"bulk", "length"} -> 1
                       [] OTHER -> 0
  <2>1. Parsed = Took(parse, l, CASE l.kind = "array" -> parse.need - 1 + l.n
                                  [] l.kind \in {"bulk", "length"} -> parse.need
                                  [] OTHER -> parse.need - 1)
    BY <1>1 DEF Parsed, Consume
  <2>2. parse.need - 1 = 0
    BY <1>1
  <2>3. Parsed = Took(parse, l, need)
    BY <1>1, <2>1, <2>2
  <2> HIDE DEF l, need
  <2>4. Parsed.need = need /\ Parsed.toks = Append(<<>>, l)
    BY <1>1, <2>3, TookFields
  <2>5. Append(<<>>, l) = <<l>> /\ <<l>>[1] = l
    OBVIOUS
  <2>6. Outcome = "reply" => need = 0
    BY <2>4 DEF Outcome
  <2>7. need = 0 => ~(l.kind = "array" /\ l.n = 3)
    BY DEF need
  <2>8. Outcome \in {"reply", "more"}
    BY <1>3 DEF Outcome
  <2>9. Parsed.toks[1] = l
    BY <2>4, <2>5
  <2>10. Outcome = "reply" => ~IsMessage(Parsed.toks)
    BY <2>6, <2>7, <2>9 DEF IsMessage
  <2>11. Parsed.toks = <<AsLine(t)>>
    BY <2>4, <2>5 DEF l
  <2>12. QED
    BY <1>3, <2>8, <2>10, <2>11
<1>4. QED
  BY <1>2, <1>3

-----------------------------------------------------------------------------
(* The stream.                                                             *)

\* The messages of tokens whose units are known.
LEMMA InSeq ==
    ASSUME NEW s, NEW lab, s \in Seq(Tokens), Len(lab) = Len(s),
           \A k \in 1..Len(s) : /\ lab[k].u \in Int
                                /\ s[k].msg = IF lab[k].u > 0 THEN lab[k].u ELSE 0
    PROVE  \A i : i \in Messages(s) <=> i \in Int /\ i > 0 /\ \E k \in 1..Len(lab) : lab[k].u = i
<1>1. DOMAIN s = 1..Len(lab)
  OBVIOUS
<1>2. QED
  BY <1>1 DEF Messages

\* The messages in the stream.
LEMMA InStream ==
    ASSUME NEW lab, published \in Seq(Payloads), Labelled(lab)
    PROVE  /\ \A i : i \in Messages(stream) <=> i \in Int /\ i > 0 /\ \E k \in 1..Len(lab) : lab[k].u = i
           /\ \A k \in 1..Len(lab) : /\ lab[k].u \in Int
                                     /\ stream[k].msg = IF lab[k].u > 0 THEN lab[k].u ELSE 0
           /\ Messages(stream) \subseteq 1..Len(published)
<1>1. stream \in Seq(Tokens) /\ Len(lab) = Len(stream) /\ Len(lab) \in Nat /\ Len(published) \in Nat
  BY DEF Labelled
<1>2. ASSUME NEW k \in 1..Len(lab)
      PROVE  /\ lab[k].u \in -2..Len(published)
             /\ stream[k].msg = IF lab[k].u > 0 THEN lab[k].u ELSE 0
  <2>1. lab[k].u \in -2..Len(published) /\ lab[k].p \in 1..Size(lab[k].u)
        /\ stream[k] = Token(lab[k].u, lab[k].p)
    BY DEF Labelled
  <2>2. QED
    BY <1>1, <2>1, TokenFields
<1>3. \A i : i \in Messages(stream) <=> i \in Int /\ i > 0 /\ \E k \in 1..Len(lab) : lab[k].u = i
  <2>1. \A k \in 1..Len(stream) : /\ lab[k].u \in Int
                                  /\ stream[k].msg = IF lab[k].u > 0 THEN lab[k].u ELSE 0
    BY <1>1, <1>2
  <2>2. QED
    BY ONLY <1>1, <2>1, InSeq
<1>4. Messages(stream) \subseteq 1..Len(published)
  BY <1>1, <1>2, <1>3
<1>5. QED
  BY <1>1, <1>2, <1>3, <1>4

\* Tokens that were published stay what they are.
LEMMA TokenKept ==
    ASSUME published \in Seq(Payloads), published' = published \/ \E m : published' = Append(published, m),
           NEW u \in -2..Len(published), NEW p
    PROVE  Token(u, p)' = Token(u, p)
<1>1. u > 0 => published'[u] = published[u]
  <2>1. SUFFICES ASSUME u > 0, NEW m, published' = Append(published, m)
                 PROVE  published'[u] = published[u]
    OBVIOUS
  <2>2. u \in 1..Len(published)
    BY <2>1
  <2>3. QED
    BY <2>1, <2>2
<1>2. u > 0 \/ u \in {-2, -1, 0}
  OBVIOUS
<1>3. QED
  BY <1>1, <1>2 DEF Token

\* The labels after the first.
LEMMA Shifted ==
    ASSUME NEW lab, SubTypes, Labelled(lab), Len(lab) > 0,
           stream' = Tail(stream), published' = published
    PROVE  LET r == Tail(lab)
           IN  /\ Labelled(r)'
               /\ Len(r) = Len(lab) - 1
               /\ \A k \in 1..Len(r) : k + 1 \in 1..Len(lab) /\ r[k] = lab[k + 1]
<1> DEFINE r == Tail(lab)
<1>1. /\ stream \in Seq(Tokens) /\ lab \in Seq(Labels) /\ Len(stream) = Len(lab)
      /\ stream # <<>> /\ lab # <<>> /\ Len(lab) \in Nat /\ published \in Seq(Payloads)
  BY DEF Labelled, SubTypes
<1>2. /\ r \in Seq(Labels) /\ Len(r) = Len(lab) - 1
      /\ \A k \in 1..Len(r) : r[k] = lab[k + 1]
  BY <1>1, HeadTailProperties
<1>3. /\ stream' \in Seq(Tokens) /\ Len(stream') = Len(lab) - 1
      /\ \A k \in 1..Len(stream') : stream'[k] = stream[k + 1]
  BY <1>1, HeadTailProperties
<1> HIDE DEF r
<1>4. \A k \in 1..Len(r) : k + 1 \in 1..Len(lab) /\ r[k] = lab[k + 1] /\ stream'[k] = stream[k + 1]
  BY <1>1, <1>2, <1>3
<1>5. Len(published') = Len(published)
  OBVIOUS
<1>6. ASSUME NEW k \in 1..Len(r)
      PROVE  /\ r[k].u \in -2..Len(published)
             /\ r[k].p \in 1..Size(r[k].u)
             /\ stream'[k] = Token(r[k].u, r[k].p)'
  <2>1. k + 1 \in 1..Len(lab) /\ r[k] = lab[k + 1] /\ stream'[k] = stream[k + 1]
    BY <1>4
  <2>2. /\ r[k].u \in -2..Len(published)
        /\ r[k].p \in 1..Size(r[k].u)
        /\ stream'[k] = Token(r[k].u, r[k].p)
    BY <2>1 DEF Labelled
  <2>3. QED
    BY <1>1, <2>2, TokenKept
<1>7. ASSUME NEW k \in 1..Len(r), NEW l \in 1..Len(r), k < l PROVE Before(r[k], r[l])
  <2>1. k + 1 \in 1..Len(lab) /\ l + 1 \in 1..Len(lab) /\ k + 1 < l + 1
    BY <1>4, <1>7
  <2>2. QED
    BY <1>4, <2>1 DEF Labelled
<1>8. ASSUME NEW k \in 1..Len(r), k + 1 <= Len(r) PROVE Follows(r[k], r[k + 1])
  <2>1. k + 1 \in 1..Len(lab) /\ k + 1 \in 1..Len(r) /\ (k + 1) + 1 <= Len(lab)
    BY <1>1, <1>2, <1>8
  <2>2. r[k] = lab[k + 1] /\ r[k + 1] = lab[(k + 1) + 1]
    BY <1>2, <2>1
  <2>3. QED
    BY <2>1, <2>2 DEF Labelled
<1>9. Labelled(r)'
  BY <1>1, <1>2, <1>3, <1>5, <1>6, <1>7, <1>8 DEF Labelled
<1>10. QED
  BY <1>2, <1>4, <1>9 DEF r

\* The token after the first: in the same unit, or the first of a later one.
LEMMA Second ==
    ASSUME NEW lab, SubTypes, Labelled(lab), Len(lab) > 1
    PROVE  /\ lab[1].p < Size(lab[1].u) => lab[2].u = lab[1].u /\ lab[2].p = lab[1].p + 1
           /\ lab[1].p = Size(lab[1].u) => /\ lab[1].u # -2 /\ lab[2].p = 1 /\ lab[2].u > lab[1].u
                                           /\ lab[1].u = -1 => lab[2].u = 0
           /\ lab[2].u \in Int /\ lab[2].p \in Int
<1>1. Len(lab) \in Nat /\ published \in Seq(Payloads)
  BY DEF Labelled, SubTypes
<1>2. 1 \in 1..Len(lab) /\ 2 \in 1..Len(lab) /\ 1 + 1 <= Len(lab)
  BY <1>1
<1>3. Follows(lab[1], lab[2])
  <2>1. Follows(lab[1], lab[1 + 1])
    BY <1>2 DEF Labelled
  <2>2. QED
    BY <2>1
<1>4. /\ lab[1].u \in -2..Len(published) /\ lab[1].p \in 1..Size(lab[1].u)
      /\ lab[2].u \in -2..Len(published) /\ lab[2].p \in 1..Size(lab[2].u)
  BY <1>2 DEF Labelled
<1>5. Size(lab[1].u) \in Nat /\ Size(lab[2].u) \in Nat
  BY DEF Size
<1>6. QED
  BY <1>1, <1>3, <1>4, <1>5 DEF Follows

\* The first token, and what EndsWhole says of it when it is the only one.
LEMMA First ==
    ASSUME NEW lab, SubTypes, Labelled(lab), EndsWhole(lab), Len(lab) > 0
    PROVE  /\ stream # <<>> /\ 1 \in 1..Len(lab)
           /\ lab[1].u \in -2..Len(published) /\ lab[1].p \in 1..Size(lab[1].u)
           /\ Head(stream) = Token(lab[1].u, lab[1].p)
           /\ Size(lab[1].u) \in {1, 6, 7}
           /\ Len(lab) = 1 => /\ lab[1].p < Size(lab[1].u) => ~server /\ (lab[1].u > 0 => lab[1].u \in lost)
                              /\ server => lab[1].u >= 0
<1>1. Len(lab) \in Nat /\ stream \in Seq(Tokens) /\ Len(stream) = Len(lab)
  BY DEF Labelled
<1>2. 1 \in 1..Len(lab) /\ stream # <<>> /\ Head(stream) = stream[1]
  BY <1>1
<1>3. /\ lab[1].u \in -2..Len(published) /\ lab[1].p \in 1..Size(lab[1].u)
      /\ Head(stream) = Token(lab[1].u, lab[1].p)
  BY <1>2 DEF Labelled
<1>4. Size(lab[1].u) \in {1, 6, 7}
  BY DEF Size
<1>5. ASSUME Len(lab) = 1
      PROVE  /\ lab[1].p < Size(lab[1].u) => ~server /\ (lab[1].u > 0 => lab[1].u \in lost)
             /\ server => lab[1].u >= 0
  <2>1. /\ lab[1].u > 0 /\ lab[1].p < Size(lab[1].u) => lab[1].u \in lost
        /\ server => lab[1].u >= 0 /\ lab[1].p = Size(lab[1].u)
    BY <1>5 DEF EndsWhole
  <2>2. QED
    BY <1>3, <1>4, <2>1
<1>6. QED
  BY <1>2, <1>3, <1>4, <1>5

\* One more token of a unit.
LEMMA OneMore ==
    ASSUME SubTypes, NEW u \in -2..Len(published), NEW p \in 1..Size(u), NEW toks,
           FirstToks(toks, u, p - 1)
    PROVE  FirstToks(Append(toks, Token(u, p)), u, p)
<1>1. Token(u, p) \in Tokens
  BY TokenFields DEF SubTypes
<1>2. Size(u) \in Nat
  BY DEF Size
<1>3. toks \in Seq(Tokens) /\ Len(toks) = p - 1 /\ \A q \in 1..(p - 1) : toks[q] = Token(u, q)
  BY DEF FirstToks
<1> DEFINE t == Token(u, p)
           s == Append(toks, t)
<1>4. /\ s \in Seq(Tokens) /\ Len(s) = Len(toks) + 1 /\ s[Len(toks) + 1] = t
      /\ \A q \in 1..Len(toks) : s[q] = toks[q]
  BY <1>1, <1>3, AppendProperties
<1> HIDE DEF s
<1>5. p \in Int /\ p >= 1
  BY <1>2
<1>6. Len(s) = p /\ s[p] = Token(u, p) /\ \A q \in 1..(p - 1) : s[q] = Token(u, q)
  BY <1>3, <1>4, <1>5
<1>7. \A q \in 1..p : s[q] = Token(u, q)
  <2>1. TAKE q \in 1..p
  <2>2. q = p \/ q \in 1..(p - 1)
    BY <1>5
  <2>3. QED
    BY <1>6, <2>2
<1>8. QED
  BY <1>4, <1>6, <1>7 DEF FirstToks, s

\* The first token of a unit.
LEMMA ReadsFirst ==
    ASSUME SubTypes, NEW u \in -1..Len(published), parse = Fresh, Head(stream) = Token(u, 1)
    PROVE  Outcome = "more" /\ Parsing(Parsed, u, 1)
<1> DEFINE t == Token(u, 1)
<1>1. Len(published) \in Nat /\ u \in -2..Len(published) /\ 1 \in 1..Size(u) /\ u # -2
  BY DEF SubTypes, Size
<1>2. t.kind = "array" /\ t.n = 3
  BY <1>1, TokenFields DEF SubTypes
<1>3. ~parse.body /\ parse.need = 1 /\ parse.toks = <<>>
  BY DEF Fresh
<1>4. FirstToks(<<>>, u, 0)
  BY DEF FirstToks
<1>5. FirstToks(Append(<<>>, t), u, 1)
  <2>1. 1 - 1 = 0
    OBVIOUS
  <2>2. QED
    BY <1>1, <1>4, <2>1, OneMore
<1> HIDE DEF t
<1>6. Parsed = Took(parse, t, 3) /\ Outcome = "more"
  <2>1. parse.need - 1 + t.n = 3
    BY <1>2, <1>3
  <2>2. QED
    BY <1>2, <1>3, <2>1, TakesLine DEF t
<1>7. Parsed.need = 3 /\ ~Parsed.body /\ Parsed.toks = Append(<<>>, t)
  BY <1>2, <1>3, <1>6, TookFields
<1>8. QED
  BY <1>5, <1>6, <1>7 DEF Parsing, Needs

\* The others: the last one completes the reply.
LEMMA ReadsNext ==
    ASSUME SubTypes, NEW u \in -1..Len(published), NEW p \in 2..Size(u),
           Parsing(parse, u, p - 1), Head(stream) = Token(u, p)
    PROVE  /\ p < Size(u) => Outcome = "more" /\ Parsing(Parsed, u, p)
           /\ p = Size(u) => Outcome = "reply" /\ FirstToks(Parsed.toks, u, p)
<1> DEFINE t == Token(u, p)
<1>1. /\ Len(published) \in Nat /\ u \in -2..Len(published) /\ p \in 1..Size(u) /\ u # -2
      /\ Size(u) = IF u > 0 THEN 7 ELSE 6
  BY DEF SubTypes, Size
<1>2. /\ p \in {2, 4} \/ (u > 0 /\ p = 6) => t.kind = "bulk"
      /\ p \in {3, 5} => t.kind = "word"
      /\ u > 0 /\ p = 7 => t.kind = "payload"
      /\ u \in {-1, 0} /\ p = 6 => t.kind = "integer"
  BY <1>1, TokenFields DEF SubTypes
<1>3. /\ parse.need = Needs(p - 1) /\ (parse.body <=> p - 1 \in {2, 4, 6})
      /\ FirstToks(parse.toks, u, p - 1)
  BY DEF Parsing
<1>4. FirstToks(Append(parse.toks, t), u, p)
  BY <1>1, <1>3, OneMore
<1> HIDE DEF t
<1>5. CASE p \in {3, 5, 7}
  <2>1. parse.body /\ t.kind \in {"word", "payload"}
    BY <1>1, <1>2, <1>3, <1>5
  <2>2. /\ Parsed = Took(parse, t, parse.need - 1)
        /\ Outcome = IF parse.need - 1 = 0 THEN "reply" ELSE "more"
    BY <2>1, TakesBody DEF t
  <2>3. parse.need - 1 = (IF p = 7 THEN 0 ELSE Needs(p))
    BY <1>3, <1>5 DEF Needs
  <2>4. /\ Parsed.need = (IF p = 7 THEN 0 ELSE Needs(p)) /\ ~Parsed.body
        /\ Parsed.toks = Append(parse.toks, t)
    BY <2>1, <2>2, <2>3, TookFields
  <2>5. p < 7 => Outcome = "more"
    BY <1>5, <2>2, <2>3 DEF Needs
  <2>6. p = 7 => Outcome = "reply"
    BY <2>2, <2>3
  <2>7. p < 7 => Parsing(Parsed, u, p)
    BY <1>4, <1>5, <2>4 DEF Parsing
  <2>8. QED
    BY <1>1, <1>4, <1>5, <2>4, <2>5, <2>6, <2>7
<1>6. CASE p \in {2, 4} \/ (p = 6 /\ u > 0)
  <2>1. ~parse.body /\ t.kind = "bulk"
    BY <1>2, <1>3, <1>6
  <2>2. Parsed = Took(parse, t, parse.need) /\ Outcome = IF parse.need = 0 THEN "reply" ELSE "more"
    BY <2>1, TakesLine DEF t
  <2>3. parse.need = Needs(p) /\ Needs(p) # 0
    BY <1>3, <1>6 DEF Needs
  <2>4. Parsed.need = Needs(p) /\ Parsed.body /\ Parsed.toks = Append(parse.toks, t)
    BY <2>1, <2>2, <2>3, TookFields
  <2>5. Outcome = "more"
    BY <2>2, <2>3
  <2>6. Parsing(Parsed, u, p)
    BY <1>4, <1>6, <2>4 DEF Parsing
  <2>7. p < Size(u)
    BY <1>1, <1>6
  <2>8. QED
    BY <2>5, <2>6, <2>7
<1>7. CASE p = 6 /\ ~(u > 0)
  <2>1. ~parse.body /\ t.kind = "integer" /\ parse.need = 1
    BY <1>1, <1>2, <1>3, <1>7 DEF Needs
  <2>2. Parsed = Took(parse, t, parse.need - 1) /\ Outcome = IF parse.need - 1 = 0 THEN "reply" ELSE "more"
    BY <2>1, TakesLine DEF t
  <2>3. Outcome = "reply" /\ Parsed.toks = Append(parse.toks, t)
    BY <2>1, <2>2, TookFields
  <2>4. QED
    BY <1>1, <1>4, <1>7, <2>3
<1>8. QED
  BY <1>1, <1>5, <1>6, <1>7

\* Of the units, the messages are what the subscriber acts upon.
LEMMA WholeUnit ==
    ASSUME SubTypes, NEW u \in -1..Len(published), NEW toks, FirstToks(toks, u, Size(u))
    PROVE  /\ u > 0 => /\ IsMessage(toks) /\ toks[7].msg = u
                       /\ toks[5].val = published[u].channel
           /\ ~(u > 0) => ~IsMessage(toks)
<1>1. /\ Len(published) \in Nat /\ u \in -2..Len(published) /\ u # -2
      /\ Size(u) = IF u > 0 THEN 7 ELSE 6
  BY DEF SubTypes, Size
<1>2. \A q \in 1..Size(u) : toks[q] = Token(u, q)
  BY DEF FirstToks
<1>3. toks[1] = Token(u, 1) /\ toks[3] = Token(u, 3) /\ toks[5] = Token(u, 5)
      /\ (u > 0 => toks[7] = Token(u, 7))
  BY <1>1, <1>2
<1>4. /\ Token(u, 1).kind = "array" /\ Token(u, 1).n = 3 /\ Token(u, 3).kind = "word"
      /\ u > 0 => /\ Token(u, 3).val = "message" /\ Token(u, 5).val = published[u].channel
                  /\ Token(u, 7).msg = u
      /\ u \in {-1, 0} => Token(u, 3).val = "subscribe"
  <2>1. 1 \in 1..Size(u) /\ 3 \in 1..Size(u) /\ 5 \in 1..Size(u) /\ (u > 0 => 7 \in 1..Size(u))
    BY <1>1
  <2>2. QED
    BY <1>1, <2>1, TokenFields DEF SubTypes
<1>5. QED
  BY <1>1, <1>3, <1>4 DEF IsMessage

\* A unit whose beginning is missing.
LEMMA ReadsRest ==
    ASSUME SubTypes, NEW u \in -1..Len(published), NEW p \in 2..Size(u), parse = Fresh,
           Head(stream) = Token(u, p)
    PROVE  \/ /\ Outcome = "more" /\ p < Size(u)
              /\ Parsed.need = 1 /\ Parsed.body /\ Parsed.toks = <<Token(u, p)>>
              /\ Token(u, p).kind = "bulk"
           \/ Outcome = "false"
           \/ Outcome = "reply" /\ ~IsMessage(Parsed.toks)
           \/ Outcome = "more" /\ Token(u, p).kind = "payload"
<1> DEFINE t == Token(u, p)
<1>1. /\ Len(published) \in Nat /\ u \in -2..Len(published) /\ p \in 1..Size(u) /\ u # -2
      /\ Size(u) = IF u > 0 THEN 7 ELSE 6
  BY DEF SubTypes, Size
<1>2. /\ t \in Tokens
      /\ p \in {2, 4} \/ (u > 0 /\ p = 6) => t.kind = "bulk"
      /\ p \in {3, 5} => t.kind = "word"
      /\ u > 0 /\ p = 7 => t.kind = "payload"
      /\ u \in {-1, 0} /\ p = 6 => t.kind = "integer"
  BY <1>1, TokenFields DEF SubTypes
<1>3. ~parse.body /\ parse.need = 1 /\ parse.toks = <<>>
  BY DEF Fresh
<1> HIDE DEF t
<1>4. CASE p \in {3, 5} \/ (p = 7 /\ u > 0)
  BY <1>2, <1>4, TakesStray DEF t
<1>5. CASE p \in {2, 4} \/ (p = 6 /\ u > 0)
  <2>1. Parsed = Took(parse, t, parse.need) /\ Outcome = IF parse.need = 0 THEN "reply" ELSE "more"
    BY <1>2, <1>3, <1>5, TakesLine DEF t
  <2>2. t.kind = "bulk" /\ p < Size(u)
    BY <1>1, <1>2, <1>5
  <2>3. Parsed.need = 1 /\ Parsed.body /\ Parsed.toks = Append(<<>>, t) /\ Outcome = "more"
    BY <1>3, <2>1, <2>2, TookFields
  <2>4. Append(<<>>, t) = <<t>>
    OBVIOUS
  <2>5. QED
    BY <2>2, <2>3, <2>4 DEF t
<1>6. CASE p = 6 /\ ~(u > 0)
  <2>1. t.kind = "integer"
    BY <1>1, <1>2, <1>6
  <2>2. Parsed = Took(parse, t, parse.need - 1) /\ Outcome = IF parse.need - 1 = 0 THEN "reply" ELSE "more"
    BY <1>3, <2>1, TakesLine DEF t
  <2>3. Outcome = "reply" /\ Parsed.toks = Append(<<>>, t)
    BY <1>3, <2>2, TookFields
  <2>4. Parsed.toks[1] = t
    BY <2>3
  <2>5. QED
    BY <2>1, <2>3, <2>4 DEF IsMessage
<1>7. QED
  BY <1>1, <1>4, <1>5, <1>6

\* A bulk string by itself.
LEMMA ReadsBulk ==
    ASSUME parse.need = 1, parse.body, parse.toks \in Seq(Tokens),
           Len(parse.toks) = 1, parse.toks[1].kind = "bulk", NEW t \in Tokens, Head(stream) = t
    PROVE  Outcome = "reply" /\ ~IsMessage(Parsed.toks)
<1>1. Parsed = Took(parse, t, parse.need - 1) /\ Outcome = IF parse.need - 1 = 0 THEN "reply" ELSE "more"
  BY TakesBody
<1>2. Outcome = "reply" /\ Parsed.toks = Append(parse.toks, t)
  BY <1>1, TookFields
<1>3. Append(parse.toks, t)[1] = parse.toks[1]
  <2>1. 1 \in 1..Len(parse.toks)
    OBVIOUS
  <2>2. QED
    BY <2>1, AppendProperties
<1>4. QED
  BY <1>2, <1>3 DEF IsMessage

-----------------------------------------------------------------------------
(* The steps of the subscriber.                                            *)

\* The tokens of a unit name its message.
LEMMA MessagesOf ==
    ASSUME published \in Seq(Payloads), NEW u \in -2..Len(published), NEW p \in 1..Size(u), NEW toks,
           FirstToks(toks, u, p)
    PROVE  Messages(toks) = IF u > 0 THEN {u} ELSE {}
<1>1. DOMAIN toks = 1..p /\ Size(u) \in Nat /\ 1 \in 1..p
  BY DEF FirstToks, Size
<1>2. ASSUME NEW q \in 1..p PROVE toks[q].msg = IF u > 0 THEN u ELSE 0
  <2>1. q \in 1..Size(u) /\ toks[q] = Token(u, q)
    BY <1>1 DEF FirstToks
  <2>2. QED
    BY <2>1, TokenFields
<1>3. Len(published) \in Nat
  OBVIOUS
<1>4. QED
  BY <1>1, <1>2, <1>3 DEF Messages

\* Nothing has been read.
LEMMA FreshIsEmpty == Messages(Fresh.toks) = {} /\ Messages(<<>>) = {}
<1>1. DOMAIN <<>> = {} /\ Fresh.toks = <<>>
  BY DEF Fresh
<1>2. QED
  BY <1>1 DEF Messages

\* HandledExactly is about the messages that are accounted for otherwise.
LEMMA NoneHandled ==
    ASSUME HandledExactly, UNCHANGED <<handled, published>>,
           (cut \cup lost \cup Pending)' = cut \cup lost \cup Pending
    PROVE  HandledExactly'
<1>1. Messages(handled)' = Messages(handled)
  BY DEF Messages
<1>2. QED
  BY <1>1 DEF HandledExactly

\* What taking a token from the stream does to it.
LEMMA TakesToken ==
    ASSUME NEW lab, SubTypes, Labelled(lab), Accounted(lab), EndsWhole(lab), Len(lab) > 0,
           stream' = Tail(stream), UNCHANGED <<published, cut, lost, server>>
    PROVE  LET r == Tail(lab)
           IN  /\ Labelled(r)' /\ EndsWhole(r)'
               /\ handled' = handled => Accounted(r)'
               /\ \A k \in 1..Len(r) : /\ Before(lab[1], r[k])
                                       /\ r[k].u > 0 => /\ r[k].p = 7 => r[k].u \notin lost
                                                        /\ r[k].p = 1 => r[k].u \notin cut
                                                        /\ \A i \in DOMAIN handled : handled[i].msg < r[k].u
                                       /\ r[k].u \in Int /\ r[k].p \in 1..Size(r[k].u)
               /\ \A i : i \in Messages(stream) <=> i \in Messages(stream') \/ (lab[1].u > 0 /\ i = lab[1].u)
               /\ \A i \in Messages(stream') : \E k \in 1..Len(r) : r[k].u = i
               /\ Len(r) = Len(lab) - 1 /\ Len(r) \in Nat
               /\ Len(r) > 0 => r[1] = lab[2]
<1> DEFINE r == Tail(lab)
<1>1. /\ Labelled(r)' /\ Len(r) = Len(lab) - 1
      /\ \A k \in 1..Len(r) : k + 1 \in 1..Len(lab) /\ r[k] = lab[k + 1]
  BY Shifted
<1>2. Len(lab) \in Nat /\ published \in Seq(Payloads) /\ published' \in Seq(Payloads)
  BY DEF Labelled, SubTypes
<1> HIDE DEF r
<1>3. Len(r) \in Nat /\ (Len(r) > 0 => r[1] = lab[2] /\ r[Len(r)] = lab[Len(lab)])
  BY <1>1, <1>2
<1>4. EndsWhole(r)'
  BY <1>1, <1>2, <1>3 DEF EndsWhole
<1>5. ASSUME NEW k \in 1..Len(r)
      PROVE  /\ Before(lab[1], r[k])
             /\ r[k].u > 0 => /\ r[k].p = 7 => r[k].u \notin lost
                              /\ r[k].p = 1 => r[k].u \notin cut
                              /\ \A i \in DOMAIN handled : handled[i].msg < r[k].u
             /\ r[k].u \in Int /\ r[k].p \in 1..Size(r[k].u)
  <2>1. k + 1 \in 1..Len(lab) /\ r[k] = lab[k + 1] /\ 1 \in 1..Len(lab) /\ 1 < k + 1
    BY <1>1, <1>2, <1>3
  <2>2. Before(lab[1], r[k])
    BY <2>1 DEF Labelled
  <2>3. r[k].u \in -2..Len(published) /\ r[k].p \in 1..Size(r[k].u)
    BY <2>1 DEF Labelled
  <2>4. QED
    BY <1>2, <2>1, <2>2, <2>3 DEF Accounted
<1>6. handled' = handled => Accounted(r)'
  BY <1>5 DEF Accounted
<1>7. /\ \A i : i \in Messages(stream) <=> i \in Messages(stream') \/ (lab[1].u > 0 /\ i = lab[1].u)
      /\ \A i \in Messages(stream') : \E k \in 1..Len(r) : r[k].u = i
  <2>1. \A i : i \in Messages(stream) <=> i \in Int /\ i > 0 /\ \E k \in 1..Len(lab) : lab[k].u = i
    BY <1>2, InStream
  <2>2. \A i : i \in Messages(stream') <=> i \in Int /\ i > 0 /\ \E k \in 1..Len(r) : r[k].u = i
    <3> DEFINE z == stream'
    <3>1. z \in Seq(Tokens) /\ Len(z) = Len(r)
      BY <1>1 DEF Labelled
    <3>2. \A k \in 1..Len(r) : z[k] = stream[k + 1]
      BY <1>1, <1>2, HeadTailProperties DEF Labelled
    <3> HIDE DEF z
    <3>3. \A k \in 1..Len(z) : /\ r[k].u \in Int
                               /\ z[k].msg = IF r[k].u > 0 THEN r[k].u ELSE 0
      <4>1. TAKE k \in 1..Len(z)
      <4>2. k + 1 \in 1..Len(lab) /\ r[k] = lab[k + 1] /\ z[k] = stream[k + 1]
        BY <1>1, <3>1, <3>2
      <4>3. QED
        BY <1>2, <4>2, InStream
    <3>4. \A i : i \in Messages(z) <=> i \in Int /\ i > 0 /\ \E k \in 1..Len(r) : r[k].u = i
      BY ONLY <3>1, <3>3, InSeq
    <3>5. QED
      BY <3>4 DEF z
  <2>3. lab[1].u \in Int
    BY <1>2, First
  <2>4. \A k \in 1..Len(lab) : k = 1 \/ (k - 1 \in 1..Len(r) /\ lab[k] = r[k - 1])
    BY <1>1, <1>2
  <2>5. \A i : (\E k \in 1..Len(lab) : lab[k].u = i) <=> lab[1].u = i \/ \E k \in 1..Len(r) : r[k].u = i
    <3>1. TAKE i
    <3>2. ASSUME NEW k \in 1..Len(lab), lab[k].u = i PROVE lab[1].u = i \/ \E l \in 1..Len(r) : r[l].u = i
      BY <2>4, <3>2
    <3>3. lab[1].u = i => \E k \in 1..Len(lab) : lab[k].u = i
      BY <1>2
    <3>4. ASSUME NEW k \in 1..Len(r), r[k].u = i PROVE \E l \in 1..Len(lab) : lab[l].u = i
      BY <1>1, <3>4
    <3>5. QED
      BY <3>2, <3>3, <3>4
  <2>6. QED
    BY <2>1, <2>2, <2>3, <2>5
<1>8. QED
  BY <1>1, <1>3, <1>4, <1>5, <1>6, <1>7 DEF r

\* Two ways to be between units or in the rest of one.
LEMMA Resumes ==
    ASSUME NEW lab, NEW r, SubTypes, Labelled(lab), Accounted(lab), EndsWhole(lab), Len(lab) > 0,
           r = Tail(lab), stream' = Tail(stream), parse' = Fresh, sub' = "loop",
           UNCHANGED <<published, cut, lost, server>>,
           lab[1].u > 0 /\ lab[1].p < Size(lab[1].u) => lab[1].u \in cut
    PROVE  Cursor(r)'
<1>1. Len(r) = Len(lab) - 1 /\ Len(r) \in Nat /\ (Len(r) > 0 => r[1] = lab[2])
  BY TakesToken
<1>2. /\ lab[1].u \in Int /\ lab[1].p \in Int /\ lab[1].p >= 1 /\ lab[1].p <= Size(lab[1].u)
      /\ Size(lab[1].u) \in Int
  BY First DEF Size
<1>3. CASE Len(r) = 0
  <2>1. Between(r)'
    BY <1>1, <1>3 DEF Between
  <2>2. QED
    BY <2>1 DEF Cursor
<1>4. CASE Len(r) > 0 /\ lab[1].p = Size(lab[1].u)
  <2>1. r[1].p = 1
    BY <1>1, <1>4, Second
  <2>2. Between(r)'
    BY <2>1 DEF Between
  <2>3. QED
    BY <2>2 DEF Cursor
<1>5. CASE Len(r) > 0 /\ lab[1].p < Size(lab[1].u)
  <2>1. r[1].u = lab[1].u /\ r[1].p = lab[1].p + 1
    BY <1>1, <1>5, Second
  <2>2. Skipping(r)'
    BY <1>2, <1>5, <2>1 DEF Skipping
  <2>3. QED
    BY <2>2 DEF Cursor
<1>6. Len(r) = 0 \/ (Len(r) > 0 /\ (lab[1].p = Size(lab[1].u) \/ lab[1].p < Size(lab[1].u)))
  <2>1. lab[1].p = Size(lab[1].u) \/ lab[1].p < Size(lab[1].u)
    BY <1>2
  <2>2. \A n \in Nat : n = 0 \/ n > 0
    OBVIOUS
  <2>3. QED
    BY <1>1, <2>1, <2>2, Zenon
<1>7. QED
  BY <1>3, <1>4, <1>5, <1>6, Zenon

\* A step that takes one token and acts upon none.
LEMMA TakesQuietly ==
    ASSUME NEW lab, NEW r, SubTypes, Labelled(lab), Accounted(lab), EndsWhole(lab), Len(lab) > 0,
           HandledExactly, r = Tail(lab), stream' = Tail(stream),
           UNCHANGED <<published, cut, lost, server, handled>>,
           Cursor(r)',
           lab[1].u > 0 => lab[1].u \in Messages(parse'.toks) \/ lab[1].u \in cut,
           \A i : i \in Messages(parse.toks) => i \in cut \/ i \in Messages(parse'.toks),
           \A i : i \in Messages(parse'.toks) =>
                    i \in cut \/ i \in Messages(parse.toks) \/ (lab[1].u > 0 /\ i = lab[1].u)
    PROVE  Subscribed' /\ HandledExactly'
<1>1. /\ Labelled(r)' /\ EndsWhole(r)' /\ Accounted(r)'
      /\ \A i : i \in Messages(stream) <=> i \in Messages(stream') \/ (lab[1].u > 0 /\ i = lab[1].u)
  BY TakesToken
<1>2. Subscribed'
  BY <1>1 DEF Subscribed
<1>3. (cut \cup lost \cup Pending)' = cut \cup lost \cup Pending
  BY <1>1 DEF Pending
<1>4. QED
  BY <1>2, <1>3, NoneHandled

\* readLine or readN takes one token, as it does while the parser is in step.
PlainRead == ReadToken /\ ~astray /\ ~Misled /\ stream \in Seq(Tokens)

\* What is not a message for the loop is not acted upon.
LEMMA NotActedUpon ==
    ASSUME PlainRead, ~(Outcome = "reply" /\ IsMessage(Parsed.toks))
    PROVE  handled' = handled /\ (sub = "loop" => sub' = "loop")
<1>1. CASE Outcome = "reply"
  <2>1. Replied(Parsed.toks) /\ ~IsMessage(Parsed.toks)
    BY <1>1 DEF PlainRead, ReadToken
  <2>2. QED
    BY <2>1 DEF Replied, Handle
<1>2. CASE Outcome # "reply"
  BY <1>2 DEF PlainRead, ReadToken
<1>3. QED
  BY <1>1, <1>2

\* parse' is what Parsing says of Parsed.
LEMMA ParsingKept ==
    ASSUME published \in Seq(Payloads), published' = published, NEW u \in -2..Len(published), NEW p \in Int,
           parse' = Parsed, Parsing(Parsed, u, p)
    PROVE  Parsing(parse, u, p)'
<1>1. \A q \in 1..p : Token(u, q)' = Token(u, q)
  BY TokenKept
<1>2. QED
  BY <1>1 DEF Parsing, FirstToks

\* Nothing changes for ReadToken but these.
LEMMA ReadFrame ==
    ASSUME PlainRead
    PROVE  /\ stream' = Tail(stream) /\ sub # "down" /\ stream # <<>>
           /\ parse' = IF Outcome = "more" THEN Parsed ELSE Fresh
           /\ UNCHANGED <<published, cut, lost, server>>
           /\ Outcome = "more" => UNCHANGED <<sub, confirmed, handled>>
           /\ Outcome = "reply" => Replied(Parsed.toks)
<1>1. Outcome \in {"false", "reply", "more"}
  BY DEF Outcome
<1>2. stream # <<>> /\ stream' = AfterToken /\ UNCHANGED cut
  BY DEF PlainRead, ReadToken, Starved
<1>3. Head(stream).kind # "lf"
  <2>1. Head(stream) \in Tokens
    BY <1>2 DEF PlainRead
  <2>2. QED
    BY <2>1 DEF Tokens, TokenKinds
<1>4. ~parse.body => LinesLeft(Head(stream)) = <<>>
  BY DEF PlainRead, Misled, LinesLeft
<1>5. <<>> \o Tail(stream) = Tail(stream)
  <2>1. Tail(stream) \in Seq(Tokens)
    BY <1>2 DEF PlainRead
  <2>2. QED
    BY <2>1, ConcatEmptySeq
<1>6. stream' = Tail(stream)
  BY <1>2, <1>3, <1>4, <1>5 DEF AfterToken
<1>7. QED
  BY <1>1, <1>2, <1>6 DEF PlainRead, ReadToken

\* The first token of a unit that a whole parseReply reads.
LEMMA ReadBetween ==
    ASSUME NEW lab, SubTypes, Labelled(lab), Accounted(lab), EndsWhole(lab), Between(lab),
           HandledExactly, PlainRead
    PROVE  Subscribed' /\ HandledExactly' /\ handled' = handled
<1> DEFINE r == Tail(lab)
           u == lab[1].u
<1>1. /\ stream' = Tail(stream) /\ stream # <<>>
      /\ parse' = IF Outcome = "more" THEN Parsed ELSE Fresh
      /\ UNCHANGED <<published, cut, lost, server>>
      /\ Outcome = "more" => UNCHANGED <<sub, confirmed, handled>>
      /\ Outcome = "reply" => Replied(Parsed.toks)
  BY ReadFrame
<1>2. Len(lab) \in Nat /\ Len(lab) > 0 /\ published \in Seq(Payloads) /\ Len(published) \in Nat
  BY <1>1 DEF Labelled, SubTypes
<1>3. /\ u \in -2..Len(published) /\ Head(stream) = Token(u, lab[1].p) /\ lab[1].p = 1 /\ parse = Fresh
      /\ 1 \in 1..Len(lab)
      /\ Len(lab) = 1 => /\ 1 < Size(u) => ~server /\ (u > 0 => u \in lost)
                         /\ server => u >= 0
  BY <1>2, First DEF Between
<1>4. Messages(parse.toks) = {}
  BY <1>3, FreshIsEmpty
<1>5. Len(r) = Len(lab) - 1 /\ Len(r) \in Nat /\ (Len(r) > 0 => r[1] = lab[2])
  BY <1>1, <1>2, TakesToken
<1> HIDE DEF r
<1>6. CASE u = -2
  <2> DEFINE t == Token(u, 1)
  <2>1. t.kind = "error"
    BY <1>2, <1>3, <1>6, TokenFields DEF Size
  <2>2. parse.need = 1 /\ ~parse.body /\ parse.toks = <<>> /\ Head(stream) = t
    BY <1>3 DEF Fresh
  <2> HIDE DEF t
  <2>3. Outcome = "reply" /\ Parsed = Took(parse, t, parse.need - 1)
    BY <2>1, <2>2, TakesLine
  <2>4. Parsed.toks[1] = t
    BY <2>2, <2>3, TookFields
  <2>5. ~IsMessage(Parsed.toks)
    BY <2>1, <2>4 DEF IsMessage
  <2>6. handled' = handled
    BY <2>5, NotActedUpon
  <2>7. Len(r) = 0
    <3>1. lab[1].p = Size(lab[1].u)
      BY <1>3, <1>6 DEF Size
    <3>2. ~(Len(lab) > 1)
      BY <1>6, <3>1, Second
    <3>3. QED
      BY <1>2, <1>5, <3>2
  <2>8. ~server /\ parse' = Fresh
    BY <1>1, <1>2, <1>3, <1>5, <1>6, <2>3, <2>7
  <2>9. Between(r)'
    BY <1>1, <2>7, <2>8 DEF Between
  <2>10. Cursor(r)'
    BY <2>9 DEF Cursor
  <2>11. Messages(parse'.toks) = {} /\ ~(lab[1].u > 0)
    BY <1>6, <2>8, FreshIsEmpty
  <2>12. QED
    BY <1>1, <1>2, <1>4, <2>6, <2>10, <2>11, TakesQuietly DEF r
<1>7. CASE u # -2
  <2>1. u \in -1..Len(published) /\ Size(u) \in {6, 7}
    BY <1>2, <1>3, <1>7 DEF Size
  <2>2. Outcome = "more" /\ Parsing(Parsed, u, 1)
    BY <1>3, <2>1, ReadsFirst
  <2>3. parse' = Parsed /\ UNCHANGED <<sub, confirmed, handled>>
    BY <1>1, <2>2
  <2>4. Parsing(parse, u, 1)'
    BY <1>1, <1>2, <1>3, <2>2, <2>3, ParsingKept
  <2>5. Len(r) = 0 => ~server /\ (u > 0 => u \in lost)
    BY <1>3, <1>5, <2>1
  <2>6. Len(r) > 0 => r[1].u = u /\ r[1].p = 1 + 1
    BY <1>3, <1>5, <2>1, Second
  <2>7. u > 0 => u \notin cut
    BY <1>3 DEF Accounted
  <2>8. sub = "confirm" => u = confirmed - 1
    BY <1>2, <1>7 DEF Between
  <2>9. Within(r, u, 1)'
    BY <1>1, <2>1, <2>3, <2>4, <2>5, <2>6, <2>7, <2>8 DEF Within
  <2>10. Cursor(r)'
    BY <1>3, <2>9 DEF Cursor
  <2>11. Messages(parse'.toks) = IF u > 0 THEN {u} ELSE {}
    <3>1. 1 \in 1..Size(u) /\ FirstToks(Parsed.toks, u, 1)
      BY <2>1, <2>2 DEF Parsing
    <3>2. QED
      BY <1>2, <1>3, <2>3, <3>1, MessagesOf
  <2>12. QED
    BY <1>1, <1>2, <1>4, <2>3, <2>10, <2>11, TakesQuietly DEF r
<1>8. QED
  BY <1>6, <1>7

\* The rest of a unit whose beginning was cut off: nothing of it is acted upon.
LEMMA ReadSkipping ==
    ASSUME NEW lab, SubTypes, Labelled(lab), Accounted(lab), EndsWhole(lab), Skipping(lab),
           HandledExactly, PlainRead
    PROVE  Subscribed' /\ HandledExactly' /\ handled' = handled
<1> DEFINE r == Tail(lab)
           u == lab[1].u
           p == lab[1].p
<1>1. /\ stream' = Tail(stream) /\ stream # <<>>
      /\ parse' = IF Outcome = "more" THEN Parsed ELSE Fresh
      /\ UNCHANGED <<published, cut, lost, server>>
      /\ Outcome = "more" => UNCHANGED <<sub, confirmed, handled>>
  BY ReadFrame
<1>2. Len(lab) \in Nat /\ Len(lab) > 0 /\ published \in Seq(Payloads) /\ Len(published) \in Nat
  BY <1>1 DEF Labelled, SubTypes
<1>3. /\ u \in -2..Len(published) /\ p \in 1..Size(u) /\ p > 1 /\ Head(stream) = Token(u, p) /\ parse = Fresh
      /\ Size(u) \in {1, 6, 7} /\ (u > 0 => u \in cut) /\ sub = "loop"
      /\ Len(lab) = 1 => (p < Size(u) => ~server)
  BY <1>2, First DEF Skipping
<1>4. u \in -1..Len(published) /\ p \in 2..Size(u) /\ u \in Int
  BY <1>2, <1>3 DEF Size
<1>5. Len(r) = Len(lab) - 1 /\ Len(r) \in Nat /\ (Len(r) > 0 => r[1] = lab[2])
  BY <1>1, <1>2, TakesToken
<1>6. Messages(parse.toks) = {}
  BY <1>3, FreshIsEmpty
<1> HIDE DEF r
<1>7. CASE Outcome = "more"
  <2>1. /\ p < Size(u) /\ Parsed.need = 1 /\ Parsed.body /\ Parsed.toks = <<Token(u, p)>>
        /\ Token(u, p).kind = "bulk"
    <3>1. ~(Token(u, p).kind = "payload")
      BY <1>3, <1>7 DEF PlainRead, Misled, Fresh
    <3>2. QED
      BY <1>3, <1>4, <1>7, <3>1, ReadsRest
  <2>2. Token(u, p) \in Tokens /\ Token(u, p).msg = IF u > 0 THEN u ELSE 0
    BY <1>2, <1>3, TokenFields
  <2>3. parse' = Parsed /\ UNCHANGED <<sub, confirmed, handled>>
    BY <1>1, <1>7
  <2>4. Len(r) = 0 => ~server
    BY <1>3, <1>5, <2>1
  <2>5. Len(r) > 0 => r[1].u = u /\ r[1].p > 1
    <3>1. SUFFICES ASSUME Len(r) > 0 PROVE lab[2].u = u /\ lab[2].p > 1
      BY <1>5
    <3>2. lab[2].u = u /\ lab[2].p = p + 1
      BY <1>2, <1>5, <2>1, <3>1, Second
    <3>3. QED
      BY <1>4, <3>2
  <2>6. SkippingBody(r, u)'
    <3> DEFINE t == Token(u, p)
    <3>1. parse'.toks = <<t>> /\ parse'.need = 1 /\ parse'.body /\ t \in Tokens /\ t.kind = "bulk"
          /\ t.msg = IF u > 0 THEN u ELSE 0
      BY <2>1, <2>2, <2>3
    <3> HIDE DEF t
    <3>2. parse'.toks \in Seq(Tokens) /\ Len(parse'.toks) = 1 /\ parse'.toks[1] = t
      BY <3>1, OneTwo
    <3>3. sub' = "loop" /\ u \in -1..Len(published') /\ (u > 0 => u \in cut') /\ (Len(r) = 0 => ~server')
      BY <1>1, <1>3, <1>4, <2>3, <2>4
    <3>4. QED
      BY <2>5, <3>1, <3>2, <3>3 DEF SkippingBody
  <2>7. Cursor(r)'
    BY <1>4, <2>6 DEF Cursor
  <2>8. Messages(parse'.toks) = IF u > 0 THEN {u} ELSE {}
    <3> DEFINE t == Token(u, p)
    <3>1. parse'.toks = <<t>>
      BY <2>1, <2>3
    <3> HIDE DEF t
    <3>2. Messages(<<t>>) = {t.msg} \ {0}
      BY DEF Messages
    <3>3. t.msg = IF u > 0 THEN u ELSE 0
      BY <2>2 DEF t
    <3>4. {t.msg} \ {0} = IF u > 0 THEN {u} ELSE {}
      <4>1. CASE u > 0
        BY <1>4, <3>3, <4>1
      <4>2. CASE ~(u > 0)
        BY <3>3, <4>2
      <4>3. QED
        BY <4>1, <4>2
    <3>5. QED
      BY <3>1, <3>2, <3>4, Zenon
  <2>9. QED
    BY <1>1, <1>2, <1>6, <2>3, <2>7, <2>8, TakesQuietly DEF r
<1>8. CASE Outcome # "more"
  <2>1. ~(Outcome = "reply" /\ IsMessage(Parsed.toks))
    BY <1>3, <1>4, <1>8, ReadsRest
  <2>2. handled' = handled /\ sub' = "loop" /\ parse' = Fresh
    BY <1>1, <1>3, <1>8, <2>1, NotActedUpon
  <2>3. Cursor(r)'
    BY <1>1, <1>2, <1>3, <2>2, Resumes DEF r
  <2>4. Messages(parse'.toks) = {}
    BY <2>2, FreshIsEmpty
  <2>5. QED
    BY <1>1, <1>2, <1>3, <1>6, <2>2, <2>3, <2>4, TakesQuietly DEF r
<1>9. QED
  BY <1>7, <1>8

\* The body of a bulk string of such a unit.
LEMMA ReadSkippingBody ==
    ASSUME NEW lab, NEW v \in Int, SubTypes, Labelled(lab), Accounted(lab), EndsWhole(lab), SkippingBody(lab, v),
           HandledExactly, PlainRead
    PROVE  Subscribed' /\ HandledExactly' /\ handled' = handled
<1> DEFINE r == Tail(lab)
<1>1. /\ stream' = Tail(stream) /\ stream # <<>>
      /\ parse' = IF Outcome = "more" THEN Parsed ELSE Fresh
      /\ UNCHANGED <<published, cut, lost, server>>
  BY ReadFrame
<1>2. Len(lab) \in Nat /\ Len(lab) > 0 /\ published \in Seq(Payloads) /\ Len(published) \in Nat
  BY <1>1 DEF Labelled, SubTypes
<1>3. /\ v \in -2..Len(published) /\ lab[1].p \in 1..Size(v) /\ Head(stream) = Token(v, lab[1].p)
      /\ lab[1].u = v /\ (v > 0 => v \in cut) /\ sub = "loop"
  BY <1>2, First DEF SkippingBody
<1>4. Token(v, lab[1].p) \in Tokens
  BY <1>2, <1>3, TokenFields
<1>5. Outcome = "reply" /\ ~IsMessage(Parsed.toks)
  BY <1>3, <1>4, ReadsBulk DEF SkippingBody
<1>6. handled' = handled /\ sub' = "loop" /\ parse' = Fresh
  BY <1>1, <1>3, <1>5, NotActedUpon
<1>7. Cursor(r)'
  BY <1>1, <1>2, <1>3, <1>6, Resumes
<1>8. Messages(parse'.toks) = {}
  BY <1>6, FreshIsEmpty
<1>9. \A i : i \in Messages(parse.toks) => i \in cut
  <2>1. DOMAIN parse.toks = {1} /\ parse.toks[1].msg = IF v > 0 THEN v ELSE 0
    BY DEF SkippingBody
  <2>2. Messages(parse.toks) = {parse.toks[1].msg} \ {0}
    BY <2>1 DEF Messages
  <2>3. QED
    BY <1>3, <2>1, <2>2
<1>10. QED
  BY <1>1, <1>2, <1>3, <1>6, <1>7, <1>8, <1>9, TakesQuietly

\* A message is acted upon: it is no longer pending, and later than those before it.
LEMMA ActsUpon ==
    ASSUME SubTypes, HandledExactly, NEW v \in 1..Len(published), published' = published,
           handled' = Append(handled, [channel |-> published[v].channel, msg |-> v]),
           \A i \in DOMAIN handled : handled[i].msg < v,
           v \notin (cut \cup lost \cup Pending)',
           \A i : i \in cut \cup lost \cup Pending <=> i \in (cut \cup lost \cup Pending)' \/ i = v
    PROVE  HandledExactly' /\ handled' \in Seq([channel : {"purge", "rules"}, msg : Nat])
<1> DEFINE H == [channel : {"purge", "rules"}, msg : Nat]
           h == [channel |-> published[v].channel, msg |-> v]
           z == Append(handled, h)
           n == Len(handled)
<1>1. handled \in Seq(H) /\ published \in Seq(Payloads) /\ v \in Nat /\ v > 0
  BY DEF SubTypes
<1>2. published[v].channel \in {"purge", "rules"}
  <2>1. published[v] \in Payloads
    BY <1>1, ElementOfSeq
  <2>2. QED
    BY <2>1, RedisAssumption
<1>3. h \in H /\ h.msg = v /\ h.channel = published[v].channel
  BY <1>1, <1>2
<1>a. handled' = z
  OBVIOUS
<1> HIDE DEF h, H
<1>4. /\ z \in Seq(H) /\ Len(z) = n + 1 /\ z[n + 1] = h
      /\ \A i \in 1..n : z[i] = handled[i]
  BY <1>1, <1>3, AppendProperties
<1>5. DOMAIN handled = 1..n /\ n \in Nat
  BY <1>1
<1>6. DOMAIN z = 1..(n + 1)
  BY <1>4
<1> HIDE DEF z, n
<1>7. \A i \in DOMAIN z : i = n + 1 \/ i \in DOMAIN handled
  BY <1>5, <1>6
<1>8. \A i \in DOMAIN z : z[i].msg \in DOMAIN published /\ z[i].channel = published[z[i].msg].channel
  <2>1. TAKE i \in DOMAIN z
  <2>2. CASE i = n + 1
    BY <1>1, <1>3, <1>4, <2>2
  <2>3. CASE i \in DOMAIN handled
    BY <1>4, <1>5, <2>3 DEF HandledExactly
  <2>4. QED
    BY <1>7, <2>2, <2>3
<1>9. ASSUME NEW i \in DOMAIN z, NEW j \in DOMAIN z, i < j PROVE z[i].msg < z[j].msg
  <2>1. i \in DOMAIN handled /\ z[i] = handled[i]
    BY <1>4, <1>5, <1>6, <1>9
  <2>2. CASE j = n + 1
    BY <1>3, <1>4, <2>1, <2>2
  <2>3. CASE j \in DOMAIN handled
    BY <1>4, <1>5, <1>9, <2>1, <2>3 DEF HandledExactly
  <2>4. QED
    BY <1>7, <2>2, <2>3
<1>10. Messages(z) = Messages(handled) \cup {v}
  <2>1. \A x : (\E i \in DOMAIN z : z[i].msg = x) <=> x = v \/ \E i \in DOMAIN handled : handled[i].msg = x
    BY <1>3, <1>4, <1>5, <1>6, <1>7
  <2>2. \A s, x : x \in Messages(s) <=> x # 0 /\ \E i \in DOMAIN s : s[i].msg = x
    BY DEF Messages
  <2>3. \A x : x \in Messages(z) <=> x \in Messages(handled) \cup {v}
    <3>1. TAKE x
    <3>2. x \in Messages(z) <=> x # 0 /\ \E i \in DOMAIN z : z[i].msg = x
      BY <2>2
    <3>3. x \in Messages(handled) <=> x # 0 /\ \E i \in DOMAIN handled : handled[i].msg = x
      BY <2>2
    <3>4. v # 0
      BY <1>1
    <3>5. QED
      BY <2>1, <3>2, <3>3, <3>4, Zenon
  <2>4. QED
    BY <2>3
<1>11. Messages(z) = DOMAIN published \ (cut \cup lost \cup Pending)'
  <2>1. v \in DOMAIN published
    BY <1>1
  <2>2. Messages(handled) = DOMAIN published \ (cut \cup lost \cup Pending)
    BY DEF HandledExactly
  <2>3. QED
    BY <1>10, <2>1, <2>2
<1>12. HandledExactly'
  BY <1>a, <1>8, <1>9, <1>11 DEF HandledExactly
<1>13. QED
  BY <1>a, <1>4, <1>12 DEF H

\* The next token of a unit that is read from its beginning.
LEMMA ReadWithin ==
    ASSUME NEW lab, NEW v \in Int, NEW p \in Int, SubTypes, Labelled(lab), Accounted(lab), EndsWhole(lab),
           Within(lab, v, p), HandledExactly, PlainRead
    PROVE  /\ Subscribed' /\ HandledExactly'
           /\ handled' \in Seq([channel : {"purge", "rules"}, msg : Nat])
<1> DEFINE r == Tail(lab)
           q == p + 1
<1>1. /\ stream' = Tail(stream) /\ stream # <<>>
      /\ parse' = IF Outcome = "more" THEN Parsed ELSE Fresh
      /\ UNCHANGED <<published, cut, lost, server>>
      /\ Outcome = "more" => UNCHANGED <<sub, confirmed, handled>>
      /\ Outcome = "reply" => Replied(Parsed.toks)
      /\ sub # "down"
  BY ReadFrame
<1>2. Len(lab) \in Nat /\ Len(lab) > 0 /\ published \in Seq(Payloads) /\ Len(published) \in Nat
  BY <1>1 DEF Labelled, SubTypes
<1>3. /\ v \in -1..Len(published) /\ v \in -2..Len(published)
      /\ Size(v) \in {6, 7} /\ (v > 0 => Size(v) = 7) /\ p \in 1..(Size(v) - 1)
      /\ lab[1].u = v /\ lab[1].p = q /\ (v > 0 => v \notin cut) /\ (sub = "confirm" => v = confirmed - 1)
  BY <1>2 DEF Within, Size
<1>4. /\ q \in 2..Size(v) /\ q - 1 = p /\ q \in 1..Size(v) /\ p \in 1..Size(v)
  BY <1>3
<1>5. /\ Head(stream) = Token(v, q) /\ 1 \in 1..Len(lab)
      /\ Len(lab) = 1 => /\ q < Size(v) => ~server /\ (v > 0 => v \in lost)
                         /\ server => v >= 0
  BY <1>2, <1>3, First
<1>6. Len(r) = Len(lab) - 1 /\ Len(r) \in Nat /\ (Len(r) > 0 => r[1] = lab[2])
  BY <1>1, <1>2, TakesToken
<1>7. Messages(parse.toks) = IF v > 0 THEN {v} ELSE {}
  <2>1. FirstToks(parse.toks, v, p)
    BY DEF Within, Parsing
  <2>2. QED
    BY <1>2, <1>3, <1>4, <2>1, MessagesOf
<1> HIDE DEF r, q
<1>8. /\ q < Size(v) => Outcome = "more" /\ Parsing(Parsed, v, q)
      /\ q = Size(v) => Outcome = "reply" /\ FirstToks(Parsed.toks, v, q)
  <2>1. Parsing(parse, v, q - 1)
    BY <1>4 DEF Within
  <2>2. QED
    BY <1>3, <1>4, <1>5, <2>1, ReadsNext
<1>9. CASE q < Size(v)
  <2>1. Outcome = "more" /\ Parsing(Parsed, v, q) /\ FirstToks(Parsed.toks, v, q)
    BY <1>8, <1>9 DEF Parsing
  <2>2. parse' = Parsed /\ UNCHANGED <<sub, confirmed, handled>>
    BY <1>1, <2>1
  <2>3. Parsing(parse, v, q)'
    BY <1>1, <1>2, <1>3, <1>4, <2>1, <2>2, ParsingKept
  <2>4. Len(r) = 0 => ~server /\ (v > 0 => v \in lost)
    BY <1>2, <1>5, <1>6, <1>9
  <2>5. Len(r) > 0 => r[1].u = v /\ r[1].p = q + 1
    <3>1. SUFFICES ASSUME Len(r) > 0 PROVE lab[2].u = v /\ lab[2].p = q + 1
      BY <1>6
    <3>2. QED
      BY <1>2, <1>3, <1>6, <1>9, <3>1, Second
  <2>6. q \in 1..(Size(v) - 1) /\ q \in Int
    BY <1>3, <1>4, <1>9
  <2>7. Within(r, v, q)'
    BY <1>1, <1>3, <2>2, <2>3, <2>4, <2>5, <2>6 DEF Within
  <2>8. Cursor(r)'
    BY <2>6, <2>7 DEF Cursor
  <2>9. Messages(parse'.toks) = IF v > 0 THEN {v} ELSE {}
    BY <1>2, <1>3, <1>4, <2>1, <2>2, MessagesOf
  <2>10. Subscribed' /\ HandledExactly'
    BY <1>1, <1>2, <1>3, <1>7, <2>2, <2>8, <2>9, TakesQuietly DEF r
  <2>11. QED
    BY <2>2, <2>10 DEF SubTypes
<1>10. CASE q = Size(v) /\ ~(v > 0)
  <2>1. Outcome = "reply" /\ FirstToks(Parsed.toks, v, Size(v))
    BY <1>8, <1>10
  <2>2. ~IsMessage(Parsed.toks)
    BY <1>3, <1>10, <2>1, WholeUnit
  <2>3. handled' = handled /\ (sub = "loop" => sub' = "loop") /\ parse' = Fresh
    BY <1>1, <2>1, <2>2, NotActedUpon
  <2>4. Messages(parse'.toks) = {}
    BY <2>3, FreshIsEmpty
  <2>5. Cursor(r)'
    <3>1. CASE sub' = "loop"
      BY <1>1, <1>2, <1>3, <1>10, <2>3, <3>1, Resumes DEF r
    <3>2. CASE sub' # "loop"
      <4>1. sub = "confirm" /\ confirmed' = confirmed + 1 /\ confirmed' # 2
        BY <1>1, <2>1, <2>3, <3>2 DEF Replied, Channels
      <4>2. v = -1 /\ confirmed' = 1
        BY <1>3, <1>10, <4>1 DEF SubTypes
      <4>3. Len(r) = 0 => ~server
        BY <1>2, <1>5, <1>6, <4>2
      <4>4. Len(r) > 0 => r[1].u = 0 /\ r[1].p = 1
        <5>1. SUFFICES ASSUME Len(r) > 0 PROVE lab[2].u = 0 /\ lab[2].p = 1
          BY <1>6
        <5>2. QED
          BY <1>2, <1>3, <1>6, <1>10, <4>2, <5>1, Second
      <4>5. Between(r)'
        BY <1>1, <2>3, <4>2, <4>3, <4>4 DEF Between
      <4>6. QED
        BY <4>5 DEF Cursor
    <3>3. QED
      BY <3>1, <3>2
  <2>6. Subscribed' /\ HandledExactly'
    BY <1>1, <1>2, <1>3, <1>7, <1>10, <2>3, <2>4, <2>5, TakesQuietly DEF r
  <2>7. QED
    BY <2>3, <2>6 DEF SubTypes
<1>11. CASE q = Size(v) /\ v > 0
  <2>1. Outcome = "reply" /\ FirstToks(Parsed.toks, v, Size(v)) /\ parse' = Fresh
    BY <1>1, <1>8, <1>11
  <2>2. /\ IsMessage(Parsed.toks) /\ Parsed.toks[7].msg = v
        /\ Parsed.toks[5].val = published[v].channel
    BY <1>3, <1>11, <2>1, WholeUnit
  <2>3. sub = "loop"
    <3>1. sub # "confirm"
      BY <1>3, <1>11 DEF SubTypes
    <3>2. QED
      BY <1>1, <3>1 DEF SubTypes
  <2>4. sub' = "loop" /\ handled' = Append(handled, [channel |-> published[v].channel, msg |-> v])
    <3>1. ~astray
      BY DEF PlainRead
    <3>2. sub' = "loop"
      BY <1>1, <2>1, <2>3 DEF Replied
    <3>3. Handle(Parsed.toks)
      BY <1>1, <2>1, <2>3 DEF Replied
    <3>4. QED
      BY <2>2, <3>1, <3>2, <3>3 DEF Handle
  <2>5. /\ Labelled(r)' /\ EndsWhole(r)'
        /\ \A k \in 1..Len(r) : /\ Before(lab[1], r[k])
                                /\ r[k].u > 0 => /\ r[k].p = 7 => r[k].u \notin lost
                                                 /\ r[k].p = 1 => r[k].u \notin cut
                                                 /\ \A i \in DOMAIN handled : handled[i].msg < r[k].u
                                /\ r[k].u \in Int /\ r[k].p \in 1..Size(r[k].u)
        /\ \A i : i \in Messages(stream) <=> i \in Messages(stream') \/ (lab[1].u > 0 /\ i = lab[1].u)
        /\ \A i \in Messages(stream') : \E k \in 1..Len(r) : r[k].u = i
    BY <1>1, <1>2, TakesToken DEF r
  <2>6. Cursor(r)'
    <3>1. ~(lab[1].p < Size(lab[1].u))
      BY <1>3, <1>11
    <3>2. QED
      BY <1>1, <1>2, <2>1, <2>4, <3>1, Resumes DEF r
  <2>7. v \notin lost /\ v \notin cut /\ \A i \in DOMAIN handled : handled[i].msg < v
    <3>1. q = 7 /\ lab[1].p = 7 /\ lab[1].u = v
      BY <1>3, <1>11
    <3>2. QED
      BY <1>3, <1>5, <1>11, <3>1 DEF Accounted
  <2>8. \A k \in 1..Len(r) : v < r[k].u
    <3>1. TAKE k \in 1..Len(r)
    <3>2. lab[1].u = v /\ lab[1].p = 7 /\ Size(v) = 7
      BY <1>3, <1>11
    <3>3. Before(lab[1], r[k]) /\ r[k].u \in Int /\ r[k].p \in 1..Size(r[k].u)
      BY <2>5
    <3>4. r[k].u = v => r[k].p <= 7 /\ r[k].p \in Int
      BY <3>2, <3>3
    <3>5. QED
      BY <3>2, <3>3, <3>4 DEF Before
  <2>9. Accounted(r)'
    <3> DEFINE h == [channel |-> published[v].channel, msg |-> v]
               z == Append(handled, h)
    <3>1. handled' = z /\ h.msg = v
      BY <2>4
    <3> HIDE DEF h
    <3>2. \A i \in DOMAIN z : z[i].msg = v \/ (i \in DOMAIN handled /\ z[i] = handled[i])
      BY <3>1 DEF SubTypes
    <3> HIDE DEF z
    <3>3. ASSUME NEW k \in 1..Len(r), r[k].u > 0, NEW i \in DOMAIN z PROVE z[i].msg < r[k].u
      BY <2>5, <2>8, <3>2, <3>3
    <3>4. QED
      BY <1>1, <2>5, <3>1, <3>3 DEF Accounted
  <2>10. v \notin Messages(stream')
    BY <1>3, <2>5, <2>8
  <2>11. Messages(parse'.toks) = {}
    BY <2>1, FreshIsEmpty
  <2>12. /\ v \notin (cut \cup lost \cup Pending)'
         /\ \A i : i \in cut \cup lost \cup Pending <=> i \in (cut \cup lost \cup Pending)' \/ i = v
    BY <1>1, <1>3, <1>7, <1>11, <2>5, <2>7, <2>10, <2>11 DEF Pending
  <2>13. v \in 1..Len(published)
    BY <1>3, <1>11
  <2>14. HandledExactly' /\ handled' \in Seq([channel : {"purge", "rules"}, msg : Nat])
    BY <1>1, <2>4, <2>7, <2>12, <2>13, ActsUpon
  <2>15. Subscribed'
    BY <2>5, <2>6, <2>9 DEF Subscribed
  <2>16. QED
    BY <2>14, <2>15
<1>12. QED
  BY <1>3, <1>4, <1>9, <1>10, <1>11

\* A token that is taken in step, wherever the parser is.
LEMMA PlainReadStep ==
    ASSUME SubTypes, Subscribed, HandledExactly, PlainRead
    PROVE  SubTypes' /\ Subscribed' /\ HandledExactly'
<1>1. PICK lab : Labelled(lab) /\ Accounted(lab) /\ EndsWhole(lab) /\ Cursor(lab)
  BY DEF Subscribed
<1>2. Between(lab) \/ (\E u, p \in Int : Within(lab, u, p)) \/ Skipping(lab) \/ \E u \in Int : SkippingBody(lab, u)
  BY <1>1 DEF Cursor
<1>3. /\ Subscribed' /\ HandledExactly'
      /\ handled' \in Seq([channel : {"purge", "rules"}, msg : Nat])
  <2>1. CASE Between(lab)
    BY <1>1, <2>1, ReadBetween DEF SubTypes
  <2>2. CASE \E u, p \in Int : Within(lab, u, p)
    BY <1>1, <2>2, ReadWithin
  <2>3. CASE Skipping(lab)
    BY <1>1, <2>3, ReadSkipping DEF SubTypes
  <2>4. CASE \E u \in Int : SkippingBody(lab, u)
    BY <1>1, <2>4, ReadSkippingBody DEF SubTypes
  <2>5. QED
    BY <1>2, <2>1, <2>2, <2>3, <2>4
<1>4. sub' \in {"down", "confirm", "loop"} /\ (sub' = "confirm" => confirmed' \in {0, 1})
  BY DEF PlainRead, ReadToken, Replied, SubTypes, Channels
<1>5. conn' = conn /\ conn # "closed" /\ UNCHANGED <<server, published, cut, lost>>
  BY ReadFrame DEF PlainRead, ReadToken, SubTypes
<1>6. QED
  BY <1>3, <1>4, <1>5 DEF SubTypes

\* The labels stay when the stream does.
LEMMA LabelledKept ==
    ASSUME NEW lab, Labelled(lab), published \in Seq(Payloads), UNCHANGED <<stream, published>>
    PROVE  Labelled(lab)'
<1>1. ASSUME NEW k \in 1..Len(lab) PROVE Token(lab[k].u, lab[k].p)' = Token(lab[k].u, lab[k].p)
  BY TokenKept DEF Labelled
<1>2. QED
  BY <1>1 DEF Labelled

\* What the parser has read belongs to one unit, of which the stream has the rest.
LEMMA ParserHolds ==
    ASSUME NEW lab, SubTypes, Labelled(lab), Accounted(lab), Cursor(lab)
    PROVE  /\ Messages(parse.toks) \subseteq 1..Len(published)
           /\ \A i \in Messages(parse.toks) :
                /\ Len(lab) = 0 => i \in lost \/ i \in cut
                /\ Len(lab) > 0 => lab[1].u = i /\ lab[1].p > 1
                /\ i \notin cut => \E p \in Int : Within(lab, i, p)
<1>1. published \in Seq(Payloads) /\ Len(published) \in Nat
  BY DEF SubTypes
<1>2. CASE Between(lab) \/ Skipping(lab)
  <2>1. Messages(parse.toks) = {}
    BY <1>2, FreshIsEmpty DEF Between, Skipping
  <2>2. QED
    BY <2>1
<1>3. ASSUME NEW u \in Int, NEW p \in Int, Within(lab, u, p)
      PROVE  /\ Messages(parse.toks) \subseteq 1..Len(published)
             /\ \A i \in Messages(parse.toks) :
                  /\ i = u /\ u > 0
                  /\ Len(lab) = 0 => i \in lost \/ i \in cut
                  /\ Len(lab) > 0 => lab[1].u = i /\ lab[1].p > 1
  <2>1. /\ u \in -1..Len(published) /\ u \in -2..Len(published) /\ Size(u) \in {6, 7} /\ p \in 1..Size(u)
    BY <1>1, <1>3 DEF Within, Size
  <2>2. FirstToks(parse.toks, u, p)
    BY <1>3 DEF Within, Parsing
  <2>3. Messages(parse.toks) = IF u > 0 THEN {u} ELSE {}
    BY <1>1, <2>1, <2>2, MessagesOf
  <2>4. QED
    BY <1>1, <1>3, <2>1, <2>3 DEF Within
<1>4. ASSUME NEW u \in Int, SkippingBody(lab, u)
      PROVE  /\ Messages(parse.toks) \subseteq 1..Len(published)
             /\ \A i \in Messages(parse.toks) :
                  i \in cut /\ (Len(lab) > 0 => lab[1].u = i /\ lab[1].p > 1)
  <2>1. DOMAIN parse.toks = {1} /\ parse.toks[1].msg = IF u > 0 THEN u ELSE 0
    BY <1>4 DEF SkippingBody
  <2>2. Messages(parse.toks) = {parse.toks[1].msg} \ {0}
    BY <2>1 DEF Messages
  <2>3. \A i \in Messages(parse.toks) : i = u /\ u > 0
    BY <2>1, <2>2
  <2>4. QED
    BY <1>1, <1>4, <2>3 DEF SkippingBody
<1>5. QED
  BY <1>2, <1>3, <1>4 DEF Cursor

\* A timeout: what the parser held is cut.
LEMMA TimeoutStep ==
    ASSUME SubTypes, Subscribed, HandledExactly, Timeout
    PROVE  SubTypes' /\ Subscribed' /\ HandledExactly'
<1>1. PICK lab : Labelled(lab) /\ Accounted(lab) /\ EndsWhole(lab) /\ Cursor(lab)
  BY DEF Subscribed
<1> DEFINE M == Messages(parse.toks)
<1>2. /\ sub' = "loop" /\ parse' = Fresh /\ cut' = cut \cup M
      /\ UNCHANGED <<conn, stream, confirmed, server, published, handled, lost>>
  BY DEF Timeout
<1>3. /\ M \subseteq 1..Len(published)
      /\ \A i \in M : /\ Len(lab) > 0 => lab[1].u = i /\ lab[1].p > 1
  BY <1>1, ParserHolds
<1>4. published \in Seq(Payloads) /\ Len(published) \in Nat /\ Len(lab) \in Nat
  BY <1>1 DEF SubTypes, Labelled
<1> HIDE DEF M
<1>5. SubTypes'
  BY <1>2, <1>3 DEF SubTypes
<1>6. Labelled(lab)' /\ EndsWhole(lab)'
  <2>1. Labelled(lab)'
    BY <1>1, <1>2, <1>4, LabelledKept
  <2>2. QED
    BY <1>1, <1>2, <2>1 DEF EndsWhole
<1>7. ASSUME NEW k \in 1..Len(lab), lab[k].p = 1 PROVE lab[k].u \notin M
  <2>1. 1 \in 1..Len(lab) /\ Len(lab) > 0 /\ k \in Nat
    BY <1>4
  <2>2. CASE k = 1
    <3>1. lab[1].p = 1 /\ ~(1 > 1)
      BY <1>7, <2>2
    <3>2. lab[1].u \notin M
      BY <1>3, <2>1, <3>1
    <3>3. QED
      BY <2>2, <3>2
  <2>3. CASE 1 < k
    <3>1. Before(lab[1], lab[k])
      BY <1>1, <2>1, <2>3 DEF Labelled
    <3>2. lab[1].p \in Int /\ lab[1].u \in Int /\ lab[k].u \in Int
      <4>1. lab[1].p \in 1..Size(lab[1].u) /\ lab[1].u \in -2..Len(published) /\ lab[k].u \in -2..Len(published)
        BY <1>1, <2>1 DEF Labelled
      <4>2. QED
        BY <1>4, <4>1 DEF Size
    <3>3. QED
      BY <1>3, <1>7, <2>1, <3>1, <3>2 DEF Before
  <2>4. QED
    BY <2>1, <2>2, <2>3
<1>8. Accounted(lab)'
  BY <1>1, <1>2, <1>7 DEF Accounted
<1>9. Cursor(lab)'
  <2>1. CASE Len(lab) > 0 /\ lab[1].p # 1
    <3>1. lab[1].u > 0 => lab[1].u \in cut'
      <4>1. SUFFICES ASSUME lab[1].u > 0 PROVE lab[1].u \in cut \cup M
        BY <1>2
      <4>2. ASSUME NEW u \in Int, NEW p \in Int, Within(lab, u, p) PROVE lab[1].u \in M
        <5>1. /\ u = lab[1].u /\ u \in -2..Len(published) /\ p \in 1..Size(u)
          BY <1>4, <2>1, <4>2 DEF Within, Size
        <5>2. FirstToks(parse.toks, u, p)
          BY <4>2 DEF Within, Parsing
        <5>3. QED
          BY <1>4, <4>1, <5>1, <5>2, MessagesOf DEF M
      <4>3. QED
        BY <1>1, <2>1, <4>1, <4>2 DEF Cursor, Between, Skipping, SkippingBody
    <3>2. lab[1].p > 1
      <4>1. lab[1].p \in 1..Size(lab[1].u)
        BY <1>1, <1>4, <2>1 DEF Labelled
      <4>2. QED
        BY <2>1, <4>1 DEF Size
    <3>3. Skipping(lab)'
      BY <1>2, <2>1, <3>1, <3>2 DEF Skipping
    <3>4. QED
      BY <3>3 DEF Cursor
  <2>2. CASE ~(Len(lab) > 0 /\ lab[1].p # 1)
    <3>1. Between(lab)'
      BY <1>2, <2>2 DEF Between
    <3>2. QED
      BY <3>1 DEF Cursor
  <2>3. QED
    BY <2>1, <2>2
<1>10. (cut \cup lost \cup Pending)' = cut \cup lost \cup Pending
  <2>1. Messages(parse'.toks) = {}
    BY <1>2, FreshIsEmpty
  <2>2. QED
    BY <1>2, <2>1 DEF Pending, M
<1>11. QED
  BY <1>2, <1>5, <1>6, <1>8, <1>9, <1>10, NoneHandled DEF Subscribed

\* The labels of what arrives when the connection fails.
LEMMA LabelledPrefix ==
    ASSUME NEW lab, NEW n, Labelled(lab), published \in Seq(Payloads), n \in 0..Len(stream),
           stream' = SubSeq(stream, 1, n), published' = published
    PROVE  LET r == SubSeq(lab, 1, n)
           IN  /\ Labelled(r)' /\ Len(r) = n /\ n \in Nat /\ n <= Len(lab)
               /\ \A k \in 1..n : k \in 1..Len(lab) /\ r[k] = lab[k]
<1> DEFINE r == SubSeq(lab, 1, n)
           z == SubSeq(stream, 1, n)
<1>1. stream \in Seq(Tokens) /\ lab \in Seq(Labels) /\ Len(stream) = Len(lab) /\ n \in Nat /\ n <= Len(lab)
  BY DEF Labelled
<1>2. r \in Seq(Labels) /\ Len(r) = n /\ \A k \in 1..n : r[k] = lab[k]
  BY <1>1
<1>3. z \in Seq(Tokens) /\ Len(z) = n /\ \A k \in 1..n : z[k] = stream[k]
  BY <1>1
<1>a. stream' = z
  OBVIOUS
<1> HIDE DEF r, z
<1>4. \A k \in 1..n : k \in 1..Len(lab) /\ (k + 1 <= n => k + 1 \in 1..n /\ k + 1 <= Len(lab))
  BY <1>1
<1>5. ASSUME NEW k \in 1..n
      PROVE  /\ r[k].u \in -2..Len(published) /\ r[k].p \in 1..Size(r[k].u)
             /\ z[k] = Token(r[k].u, r[k].p)'
  <2>1. /\ r[k].u \in -2..Len(published) /\ r[k].p \in 1..Size(r[k].u)
        /\ z[k] = Token(r[k].u, r[k].p)
    BY <1>2, <1>3, <1>4 DEF Labelled
  <2>2. QED
    BY <2>1, TokenKept
<1>6. ASSUME NEW k \in 1..n, NEW l \in 1..n, k < l PROVE Before(r[k], r[l])
  BY <1>2, <1>4, <1>6 DEF Labelled
<1>7. ASSUME NEW k \in 1..n, k + 1 <= n PROVE Follows(r[k], r[k + 1])
  BY <1>2, <1>4, <1>7 DEF Labelled
<1>8. Labelled(r)'
  BY <1>a, <1>2, <1>3, <1>5, <1>6, <1>7 DEF Labelled
<1>9. QED
  BY <1>1, <1>2, <1>4, <1>8 DEF r

\* The messages of a sequence that is cut in two.
LEMMA Parted ==
    ASSUME NEW lab, Labelled(lab), published \in Seq(Payloads), NEW n, n \in 0..Len(stream)
    PROVE  LET a == SubSeq(stream, 1, n)
               b == SubSeq(stream, n + 1, Len(stream))
           IN  /\ Messages(stream) = Messages(a) \cup Messages(b)
               /\ \A i \in Messages(b) : /\ i > 0 /\ i \in 1..Len(published)
                                         /\ \E k \in 1..Len(lab) : k > n /\ lab[k].u = i
               /\ \A k \in 1..Len(lab) : k > n /\ lab[k].u > 0 => lab[k].u \in Messages(b)
<1> DEFINE a == SubSeq(stream, 1, n)
           b == SubSeq(stream, n + 1, Len(stream))
           N == Len(stream)
<1>1. stream \in Seq(Tokens) /\ N = Len(lab) /\ N \in Nat /\ n \in Nat /\ n <= N /\ DOMAIN stream = 1..N
  BY DEF Labelled
<1>2. DOMAIN a = 1..n /\ \A k \in 1..n : a[k] = stream[k]
  BY <1>1
<1>3. DOMAIN b = 1..(N - n) /\ \A k \in 1..(N - n) : b[k] = stream[n + k]
  BY <1>1
<1>4. \A k \in 1..N : /\ lab[k].u \in Int
                      /\ stream[k].msg = IF lab[k].u > 0 THEN lab[k].u ELSE 0
  BY <1>1, InStream
<1>5. \A s, x : x \in Messages(s) <=> x # 0 /\ \E i \in DOMAIN s : s[i].msg = x
  BY DEF Messages
<1> HIDE DEF a, b, N
<1>6. \A x : x \in Messages(a) <=> x # 0 /\ \E k \in 1..n : stream[k].msg = x
  BY <1>2, <1>5
<1>7. \A x : x \in Messages(b) <=> x # 0 /\ \E k \in 1..N : k > n /\ stream[k].msg = x
  <2>1. TAKE x
  <2>2. x \in Messages(b) <=> x # 0 /\ \E k \in 1..(N - n) : stream[n + k].msg = x
    <3>1. x \in Messages(b) <=> x # 0 /\ \E k \in DOMAIN b : b[k].msg = x
      BY <1>5
    <3>2. QED
      BY <1>3, <3>1
  <2>3. ASSUME NEW k \in 1..(N - n) PROVE n + k \in 1..N /\ n + k > n
    BY <1>1
  <2>4. ASSUME NEW k \in 1..N, k > n PROVE k - n \in 1..(N - n) /\ n + (k - n) = k
    BY <1>1, <2>4
  <2>5. (\E k \in 1..(N - n) : stream[n + k].msg = x) <=> \E k \in 1..N : k > n /\ stream[k].msg = x
    BY <2>3, <2>4
  <2>6. QED
    BY <2>2, <2>5
<1>8. \A x : x \in Messages(stream) <=> x # 0 /\ \E k \in 1..N : stream[k].msg = x
  BY <1>1, <1>5
<1>9. Messages(stream) = Messages(a) \cup Messages(b)
  <2>1. \A k \in 1..N : k \in 1..n \/ k > n
    BY <1>1
  <2>2. \A k \in 1..n : k \in 1..N
    BY <1>1
  <2>3. QED
    BY <1>6, <1>7, <1>8, <2>1, <2>2
<1>10. Messages(stream) \subseteq 1..Len(published)
  BY InStream
<1>11. ASSUME NEW i \in Messages(b)
       PROVE  i > 0 /\ i \in 1..Len(published) /\ \E k \in 1..N : k > n /\ lab[k].u = i
  <2>1. i \in 1..Len(published)
    BY <1>9, <1>10
  <2>2. i # 0 /\ \E k \in 1..N : k > n /\ stream[k].msg = i
    BY <1>7
  <2>3. QED
    BY <1>4, <2>1, <2>2
<1>12. \A k \in 1..N : k > n /\ lab[k].u > 0 => lab[k].u \in Messages(b)
  BY <1>4, <1>7
<1>13. QED
  BY <1>1, <1>9, <1>11, <1>12 DEF a, b

\* The connection fails: what does not arrive is lost.
LEMMA FailStep ==
    ASSUME SubTypes, Subscribed, HandledExactly, NetworkFails
    PROVE  SubTypes' /\ Subscribed' /\ HandledExactly'
<1>1. PICK lab : Labelled(lab) /\ Accounted(lab) /\ EndsWhole(lab) /\ Cursor(lab)
  BY DEF Subscribed
<1>2. PICK n \in 0..Len(stream) :
         /\ stream' = SubSeq(stream, 1, n)
         /\ lost' = lost \cup Messages(SubSeq(stream, n + 1, Len(stream)))
  BY DEF NetworkFails
<1>3. /\ conn' \in {"eof", "silent"} /\ ~server'
      /\ UNCHANGED <<parse, sub, confirmed, published, handled, cut>>
  BY DEF NetworkFails
<1>4. published \in Seq(Payloads) /\ Len(published) \in Nat /\ Len(lab) \in Nat /\ lab \in Seq(Labels)
  BY <1>1 DEF SubTypes, Labelled
<1> DEFINE a == SubSeq(stream, 1, n)
           M == Messages(SubSeq(stream, n + 1, Len(stream)))
           r == SubSeq(lab, 1, n)
<1>5. /\ Messages(stream) = Messages(stream') \cup M
      /\ \A i \in M : /\ i > 0 /\ i \in 1..Len(published)
                      /\ \E k \in 1..Len(lab) : k > n /\ lab[k].u = i
      /\ \A k \in 1..Len(lab) : k > n /\ lab[k].u > 0 => lab[k].u \in M
  BY <1>1, <1>2, <1>4, Parted
<1>6. /\ Labelled(r)' /\ Len(r) = n /\ n \in Nat /\ n <= Len(lab)
      /\ \A k \in 1..n : k \in 1..Len(lab) /\ r[k] = lab[k]
  BY <1>1, <1>2, <1>3, <1>4, LabelledPrefix
<1>7. lost' = lost \cup M
  BY <1>2
<1> HIDE DEF M, r
<1>8. SubTypes'
  BY <1>3, <1>5, <1>7 DEF SubTypes
<1>9. \A k \in 1..Len(lab) : /\ lab[k].u \in Int /\ lab[k].p \in Int /\ Size(lab[k].u) \in {1, 6, 7}
                             /\ lab[k].u > 0 => Size(lab[k].u) = 7 /\ lab[k].p \in 1..7
  <2>1. \A u \in Int : Size(u) \in {1, 6, 7} /\ (u > 0 => Size(u) = 7)
    BY DEF Size
  <2>2. TAKE k \in 1..Len(lab)
  <2>3. lab[k].u \in -2..Len(published) /\ lab[k].p \in 1..Size(lab[k].u)
    BY <1>1 DEF Labelled
  <2>4. lab[k].u \in Int
    BY <1>4, <2>3
  <2>5. Size(lab[k].u) \in {1, 6, 7} /\ (lab[k].u > 0 => Size(lab[k].u) = 7)
    BY <2>1, <2>4
  <2>6. lab[k].p \in Int
    BY <2>3, <2>5
  <2>7. lab[k].u > 0 => lab[k].p \in 1..7
    BY <2>3, <2>5
  <2>8. QED
    BY <2>4, <2>5, <2>6, <2>7
<1>10. Accounted(r)'
  <2>1. ASSUME NEW k \in 1..n, r[k].u > 0, r[k].p = 7 PROVE r[k].u \notin M
    <3>1. SUFFICES ASSUME NEW j \in 1..Len(lab), j > n, lab[j].u = lab[k].u PROVE FALSE
      BY <1>5, <1>6
    <3>2. k \in 1..Len(lab) /\ k < j /\ lab[k].p = 7 /\ lab[k].u > 0
      BY <1>6, <2>1, <3>1
    <3>3. Before(lab[k], lab[j])
      BY <1>1, <3>2 DEF Labelled
    <3>4. lab[j].p \in 1..7 /\ lab[k].u \in Int
      BY <1>9, <3>1, <3>2
    <3>5. QED
      BY <3>1, <3>2, <3>3, <3>4 DEF Before
  <2>2. QED
    BY <1>1, <1>3, <1>6, <1>7, <2>1 DEF Accounted
<1>11. EndsWhole(r)'
  <2>1. SUFFICES ASSUME n > 0, lab[n].u > 0, lab[n].p < Size(lab[n].u) PROVE lab[n].u \in lost \cup M
    <3>1. n > 0 => n \in 1..n
      BY <1>6
    <3>2. n > 0 => r[n] = lab[n]
      BY <1>6, <3>1
    <3>3. QED
      BY <1>3, <1>6, <1>7, <3>2 DEF EndsWhole
  <2>2. CASE n = Len(lab)
    <3>1. Len(lab) > 0
      BY <2>1, <2>2
    <3>2. QED
      BY <1>1, <2>1, <2>2, <3>1 DEF EndsWhole
  <2>3. CASE n < Len(lab)
    <3>1. n \in 1..Len(lab) /\ n + 1 \in 1..Len(lab) /\ n + 1 <= Len(lab) /\ n + 1 > n
      BY <1>4, <1>6, <2>1, <2>3
    <3>2. Follows(lab[n], lab[n + 1])
      BY <1>1, <3>1 DEF Labelled
    <3>3. lab[n + 1].u = lab[n].u
      BY <1>9, <2>1, <3>1, <3>2 DEF Follows
    <3>4. QED
      BY <1>5, <2>1, <3>1, <3>3
  <2>4. QED
    BY <1>4, <1>6, <2>2, <2>3
<1>12. n > 0 => 1 \in 1..n /\ r[1] = lab[1] /\ Len(lab) > 0
  BY <1>4, <1>6
<1>13. Cursor(r)'
  <2>1. CASE Between(lab)
    <3>1. Between(r)'
      BY <1>3, <1>6, <1>12, <2>1 DEF Between
    <3>2. QED
      BY <3>1 DEF Cursor
  <2>2. ASSUME NEW u \in Int, NEW p \in Int, Within(lab, u, p) PROVE Cursor(r)'
    <3>1. ASSUME n = 0, u > 0 PROVE u \in lost'
      <4>1. CASE Len(lab) = 0
        BY <1>7, <2>2, <3>1, <4>1 DEF Within
      <4>2. CASE Len(lab) > 0
        <5>1. 1 \in 1..Len(lab) /\ 1 > n /\ lab[1].u = u
          BY <1>4, <2>2, <3>1, <4>2 DEF Within
        <5>2. QED
          BY <1>5, <1>7, <3>1, <5>1
      <4>3. QED
        BY <1>4, <4>1, <4>2
    <3>2. Parsing(parse, u, p)'
      <4>1. \A q \in 1..p : Token(u, q)' = Token(u, q)
        <5>1. u \in -2..Len(published)
          BY <1>4, <2>2 DEF Within
        <5>2. QED
          BY <1>3, <1>4, <5>1, TokenKept
      <4>2. QED
        BY <1>3, <2>2, <4>1 DEF Within, Parsing, FirstToks
    <3>3. Within(r, u, p)'
      BY <1>3, <1>6, <1>12, <2>2, <3>1, <3>2 DEF Within
    <3>4. QED
      BY <3>3 DEF Cursor
  <2>3. CASE Skipping(lab)
    <3>1. CASE n = 0
      <4>1. Between(r)'
        BY <1>3, <1>6, <2>3, <3>1 DEF Skipping, Between
      <4>2. QED
        BY <4>1 DEF Cursor
    <3>2. CASE n > 0
      <4>1. Skipping(r)'
        BY <1>3, <1>6, <1>12, <2>3, <3>2 DEF Skipping
      <4>2. QED
        BY <4>1 DEF Cursor
    <3>3. QED
      BY <1>6, <3>1, <3>2
  <2>4. ASSUME NEW u \in Int, SkippingBody(lab, u) PROVE Cursor(r)'
    <3>1. SkippingBody(r, u)'
      BY <1>3, <1>6, <1>12, <2>4 DEF SkippingBody
    <3>2. QED
      BY <3>1 DEF Cursor
  <2>5. QED
    BY <1>1, <2>1, <2>2, <2>3, <2>4 DEF Cursor
<1>14. (cut \cup lost \cup Pending)' = cut \cup lost \cup Pending
  BY <1>3, <1>5, <1>7 DEF Pending
<1>15. QED
  BY <1>3, <1>6, <1>8, <1>10, <1>11, <1>13, <1>14, NoneHandled DEF Subscribed

\* In step, the parser has no bulk string under way with the length of a payload's text,
\* and is starved only when the stream is empty.
LEMMA InStepStarves ==
    ASSUME Subscribed
    PROVE  ~OfLength /\ (Starved => stream = <<>>)
<1>1. PICK lab : Labelled(lab) /\ Cursor(lab)
  BY DEF Subscribed
<1>2. ASSUME OfLength PROVE FALSE
  <2>1. parse.body /\ parse.toks[Len(parse.toks)].kind = "length"
    BY <1>2 DEF OfLength
  <2>2. ASSUME parse.toks \in Seq(Tokens), Len(parse.toks) > 0 PROVE FALSE
    <3>1. Len(parse.toks) \in 1..Len(parse.toks)
      BY <2>2
    <3>2. parse.toks[Len(parse.toks)] \in Tokens
      BY <2>2, <3>1, ElementOfSeq
    <3>3. QED
      BY <2>1, <3>2 DEF Tokens, TokenKinds
  <2>3. parse # Fresh
    BY <2>1 DEF Fresh
  <2>4. ASSUME NEW u \in Int, NEW p \in Int, Within(lab, u, p) PROVE FALSE
    BY <2>2, <2>4 DEF Within, Parsing, FirstToks
  <2>5. ASSUME NEW u \in Int, SkippingBody(lab, u) PROVE FALSE
    BY <2>2, <2>5 DEF SkippingBody
  <2>6. QED
    BY <1>1, <2>3, <2>4, <2>5 DEF Cursor, Between, Skipping
<1>3. ASSUME Len(stream) = 1, Head(stream).kind = "lf" PROVE FALSE
  <2>1. stream \in Seq(Tokens)
    BY <1>1 DEF Labelled
  <2>2. Head(stream) = stream[1] /\ 1 \in 1..Len(stream)
    BY <1>3, <2>1
  <2>3. stream[1] \in Tokens
    BY <2>1, <2>2, ElementOfSeq
  <2>4. QED
    BY <1>3, <2>2, <2>3 DEF Tokens, TokenKinds
<1>4. QED
  BY <1>2, <1>3 DEF Starved

\* Redis closes the connection: what the parser holds was lost or cut before.
LEMMA EofStep ==
    ASSUME SubTypes, Subscribed, HandledExactly, SubscriberEof
    PROVE  SubTypes' /\ Subscribed' /\ HandledExactly'
<1>1. PICK lab : Labelled(lab) /\ Accounted(lab) /\ EndsWhole(lab) /\ Cursor(lab)
  BY DEF Subscribed
<1>2. /\ conn = "eof" /\ stream = <<>> /\ conn' = "closed" /\ stream' = <<>> /\ parse' = Fresh /\ sub' = "down"
      /\ UNCHANGED <<confirmed, server, published, handled, cut, lost>>
  BY InStepStarves DEF SubscriberEof, Close
<1>3. published \in Seq(Payloads) /\ Len(lab) = 0 /\ ~server
  BY <1>1, <1>2 DEF SubTypes, Labelled
<1>4. SubTypes'
  BY <1>2, <1>3 DEF SubTypes
<1>5. Labelled(lab)'
  BY <1>1, <1>2, <1>3, LabelledKept
<1>6. Accounted(lab)' /\ EndsWhole(lab)'
  BY <1>3 DEF Accounted, EndsWhole
<1>7. Between(lab)'
  BY <1>2, <1>3 DEF Between
<1>8. Subscribed'
  BY <1>5, <1>6, <1>7 DEF Subscribed, Cursor
<1>9. Messages(parse.toks) \subseteq lost \cup cut /\ Messages(parse'.toks) = {}
  BY <1>1, <1>2, <1>3, ParserHolds, FreshIsEmpty
<1>10. (cut \cup lost \cup Pending)' = cut \cup lost \cup Pending
  BY <1>2, <1>9, FreshIsEmpty DEF Pending
<1>11. QED
  BY <1>2, <1>4, <1>8, <1>10, NoneHandled

\* Redis has answered the SUBSCRIBE on a new connection.
LEMMA Subscribing ==
    ASSUME SubTypes, HandledExactly, conn = "closed", parse' = Fresh, sub' = "confirm", confirmed' = 0,
           UNCHANGED <<published, handled, cut, lost>>,
           NEW lab, Labelled(lab)', Len(lab) \in Nat, Len(lab) > 0,
           \A k \in 1..Len(lab) : lab[k].u \in {-2, -1, 0},
           server' => lab[Len(lab)].u = 0 /\ lab[Len(lab)].p = 6,
           lab[1].p = 1 /\ lab[1].u \in {-2, -1}
    PROVE  Subscribed' /\ HandledExactly'
<1>1. published \in Seq(Payloads) /\ Len(published) \in Nat /\ stream = <<>> /\ parse = Fresh
  BY DEF SubTypes
<1>2. Pending = {}
  BY <1>1, FreshIsEmpty DEF Pending
<1>3. Accounted(lab)' /\ EndsWhole(lab)'
  BY DEF Accounted, EndsWhole, Size
<1>4. Between(lab)'
  BY DEF Between
<1>5. Subscribed'
  BY <1>3, <1>4 DEF Subscribed, Cursor
<1>6. Messages(stream') = {}
  <2>1. stream' \in Seq(Tokens) /\ Len(lab) = Len(stream')
    BY DEF Labelled
  <2>2. ASSUME NEW k \in 1..Len(stream') PROVE stream'[k].msg = 0
    <3>1. lab[k].u \in -2..Len(published) /\ lab[k].p \in 1..Size(lab[k].u)
          /\ stream'[k] = Token(lab[k].u, lab[k].p)'
      BY <2>1 DEF Labelled
    <3>2. stream'[k] = Token(lab[k].u, lab[k].p)
      BY <1>1, <3>1, TokenKept
    <3>3. ~(lab[k].u > 0)
      BY <2>1
    <3>4. QED
      BY <1>1, <3>1, <3>2, <3>3, TokenFields
  <2>3. QED
    BY <2>1, <2>2 DEF Messages
<1>7. Pending' = {}
  BY <1>6, FreshIsEmpty DEF Pending
<1>8. (cut \cup lost \cup Pending)' = cut \cup lost \cup Pending
  BY <1>2, <1>7
<1>9. QED
  BY <1>5, <1>8, NoneHandled

\* SUBSCRIBE: the confirmations, or the error.
LEMMA SubscribeStep ==
    ASSUME SubTypes, Subscribed, HandledExactly, Subscribe
    PROVE  SubTypes' /\ Subscribed' /\ HandledExactly'
<1>1. /\ conn = "closed" /\ conn' = "up" /\ parse' = Fresh /\ sub' = "confirm" /\ confirmed' = 0
      /\ UNCHANGED <<published, handled, cut, lost>>
      /\ \/ server' = TRUE /\ stream' = Confirmation(Channels[1]) \o Confirmation(Channels[2])
         \/ server' = FALSE /\ stream' = <<Line("error")>>
  BY DEF Subscribe, Connect
<1>2. published \in Seq(Payloads) /\ Len(published) \in Nat /\ stream = <<>> /\ parse = Fresh
  BY <1>1 DEF SubTypes
<1>3. SubTypes'
  BY <1>1 DEF SubTypes
<1>4. CASE server' = TRUE /\ stream' = Confirmation(Channels[1]) \o Confirmation(Channels[2])
  <2> DEFINE a == Confirmation("purge")
             b == Confirmation("rules")
             z == a \o b
             lab == [k \in 1..12 |-> IF k <= 6 THEN [u |-> -1, p |-> k] ELSE [u |-> 0, p |-> k - 6]]
  <2>1. stream' = z
    BY <1>4 DEF Channels
  <2>2. a \in Seq(Tokens) /\ Len(a) = 6 /\ b \in Seq(Tokens) /\ Len(b) = 6
    BY ConfirmationToks, InWords
  <2>3. \A p \in 1..6 : a[p] = Token(-1, p) /\ b[p] = Token(0, p)
    BY DEF Token, Channels
  <2> HIDE DEF a, b
  <2>a. /\ z \in Seq(Tokens) /\ Len(z) = Len(a) + Len(b)
        /\ \A k \in 1..Len(a) + Len(b) : z[k] = IF k <= Len(a) THEN a[k] ELSE b[k - Len(a)]
    <3>1. a \in Seq(Tokens) /\ b \in Seq(Tokens)
      BY <2>2
    <3>2. QED
      BY ONLY <3>1, ConcatProperties
  <2> HIDE DEF z
  <2>4. /\ z \in Seq(Tokens) /\ Len(z) = 12
        /\ \A k \in 1..12 : z[k] = IF k <= 6 THEN a[k] ELSE b[k - 6]
    BY <2>2, <2>a
  <2>5. lab \in Seq(Labels) /\ Len(lab) = 12
    BY DEF Labels
  <2>6. \A k \in 1..12 : /\ lab[k].u = IF k <= 6 THEN -1 ELSE 0
                         /\ lab[k].p = IF k <= 6 THEN k ELSE k - 6
    OBVIOUS
  <2> HIDE DEF z, lab
  <2>7. ASSUME NEW k \in 1..12
        PROVE  /\ lab[k].u \in -2..Len(published) /\ lab[k].p \in 1..Size(lab[k].u)
               /\ z[k] = Token(lab[k].u, lab[k].p)'
    <3>1. CASE k <= 6
      <4>1. lab[k].u = -1 /\ lab[k].p = k /\ z[k] = Token(-1, k) /\ k \in 1..6
        BY <2>3, <2>4, <2>6, <3>1
      <4>2. QED
        BY <1>1, <1>2, <4>1, TokenKept DEF Size
    <3>2. CASE ~(k <= 6)
      <4>1. lab[k].u = 0 /\ lab[k].p = k - 6 /\ z[k] = Token(0, k - 6) /\ k - 6 \in 1..6
        BY <2>3, <2>4, <2>6, <3>2
      <4>2. QED
        BY <1>1, <1>2, <4>1, TokenKept DEF Size
    <3>3. QED
      BY <3>1, <3>2
  <2>8. ASSUME NEW k \in 1..12, NEW l \in 1..12, k < l PROVE Before(lab[k], lab[l])
    BY <2>6, <2>8 DEF Before
  <2>9. ASSUME NEW k \in 1..12, k + 1 <= 12 PROVE Follows(lab[k], lab[k + 1])
    <3>1. k + 1 \in 1..12
      BY <2>9
    <3>2. QED
      BY <2>6, <2>9, <3>1 DEF Follows, Size
  <2>10. Labelled(lab)'
    BY <1>1, <2>1, <2>4, <2>5, <2>7, <2>8, <2>9 DEF Labelled
  <2>11. /\ Len(lab) \in Nat /\ Len(lab) > 0
         /\ \A k \in 1..Len(lab) : lab[k].u \in {-2, -1, 0}
         /\ server' => lab[Len(lab)].u = 0 /\ lab[Len(lab)].p = 6
         /\ lab[1].p = 1 /\ lab[1].u \in {-2, -1}
    BY <2>5, <2>6
  <2>12. QED
    BY <1>1, <1>3, <2>10, <2>11, Subscribing
<1>5. CASE server' = FALSE /\ stream' = <<Line("error")>>
  <2> DEFINE x == [u |-> -2, p |-> 1]
             t == Line("error")
             lab == <<x>>
  <2>1. x \in Labels /\ x.u = -2 /\ x.p = 1 /\ t = Token(-2, 1) /\ t = Token(-2, 1)'
    BY DEF Labels, Token
  <2>2. t \in Tokens
    BY AToken, InWords, InKinds DEF Line
  <2>3. stream' = <<t>>
    BY <1>5
  <2> HIDE DEF x, t
  <2>4. lab \in Seq(Labels) /\ Len(lab) = 1 /\ lab[1] = x /\ stream' \in Seq(Tokens) /\ Len(stream') = 1
        /\ stream'[1] = t
    BY <2>1, <2>2, <2>3
  <2> HIDE DEF lab
  <2>5. Labelled(lab)'
    BY <1>2, <2>1, <2>4 DEF Labelled, Size
  <2>6. /\ Len(lab) \in Nat /\ Len(lab) > 0
        /\ \A k \in 1..Len(lab) : lab[k].u \in {-2, -1, 0}
        /\ server' => lab[Len(lab)].u = 0 /\ lab[Len(lab)].p = 6
        /\ lab[1].p = 1 /\ lab[1].u \in {-2, -1}
    BY <1>5, <2>1, <2>4
  <2>7. QED
    BY <1>1, <1>3, <2>5, <2>6, Subscribing
<1>6. QED
  BY <1>1, <1>4, <1>5

\* The parser does not move when a message is published.
LEMMA CursorKept ==
    ASSUME NEW lab, NEW l, NEW m, SubTypes, Cursor(lab), published' = Append(published, m),
           UNCHANGED <<parse, sub, confirmed, server, cut>>, lost \subseteq lost',
           Len(lab) \in Nat, Len(l) \in Nat,
           Len(lab) > 0 => Len(l) > 0 /\ l[1] = lab[1],
           Len(lab) = 0 /\ Len(l) > 0 => server /\ l[1].p = 1
    PROVE  Cursor(l)'
<1>1. published \in Seq(Payloads) /\ Len(published) \in Nat /\ Len(published') = Len(published) + 1
  BY DEF SubTypes
<1>2. CASE Between(lab)
  <2>1. Between(l)'
    BY <1>2 DEF Between
  <2>2. QED
    BY <2>1 DEF Cursor
<1>3. ASSUME NEW u \in Int, NEW p \in Int, Within(lab, u, p) PROVE Cursor(l)'
  <2>1. u \in -2..Len(published) /\ u \in -1..Len(published')
    BY <1>1, <1>3 DEF Within
  <2>2. \A q \in 1..p : Token(u, q)' = Token(u, q)
    BY <1>1, <2>1, TokenKept
  <2>3. Parsing(parse, u, p)'
    BY <1>3, <2>2 DEF Within, Parsing, FirstToks
  <2>4. Within(l, u, p)'
    BY <1>3, <2>1, <2>3 DEF Within
  <2>5. QED
    BY <2>4 DEF Cursor
<1>4. CASE Skipping(lab)
  <2>1. Skipping(l)'
    BY <1>4 DEF Skipping
  <2>2. QED
    BY <2>1 DEF Cursor
<1>5. ASSUME NEW u \in Int, SkippingBody(lab, u) PROVE Cursor(l)'
  <2>1. u \in -1..Len(published')
    BY <1>1, <1>5 DEF SkippingBody
  <2>2. SkippingBody(l, u)'
    BY <1>5, <2>1 DEF SkippingBody
  <2>3. QED
    BY <2>2 DEF Cursor
<1>6. QED
  BY <1>2, <1>3, <1>4, <1>5 DEF Cursor

\* One message more, which is pending or lost.
LEMMA OneMoreMessage ==
    ASSUME SubTypes, HandledExactly, NEW m, published' = Append(published, m), handled' = handled,
           (cut \cup lost \cup Pending)' = (cut \cup lost \cup Pending) \cup {Len(published) + 1}
    PROVE  HandledExactly'
<1> DEFINE N == Len(published) + 1
           z == Append(published, m)
<1>1. /\ published \in Seq(Payloads) /\ Len(published) \in Nat /\ DOMAIN published = 1..Len(published)
      /\ DOMAIN z = 1..N /\ \A i \in 1..Len(published) : z[i] = published[i]
  BY DEF SubTypes
<1>a. published' = z
  OBVIOUS
<1> HIDE DEF z
<1>2. DOMAIN z = DOMAIN published \cup {N} /\ N \notin DOMAIN published
  BY <1>1
<1>3. /\ \A i \in DOMAIN handled : handled[i].msg \in DOMAIN published /\ handled[i].channel = published[handled[i].msg].channel
      /\ \A i, j \in DOMAIN handled : i < j => handled[i].msg < handled[j].msg
      /\ Messages(handled) = DOMAIN published \ (cut \cup lost \cup Pending)
  BY DEF HandledExactly
<1>4. Messages(handled) = DOMAIN z \ (cut \cup lost \cup Pending)'
  BY <1>2, <1>3
<1>5. \A i \in DOMAIN handled : handled[i].msg \in DOMAIN z /\ handled[i].channel = z[handled[i].msg].channel
  BY <1>1, <1>2, <1>3
<1>6. QED
  BY <1>a, <1>3, <1>4, <1>5 DEF HandledExactly

\* A message is published.
LEMMA PublishStep ==
    ASSUME SubTypes, Subscribed, HandledExactly, ~astray, NEW m \in Payloads, Publish(m)
    PROVE  SubTypes' /\ Subscribed' /\ HandledExactly'
<1>1. PICK lab : Labelled(lab) /\ Accounted(lab) /\ EndsWhole(lab) /\ Cursor(lab)
  BY DEF Subscribed
<1>0. PICK N : N = Len(published) + 1
  OBVIOUS
<1>2. /\ published' = Append(published, m)
      /\ UNCHANGED <<conn, parse, sub, confirmed, server, handled, cut>>
      /\ server => stream' = stream \o MessageTokens(Len(published'), m) /\ lost' = lost
      /\ ~server => lost' = lost \cup {Len(published')} /\ stream' = stream
  BY DEF Publish
<1>3. /\ published \in Seq(Payloads) /\ Len(published) \in Nat /\ N \in Nat
      /\ published' \in Seq(Payloads) /\ Len(published') = N /\ published'[N] = m
      /\ lab \in Seq(Labels) /\ stream \in Seq(Tokens) /\ Len(lab) \in Nat /\ Len(lab) = Len(stream)
      /\ cut \subseteq 1..Len(published) /\ lost \subseteq 1..Len(published)
  BY <1>0, <1>1, <1>2 DEF SubTypes, Labelled
<1>4. ASSUME NEW k \in 1..Len(lab)
      PROVE  /\ lab[k].u \in -2..Len(published) /\ lab[k].u < N /\ lab[k].u \in Int
             /\ lab[k].p \in 1..Size(lab[k].u) /\ stream[k] = Token(lab[k].u, lab[k].p)'
  <2>1. lab[k].u \in -2..Len(published) /\ lab[k].p \in 1..Size(lab[k].u) /\ stream[k] = Token(lab[k].u, lab[k].p)
    BY <1>1 DEF Labelled
  <2>2. stream[k] = Token(lab[k].u, lab[k].p)'
    BY <1>2, <1>3, <2>1, TokenKept
  <2>3. QED
    BY <1>0, <1>3, <2>1, <2>2
<1>5. SubTypes'
  <2>1. lost' \subseteq 1..N /\ cut \subseteq 1..N
    <3>1. \A i \in 1..Len(published) : i \in 1..N
      BY <1>0, <1>3
    <3>2. N \in 1..N
      BY <1>0, <1>3
    <3>3. QED
      BY <1>2, <1>3, <3>1, <3>2
  <2>2. conn = "closed" => ~server
    BY DEF SubTypes
  <2>3. conn' = "closed" => stream' = <<>> /\ parse' = Fresh
    BY <1>2, <2>2 DEF SubTypes
  <2>4. QED
    BY <1>2, <1>3, <2>1, <2>3 DEF SubTypes
<1>6. CASE ~server
  <2>1. stream' = stream /\ lost' = lost \cup {N}
    BY <1>2, <1>3, <1>6
  <2>2. Labelled(lab)'
    <3>1. \A k \in 1..Len(lab) : lab[k].u \in -2..Len(published')
      BY <1>0, <1>3, <1>4
    <3>2. QED
      BY <1>1, <1>4, <2>1, <3>1 DEF Labelled
  <2>3. Accounted(lab)'
    BY <1>1, <1>2, <1>4, <2>1 DEF Accounted
  <2>4. EndsWhole(lab)'
    BY <1>1, <1>2, <2>1 DEF EndsWhole
  <2>5. Cursor(lab)'
    BY <1>1, <1>2, <1>3, <2>1, CursorKept
  <2>6. (cut \cup lost \cup Pending)' = (cut \cup lost \cup Pending) \cup {N}
    BY <1>2, <2>1 DEF Pending
  <2>7. HandledExactly'
    BY <1>0, <1>2, <2>6, OneMoreMessage
  <2>8. QED
    BY <1>5, <2>2, <2>3, <2>4, <2>5, <2>7 DEF Subscribed
<1>7. CASE server
  <2> DEFINE b == MessageTokens(N, m)
             y == [k \in 1..7 |-> [u |-> N, p |-> k]]
             z == stream \o b
             l == lab \o y
             n == Len(lab)
  <2>1. stream' = z /\ lost' = lost
    BY <1>2, <1>3, <1>7
  <2>2. b \in Seq(Tokens) /\ Len(b) = 7
    BY <1>0, <1>3, MessageToks
  <2>3. \A p \in 1..7 : b[p] = Token(N, p)'
    BY <1>0, <1>3 DEF Token
  <2>4. y \in Seq(Labels) /\ Len(y) = 7 /\ \A k \in 1..7 : y[k].u = N /\ y[k].p = k
    BY <1>0, <1>3 DEF Labels
  <2> HIDE DEF b, y
  <2>5. /\ l \in Seq(Labels) /\ Len(l) = n + 7
        /\ \A k \in 1..(n + 7) : l[k] = IF k <= n THEN lab[k] ELSE y[k - n]
    <3>1. lab \in Seq(Labels) /\ y \in Seq(Labels)
      BY <1>0, <1>3, <2>4
    <3>2. /\ l \in Seq(Labels) /\ Len(l) = Len(lab) + Len(y)
          /\ \A k \in 1..Len(lab) + Len(y) : l[k] = IF k <= Len(lab) THEN lab[k] ELSE y[k - Len(lab)]
      BY ONLY <3>1, ConcatProperties
    <3> HIDE DEF l
    <3>3. QED
      BY <2>4, <3>2
  <2>6. /\ z \in Seq(Tokens) /\ Len(z) = n + 7
        /\ \A k \in 1..(n + 7) : z[k] = IF k <= n THEN stream[k] ELSE b[k - n]
    <3>1. stream \in Seq(Tokens) /\ b \in Seq(Tokens)
      BY <1>0, <1>3, <2>2
    <3>2. /\ z \in Seq(Tokens) /\ Len(z) = Len(stream) + Len(b)
          /\ \A k \in 1..Len(stream) + Len(b) : z[k] = IF k <= Len(stream) THEN stream[k] ELSE b[k - Len(stream)]
      BY ONLY <3>1, ConcatProperties
    <3> HIDE DEF z
    <3>3. QED
      BY <1>0, <1>3, <2>2, <3>2
  <2>7. n \in Nat /\ n = Len(lab)
    BY <1>0, <1>3
  <2> HIDE DEF z, l, n
  <2>8. ASSUME NEW k \in 1..(n + 7)
        PROVE  \/ k \in 1..n /\ l[k] = lab[k] /\ z[k] = stream[k]
               \/ /\ k > n /\ k - n \in 1..7 /\ l[k].u = N /\ l[k].p = k - n
                  /\ z[k] = Token(N, k - n)'
    <3>1. CASE k <= n
      BY <2>5, <2>6, <2>7, <3>1
    <3>2. CASE ~(k <= n)
      <4>1. k - n \in 1..7 /\ k > n
        BY <2>7, <3>2
      <4>2. l[k] = y[k - n] /\ z[k] = b[k - n]
        BY <2>5, <2>6, <3>2
      <4>3. QED
        BY <2>3, <2>4, <4>1, <4>2
    <3>3. QED
      BY <3>1, <3>2
  <2>9. Size(N) = 7 /\ N \in -2..Len(published') /\ N > 0 /\ N \in Int
    BY <1>0, <1>3 DEF Size
  <2>10. ASSUME NEW k \in 1..(n + 7)
         PROVE  /\ l[k].u \in -2..Len(published') /\ l[k].p \in 1..Size(l[k].u)
                /\ z[k] = Token(l[k].u, l[k].p)'
    <3>1. CASE k \in 1..n /\ l[k] = lab[k] /\ z[k] = stream[k]
      BY <1>0, <1>3, <1>4, <2>7, <3>1
    <3>2. CASE k > n /\ k - n \in 1..7 /\ l[k].u = N /\ l[k].p = k - n /\ z[k] = Token(N, k - n)'
      BY <2>9, <3>2
    <3>3. QED
      BY <2>8, <3>1, <3>2
  <2>11. ASSUME NEW j \in 1..(n + 7), NEW k \in 1..(n + 7), j < k PROVE Before(l[j], l[k])
    <3>1. CASE k \in 1..n /\ l[k] = lab[k]
      <4>1. j \in 1..n /\ l[j] = lab[j]
        BY <2>7, <2>8, <2>11, <3>1
      <4>2. QED
        BY <1>1, <2>7, <2>11, <3>1, <4>1 DEF Labelled
    <3>2. CASE k > n /\ k - n \in 1..7 /\ l[k].u = N /\ l[k].p = k - n
      <4>1. CASE j \in 1..n /\ l[j] = lab[j]
        BY <1>4, <2>7, <3>2, <4>1 DEF Before
      <4>2. CASE j > n /\ j - n \in 1..7 /\ l[j].u = N /\ l[j].p = j - n
        BY <2>7, <2>11, <3>2, <4>2 DEF Before
      <4>3. QED
        BY <2>8, <4>1, <4>2
    <3>3. QED
      BY <2>8, <3>1, <3>2
  <2>12. ASSUME NEW k \in 1..(n + 7), k + 1 <= n + 7 PROVE Follows(l[k], l[k + 1])
    <3>0. k + 1 \in 1..(n + 7) /\ k \in Nat
      BY <2>7, <2>12
    <3>1. CASE k + 1 <= n
      <4>1. k \in 1..n /\ k + 1 \in 1..n /\ l[k] = lab[k] /\ l[k + 1] = lab[k + 1]
        BY <2>5, <2>7, <3>0, <3>1
      <4>2. QED
        BY <1>1, <2>7, <3>1, <4>1 DEF Labelled
    <3>2. CASE k = n
      <4>1. n \in 1..n /\ l[n] = lab[n] /\ n > 0
        BY <2>5, <2>7, <3>0, <3>2
      <4>2. l[n + 1].u = N /\ l[n + 1].p = 1
        BY <2>7, <2>8, <3>0, <3>2
      <4>3. lab[n].u >= 0 /\ lab[n].p = Size(lab[n].u)
        BY <1>1, <1>7, <2>7, <4>1 DEF EndsWhole
      <4>4. lab[n].u < N /\ lab[n].u \in Int
        BY <1>4, <2>7, <4>1
      <4>5. Follows(lab[n], l[n + 1])
        BY <4>2, <4>3, <4>4 DEF Follows
      <4>6. QED
        BY <3>2, <4>1, <4>5
    <3>3. CASE k > n
      <4>1. l[k].u = N /\ l[k].p = k - n /\ l[k + 1].u = N /\ l[k + 1].p = (k + 1) - n
        BY <2>7, <2>8, <3>0, <3>3
      <4>2. (k + 1) - n = (k - n) + 1
        BY <2>7, <3>0
      <4>3. QED
        BY <4>1, <4>2 DEF Follows
    <3>4. QED
      BY <2>7, <3>0, <3>1, <3>2, <3>3
  <2>13. Labelled(l)'
    BY <2>1, <2>5, <2>6, <2>10, <2>11, <2>12 DEF Labelled
  <2>14. Accounted(l)'
    <3>1. N \notin lost /\ N \notin cut
      BY <1>0, <1>3
    <3>2. \A i \in DOMAIN handled : handled[i].msg < N
      BY <1>0, <1>3 DEF HandledExactly
    <3>3. ASSUME NEW k \in 1..(n + 7), l[k].u > 0
          PROVE  /\ l[k].p = 7 => l[k].u \notin lost
                 /\ l[k].p = 1 => l[k].u \notin cut
                 /\ \A i \in DOMAIN handled : handled[i].msg < l[k].u
      BY <1>1, <2>7, <2>8, <3>1, <3>2, <3>3 DEF Accounted
    <3>4. QED
      BY <1>2, <2>1, <2>5, <3>3 DEF Accounted
  <2>15. EndsWhole(l)'
    <3>1. l[n + 7].u = N /\ l[n + 7].p = 7
      <4>1. n + 7 \in 1..(n + 7) /\ n + 7 > n /\ (n + 7) - n = 7
        BY <2>7
      <4>2. QED
        BY <2>7, <2>8, <4>1
    <3>2. QED
      BY <2>5, <2>9, <3>1 DEF EndsWhole
  <2>16. Cursor(l)'
    <3>1. Len(l) \in Nat /\ Len(l) > 0 /\ 1 \in 1..(n + 7)
      BY <2>5, <2>7
    <3>2. Len(lab) > 0 => l[1] = lab[1]
      BY <2>5, <2>7, <3>1
    <3>3. Len(lab) = 0 => l[1].p = 1
      BY <2>7, <2>8, <3>1
    <3>4. QED
      BY <1>1, <1>2, <1>3, <1>7, <2>1, <3>1, <3>2, <3>3, CursorKept
  <2>17. Messages(z) = Messages(stream) \cup {N}
    <3>1. \A s, x : x \in Messages(s) <=> x # 0 /\ \E i \in DOMAIN s : s[i].msg = x
      BY DEF Messages
    <3>2. DOMAIN z = 1..(n + 7) /\ DOMAIN stream = 1..n
      BY <1>0, <1>3, <2>6, <2>7
    <3>3. \A p \in 1..7 : b[p].msg = N
      <4>1. /\ b[1] = Tok("array", 3, None, N)
            /\ b[2] = Tok("bulk", 0, None, N) /\ b[3] = Tok("word", 0, "message", N)
            /\ b[4] = Tok("bulk", 0, None, N) /\ b[5] = Tok("word", 0, m.channel, N)
            /\ b[6] = Tok("bulk", 0, None, N) /\ b[7] = Tok("payload", 0, m.lines, N)
        BY <1>0, <1>3, MessageToks DEF b
      <4>2. b[1].msg = N /\ b[2].msg = N /\ b[3].msg = N /\ b[4].msg = N /\ b[5].msg = N
            /\ b[6].msg = N /\ b[7].msg = N
        BY <4>1 DEF Tok
      <4>3. QED
        BY <4>2
    <3>4. \A k \in 1..(n + 7) : (k \in 1..n /\ z[k] = stream[k]) \/ z[k].msg = N
      BY <2>6, <2>7, <3>3
    <3>5. \A k \in 1..n : k \in 1..(n + 7) /\ z[k] = stream[k]
      BY <2>6, <2>7
    <3>6. n + 1 \in 1..(n + 7) /\ z[n + 1].msg = N
      BY <2>6, <2>7, <3>3
    <3>7. \A x : x \in Messages(z) <=> x # 0 /\ \E k \in 1..(n + 7) : z[k].msg = x
      BY <3>1, <3>2
    <3>8. \A x : x \in Messages(stream) <=> x # 0 /\ \E k \in 1..n : stream[k].msg = x
      BY <3>1, <3>2
    <3>9. \A x : (\E k \in 1..(n + 7) : z[k].msg = x) <=> x = N \/ \E k \in 1..n : stream[k].msg = x
      BY <3>4, <3>5, <3>6
    <3>10. N # 0
      BY <2>9
    <3>11. \A x : x \in Messages(z) <=> x \in Messages(stream) \cup {N}
      BY <3>7, <3>8, <3>9, <3>10
    <3>12. QED
      BY <3>11
  <2>18. (cut \cup lost \cup Pending)' = (cut \cup lost \cup Pending) \cup {N}
    BY <1>2, <2>1, <2>17 DEF Pending
  <2>19. HandledExactly'
    BY <1>0, <1>2, <2>18, OneMoreMessage
  <2>20. QED
    BY <1>5, <2>13, <2>14, <2>15, <2>16, <2>19 DEF Subscribed
<1>8. QED
  BY <1>6, <1>7

-----------------------------------------------------------------------------
(* Out of step: everything sent and not yet read is accounted for already, *)
(* so that it does not matter what the parser makes of it.                 *)

\* The messages of a part of a sequence.
LEMMA PartMessages ==
    ASSUME NEW S, NEW s \in Seq(S), NEW a \in Nat, NEW b \in Nat, a >= 1, b <= Len(s)
    PROVE  SubSeq(s, a, b) \in Seq(S) /\ Messages(SubSeq(s, a, b)) \subseteq Messages(s)
<1> DEFINE z == SubSeq(s, a, b)
<1>1. z \in Seq(S) /\ \A i \in DOMAIN z : i + a - 1 \in DOMAIN s /\ z[i] = s[i + a - 1]
  <2>1. \A i \in a..b : s[i] \in S
    OBVIOUS
  <2>2. /\ z \in Seq(S) /\ Len(z) = IF a <= b THEN b - a + 1 ELSE 0
        /\ \A i \in 1..Len(z) : z[i] = s[a + i - 1]
    BY <2>1, SubSeqProperties
  <2> HIDE DEF z
  <2>3. DOMAIN z = 1..Len(z) /\ Len(z) \in Nat /\ DOMAIN s = 1..Len(s)
    BY <2>2
  <2>4. ASSUME NEW i \in DOMAIN z PROVE i + a - 1 \in DOMAIN s /\ z[i] = s[i + a - 1]
    BY <2>2, <2>3
  <2>5. QED
    BY <2>2, <2>4
<1> HIDE DEF z
<1>2. Messages(z) \subseteq Messages(s)
  BY <1>1 DEF Messages
<1>3. QED
  BY <1>1, <1>2 DEF z

\* The messages without the first token's.
LEMMA TailMessages ==
    ASSUME NEW S, NEW s \in Seq(S), s # <<>>
    PROVE  /\ Tail(s) \in Seq(S) /\ Len(Tail(s)) = Len(s) - 1
           /\ Messages(Tail(s)) \subseteq Messages(s)
           /\ \A i \in Messages(s) : i = Head(s).msg \/ i \in Messages(Tail(s))
           /\ Head(s).msg \in Messages(s) \cup {0}
<1> DEFINE z == Tail(s)
<1>1. z \in Seq(S) /\ Len(z) = Len(s) - 1 /\ \A i \in 1..Len(z) : z[i] = s[i + 1]
  BY HeadTailProperties
<1>2. DOMAIN s = 1..Len(s) /\ Len(s) \in Nat /\ Len(s) >= 1 /\ Head(s) = s[1]
  OBVIOUS
<1> HIDE DEF z
<1>3. DOMAIN z = 1..Len(z) /\ Len(z) \in Nat
  BY <1>1
<1>4. ASSUME NEW i \in DOMAIN z PROVE i + 1 \in DOMAIN s /\ z[i] = s[i + 1]
  BY <1>1, <1>2, <1>3
<1>5. ASSUME NEW i \in DOMAIN s PROVE s[i] = Head(s) \/ (i - 1 \in DOMAIN z /\ s[i] = z[i - 1])
  BY <1>1, <1>2, <1>3
<1>6. Messages(z) \subseteq Messages(s)
  BY <1>4 DEF Messages
<1>7. \A i \in Messages(s) : i = Head(s).msg \/ i \in Messages(z)
  BY <1>5 DEF Messages
<1>8. 1 \in DOMAIN s
  BY <1>2
<1>9. Head(s).msg \in Messages(s) \cup {0}
  BY <1>2, <1>8 DEF Messages
<1>10. QED
  BY <1>1, <1>6, <1>7, <1>9 DEF z

\* The messages with a token's before or behind.
LEMMA PutMessages ==
    ASSUME NEW S, NEW s \in Seq(S), NEW t
    PROVE  /\ \E R : <<t>> \o s \in Seq(R) /\ Append(s, t) \in Seq(R)
           /\ Messages(<<t>> \o s) \subseteq Messages(s) \cup {t.msg}
           /\ Messages(s) \subseteq Messages(<<t>> \o s)
           /\ Messages(Append(s, t)) \subseteq Messages(s) \cup {t.msg}
<1> DEFINE R == S \cup {t}
           x == <<t>> \o s
           y == Append(s, t)
<1>1. s \in Seq(R) /\ t \in R /\ <<t>> \in Seq(R) /\ Len(<<t>>) = 1 /\ <<t>>[1] = t
  OBVIOUS
<1>2. /\ x \in Seq(R) /\ Len(x) = Len(<<t>>) + Len(s)
      /\ \A i \in 1..Len(<<t>>) + Len(s) : x[i] = IF i <= Len(<<t>>) THEN <<t>>[i] ELSE s[i - Len(<<t>>)]
  BY <1>1, ConcatProperties
<1>3. /\ y \in Seq(R) /\ Len(y) = Len(s) + 1 /\ y[Len(s) + 1] = t
      /\ \A i \in 1..Len(s) : y[i] = s[i]
  BY <1>1, AppendProperties
<1>4. DOMAIN s = 1..Len(s) /\ Len(s) \in Nat
  OBVIOUS
<1> HIDE DEF x, y, R
<1>5. DOMAIN x = 1..(Len(s) + 1) /\ \A i \in 1..(Len(s) + 1) : x[i] = IF i <= 1 THEN t ELSE s[i - 1]
  BY <1>1, <1>2, <1>4
<1>6. ASSUME NEW i \in DOMAIN x PROVE x[i] = t \/ (i - 1 \in DOMAIN s /\ x[i] = s[i - 1])
  BY <1>4, <1>5
<1>a. ASSUME NEW i \in DOMAIN s PROVE i + 1 \in DOMAIN x /\ x[i + 1] = s[i]
  BY <1>4, <1>5
<1>b. Messages(s) \subseteq Messages(x)
  BY <1>a DEF Messages
<1>7. DOMAIN y = 1..(Len(s) + 1)
  BY <1>3, <1>4
<1>8. ASSUME NEW i \in DOMAIN y PROVE y[i] = t \/ (i \in DOMAIN s /\ y[i] = s[i])
  BY <1>3, <1>4, <1>7
<1>9. Messages(x) \subseteq Messages(s) \cup {t.msg}
  BY <1>6 DEF Messages
<1>10. Messages(y) \subseteq Messages(s) \cup {t.msg}
  BY <1>8 DEF Messages
<1>11. QED
  BY <1>2, <1>3, <1>9, <1>b, <1>10 DEF x, y

\* The stream and what the parser holds.
LEMMA Strays ==
    ASSUME SubTypes, Straying
    PROVE  /\ Messages(stream) \subseteq cut \cup lost
           /\ Messages(parse.toks) \subseteq cut \cup lost
           /\ cut \cup lost \subseteq 1..Len(published)
  BY DEF SubTypes, Straying, Pending

\* The parser has read all that was sent: it is in step again.
LEMMA BackInStep ==
    ASSUME SubTypes, published' = published, parse' = Fresh, stream' = <<>>, sub' # "confirm"
    PROVE  Subscribed' /\ Pending' = {}
<1>1. Labelled(<<>>)' /\ Accounted(<<>>)' /\ EndsWhole(<<>>)' /\ Between(<<>>)'
  BY DEF Labelled, Accounted, EndsWhole, Between
<1>2. Subscribed'
  BY <1>1 DEF Subscribed, Cursor
<1>3. QED
  BY <1>2, FreshIsEmpty DEF Pending

\* A step of the subscriber that finds it astray and acts upon nothing.
LEMMA StaysAccounted ==
    ASSUME SubTypes, Straying, HandledExactly, Settle, astray = TRUE,
           UNCHANGED <<published, handled, lost, server, conn, sub>>, cut' = cut \/ cut' = cut \cup Messages(parse.toks),
           \E S : stream' \in Seq(S), \E S : parse'.toks \in Seq(S),
           Messages(stream') \subseteq Messages(stream) \cup Messages(parse.toks) \cup {0},
           Messages(parse'.toks) \subseteq Messages(stream) \cup Messages(parse.toks) \cup {0}
    PROVE  SubTypes' /\ Located' /\ HandledExactly'
<1>1. (cut \cup lost)' = cut \cup lost
  BY Strays
<1>2. 0 \notin Messages(stream') /\ 0 \notin Messages(parse'.toks)
  BY DEF Messages
<1>3. Pending' \subseteq cut \cup lost
  BY <1>2, Strays DEF Pending
<1>4. HandledExactly'
  <2>1. (cut \cup lost \cup Pending)' = cut \cup lost \cup Pending
    BY <1>1, <1>3 DEF Straying
  <2>2. QED
    BY <2>1, NoneHandled
<1>5. conn' # "closed" /\ sub' = "loop" /\ cut' \cup lost' \subseteq 1..Len(published')
  BY <1>1, Strays DEF Straying
<1>6. SubTypes'
  BY <1>5 DEF SubTypes
<1>7. CASE parse' = Fresh /\ stream' = <<>>
  <2>1. astray' = FALSE
    BY <1>7 DEF Settle
  <2>2. Subscribed'
    BY <1>5, <1>7, BackInStep
  <2>3. QED
    BY <1>4, <1>6, <2>1, <2>2 DEF Located
<1>8. CASE ~(parse' = Fresh /\ stream' = <<>>)
  <2>1. astray' = TRUE
    BY <1>8 DEF Settle
  <2>2. Straying'
    BY <1>1, <1>3, <1>5 DEF Straying
  <2>3. QED
    BY <1>4, <1>6, <2>1, <2>2 DEF Located
<1>9. QED
  BY <1>7, <1>8

\* A token, whatever it is taken for.
LEMMA StrayReadStep ==
    ASSUME SubTypes, Straying, HandledExactly, astray = TRUE, ReadToken
    PROVE  SubTypes' /\ Located' /\ HandledExactly'
<1>1. PICK S : stream \in Seq(S)
  BY DEF Straying
<1>2. PICK R : parse.toks \in Seq(R)
  BY DEF Straying
<1>3. /\ stream # <<>> /\ ~(Len(stream) = 1 /\ Head(stream).kind = "lf") /\ stream' = AfterToken
      /\ parse' = IF Outcome = "more" THEN Parsed ELSE Fresh
      /\ UNCHANGED <<conn, server, published, lost>>
  BY DEF ReadToken, Starved
<1>4. Settle /\ cut' = cut
  BY DEF ReadToken, Misled
<1>5. handled' = handled /\ sub' = sub
  BY DEF ReadToken, Replied, Handle, Straying
<1>6. (\E T : stream' \in Seq(T)) /\ Messages(stream') \subseteq Messages(stream) \cup {0}
  <2> DEFINE s == IF Head(stream).kind = "lf" THEN Tail(stream) ELSE stream
  <2>1. /\ Tail(stream) \in Seq(S) /\ Messages(Tail(stream)) \subseteq Messages(stream)
        /\ Len(Tail(stream)) = Len(stream) - 1
    BY <1>1, <1>3, TailMessages
  <2>2. s \in Seq(S) /\ Messages(s) \subseteq Messages(stream)
    BY <1>1, <2>1
  <2>3. s # <<>>
    <3>1. CASE Head(stream).kind = "lf"
      <4>1. Len(stream) # 1 /\ Len(stream) # 0 /\ Len(stream) \in Nat
        BY <1>1, <1>3, <3>1
      <4>2. Len(Tail(stream)) # 0
        BY <2>1, <4>1
      <4>3. Tail(stream) # <<>>
        BY <4>2, EmptySeq
      <4>4. s = Tail(stream)
        BY <3>1
      <4>5. QED
        BY <4>3, <4>4
    <3>2. QED
      BY <1>3, <3>1
  <2>4. CASE parse.body
    BY <1>3, <2>1, <2>4 DEF AfterToken
  <2>5. CASE ~parse.body
    <3> HIDE DEF s
    <3>1. /\ Tail(s) \in Seq(S) /\ Messages(Tail(s)) \subseteq Messages(s)
          /\ Head(s).msg \in Messages(s) \cup {0}
      BY <2>2, <2>3, TailMessages
    <3>2. stream' = LinesLeft(Head(s)) \o Tail(s)
      BY <1>3, <2>5 DEF AfterToken, s
    <3>3. CASE LinesLeft(Head(s)) = <<>>
      <4>1. stream' = Tail(s)
        BY <3>1, <3>2, <3>3, ConcatEmptySeq
      <4>2. QED
        BY <2>2, <3>1, <4>1
    <3>4. CASE LinesLeft(Head(s)) # <<>>
      <4> DEFINE t == Tok("payload", 0, Tail(Head(s).val), Head(s).msg)
      <4>1. LinesLeft(Head(s)) = <<t>> /\ t.msg = Head(s).msg
        BY <3>4 DEF LinesLeft, Tok
      <4> HIDE DEF t
      <4>2. stream' = <<t>> \o Tail(s)
        BY <3>2, <4>1
      <4>3. (\E T : <<t>> \o Tail(s) \in Seq(T)) /\ Messages(<<t>> \o Tail(s)) \subseteq Messages(Tail(s)) \cup {t.msg}
        BY <3>1, PutMessages
      <4>4. QED
        BY <2>2, <3>1, <4>1, <4>2, <4>3
    <3>5. QED
      BY <3>3, <3>4
  <2>6. QED
    BY <2>4, <2>5
<1>7. /\ \E T : parse'.toks \in Seq(T)
      /\ Messages(parse'.toks) \subseteq Messages(stream) \cup Messages(parse.toks) \cup {0}
  <2>1. CASE parse' = Fresh
    <3>1. parse'.toks = <<>> /\ <<>> \in Seq({0})
      BY <2>1 DEF Fresh
    <3>2. QED
      BY <2>1, <3>1, FreshIsEmpty
  <2>2. CASE parse' = Parsed
    <3>1. PICK x, need : x.msg = Head(stream).msg /\ Parsed = Took(parse, x, need)
      <4>1. AsLine(Head(stream)).msg = Head(stream).msg
        BY DEF AsLine, Tok
      <4>2. QED
        BY <4>1 DEF Parsed, Consume
    <3>2. parse'.toks = Append(parse.toks, x)
      BY <2>2, <3>1, TookFields
    <3>3. /\ \E T : Append(parse.toks, x) \in Seq(T)
          /\ Messages(Append(parse.toks, x)) \subseteq Messages(parse.toks) \cup {x.msg}
      BY <1>2, PutMessages
    <3>4. x.msg \in Messages(stream) \cup {0}
      BY <1>1, <1>3, <3>1, TailMessages
    <3>5. QED
      BY <3>2, <3>3, <3>4
  <2>3. QED
    BY <1>3, <2>1, <2>2
<1>8. QED
  BY <1>3, <1>4, <1>5, <1>6, <1>7, StaysAccounted

\* What is left of a token is part of its message, or of none.
LEMMA TornMessage ==
    ASSUME NEW x, NEW t \in Torn(x)
    PROVE  t.msg = 0 \/ t.msg = x.msg
<1> DEFINE W == IF x.kind = "word" THEN {Line("integer")} ELSE {}
           P == {FromLine(x, k, l) : k \in DOMAIN x.val, l \in Lines}
           Q == IF x.kind = "payload" THEN P ELSE {}
<1>1. Line("lf").msg = 0 /\ Line("text").msg = 0 /\ Line("integer").msg = 0
  BY DEF Line, Tok
<1>2. \A k, l : FromLine(x, k, l).msg = x.msg
  BY DEF FromLine, Tok
<1>3. t \in P => t.msg = x.msg
  BY <1>2
<1>4. W \subseteq {Line("integer")} /\ Q \subseteq P
  OBVIOUS
<1>5. t \in {Line("lf"), Line("text")} \cup W \cup Q
  BY DEF Torn
<1> HIDE DEF W, P, Q
<1>6. QED
  BY <1>1, <1>3, <1>4, <1>5

\* A bulk string whose length is the text of a payload.
LEMMA StrayAcrossStep ==
    ASSUME SubTypes, Straying, HandledExactly, astray = TRUE, ReadAcross
    PROVE  SubTypes' /\ Located' /\ HandledExactly'
<1>1. PICK S : stream \in Seq(S)
  BY DEF Straying
<1>2. Settle /\ UNCHANGED <<conn, sub, server, published, handled, cut, lost>>
  BY DEF ReadAcross
<1>3. /\ \E T : parse'.toks \in Seq(T)
      /\ Messages(parse'.toks) \subseteq Messages(stream) \cup Messages(parse.toks) \cup {0}
  <2>1. CASE parse' = Fresh
    <3>1. parse'.toks = <<>> /\ <<>> \in Seq({0})
      BY <2>1 DEF Fresh
    <3>2. QED
      BY <2>1, <3>1, FreshIsEmpty
  <2>2. CASE parse'.toks = parse.toks
    BY <2>2 DEF Straying
  <2>3. QED
    BY <2>1, <2>2 DEF ReadAcross
<1>4. PICK n \in 0..Len(stream) :
         \/ n > 0 /\ stream' = SubSeq(stream, n + 1, Len(stream))
         \/ /\ n < Len(stream)
            /\ \E t \in Torn(stream[n + 1]) : stream' = <<t>> \o SubSeq(stream, n + 2, Len(stream))
  BY DEF ReadAcross
<1>5. Len(stream) \in Nat /\ n \in Nat /\ DOMAIN stream = 1..Len(stream)
  BY <1>1
<1>6. (\E T : stream' \in Seq(T)) /\ Messages(stream') \subseteq Messages(stream) \cup {0}
  <2>1. CASE stream' = SubSeq(stream, n + 1, Len(stream))
    <3>1. n + 1 \in Nat /\ n + 1 >= 1 /\ Len(stream) <= Len(stream)
      BY <1>5
    <3>2. QED
      BY <1>1, <1>5, <2>1, <3>1, PartMessages
  <2>2. ASSUME NEW t \in Torn(stream[n + 1]), n < Len(stream),
               stream' = <<t>> \o SubSeq(stream, n + 2, Len(stream))
        PROVE  (\E T : stream' \in Seq(T)) /\ Messages(stream') \subseteq Messages(stream) \cup {0}
    <3> DEFINE z == SubSeq(stream, n + 2, Len(stream))
    <3>1. n + 2 \in Nat /\ n + 2 >= 1 /\ Len(stream) <= Len(stream) /\ n + 1 \in DOMAIN stream
      BY <1>5, <2>2
    <3>2. z \in Seq(S) /\ Messages(z) \subseteq Messages(stream)
      BY <1>1, <1>5, <3>1, PartMessages
    <3>3. t.msg = 0 \/ t.msg = stream[n + 1].msg
      BY <2>2, TornMessage
    <3>4. t.msg \in Messages(stream) \cup {0}
      BY <3>1, <3>3 DEF Messages
    <3> HIDE DEF z
    <3>5. (\E T : <<t>> \o z \in Seq(T)) /\ Messages(<<t>> \o z) \subseteq Messages(z) \cup {t.msg}
      BY <3>2, PutMessages
    <3>6. stream' = <<t>> \o z
      BY <2>2 DEF z
    <3>7. QED
      BY <3>2, <3>4, <3>5, <3>6
  <2>3. QED
    BY <1>4, <2>1, <2>2
<1>7. QED
  BY <1>2, <1>3, <1>6, StaysAccounted

\* A timeout.
LEMMA StrayTimeoutStep ==
    ASSUME SubTypes, Straying, HandledExactly, astray = TRUE, Timeout
    PROVE  SubTypes' /\ Located' /\ HandledExactly'
<1>1. /\ Settle /\ sub' = sub /\ parse' = Fresh /\ cut' = cut \cup Messages(parse.toks)
      /\ UNCHANGED <<conn, stream, server, published, handled, lost>>
  BY DEF Timeout, Straying
<1>2. parse'.toks = <<>> /\ <<>> \in Seq({0}) /\ Messages(parse'.toks) = {}
  BY <1>1, FreshIsEmpty DEF Fresh
<1>3. \E S : stream' \in Seq(S)
  BY <1>1 DEF Straying
<1>4. QED
  BY <1>1, <1>2, <1>3, StaysAccounted

\* The connection fails.
LEMMA StrayFailStep ==
    ASSUME SubTypes, Straying, HandledExactly, astray = TRUE, NetworkFails
    PROVE  SubTypes' /\ Located' /\ HandledExactly'
<1>1. PICK S : stream \in Seq(S)
  BY DEF Straying
<1>2. PICK n \in 0..Len(stream) :
         /\ stream' = SubSeq(stream, 1, n)
         /\ lost' = lost \cup Messages(SubSeq(stream, n + 1, Len(stream)))
  BY DEF NetworkFails
<1>3. /\ conn' \in {"eof", "silent"} /\ ~server' /\ astray' = TRUE
      /\ UNCHANGED <<parse, sub, confirmed, published, handled, cut>>
  BY DEF NetworkFails
<1>4. Len(stream) \in Nat /\ n \in Nat /\ n <= Len(stream) /\ n + 1 \in Nat /\ n + 1 >= 1 /\ 1 \in Nat
  BY <1>1
<1>5. stream' \in Seq(S) /\ Messages(stream') \subseteq Messages(stream)
  BY <1>1, <1>2, <1>4, PartMessages
<1>6. lost' \subseteq cut \cup lost /\ lost \subseteq lost'
  <2>1. Messages(SubSeq(stream, n + 1, Len(stream))) \subseteq Messages(stream)
    BY <1>1, <1>4, PartMessages
  <2>2. QED
    BY <1>2, <2>1, Strays
<1>7. (cut \cup lost)' = cut \cup lost /\ Pending' \subseteq cut \cup lost
  BY <1>3, <1>5, <1>6, Strays DEF Pending
<1>8. HandledExactly'
  <2>1. (cut \cup lost \cup Pending)' = cut \cup lost \cup Pending
    BY <1>7 DEF Straying
  <2>2. QED
    BY <1>3, <2>1, NoneHandled
<1>9. cut' \cup lost' \subseteq 1..Len(published')
  BY <1>3, <1>7, Strays
<1>10. SubTypes'
  BY <1>3, <1>9 DEF SubTypes
<1>11. Straying'
  <2>1. \E T : parse'.toks \in Seq(T)
    BY <1>3 DEF Straying
  <2>2. conn' # "closed" /\ sub' = "loop" /\ Pending' \subseteq (cut \cup lost)'
    BY <1>3, <1>7 DEF Straying
  <2>3. QED
    BY <1>5, <2>1, <2>2 DEF Straying
<1>12. QED
  BY <1>3, <1>8, <1>10, <1>11 DEF Located

\* Redis closes the connection.
LEMMA StrayEofStep ==
    ASSUME SubTypes, Straying, HandledExactly, SubscriberEof
    PROVE  SubTypes' /\ Located' /\ HandledExactly'
<1>1. /\ conn = "eof" /\ conn' = "closed" /\ stream' = <<>> /\ parse' = Fresh /\ sub' = "down" /\ astray' = FALSE
      /\ UNCHANGED <<confirmed, server, published, handled, cut, lost>>
  BY DEF SubscriberEof, Close
<1>2. ~server
  BY <1>1 DEF SubTypes
<1>3. SubTypes'
  BY <1>1, <1>2 DEF SubTypes
<1>4. Subscribed' /\ Pending' = {}
  BY <1>1, BackInStep
<1>5. (cut \cup lost \cup Pending)' = cut \cup lost \cup Pending
  BY <1>1, <1>4 DEF Straying
<1>6. HandledExactly'
  BY <1>1, <1>5, NoneHandled
<1>7. QED
  BY <1>1, <1>3, <1>4, <1>6 DEF Located

\* A message is published.
LEMMA StrayPublishStep ==
    ASSUME SubTypes, Straying, HandledExactly, astray = TRUE, NEW m \in Payloads, Publish(m)
    PROVE  SubTypes' /\ Located' /\ HandledExactly'
<1>0. PICK N : N = Len(published) + 1
  OBVIOUS
<1>1. PICK S : stream \in Seq(S)
  BY DEF Straying
<1>2. /\ published' = Append(published, m) /\ astray' = TRUE
      /\ UNCHANGED <<conn, parse, sub, confirmed, server, handled>>
      /\ server => stream' = stream \o MessageTokens(Len(published'), m) /\ lost' = lost
                   /\ cut' = cut \cup {Len(published')}
      /\ ~server => lost' = lost \cup {Len(published')} /\ stream' = stream /\ cut' = cut
  BY DEF Publish
<1>3. /\ published \in Seq(Payloads) /\ Len(published) \in Nat /\ N \in Nat
      /\ published' \in Seq(Payloads) /\ Len(published') = N
  BY <1>0, <1>2 DEF SubTypes
<1>4. (cut \cup lost)' = (cut \cup lost) \cup {N}
  BY <1>2, <1>3
<1>5. (\E T : stream' \in Seq(T)) /\ Messages(stream') \subseteq Messages(stream) \cup {N}
  <2>1. CASE stream' = stream
    BY <1>1, <2>1
  <2>2. CASE server
    <3> DEFINE b == MessageTokens(N, m)
               T == S \cup Tokens
               z == stream \o b
               n == Len(stream)
    <3>1. b \in Seq(Tokens) /\ Len(b) = 7 /\ \A p \in 1..7 : b[p].msg = N
      <4>1. /\ b \in Seq(Tokens) /\ Len(b) = 7
            /\ b[1] = Tok("array", 3, None, N)
            /\ b[2] = Tok("bulk", 0, None, N) /\ b[3] = Tok("word", 0, "message", N)
            /\ b[4] = Tok("bulk", 0, None, N) /\ b[5] = Tok("word", 0, m.channel, N)
            /\ b[6] = Tok("bulk", 0, None, N) /\ b[7] = Tok("payload", 0, m.lines, N)
        BY <1>3, MessageToks
      <4>2. b[1].msg = N /\ b[2].msg = N /\ b[3].msg = N /\ b[4].msg = N /\ b[5].msg = N
            /\ b[6].msg = N /\ b[7].msg = N
        BY <4>1 DEF Tok
      <4>3. QED
        BY <4>1, <4>2
    <3> HIDE DEF b
    <3>2. stream \in Seq(T) /\ b \in Seq(T)
      BY <1>1, <3>1
    <3>3. /\ z \in Seq(T) /\ Len(z) = Len(stream) + Len(b)
          /\ \A k \in 1..Len(stream) + Len(b) : z[k] = IF k <= Len(stream) THEN stream[k] ELSE b[k - Len(stream)]
      BY ONLY <3>2, ConcatProperties
    <3>4. n \in Nat /\ DOMAIN stream = 1..n
      BY <1>1
    <3>5. stream' = z
      BY <1>2, <1>3, <2>2 DEF b
    <3> HIDE DEF z, T
    <3>6. DOMAIN z = 1..(n + 7) /\ \A k \in 1..(n + 7) : z[k] = IF k <= n THEN stream[k] ELSE b[k - n]
      BY <3>1, <3>3
    <3> HIDE DEF n
    <3>7. ASSUME NEW k \in DOMAIN z PROVE (k \in DOMAIN stream /\ z[k] = stream[k]) \/ z[k].msg = N
      <4>1. k \in 1..(n + 7)
        BY <3>6
      <4>2. CASE k <= n
        <5>1. k \in 1..n
          BY <3>4, <4>1, <4>2
        <5>2. QED
          BY <3>4, <3>6, <4>1, <4>2, <5>1
      <4>3. CASE ~(k <= n)
        <5>1. k - n \in 1..7
          BY <3>4, <4>1, <4>3
        <5>2. z[k] = b[k - n]
          BY <3>6, <4>1, <4>3
        <5>3. QED
          BY <3>1, <5>1, <5>2
      <4>4. QED
        BY <4>2, <4>3
    <3>8. Messages(z) \subseteq Messages(stream) \cup {N}
      BY <3>7 DEF Messages
    <3>9. QED
      BY <3>3, <3>5, <3>8
  <2>3. QED
    BY <1>2, <2>1, <2>2
<1>6. Messages(parse'.toks) = Messages(parse.toks)
  BY <1>2
<1>7. Pending' \subseteq (cut \cup lost) \cup {N}
  BY <1>5, <1>6, Strays DEF Pending
<1>8. (cut \cup lost \cup Pending)' = (cut \cup lost \cup Pending) \cup {N}
  BY <1>4, <1>7 DEF Straying
<1>9. HandledExactly'
  BY <1>0, <1>2, <1>8, OneMoreMessage
<1>10. SubTypes'
  <2>1. cut' \cup lost' \subseteq 1..N
    <3>1. \A i \in 1..Len(published) : i \in 1..N
      BY <1>0, <1>3
    <3>2. N \in 1..N
      BY <1>0, <1>3
    <3>3. QED
      BY <1>4, <3>1, <3>2, Strays
  <2>2. conn' # "closed" /\ (server' => conn' = "up")
    BY <1>2 DEF Straying, SubTypes
  <2>3. QED
    BY <1>2, <1>3, <2>1, <2>2 DEF SubTypes
<1>11. Straying'
  <2>1. \E T : parse'.toks \in Seq(T)
    BY <1>2 DEF Straying
  <2>2. conn' # "closed" /\ sub' = "loop" /\ Pending' \subseteq (cut \cup lost)'
    BY <1>2, <1>4, <1>7 DEF Straying
  <2>3. QED
    BY <1>5, <2>1, <2>2 DEF Straying
<1>12. QED
  BY <1>2, <1>9, <1>10, <1>11 DEF Located

\* The body of a message that a timeout cut looks like more than one line, or like the
\* beginning of something.
LEMMA MisledStep ==
    ASSUME SubTypes, Subscribed, HandledExactly, ReadToken, Misled
    PROVE  SubTypes' /\ Located' /\ HandledExactly'
<1>1. PICK lab : Labelled(lab) /\ Accounted(lab) /\ EndsWhole(lab) /\ Cursor(lab)
  BY DEF Subscribed
<1>2. /\ ~parse.body /\ Head(stream).kind = "payload" /\ stream # <<>> /\ stream' = AfterToken
      /\ parse' = IF Outcome = "more" THEN Parsed ELSE Fresh
      /\ UNCHANGED <<conn, server, published, lost>>
      /\ astray' = TRUE /\ cut' = cut \cup Messages(stream')
  BY DEF ReadToken, Misled, Starved
<1>3. Len(lab) \in Nat /\ Len(lab) > 0 /\ published \in Seq(Payloads) /\ Len(published) \in Nat
      /\ stream \in Seq(Tokens) /\ conn # "closed"
  BY <1>1, <1>2 DEF Labelled, SubTypes
<1> DEFINE u == lab[1].u
           p == lab[1].p
           t == Head(stream)
<1>4. u \in -2..Len(published) /\ p \in 1..Size(u) /\ t = Token(u, p)
  BY <1>1, <1>3, First
<1>5. u > 0 /\ p = 7 /\ t.msg = u
  <2>1. /\ u = -2 => t.kind = "error"
        /\ u # -2 /\ p = 1 => t.kind = "array"
        /\ (u # -2 /\ p \in {2, 4}) \/ (u > 0 /\ p = 6) => t.kind = "bulk"
        /\ u # -2 /\ p \in {3, 5} => t.kind = "word"
        /\ u \in {-1, 0} /\ p = 6 => t.kind = "integer"
        /\ t.msg = IF u > 0 THEN u ELSE 0
    BY <1>3, <1>4, TokenFields
  <2>2. Size(u) = (IF u = -2 THEN 1 ELSE IF u \in {-1, 0} THEN 6 ELSE 7)
    BY DEF Size
  <2> HIDE DEF u, p, t
  <2>3. u # -2
    BY <1>2, <2>1 DEF t
  <2>4. u \notin {-1, 0}
    <3>1. SUFFICES ASSUME u \in {-1, 0} PROVE FALSE
      OBVIOUS
    <3>2. p \in 1..6
      BY <1>4, <2>2, <3>1
    <3>3. QED
      BY <1>2, <2>1, <2>3, <3>1, <3>2 DEF t
  <2>5. u > 0 /\ p \in 1..7
    BY <1>3, <1>4, <2>2, <2>3, <2>4
  <2>6. p = 7
    BY <1>2, <2>1, <2>3, <2>5 DEF t
  <2>7. QED
    BY <2>1, <2>5, <2>6
<1>6. parse = Fresh /\ sub = "loop" /\ u \in cut
  <2>1. ~Between(lab)
    BY <1>3, <1>5 DEF Between
  <2>2. ASSUME NEW v \in Int, NEW q \in Int, Within(lab, v, q) PROVE FALSE
    <3>1. q + 1 = 7
      BY <1>3, <1>5, <2>2 DEF Within
    <3>2. q = 6
      BY <3>1
    <3>3. QED
      BY <1>2, <2>2, <3>2 DEF Within, Parsing
  <2>3. ASSUME NEW v \in Int, SkippingBody(lab, v) PROVE FALSE
    BY <1>2, <2>3 DEF SkippingBody
  <2>4. Skipping(lab)
    BY <1>1, <2>1, <2>2, <2>3 DEF Cursor
  <2>5. QED
    BY <1>5, <2>4 DEF Skipping
<1> HIDE DEF u, p, t
<1>7. \/ Outcome = "false"
      \/ Outcome = "reply" /\ ~IsMessage(Parsed.toks)
      \/ Outcome = "more" /\ Parsed.toks = <<AsLine(t)>>
  BY <1>2, <1>6, TakesStray DEF t
<1>8. handled' = handled /\ sub' = "loop"
  BY <1>6, <1>7 DEF ReadToken, Replied, Handle
<1>9. (\E T : parse'.toks \in Seq(T)) /\ Messages(parse'.toks) \subseteq {u}
  <2>1. CASE parse' = Fresh
    <3>1. parse'.toks = <<>> /\ <<>> \in Seq({0})
      BY <2>1 DEF Fresh
    <3>2. QED
      BY <2>1, <3>1, FreshIsEmpty
  <2>2. CASE parse' = Parsed /\ Parsed.toks = <<AsLine(t)>>
    <3> DEFINE l == AsLine(t)
    <3>1. l.msg = u
      BY <1>5 DEF AsLine, Tok
    <3>2. parse'.toks = <<l>>
      BY <2>2
    <3> HIDE DEF l
    <3>3. <<l>> \in Seq({l}) /\ DOMAIN <<l>> = {1} /\ <<l>>[1] = l
      OBVIOUS
    <3>4. Messages(<<l>>) \subseteq {u}
      BY <3>1, <3>3 DEF Messages
    <3>5. QED
      BY <3>2, <3>3, <3>4
  <2>3. QED
    BY <1>2, <1>7, <2>1, <2>2
<1>10. /\ \E T : stream' \in Seq(T)
       /\ Messages(stream') \subseteq Messages(stream)
       /\ Messages(stream) \subseteq Messages(stream') \cup {u}
  <2>1. /\ Tail(stream) \in Seq(Tokens) /\ Messages(Tail(stream)) \subseteq Messages(stream)
        /\ \A i \in Messages(stream) : i = u \/ i \in Messages(Tail(stream))
        /\ u \in Messages(stream) \cup {0}
    BY <1>2, <1>3, <1>5, TailMessages DEF t
  <2>2. u # 0
    BY <1>5
  <2>3. stream' = LinesLeft(t) \o Tail(stream)
    BY <1>2 DEF AfterToken, t
  <2>4. CASE LinesLeft(t) = <<>>
    <3>1. stream' = Tail(stream)
      BY <2>1, <2>3, <2>4, ConcatEmptySeq
    <3>2. QED
      BY <2>1, <3>1
  <2>5. CASE LinesLeft(t) # <<>>
    <3> DEFINE x == Tok("payload", 0, Tail(t.val), t.msg)
    <3>1. LinesLeft(t) = <<x>> /\ x.msg = u
      BY <1>5, <2>5 DEF LinesLeft, Tok
    <3> HIDE DEF x
    <3>2. stream' = <<x>> \o Tail(stream)
      BY <2>3, <3>1
    <3>3. /\ \E T : <<x>> \o Tail(stream) \in Seq(T)
          /\ Messages(<<x>> \o Tail(stream)) \subseteq Messages(Tail(stream)) \cup {x.msg}
          /\ Messages(Tail(stream)) \subseteq Messages(<<x>> \o Tail(stream))
      BY <2>1, PutMessages
    <3>4. QED
      BY <2>1, <2>2, <3>1, <3>2, <3>3
  <2>6. QED
    BY <2>4, <2>5
<1>11. Messages(stream) \subseteq 1..Len(published)
  BY <1>1, <1>3, InStream
<1>12. SubTypes'
  <2>1. cut' \subseteq 1..Len(published)
    BY <1>2, <1>10, <1>11 DEF SubTypes
  <2>2. QED
    BY <1>2, <1>3, <1>8, <2>1 DEF SubTypes
<1>13. Pending' \subseteq cut' \cup lost'
  BY <1>2, <1>6, <1>9 DEF Pending
<1>14. Straying'
  BY <1>2, <1>3, <1>8, <1>9, <1>10, <1>13 DEF Straying
<1>15. (cut \cup lost \cup Pending)' = cut \cup lost \cup Pending
  <2>1. Messages(parse.toks) = {}
    BY <1>6, FreshIsEmpty
  <2>2. QED
    BY <1>2, <1>6, <1>10, <1>13, <2>1 DEF Pending
<1>16. HandledExactly'
  BY <1>2, <1>8, <1>15, NoneHandled
<1>17. QED
  BY <1>2, <1>12, <1>14, <1>16 DEF Located

\* ReadToken, in step or not.
LEMMA ReadStep ==
    ASSUME SubTypes, Located, HandledExactly, ReadToken
    PROVE  SubTypes' /\ Located' /\ HandledExactly'
<1>1. CASE astray = TRUE
  BY <1>1, StrayReadStep DEF Located
<1>2. CASE astray = FALSE /\ Misled
  BY <1>2, MisledStep DEF Located
<1>3. CASE astray = FALSE /\ ~Misled
  <2>1. stream \in Seq(Tokens)
    BY <1>3 DEF Located, Subscribed, Labelled
  <2>2. PlainRead
    BY <1>3, <2>1 DEF PlainRead
  <2>3. SubTypes' /\ Subscribed' /\ HandledExactly'
    BY <1>3, <2>2, PlainReadStep DEF Located
  <2>4. astray' = FALSE
    BY <1>3 DEF ReadToken, Settle
  <2>5. QED
    BY <2>3, <2>4 DEF Located
<1>4. QED
  BY <1>1, <1>2, <1>3 DEF Located

\* Every step of the subscriber, of Redis and of the network.
LEMMA SubscriberSteps ==
    ASSUME SubTypes, Located, HandledExactly,
           \/ NetworkFails \/ Subscribe \/ ReadToken \/ ReadAcross \/ Timeout \/ SubscriberEof
           \/ \E m \in Payloads : Publish(m)
    PROVE  SubTypes' /\ Located' /\ HandledExactly'
<1>1. CASE ReadToken
  BY <1>1, ReadStep
<1>2. CASE astray = TRUE /\ ~ReadToken
  <2>1. Straying
    BY <1>2 DEF Located
  <2>2. ~Subscribe
    BY <2>1 DEF Straying, Subscribe, Connect
  <2>3. QED
    BY <1>2, <2>1, <2>2, StrayFailStep, StrayAcrossStep, StrayTimeoutStep, StrayEofStep, StrayPublishStep
<1>3. CASE astray = FALSE /\ ~ReadToken
  <2>1. Subscribed
    BY <1>3 DEF Located
  <2>2. ~ReadAcross
    BY <2>1, InStepStarves DEF ReadAcross
  <2>3. SubTypes' /\ Subscribed' /\ HandledExactly'
    BY <1>3, <2>1, <2>2, FailStep, SubscribeStep, TimeoutStep, EofStep, PublishStep
  <2>4. astray' = FALSE
    BY <1>3, <2>2 DEF NetworkFails, Subscribe, Timeout, SubscriberEof, Publish, Settle
  <2>5. QED
    BY <2>3, <2>4 DEF Located
<1>4. QED
  BY <1>1, <1>2, <1>3 DEF Located

-----------------------------------------------------------------------------
(* The subscriber's invariant.                                             *)

\* The L2 cache's use of a connection publishes nothing and handles nothing.
LEMMA L2Quiet ==
    ASSUME Next, use = "l2", published = <<>>, handled = <<>>
    PROVE  use' = use /\ published' = <<>> /\ handled' = <<>>
<1>1. CASE NetworkFails
  BY <1>1 DEF NetworkFails
<1>2. ASSUME NEW w \in Workers,
             (\E k \in Keys, op \in {"get", "put"} : Call(w, op, k)) \/ L2Step(w) \/ LockFails(w)
               \/ SendFails(w) \/ Interrupted(w)
      PROVE  use' = use /\ UNCHANGED subVars
  BY <1>2 DEF Call, L2Step, Lock, Send, Read, L2Eof, LockFails, SendFails, Interrupted, Failed, Answer
<1>3. ASSUME NEW k \in Keys, Expires(k) PROVE use' = use /\ UNCHANGED subVars
  BY <1>3 DEF Expires
<1>4. QED
  BY <1>1, <1>2, <1>3 DEF Next, subVars

\* Nothing has been published.
LEMMA NothingHandled ==
    ASSUME published = <<>>, handled = <<>>
    PROVE  HandledExactly
<1>1. DOMAIN published = {} /\ DOMAIN handled = {} /\ Messages(handled) = {}
  BY FreshIsEmpty
<1>2. QED
  BY <1>1 DEF HandledExactly

\* The same for the next state.
LEMMA NothingHandledNext ==
    ASSUME published' = <<>>, handled' = <<>>
    PROVE  HandledExactly'
<1>1. DOMAIN published' = {} /\ DOMAIN handled' = {} /\ Messages(handled') = {}
  BY FreshIsEmpty
<1>2. QED
  BY <1>1 DEF HandledExactly

\* The invariant holds at the start.
LEMMA SInvInit == ASSUME Init PROVE SInv
<1>1. /\ conn = "closed" /\ stream = <<>> /\ parse = Fresh /\ sub = "down" /\ ~server
      /\ published = <<>> /\ handled = <<>> /\ astray = FALSE /\ cut = {} /\ lost = {} /\ use \in {"l2", "subscriber"}
  BY DEF Init
<1>2. SubTypes
  BY <1>1 DEF SubTypes
<1>3. Labelled(<<>>) /\ Accounted(<<>>) /\ EndsWhole(<<>>) /\ Between(<<>>)
  BY <1>1 DEF Labelled, Accounted, EndsWhole, Between
<1>4. Located
  BY <1>1, <1>3 DEF Located, Subscribed, Cursor
<1>5. QED
  BY <1>1, <1>2, <1>4, NothingHandled DEF SInv

\* It is about these variables.
LEMMA SInvStutter == ASSUME SInv, UNCHANGED vars PROVE SInv'
<1>1. UNCHANGED <<use, conn, stream, parse, sub, confirmed, server, published, handled, astray, cut, lost>>
  BY DEF vars, netVars, subVars
<1>2. HandledExactly'
  BY <1>1 DEF SInv, HandledExactly, Pending
<1>3. ASSUME SubTypes, Subscribed PROVE Subscribed'
  <2>1. PICK lab : Labelled(lab) /\ Accounted(lab) /\ EndsWhole(lab) /\ Cursor(lab)
    BY <1>3 DEF Subscribed
  <2>3. Labelled(lab)'
    BY <1>1, <1>3, <2>1, LabelledKept DEF SubTypes
  <2>4. Accounted(lab)' /\ EndsWhole(lab)'
    BY <1>1, <2>1 DEF Accounted, EndsWhole
  <2>5. \A u, p : Token(u, p)' = Token(u, p)
    BY <1>1 DEF Token
  <2>6. Cursor(lab)'
    BY <1>1, <2>1, <2>5 DEF Cursor, Between, Within, Skipping, SkippingBody, Parsing, FirstToks
  <2>7. QED
    BY <2>3, <2>4, <2>6 DEF Subscribed
<1>4. SubTypes => SubTypes'
  BY <1>1 DEF SubTypes
<1>5. Straying => Straying'
  BY <1>1 DEF Straying, Pending
<1>6. QED
  BY <1>1, <1>2, <1>3, <1>4, <1>5 DEF SInv, Located

\* Every step keeps it.
LEMMA SInvNext == ASSUME SInv, [Next]_vars PROVE SInv'
<1>1. CASE UNCHANGED vars
  BY <1>1, SInvStutter
<1>2. CASE Next /\ use = "l2"
  BY <1>2, L2Quiet, NothingHandledNext DEF SInv
<1>3. CASE Next /\ use = "subscriber"
  <2>1. SubTypes /\ Located /\ HandledExactly
    BY <1>3 DEF SInv
  <2>2. \/ NetworkFails \/ Subscribe \/ SubscribeFails \/ ReadToken \/ ReadAcross \/ Timeout \/ SubscriberEof
        \/ \E m \in Payloads : Publish(m)
    BY <1>3 DEF Next
  <2>3. CASE SubscribeFails
    BY <2>3, SInvStutter DEF SubscribeFails
  <2>4. CASE ~SubscribeFails
    <3>1. use' = use
      BY <2>2, <2>4 DEF NetworkFails, Subscribe, ReadToken, ReadAcross, Timeout, SubscriberEof, Publish
    <3>2. SubTypes' /\ Located' /\ HandledExactly'
      BY <2>1, <2>2, <2>4, SubscriberSteps
    <3>3. QED
      BY <1>3, <3>1, <3>2 DEF SInv
  <2>5. QED
    BY <2>3, <2>4
<1>4. QED
  BY <1>1, <1>2, <1>3 DEF SInv

\* RedisCoordinator::subscriberLoop acts upon the messages in the order of publication,
\* each once and with its own channel, and misses only those that a timeout cut and those
\* that went with a connection, however many messages are published and wherever the
\* timeouts fall.
THEOREM MessagesHandledExactly == Spec => []HandledExactly
<1>1. Init => SInv
  BY SInvInit
<1>2. SInv /\ [Next]_vars => SInv'
  BY SInvNext
<1>3. SInv => HandledExactly
  BY DEF SInv
<1>4. QED
  BY <1>1, <1>2, <1>3, PTL DEF Spec
=============================================================================
