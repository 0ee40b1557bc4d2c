----------------------- MODULE NetguardAnswers_proofs -----------------------
(***************************************************************************)
(* What a client of a proxy is told, for any policies, clients, servers and *)
(* timeouts: the answers, the streams and the refusals.                    *)
(***************************************************************************)
EXTENDS Netguard_proofs

-----------------------------------------------------------------------------
(* What a server has sent                                                  *)

\* What a server may have on the way: nothing that is left of an exchange;
\* interim responses; those and then the final one, with the stream behind a
\* 101; or pieces of a stream, of which sent are sent in all.
Quiet(s) == Held(s) = <<>> /\ s.sent = 0 /\ s.asked \subseteq s.answered

Interims(h) == \A i \in DOMAIN h : h[i].kind = "interim"

Pending(s, r) == s.asked \ s.answered \subseteq {r} /\ s.sent = 0 /\ Interims(Held(s))

FinalAt(h, f, sent, n) ==
    /\ f \in DOMAIN h /\ h[f].kind \in {"response", "switch"} /\ h[f].n = n
    /\ h[f].kind = "response" => Len(h) = f
    /\ sent = Len(h) - f
    /\ \A i \in DOMAIN h : i < f => h[i].kind = "interim"
    /\ \A i \in DOMAIN h : i > f => h[i].kind = "data" /\ h[i].n = i - f

Ready(s, r) ==
    /\ s.asked \subseteq s.answered
    /\ \E f \in DOMAIN Held(s) : FinalAt(Held(s), f, s.sent, r.n)

Pieces(h, d) == \A i \in DOMAIN h : h[i].kind = "data" /\ h[i].n = d + i

Streaming(s) ==
    /\ s.asked \subseteq s.answered
    /\ Len(Held(s)) <= s.sent /\ Pieces(Held(s), s.sent - Len(Held(s)))

Served ==
    server # NoServer =>
      /\ at \in {"forward", "proceed", "send", "next"} => Quiet(server)
      /\ at \in Exchanging => Pending(server, req) \/ Ready(server, req)
      /\ at \in {"reply", "switch", "drain", "splice"} => Streaming(server)
      /\ at \in {"reply", "switch"} => Len(Held(server)) = server.sent

LEMMA TailOf ==
    ASSUME NEW S, NEW h \in Seq(S), h # <<>>
    PROVE  /\ Head(h) = h[1] /\ Tail(h) \in Seq(S) /\ Len(Tail(h)) = Len(h) - 1
           /\ Len(h) \in Nat \ {0} /\ DOMAIN h = 1..Len(h) /\ 1 \in DOMAIN h
           /\ DOMAIN Tail(h) = 1..(Len(h) - 1)
           /\ \A i \in DOMAIN Tail(h) : Tail(h)[i] = h[i + 1] /\ i + 1 \in DOMAIN h
<1>1. /\ Head(h) = h[1] /\ Tail(h) \in Seq(S) /\ Len(Tail(h)) = Len(h) - 1
      /\ \A i \in 1..Len(Tail(h)) : Tail(h)[i] = h[i + 1]
  BY HeadTailProperties
<1>2. Len(h) \in Nat \ {0} /\ DOMAIN h = 1..Len(h)
  BY EmptySeq, LenProperties
<1>3. DOMAIN Tail(h) = 1..(Len(h) - 1)
  BY <1>1, LenProperties
<1> QED BY <1>1, <1>2, <1>3

LEMMA AppendOf ==
    ASSUME NEW S, NEW h \in Seq(S), NEW x \in S
    PROVE  /\ Append(h, x) \in Seq(S) /\ Len(Append(h, x)) = Len(h) + 1
           /\ Len(h) \in Nat /\ DOMAIN h = 1..Len(h) /\ DOMAIN Append(h, x) = 1..(Len(h) + 1)
           /\ \A i \in DOMAIN h : Append(h, x)[i] = h[i]
           /\ Append(h, x)[Len(h) + 1] = x
<1>1. /\ Append(h, x) \in Seq(S) /\ Len(Append(h, x)) = Len(h) + 1
      /\ \A i \in 1..Len(h) : Append(h, x)[i] = h[i]
      /\ Append(h, x)[Len(h) + 1] = x
  BY AppendProperties
<1>2. Len(h) \in Nat /\ DOMAIN h = 1..Len(h) /\ DOMAIN Append(h, x) = 1..(Len(h) + 1)
  BY <1>1, LenProperties
<1> QED BY <1>1, <1>2

LEMMA FinalTail ==
    ASSUME NEW h \in Seq(ServerItems), NEW f \in DOMAIN h, NEW sent, NEW n, FinalAt(h, f, sent, n)
    PROVE  /\ h # <<>>
           /\ f # 1 => /\ Head(h).kind = "interim"
                       /\ f - 1 \in DOMAIN Tail(h) /\ FinalAt(Tail(h), f - 1, sent, n)
           /\ f = 1 => /\ Head(h).kind \in {"response", "switch"} /\ Head(h).n = n
                       /\ Len(Tail(h)) = sent /\ Pieces(Tail(h), 0)
                       /\ Head(h).kind = "response" => Tail(h) = <<>> /\ sent = 0
<1>1. h # <<>>
  BY EmptySeq
<1>2. /\ Head(h) = h[1] /\ Len(Tail(h)) = Len(h) - 1 /\ Tail(h) \in Seq(ServerItems)
      /\ Len(h) \in Nat \ {0} /\ DOMAIN h = 1..Len(h) /\ 1 \in DOMAIN h
      /\ DOMAIN Tail(h) = 1..(Len(h) - 1)
      /\ \A i \in DOMAIN Tail(h) : Tail(h)[i] = h[i + 1] /\ i + 1 \in DOMAIN h
  BY <1>1, TailOf
<1>3. /\ h[f].kind \in {"response", "switch"} /\ h[f].n = n
      /\ h[f].kind = "response" => Len(h) = f
      /\ sent = Len(h) - f
      /\ \A i \in DOMAIN h : i < f => h[i].kind = "interim"
      /\ \A i \in DOMAIN h : i > f => h[i].kind = "data" /\ h[i].n = i - f
  BY DEF FinalAt
<1>4. f \in 1..Len(h)
  BY <1>2
<1>5. ASSUME f # 1
      PROVE  /\ Head(h).kind = "interim"
             /\ f - 1 \in DOMAIN Tail(h) /\ FinalAt(Tail(h), f - 1, sent, n)
  <2>1. Head(h).kind = "interim"
    BY <1>2, <1>3, <1>4, <1>5
  <2>2. f - 1 \in DOMAIN Tail(h) /\ (f - 1) + 1 = f /\ Tail(h)[f - 1] = h[f]
    BY <1>2, <1>4, <1>5
  <2>3. ASSUME NEW i \in DOMAIN Tail(h)
        PROVE  /\ i < f - 1 => Tail(h)[i].kind = "interim"
               /\ i > f - 1 => Tail(h)[i].kind = "data" /\ Tail(h)[i].n = i - (f - 1)
    <3>1. Tail(h)[i] = h[i + 1] /\ i + 1 \in DOMAIN h /\ i \in Nat
      BY <1>2
    <3>2. /\ i < f - 1 => h[i + 1].kind = "interim"
          /\ i > f - 1 => h[i + 1].kind = "data" /\ h[i + 1].n = (i + 1) - f
      BY <1>3, <1>4, <3>1
    <3>3. (i + 1) - f = i - (f - 1)
      BY <1>4, <3>1
    <3> QED BY <3>1, <3>2, <3>3
  <2>4. sent = Len(Tail(h)) - (f - 1) /\ (h[f].kind = "response" => Len(Tail(h)) = f - 1)
    BY <1>2, <1>3, <1>4
  <2>5. FinalAt(Tail(h), f - 1, sent, n)
    BY <1>3, <2>2, <2>3, <2>4 DEF FinalAt
  <2> QED BY <2>1, <2>2, <2>5
<1>6. ASSUME f = 1
      PROVE  /\ Head(h).kind \in {"response", "switch"} /\ Head(h).n = n
             /\ Len(Tail(h)) = sent /\ Pieces(Tail(h), 0)
             /\ Head(h).kind = "response" => Tail(h) = <<>> /\ sent = 0
  <2>1. Head(h) = h[f] /\ Len(Tail(h)) = sent
    BY <1>2, <1>3, <1>6
  <2>2. ASSUME NEW i \in DOMAIN Tail(h)
        PROVE  Tail(h)[i].kind = "data" /\ Tail(h)[i].n = 0 + i
    <3>1. Tail(h)[i] = h[i + 1] /\ i + 1 \in DOMAIN h /\ i \in Nat \ {0}
      BY <1>2
    <3>2. h[i + 1].kind = "data" /\ h[i + 1].n = (i + 1) - 1
      BY <1>3, <1>6, <3>1
    <3> QED BY <3>1, <3>2
  <2>3. Head(h).kind = "response" => Len(Tail(h)) = 0
    BY <1>2, <1>3, <1>6, <2>1
  <2>4. Head(h).kind = "response" => Tail(h) = <<>> /\ sent = 0
    BY <1>2, <2>1, <2>3, EmptySeq
  <2> QED BY <1>3, <2>1, <2>2, <2>4 DEF Pieces
<1> QED BY <1>1, <1>5, <1>6

LEMMA InterimsTail ==
    ASSUME NEW h \in Seq(ServerItems), h # <<>>, Interims(h)
    PROVE  Head(h).kind = "interim" /\ Interims(Tail(h))
<1>1. /\ Head(h) = h[1] /\ 1 \in DOMAIN h
      /\ \A i \in DOMAIN Tail(h) : Tail(h)[i] = h[i + 1] /\ i + 1 \in DOMAIN h
  BY TailOf
<1> QED BY <1>1 DEF Interims

LEMMA PiecesTail ==
    ASSUME NEW h \in Seq(ServerItems), h # <<>>, NEW d \in Nat, Pieces(h, d)
    PROVE  Head(h).kind = "data" /\ Head(h).n = d + 1 /\ Pieces(Tail(h), d + 1)
<1>1. /\ Head(h) = h[1] /\ 1 \in DOMAIN h /\ DOMAIN h = 1..Len(h) /\ Len(h) \in Nat
      /\ \A i \in DOMAIN Tail(h) : Tail(h)[i] = h[i + 1] /\ i + 1 \in DOMAIN h
      /\ DOMAIN Tail(h) = 1..(Len(h) - 1)
  BY TailOf
<1>2. ASSUME NEW i \in DOMAIN Tail(h)
      PROVE  Tail(h)[i].kind = "data" /\ Tail(h)[i].n = (d + 1) + i
  <2>1. h[i + 1].kind = "data" /\ h[i + 1].n = d + (i + 1)
    BY <1>1 DEF Pieces
  <2>2. d + (i + 1) = (d + 1) + i
    BY <1>1
  <2> QED BY <1>1, <2>1, <2>2
<1> QED BY <1>1, <1>2 DEF Pieces

\* One more item is on the way.
LEMMA InterimsAppend ==
    ASSUME NEW h \in Seq(ServerItems), Interims(h), NEW x \in ServerItems
    PROVE  /\ x.kind = "interim" => Interims(Append(h, x))
           /\ x.kind \in {"response", "switch"} =>
                /\ Len(h) + 1 \in DOMAIN Append(h, x)
                /\ FinalAt(Append(h, x), Len(h) + 1, 0, x.n)
<1>1. /\ Append(h, x) \in Seq(ServerItems) /\ Len(Append(h, x)) = Len(h) + 1
      /\ Len(h) \in Nat /\ DOMAIN h = 1..Len(h) /\ DOMAIN Append(h, x) = 1..(Len(h) + 1)
      /\ \A i \in DOMAIN h : Append(h, x)[i] = h[i]
      /\ Append(h, x)[Len(h) + 1] = x
  BY AppendOf
<1>2. ASSUME NEW i \in DOMAIN Append(h, x), i # Len(h) + 1
      PROVE  i < Len(h) + 1 /\ Append(h, x)[i].kind = "interim"
  <2>1. i \in DOMAIN h /\ i < Len(h) + 1
    BY <1>1, <1>2
  <2> QED BY <1>1, <2>1 DEF Interims
<1>3. \A i \in DOMAIN Append(h, x) : ~(i > Len(h) + 1)
  BY <1>1
<1>4. Len(h) + 1 \in DOMAIN Append(h, x) /\ 0 = (Len(h) + 1) - (Len(h) + 1)
  BY <1>1
<1>5. x.kind = "interim" => Interims(Append(h, x))
  BY <1>1, <1>2 DEF Interims
<1>6. x.kind \in {"response", "switch"} => FinalAt(Append(h, x), Len(h) + 1, 0, x.n)
  BY <1>1, <1>2, <1>3, <1>4 DEF FinalAt
<1> QED BY <1>4, <1>5, <1>6

LEMMA FinalAppend ==
    ASSUME NEW h \in Seq(ServerItems), NEW f \in DOMAIN h, NEW sent \in Nat, NEW n,
           FinalAt(h, f, sent, n), h[f].kind = "switch",
           NEW x \in ServerItems, x.kind = "data", x.n = sent + 1
    PROVE  f \in DOMAIN Append(h, x) /\ FinalAt(Append(h, x), f, sent + 1, n)
<1>1. /\ Append(h, x) \in Seq(ServerItems) /\ Len(Append(h, x)) = Len(h) + 1
      /\ Len(h) \in Nat /\ DOMAIN h = 1..Len(h) /\ DOMAIN Append(h, x) = 1..(Len(h) + 1)
      /\ \A i \in DOMAIN h : Append(h, x)[i] = h[i]
      /\ Append(h, x)[Len(h) + 1] = x
  BY AppendOf
<1>2. /\ h[f].n = n /\ sent = Len(h) - f
      /\ \A i \in DOMAIN h : i < f => h[i].kind = "interim"
      /\ \A i \in DOMAIN h : i > f => h[i].kind = "data" /\ h[i].n = i - f
  BY DEF FinalAt
<1>3. f \in 1..Len(h) /\ f \in DOMAIN Append(h, x) /\ Append(h, x)[f] = h[f]
  BY <1>1
<1>4. ASSUME NEW i \in DOMAIN Append(h, x)
      PROVE  /\ i < f => Append(h, x)[i].kind = "interim"
             /\ i > f => Append(h, x)[i].kind = "data" /\ Append(h, x)[i].n = i - f
  <2>1. CASE i \in DOMAIN h
    BY <1>1, <1>2, <2>1
  <2>2. CASE i = Len(h) + 1
    <3>1. ~(i < f) /\ x.n = i - f
      BY <1>1, <1>2, <1>3, <2>2
    <3> QED BY <1>1, <2>2, <3>1
  <2> QED BY <1>1, <2>1, <2>2
<1>5. sent + 1 = Len(Append(h, x)) - f
  BY <1>1, <1>2, <1>3
<1> QED BY <1>2, <1>3, <1>4, <1>5 DEF FinalAt

LEMMA PiecesAppend ==
    ASSUME NEW h \in Seq(ServerItems), NEW d \in Nat, Pieces(h, d),
           NEW x \in ServerItems, x.kind = "data", x.n = d + Len(h) + 1
    PROVE  Pieces(Append(h, x), d) /\ Len(Append(h, x)) = Len(h) + 1
<1>1. /\ Append(h, x) \in Seq(ServerItems) /\ Len(Append(h, x)) = Len(h) + 1
      /\ Len(h) \in Nat /\ DOMAIN h = 1..Len(h) /\ DOMAIN Append(h, x) = 1..(Len(h) + 1)
      /\ \A i \in DOMAIN h : Append(h, x)[i] = h[i]
      /\ Append(h, x)[Len(h) + 1] = x
  BY AppendOf
<1>2. ASSUME NEW i \in DOMAIN Append(h, x)
      PROVE  Append(h, x)[i].kind = "data" /\ Append(h, x)[i].n = d + i
  <2>1. CASE i \in DOMAIN h
    BY <1>1, <2>1 DEF Pieces
  <2>2. CASE i = Len(h) + 1
    <3>1. d + i = d + Len(h) + 1
      BY <1>1, <2>2
    <3> QED BY <1>1, <2>2, <3>1
  <2> QED BY <1>1, <2>1, <2>2
<1> QED BY <1>1, <1>2 DEF Pieces

\* A reader of one part of a sequence of pieces.
LEMMA HeldGood ==
    ASSUME NEW s, GoodServer(s)
    PROVE  Held(s) \in Seq(ServerItems)
BY ConcatProperties DEF Held, GoodServer

LEMMA AssociativeToo ==
    \A a, b, c \in Seq(ServerItems) : (a \o b) \o c = a \o (b \o c)
BY ConcatAssociative

LEMMA AppendIsToo ==
    \A s \in Seq(ServerItems), item \in ServerItems :
      Append(s, item) = s \o <<item>> /\ <<item>> \in Seq(ServerItems)
BY AppendIsConcat

\* What a server sends comes behind what it has sent.
LEMMA HeldAppend ==
    ASSUME NEW s, GoodServer(s), NEW x \in ServerItems,
           NEW t, t.buf = s.buf, t.queue = Append(s.queue, x)
    PROVE  Held(t) = Append(Held(s), x)
<1>1. s.buf \in Seq(ServerItems) /\ s.queue \in Seq(ServerItems) /\ Held(s) \in Seq(ServerItems)
  BY HeldGood DEF GoodServer
<1>2. t.queue = s.queue \o <<x>> /\ <<x>> \in Seq(ServerItems)
  BY <1>1, AppendIsToo
<1>3. Append(Held(s), x) = Held(s) \o <<x>>
  BY <1>1, AppendIsToo
<1>4. (s.buf \o s.queue) \o <<x>> = s.buf \o (s.queue \o <<x>>)
  BY <1>1, <1>2, AssociativeToo
<1> QED BY <1>2, <1>3, <1>4, Zenon DEF Held

LEMMA PiecesParts ==
    ASSUME NEW a \in Seq(ServerItems), NEW b \in Seq(ServerItems), NEW d \in Nat,
           Pieces(a \o b, d)
    PROVE  /\ Pieces(a, d) /\ Pieces(b, d + Len(a))
           /\ Len(a \o b) = Len(a) + Len(b) /\ Len(a) \in Nat /\ Len(b) \in Nat
<1>1. /\ Len(a \o b) = Len(a) + Len(b) /\ a \o b \in Seq(ServerItems)
      /\ \A i \in 1..(Len(a) + Len(b)) :
           (a \o b)[i] = IF i <= Len(a) THEN a[i] ELSE b[i - Len(a)]
  BY ConcatProperties
<1>2. /\ Len(a) \in Nat /\ Len(b) \in Nat /\ DOMAIN a = 1..Len(a) /\ DOMAIN b = 1..Len(b)
      /\ DOMAIN (a \o b) = 1..(Len(a) + Len(b))
  BY <1>1, LenProperties
<1>3. ASSUME NEW i \in DOMAIN a
      PROVE  a[i].kind = "data" /\ a[i].n = d + i
  <2>1. i \in DOMAIN (a \o b) /\ (a \o b)[i] = a[i]
    BY <1>1, <1>2
  <2> QED BY <2>1 DEF Pieces
<1>4. ASSUME NEW i \in DOMAIN b
      PROVE  b[i].kind = "data" /\ b[i].n = (d + Len(a)) + i
  <2>1. Len(a) + i \in DOMAIN (a \o b) /\ (a \o b)[Len(a) + i] = b[i]
    BY <1>1, <1>2
  <2>2. d + (Len(a) + i) = (d + Len(a)) + i
    BY <1>2
  <2> QED BY <2>1, <2>2 DEF Pieces
<1> QED BY <1>1, <1>2, <1>3, <1>4 DEF Pieces

\* An item of the socket is one of those that are held.
LEMMA QueueHeld ==
    ASSUME NEW s, GoodServer(s), NEW i \in DOMAIN s.queue
    PROVE  \E j \in DOMAIN Held(s) : Held(s)[j] = s.queue[i]
<1> DEFINE a == s.buf
           b == s.queue
<1>1. a \in Seq(ServerItems) /\ b \in Seq(ServerItems) /\ i \in DOMAIN b
  BY DEF GoodServer
<1> HIDE DEF a, b
<1>2. /\ Len(a \o b) = Len(a) + Len(b) /\ a \o b \in Seq(ServerItems)
      /\ \A k \in 1..(Len(a) + Len(b)) :
           (a \o b)[k] = IF k <= Len(a) THEN a[k] ELSE b[k - Len(a)]
  BY <1>1, ConcatProperties
<1>3. /\ Len(a) \in Nat /\ Len(b) \in Nat /\ DOMAIN b = 1..Len(b)
      /\ DOMAIN (a \o b) = 1..(Len(a) + Len(b))
  BY <1>1, <1>2, LenProperties
<1>4. /\ Len(a) + i \in 1..(Len(a) + Len(b)) /\ ~(Len(a) + i <= Len(a))
      /\ (Len(a) + i) - Len(a) = i
  BY <1>1, <1>3
<1>5. Len(a) + i \in DOMAIN (a \o b) /\ (a \o b)[Len(a) + i] = b[i]
  BY <1>2, <1>3, <1>4
<1> QED BY <1>5 DEF Held, a, b

\* Neither is changed by what a server gets or shuts.
LEMMA SameHeld ==
    ASSUME NEW s, NEW t, GoodServer(s),
           \A f \in ServerFields \ {"got", "shut", "end", "reads"} : t[f] = s[f]
    PROVE  /\ Held(t) = Held(s) /\ t.sent = s.sent
           /\ Quiet(s) => Quiet(t)
           /\ \A r : (Pending(s, r) => Pending(t, r)) /\ (Ready(s, r) => Ready(t, r))
           /\ Streaming(s) => Streaming(t)
<1>1. /\ t.buf = s.buf /\ t.queue = s.queue /\ t.sent = s.sent
      /\ t.asked = s.asked /\ t.answered = s.answered
  BY DEF ServerFields
<1>2. Held(t) = Held(s)
  BY <1>1, Zenon DEF Held
<1> QED BY <1>1, <1>2 DEF Quiet, Pending, Ready, Streaming

LEMMA DialServed ==
    ASSUME Shape, DialSucceeds
    PROVE  Served'
<1>1. at' \in {"proceed", "reply"} /\ server' = Server(Target(req))
  BY DEF DialSucceeds
<1>2. /\ server'.buf = <<>> /\ server'.queue = <<>> /\ server'.sent = 0
      /\ server'.asked = {} /\ server'.answered = {}
  BY <1>1 DEF Server
<1>3. Held(server') = <<>>
  <2>1. <<>> \o <<>> = <<>>
    BY ConcatEmptySeq, EmptySeq
  <2> QED BY <1>2, <2>1, Zenon DEF Held
<1>4. Quiet(server') /\ Streaming(server') /\ Len(Held(server')) = server'.sent
  <2>1. Len(<<>>) = 0 /\ \A i \in DOMAIN <<>> : FALSE
    OBVIOUS
  <2> QED BY <1>2, <1>3, <2>1 DEF Quiet, Streaming, Pieces
<1> QED BY <1>1, <1>4 DEF Served, Exchanging

\* Steps that leave the server alone.
LEMMA UnservedMoves ==
    ASSUME Served, UNCHANGED server,
           \/ at' \notin {"forward", "proceed", "send", "next", "reply", "switch", "drain", "splice"}
                         \cup Exchanging
           \/ /\ {at, at'} \subseteq {"forward", "proceed", "send", "next"}
           \/ /\ UNCHANGED <<at, req>>
           \/ at \in {"reply", "switch", "drain", "splice"} /\ at' \in {"drain", "splice"}
    PROVE  Served'
BY DEF Served, Exchanging

LEMMA HandlerServed ==
    ASSUME SInv, Shape, PInv, Served,
           \/ ReadGreeting \/ ReadSocksRequest \/ ReadRequest \/ HandleConnect \/ Forward
           \/ Dial \/ DialFails \/ DialTimesOut \/ TellUnreached \/ Proceed
           \/ ReplyOK \/ SpliceEnds \/ DownEnds
    PROVE  Served'
<1>1. CASE at' = "done"
  BY <1>1 DEF Served, Exchanging
<1>2. CASE at' # "done"
  <2>1. ~\E conn : Quit(conn)
    BY <1>2 DEF Quit
  <2>2. CASE \/ ReadGreeting \/ ReadSocksRequest \/ HandleConnect \/ Dial \/ DialFails
             \/ DialTimesOut \/ TellUnreached \/ SpliceEnds
    <3>1. at' \in {"request", "dial", "dialing", "unreached"}
      BY <2>1, <2>2 DEF ReadGreeting, ReadSocksRequest, HandleConnect, Dial, DialFails,
         DialTimesOut, Unreached, TellUnreached, SpliceEnds
    <3> QED BY <3>1 DEF Served, Exchanging
  <2>3. CASE ReadRequest
    <3>1. /\ at \in {"first", "next"} /\ at' \in {"connect", "forward"}
          /\ server' \in {server, NoServer}
      BY <2>1, <2>3 DEF ReadRequest
    <3>2. at = "first" => server = NoServer
      BY DEF SInv, Connected, MayHaveServer, WithServer
    <3> QED BY <3>1, <3>2 DEF Served, Exchanging
  <2>4. CASE Forward
    <3>1. at = "forward" /\ (at' = "dial" \/ (at' = "proceed" /\ UNCHANGED server))
      BY <2>1, <2>4 DEF Forward
    <3> QED BY <3>1 DEF Served, Exchanging
  <2>5. CASE Proceed
    BY <2>1, <2>5 DEF Proceed, Served, Exchanging
  <2>6. CASE ReplyOK \/ DownEnds
    <3>1. at \in {"reply", "splice"} /\ at' \in {"drain", "splice"} /\ UNCHANGED server
      BY <2>1, <2>6 DEF ReplyOK, DownEnds
    <3> QED BY <3>1, UnservedMoves
  <2> QED BY <2>2, <2>3, <2>4, <2>5, <2>6
<1> QED BY <1>1, <1>2

LEMMA SendServed ==
    ASSUME SInv, Shape, Served, SendRequest, at' # "done"
    PROVE  Served'
<1>1. /\ at = "send" /\ at' = "response" /\ UNCHANGED req
      /\ server' = [server EXCEPT !.asked = server.asked \cup {req}]
  BY DEF SendRequest, Quit
<1>2. server # NoServer /\ GoodServer(server)
  BY <1>1, ServerAt DEF Shape, WithServer
<1>3. /\ server'.buf = server.buf /\ server'.queue = server.queue /\ server'.sent = server.sent
      /\ server'.asked = server.asked \cup {req} /\ server'.answered = server.answered
  BY <1>1, <1>2 DEF GoodServer, ServerFields
<1>4. Held(server') = <<>> /\ server'.sent = 0 /\ server.asked \subseteq server.answered
  <2>1. Quiet(server)
    BY <1>1, <1>2 DEF Served
  <2>2. Held(server') = Held(server)
    BY <1>3, Zenon DEF Held
  <2> QED BY <1>3, <2>1, <2>2 DEF Quiet
<1>5. Interims(Held(server'))
  BY <1>4 DEF Interims
<1>6. Pending(server', req')
  BY <1>1, <1>3, <1>4, <1>5 DEF Pending
<1> QED BY <1>1, <1>6 DEF Served, Exchanging

\* What is relayed to the client, and what stays behind.
LEMMA RelayIs ==
    ASSUME SInv, Shape, Served, at \in Exchanging, NEW n \in ServerReads,
           NEW item, item = Head(Buffered(server, n)),
           NEW t, t = Consume(server, n)
    PROVE  /\ item \in ServerItems /\ item.kind \in {"interim", "response", "switch"}
           /\ item.kind \in {"response", "switch"} => item.n = req.n
           /\ item.kind = "interim" => Pending(t, req) \/ Ready(t, req)
           /\ item.kind = "response" => Quiet(t)
           /\ item.kind = "switch" => Streaming(t) /\ Len(Held(t)) = t.sent
<1>1. server # NoServer /\ GoodServer(server)
  BY ServerAt DEF Shape, WithServer, Exchanging
<1>2. /\ \A f \in ServerFields \ {"buf", "queue"} : t[f] = server[f]
      /\ Held(server) # <<>> /\ item = Head(Held(server)) /\ Held(t) = Tail(Held(server))
      /\ item \in ServerItems
  BY <1>1, ReadServer
<1>3. t.sent = server.sent /\ t.asked = server.asked /\ t.answered = server.answered
  BY <1>2 DEF ServerFields
<1>4. PICK h \in Seq(ServerItems) : h = Held(server)
  BY <1>1, HeldGood
<1>5. CASE Pending(server, req)
  <2>1. Interims(h) /\ server.sent = 0 /\ server.asked \ server.answered \subseteq {req}
    BY <1>4, <1>5 DEF Pending
  <2>2. Head(h).kind = "interim" /\ Interims(Tail(h))
    BY <1>2, <1>4, <2>1, InterimsTail
  <2>3. Pending(t, req)
    BY <1>2, <1>3, <1>4, <2>1, <2>2 DEF Pending
  <2> QED BY <1>2, <1>4, <2>2, <2>3
<1>6. CASE Ready(server, req)
  <2>1. server.asked \subseteq server.answered
    BY <1>6 DEF Ready
  <2>2. PICK f \in DOMAIN h : FinalAt(h, f, server.sent, req.n)
    BY <1>4, <1>6 DEF Ready
  <2>3. /\ f # 1 => /\ Head(h).kind = "interim"
                    /\ f - 1 \in DOMAIN Tail(h) /\ FinalAt(Tail(h), f - 1, server.sent, req.n)
        /\ f = 1 => /\ Head(h).kind \in {"response", "switch"} /\ Head(h).n = req.n
                    /\ Len(Tail(h)) = server.sent /\ Pieces(Tail(h), 0)
                    /\ Head(h).kind = "response" => Tail(h) = <<>> /\ server.sent = 0
    BY <2>2, FinalTail
  <2>4. item = Head(h) /\ Held(t) = Tail(h)
    BY <1>2, <1>4
  <2>5. CASE f # 1
    <3>1. Ready(t, req)
      BY <1>3, <2>1, <2>3, <2>4, <2>5 DEF Ready
    <3> QED BY <1>2, <2>3, <2>4, <2>5, <3>1
  <2>6. CASE f = 1
    <3>1. item.kind = "response" => Quiet(t)
      BY <1>3, <2>1, <2>3, <2>4, <2>6 DEF Quiet
    <3>2. Len(Held(t)) = t.sent /\ Pieces(Held(t), 0)
      BY <1>3, <2>3, <2>4, <2>6
    <3>3. t.sent \in Nat /\ t.sent - Len(Held(t)) = 0 /\ Len(Held(t)) <= t.sent
      BY <1>1, <1>3, <3>2 DEF GoodServer
    <3>4. Streaming(t)
      BY <1>3, <2>1, <3>2, <3>3 DEF Streaming
    <3> QED BY <1>2, <2>3, <2>4, <2>6, <3>1, <3>2, <3>4
  <2> QED BY <2>5, <2>6
<1> QED BY <1>1, <1>5, <1>6 DEF Served

LEMMA RelayServed ==
    ASSUME SInv, Shape, Served, RelayResponse, at' # "done"
    PROVE  Served'
<1>1. at \in Exchanging /\ UNCHANGED req
  BY DEF RelayResponse, Exchanging
<1>2. PICK n \in ServerReads :
        LET item == Head(Buffered(server, n)) IN
        /\ server' = Consume(server, n)
        /\ \/ item.kind = "interim" /\ at' = "final"
           \/ item.kind = "switch" /\ at' = "switch"
           \/ item.kind = "response" /\ at' = "next"
  BY DEF RelayResponse, Quit
<1>3. PICK item : item = Head(Buffered(server, n))
  OBVIOUS
<1>4. /\ item.kind = "interim" => Pending(server', req) \/ Ready(server', req)
      /\ item.kind = "response" => Quiet(server')
      /\ item.kind = "switch" => Streaming(server') /\ Len(Held(server')) = server'.sent
  BY <1>1, <1>2, <1>3, RelayIs
<1>5. \/ item.kind = "interim" /\ at' = "final"
      \/ item.kind = "switch" /\ at' = "switch"
      \/ item.kind = "response" /\ at' = "next"
  BY <1>2, <1>3
<1> QED BY <1>1, <1>4, <1>5 DEF Served, Exchanging

\* A part of what is held is used.
LEMMA StreamGoesOn ==
    ASSUME NEW s, GoodServer(s), Streaming(s), NEW t,
           t.sent = s.sent, t.asked = s.asked, t.answered = s.answered,
           NEW a \in Seq(ServerItems), NEW b \in Seq(ServerItems),
           Held(s) = a \o b, Held(t) = b
    PROVE  Streaming(t)
<1> DEFINE d == s.sent - Len(Held(s))
<1>1. Held(s) \in Seq(ServerItems) /\ Len(Held(s)) \in Nat /\ s.sent \in Nat
  BY HeldGood, LenProperties DEF GoodServer
<1>2. d \in Nat /\ Pieces(a \o b, d)
  BY <1>1 DEF Streaming
<1> HIDE DEF d
<1>3. /\ Pieces(b, d + Len(a)) /\ Len(a \o b) = Len(a) + Len(b)
      /\ Len(a) \in Nat /\ Len(b) \in Nat
  BY <1>2, PiecesParts
<1>4. d = s.sent - (Len(a) + Len(b))
  BY <1>3 DEF d
<1>5. d + Len(a) = t.sent - Len(Held(t)) /\ Len(Held(t)) <= t.sent
  BY <1>1, <1>2, <1>3, <1>4
<1> QED BY <1>3, <1>5 DEF Streaming

LEMMA TunnelServed ==
    ASSUME SInv, Shape, Served, DrainServer \/ DrainClient \/ CopyUp \/ CopyDown \/ UpEnds,
           at' # "done"
    PROVE  Served'
<1>1. at \in {"switch", "drain", "splice"} /\ at' \in {"drain", "splice"}
  BY DEF DrainServer, DrainClient, CopyUp, CopyDown, UpEnds, Quit
<1>2. server # NoServer /\ GoodServer(server) /\ Streaming(server)
  BY <1>1, ServerAt DEF Shape, WithServer, Served
<1>3. CASE DrainServer
  <2>1. server' = [server EXCEPT !.buf = <<>>]
    BY <1>3 DEF DrainServer, Quit
  <2>2. /\ server'.buf = <<>> /\ server'.queue = server.queue /\ server'.sent = server.sent
        /\ server'.asked = server.asked /\ server'.answered = server.answered
    BY <1>2, <2>1 DEF GoodServer, ServerFields
  <2>3. server.buf \in Seq(ServerItems) /\ server.queue \in Seq(ServerItems)
    BY <1>2 DEF GoodServer
  <2>4. <<>> \o server.queue = server.queue
    BY <2>3, ConcatEmptySeq
  <2>5. Held(server) = server.buf \o server.queue /\ Held(server') = server.queue
    BY <2>2, <2>4, Zenon DEF Held
  <2>6. Streaming(server')
    BY <1>2, <2>2, <2>3, <2>5, StreamGoesOn
  <2> QED BY <1>1, <2>6 DEF Served, Exchanging
<1>4. CASE DrainClient \/ CopyUp \/ UpEnds
  <2>1. \A f \in ServerFields \ {"got", "shut", "end"} : server'[f] = server[f]
    <3>1. CASE DrainClient
      <4>1. server' = Receive(server, client.buf) /\ client.buf \in Seq(ClientItems)
        BY <3>1 DEF DrainClient, Quit, Shape, Typed, GoodClient
      <4> QED BY <1>2, <4>1, ReceiveServer
    <3>2. CASE CopyUp
      <4>1. server' = Receive(server, <<Head(client.queue)>>) /\ DOMAIN server = ServerFields
        BY <1>2, <3>2 DEF CopyUp, GoodServer
      <4> QED BY <4>1, ReceiveFields
    <3>3. CASE UpEnds
      BY <1>2, <3>3 DEF UpEnds, GoodServer
    <3> QED BY <1>4, <3>1, <3>2, <3>3
  <2>2. Streaming(server')
    BY <1>2, <2>1, SameHeld
  <2> QED BY <1>1, <2>2 DEF Served, Exchanging
<1>5. CASE CopyDown
  <2>1. server' = [server EXCEPT !.queue = Tail(server.queue)] /\ server.queue # <<>>
    BY <1>5 DEF CopyDown
  <2>2. server.buf = <<>>
    BY <1>5 DEF CopyDown, Shape, Shaped
  <2>3. /\ server'.buf = <<>> /\ server'.queue = Tail(server.queue)
        /\ server'.sent = server.sent
        /\ server'.asked = server.asked /\ server'.answered = server.answered
    BY <1>2, <2>1, <2>2 DEF GoodServer, ServerFields
  <2>4. server.queue \in Seq(ServerItems)
    BY <1>2 DEF GoodServer
  <2>5. Head(server.queue) \in ServerItems /\ Tail(server.queue) \in Seq(ServerItems)
    BY <2>1, <2>4, HeadTailProperties
  <2>6. <<Head(server.queue)>> \in Seq(ServerItems)
    BY <2>5
  <2>7. server.queue = <<Head(server.queue)>> \o Tail(server.queue)
    BY <2>1, <2>4, HeadAndTail
  <2>8. /\ <<>> \o server.queue = server.queue
        /\ <<>> \o Tail(server.queue) = Tail(server.queue)
    BY <2>4, <2>5, ConcatEmptySeq
  <2>9. Held(server) = <<Head(server.queue)>> \o Tail(server.queue)
    BY <2>2, <2>7, <2>8, Zenon DEF Held
  <2>10. Held(server') = Tail(server.queue)
    BY <2>3, <2>8, Zenon DEF Held
  <2>11. Streaming(server')
    BY <1>2, <2>3, <2>5, <2>6, <2>9, <2>10, StreamGoesOn
  <2> QED BY <1>1, <2>11 DEF Served, Exchanging
<1> QED BY <1>3, <1>4, <1>5

LEMMA AnswersServed ==
    ASSUME SInv, Shape, Served, server # NoServer, ServerAnswers
    PROVE  Served'
<1>1. GoodServer(server)
  BY DEF Shape, Typed
<1>2. /\ \A f \in ServerFields \ {"queue", "answered"} : server'[f] = server[f]
      /\ UNCHANGED <<at, req>>
  BY <1>1, ServerAnswersIs
<1>3. PICK r \in server.asked \ server.answered, item \in ServerItems :
        /\ item.n = r.n /\ item.kind \in {"interim", "response", "switch"}
        /\ server'.queue = Append(server.queue, item)
        /\ server'.answered = IF item.kind = "interim" THEN server.answered
                              ELSE server.answered \cup {r}
  BY <1>1, ServerAnswersIs
<1>4. ~(server.asked \subseteq server.answered)
  BY <1>3
<1>5. at \notin {"forward", "proceed", "send", "next", "reply", "switch", "drain", "splice"}
  BY <1>4 DEF Served, Quiet, Streaming
<1>6. ASSUME at \in Exchanging
      PROVE  Pending(server', req) \/ Ready(server', req)
  <2>1. Pending(server, req)
    BY <1>4, <1>6 DEF Served, Ready
  <2>2. r = req /\ item.n = req.n
    BY <1>3, <2>1 DEF Pending
  <2>3. server'.buf = server.buf /\ server'.sent = server.sent /\ server'.asked = server.asked
    BY <1>2 DEF ServerFields
  <2>4. Held(server') = Append(Held(server), item) /\ Held(server) \in Seq(ServerItems)
    BY <1>1, <1>3, <2>3, HeldAppend, HeldGood
  <2>5. PICK h \in Seq(ServerItems) : h = Held(server)
    BY <2>4
  <2>6. Interims(h) /\ server.sent = 0 /\ server.asked \ server.answered \subseteq {req}
    BY <2>1, <2>5 DEF Pending
  <2>7. /\ item.kind = "interim" => Interims(Append(h, item))
        /\ item.kind \in {"response", "switch"} =>
             /\ Len(h) + 1 \in DOMAIN Append(h, item)
             /\ FinalAt(Append(h, item), Len(h) + 1, 0, item.n)
    BY <2>6, InterimsAppend
  <2>8. CASE item.kind = "interim"
    <3>1. server'.answered = server.answered
      BY <1>3, <2>8
    <3>2. Interims(Held(server'))
      BY <2>4, <2>5, <2>7, <2>8
    <3>3. Pending(server', req)
      BY <2>3, <2>6, <3>1, <3>2 DEF Pending
    <3> QED BY <3>3
  <2>9. CASE item.kind \in {"response", "switch"}
    <3>1. server'.asked \subseteq server'.answered
      BY <1>3, <2>2, <2>3, <2>6, <2>9
    <3>2. Held(server') = Append(h, item) /\ server'.sent = 0
      BY <2>3, <2>4, <2>5, <2>6
    <3>3. \E f \in DOMAIN Held(server') : FinalAt(Held(server'), f, server'.sent, req.n)
      BY <2>2, <2>7, <2>9, <3>2
    <3>4. Ready(server', req)
      BY <3>1, <3>3 DEF Ready
    <3> QED BY <3>4
  <2> QED BY <1>3, <2>8, <2>9
<1>7. PICK a, q : a = at /\ q = req /\ a = at' /\ q = req'
  BY <1>2
<1>8. a \in Exchanging => Pending(server', q) \/ Ready(server', q)
  BY <1>6, <1>7
<1> QED BY <1>5, <1>7, <1>8 DEF Served

LEMMA SendsServed ==
    ASSUME SInv, Shape, PInv, Served, server # NoServer, ServerSends
    PROVE  Served'
<1> DEFINE x == [kind |-> "data", flags |-> {}, n |-> server.sent + 1]
<1>1. GoodServer(server) /\ server.sent \in Nat
  BY DEF Shape, Typed, GoodServer
<1>2. /\ \A f \in ServerFields \ {"queue", "sent"} : server'[f] = server[f]
      /\ server'.queue = Append(server.queue, x) /\ server'.sent = server.sent + 1
      /\ Tunnelled \/ \E i \in DOMAIN server.queue : server.queue[i].kind = "switch"
      /\ UNCHANGED <<at, req>>
  BY <1>1, ServerSendsIs
<1>3. x \in ServerItems /\ x.kind = "data" /\ x.n = server.sent + 1
  BY <1>1 DEF ServerItems
<1> HIDE DEF x
<1>4. /\ server'.buf = server.buf /\ server'.asked = server.asked
      /\ server'.answered = server.answered
  BY <1>2 DEF ServerFields
<1>5. Held(server') = Append(Held(server), x) /\ Held(server) \in Seq(ServerItems)
  BY <1>1, <1>2, <1>3, <1>4, HeldAppend, HeldGood
<1>6. PICK h \in Seq(ServerItems) : h = Held(server)
  BY <1>5
<1>7. PICK a, q : a = at /\ q = req /\ a = at' /\ q = req'
  BY <1>2
<1>8. ASSUME at \in {"forward", "proceed", "send", "next"}
      PROVE  FALSE
  <2>1. ~Tunnelled
    BY <1>8 DEF Tunnelled, PInv, Kinds
  <2>2. PICK i \in DOMAIN server.queue : server.queue[i].kind = "switch"
    BY <1>2, <2>1
  <2>3. \E j \in DOMAIN Held(server) : Held(server)[j] = server.queue[i]
    BY <1>1, QueueHeld
  <2>4. Held(server) = <<>>
    BY <1>8 DEF Served, Quiet
  <2> QED BY <2>3, <2>4
<1>9. ASSUME at \in Exchanging
      PROVE  Ready(server', req)
  <2>1. ~Tunnelled
    BY <1>9 DEF Tunnelled, PInv, Kinds, Exchanging
  <2>2. PICK i \in DOMAIN server.queue : server.queue[i].kind = "switch"
    BY <1>2, <2>1
  <2>3. PICK j \in DOMAIN h : h[j].kind = "switch"
    BY <1>1, <1>6, <2>2, QueueHeld
  <2>4. Ready(server, req)
    BY <1>6, <1>9, <2>3 DEF Served, Pending, Interims
  <2>5. PICK f \in DOMAIN h : FinalAt(h, f, server.sent, req.n)
    BY <1>6, <2>4 DEF Ready
  <2>6. h[f].kind = "switch"
    <3>1. DOMAIN h = 1..Len(h) /\ Len(h) \in Nat
      BY <1>6, LenProperties
    <3>2. CASE j = f
      BY <2>3, <3>2
    <3>3. CASE j # f
      <4>1. j < f \/ j > f
        BY <3>1, <3>3
      <4> QED BY <2>3, <2>5, <4>1 DEF FinalAt
    <3> QED BY <3>2, <3>3
  <2>7. f \in DOMAIN Append(h, x) /\ FinalAt(Append(h, x), f, server.sent + 1, req.n)
    BY <1>1, <1>3, <2>5, <2>6, FinalAppend
  <2>8. Held(server') = Append(h, x) /\ server'.asked \subseteq server'.answered
    BY <1>4, <1>5, <1>6, <2>4 DEF Ready
  <2> QED BY <1>2, <2>7, <2>8 DEF Ready
<1>10. ASSUME at \in {"reply", "switch", "drain", "splice"}
       PROVE  /\ Streaming(server')
              /\ at \in {"reply", "switch"} => Len(Held(server')) = server'.sent
  <2> DEFINE d == server.sent - Len(h)
  <2>1. /\ server.asked \subseteq server.answered /\ Len(h) <= server.sent /\ Pieces(h, d)
        /\ at \in {"reply", "switch"} => Len(h) = server.sent
    BY <1>6, <1>10 DEF Served, Streaming
  <2>2. Len(h) \in Nat
    BY LenProperties
  <2>3. d \in Nat /\ x.n = d + Len(h) + 1
    BY <1>1, <1>3, <2>1, <2>2
  <2> HIDE DEF d
  <2>4. Pieces(Append(h, x), d) /\ Len(Append(h, x)) = Len(h) + 1
    BY <1>3, <2>1, <2>3, PiecesAppend
  <2>5. d = server'.sent - Len(Append(h, x)) /\ Len(Append(h, x)) <= server'.sent
    BY <1>1, <1>2, <2>1, <2>2, <2>4 DEF d
  <2>6. Held(server') = Append(h, x)
    BY <1>5, <1>6
  <2>7. Streaming(server')
    BY <1>4, <2>1, <2>4, <2>5, <2>6 DEF Streaming
  <2>8. at \in {"reply", "switch"} => Len(Held(server')) = server'.sent
    BY <1>2, <2>1, <2>4, <2>6
  <2> QED BY <2>7, <2>8
<1>11. /\ a \notin {"forward", "proceed", "send", "next"}
       /\ a \in Exchanging => Ready(server', q)
       /\ a \in {"reply", "switch", "drain", "splice"} => Streaming(server')
       /\ a \in {"reply", "switch"} => Len(Held(server')) = server'.sent
  BY <1>7, <1>8, <1>9, <1>10
<1> QED BY <1>7, <1>11 DEF Served

LEMMA PeersServed ==
    ASSUME SInv, Shape, PInv, Served, Peers
    PROVE  Served'
<1>1. CASE ClientSends \/ ClientEnds \/ ClientStops
  <2>1. UNCHANGED <<server, at, req>>
    BY <1>1 DEF ClientSends, ClientEnds, ClientStops
  <2> QED BY <2>1, UnservedMoves
<1>2. CASE ServerAnswers
  <2>1. server # NoServer
    BY <1>2 DEF ServerAnswers
  <2> QED BY <1>2, <2>1, AnswersServed
<1>3. CASE ServerSends
  <2>1. server # NoServer
    BY <1>3 DEF ServerSends
  <2> QED BY <1>3, <2>1, SendsServed
<1>4. CASE ServerEnds \/ ServerStops
  <2>1. server # NoServer /\ GoodServer(server)
    BY <1>4 DEF ServerEnds, ServerStops, Shape, Typed
  <2>2. /\ \A f \in ServerFields \ {"got", "shut", "end", "reads"} : server'[f] = server[f]
        /\ UNCHANGED <<at, req>>
    BY <1>4, <2>1, ServerEndsIs
  <2>3. PICK t : t = server'
    OBVIOUS
  <2>4. /\ Held(t) = Held(server) /\ t.sent = server.sent
        /\ Quiet(server) => Quiet(t)
        /\ \A r : (Pending(server, r) => Pending(t, r)) /\ (Ready(server, r) => Ready(t, r))
        /\ Streaming(server) => Streaming(t)
    BY <2>1, <2>2, <2>3, SameHeld
  <2>5. PICK a, q : a = at /\ q = req /\ a = at' /\ q = req'
    BY <2>2
  <2>6. /\ a \in {"forward", "proceed", "send", "next"} => Quiet(server')
        /\ a \in Exchanging => Pending(server', q) \/ Ready(server', q)
        /\ a \in {"reply", "switch", "drain", "splice"} => Streaming(server')
        /\ a \in {"reply", "switch"} => Len(Held(server')) = server'.sent
    BY <2>1, <2>3, <2>4, <2>5 DEF Served
  <2> QED BY <2>5, <2>6 DEF Served
<1> QED BY <1>1, <1>2, <1>3, <1>4 DEF Peers

LEMMA AsideServed ==
    ASSUME Served, Aside
    PROVE  Served'
<1>1. UNCHANGED <<server, req>>
  BY DEF Aside
<1>2. CASE UNCHANGED at
  BY <1>1, <1>2, UnservedMoves
<1>3. CASE at' \in {"backlog", "greeting", "first", "done"}
  BY <1>3 DEF Served, Exchanging
<1> QED BY <1>2, <1>3 DEF Aside, Tick

LEMMA InitServed == Init => Served
BY DEF Init, Served

LEMMA NextServed == GInv /\ Shape /\ PInv /\ Served /\ [Next]_vars => Served'
<1> SUFFICES ASSUME GInv, Shape, PInv, Served, [Next]_vars PROVE Served'
  OBVIOUS
<1>1. SInv
  BY DEF GInv
<1>2. CASE at' = "done"
  BY <1>2 DEF Served, Exchanging
<1>3. CASE at' # "done"
  <2>1. CASE \/ ReadGreeting \/ ReadSocksRequest \/ ReadRequest \/ HandleConnect \/ Forward
             \/ Dial \/ DialFails \/ DialTimesOut \/ TellUnreached \/ Proceed
           \/ ReplyOK \/ SpliceEnds \/ DownEnds
    BY <1>1, <2>1, HandlerServed
  <2>2. CASE DialSucceeds
    BY <2>2, DialServed
  <2>3. CASE SendRequest \/ RelayResponse
    BY <1>1, <1>3, <2>3, SendServed, RelayServed
  <2>4. CASE DrainServer \/ DrainClient \/ CopyUp \/ CopyDown \/ UpEnds
    BY <1>1, <1>3, <2>4, TunnelServed
  <2>5. CASE Peers
    BY <1>1, <2>5, PeersServed
  <2>6. CASE \/ Tick \/ Guard \/ CloseBegins \/ Serve \/ AcceptFails \/ ClientConnects
             \/ UNCHANGED vars
    BY <2>6, AsideOf, AsideServed
  <2> QED BY <2>1, <2>2, <2>3, <2>4, <2>5, <2>6 DEF Next, Session, Handler, Copy
<1> QED BY <1>2, <1>3

-----------------------------------------------------------------------------
(* What a client is told                                                   *)

\* The client gets these items, unless it is gone.
Hears(items) ==
    /\ client'.end = client.end
    /\ client'.got = IF client.end = "gone" THEN client.got ELSE client.got \o items

IsNote(item) == item.kind \in {"method", "continue", "interim"}

\* Steps that answer no request: on the way to an answer, behind it, or to
\* the next request.
Advance ==
    \/ /\ UNCHANGED req
       /\ \/ at' = "done"
          \/ {at, at'} \subseteq Early
          \/ {at, at'} \subseteq Deciding \cup Exchanging
          \/ {at, at'} \subseteq Settled
    \/ /\ at \in {"first", "request", "next"} /\ at' \in Deciding \cup {"done"}
       /\ req'.n = IF at = "next" THEN req.n + 1 ELSE 1

\* Steps that give the final answer to a request.
Settles ==
    \/ at \in Deciding \cup Exchanging /\ at' \in Settled \cup {"done"} /\ UNCHANGED req
    \/ at = "request" /\ at' = "done" /\ req'.n = 1

Refuses ==
    /\ at = "dial" /\ at' = "done" /\ UNCHANGED <<req, rules>>
    /\ ~permits(rules, Target(req).host, Target(req).port)

Silence == Hears(<<>>) /\ Advance
Note ==
    \E item \in ToClient :
      Hears(<<item>>) /\ IsNote(item) /\ Advance /\ at \notin Settled
Answer ==
    \E item \in ToClient :
      /\ Hears(<<item>>) /\ IsFinal(item) /\ item.n = req'.n /\ Settles
      /\ item.kind = "denied" => Refuses
Stream ==
    \E items \in Seq(ServerItems) :
      /\ Hears(items) /\ \A i \in DOMAIN items : items[i].kind = "data"
      /\ at \in Settled /\ at' \in {"drain", "splice"} /\ UNCHANGED req

Says == Silence \/ Note \/ Answer \/ Stream

LEMMA HearsNothing ==
    ASSUME GoodClient(client), client'.got = client.got, client'.end = client.end
    PROVE  Hears(<<>>)
<1>1. client.got \in Seq(ToClient)
  BY DEF GoodClient
<1>2. client.got \o <<>> = client.got
  BY <1>1, ConcatEmptySeq
<1> QED BY <1>2 DEF Hears

LEMMA HearsReply ==
    ASSUME NEW conn, GoodClient(conn), conn.got = client.got, conn.end = client.end,
           NEW items, NEW t, t = Receive(conn, items),
           client'.got = t.got, client'.end = t.end
    PROVE  Hears(items)
<1>1. /\ \A f \in DOMAIN conn \ {"got"} : t[f] = conn[f]
      /\ t.got = IF conn.end = "gone" THEN conn.got ELSE conn.got \o items
  BY ReceiveFields DEF GoodClient, ClientFields
<1>2. t.end = conn.end
  BY <1>1 DEF GoodClient, ClientFields
<1> QED BY <1>1, <1>2 DEF Hears

\* A handler that gives up says nothing more, or answers its request.
LEMMA QuitSilence ==
    ASSUME Typed, NEW conn, GoodClient(conn), conn.got = client.got, conn.end = client.end,
           Quit(conn), UNCHANGED req \/ (at = "request" /\ req'.n = 1)
    PROVE  Silence
<1>1. at' = "done" /\ client'.got = client.got /\ client'.end = client.end
  BY QuitIs
<1>2. Hears(<<>>)
  BY <1>1, HearsNothing DEF Typed
<1> QED BY <1>1, <1>2 DEF Silence, Advance

LEMMA QuitAnswer ==
    ASSUME Typed, NEW conn, GoodClient(conn), conn.got = client.got, conn.end = client.end,
           NEW kind \in {"badGateway", "denied", "refused", "unreached"},
           NEW item \in ClientItems, item = req', Quit(Tell(conn, item, kind)),
           \/ at \in Deciding \cup Exchanging /\ UNCHANGED req
           \/ at = "request" /\ req'.n = 1,
           kind = "denied" => Refuses
    PROVE  Says
<1>1. GoodClient(Tell(conn, item, kind))
  BY TellGood
<1>2. /\ at' = "done" /\ client'.got = Tell(conn, item, kind).got
      /\ client'.end = Tell(conn, item, kind).end
  BY <1>1, QuitIs
<1>3. CASE ClientWrites
  <2> DEFINE r == [kind |-> kind, n |-> item.n]
  <2>1. r \in ToClient /\ IsFinal(r) /\ r.n = item.n /\ r.kind = kind
    BY ItemsOK DEF ToClient, Replies, IsFinal
  <2>2. Tell(conn, item, kind) = Receive(conn, <<r>>)
    BY <1>3 DEF Tell, Reply
  <2> HIDE DEF r
  <2>3. Hears(<<r>>)
    BY <1>2, <2>2, HearsReply
  <2>4. Settles
    BY <1>2 DEF Settles
  <2>5. Answer
    BY <2>1, <2>3, <2>4 DEF Answer
  <2> QED BY <2>5 DEF Says
<1>4. CASE ~ClientWrites
  <2>1. Tell(conn, item, kind) = conn
    BY <1>4 DEF Tell
  <2>2. Silence
    BY <2>1, QuitSilence
  <2> QED BY <2>2 DEF Says
<1> QED BY <1>3, <1>4

LEMMA NegotiationSays ==
    ASSUME SInv, Shape, PInv, ReadGreeting \/ ReadSocksRequest \/ ReadRequest
    PROVE  Says
<1>1. Typed /\ GoodClient(client)
  BY DEF Shape, Typed
<1>2. at \in {"greeting", "request", "first", "next"}
  BY DEF ReadGreeting, ReadSocksRequest, ReadRequest
<1>3. ASSUME Quit(client), UNCHANGED req
      PROVE  Says
  BY <1>1, <1>3, QuitSilence DEF Says
<1>4. ASSUME NEW n \in ClientReads
      PROVE  /\ GoodClient(Consume(client, n)) /\ Consume(client, n).got = client.got
             /\ Consume(client, n).end = client.end
  BY <1>1, ReadClient
<1>5. ASSUME NEW n \in ClientReads, Quit(Consume(client, n)), UNCHANGED req
      PROVE  Says
  BY <1>1, <1>4, <1>5, QuitSilence DEF Says
<1>6. CASE ReadGreeting
  <2>1. ASSUME NEW n \in ClientReads,
               client' = Receive(Consume(client, n), Reply(req, "method")),
               at' = "request", UNCHANGED req
        PROVE  Says
    <3> DEFINE r == [kind |-> "method", n |-> req.n]
    <3>1. req = NoRequest
      BY <1>1, <1>6 DEF ReadGreeting, Typed, Early
    <3>2. r \in ToClient /\ IsNote(r)
      BY <3>1 DEF ToClient, Replies, IsNote, NoRequest
    <3>3. client' = Receive(Consume(client, n), <<r>>)
      BY <2>1 DEF Reply
    <3> HIDE DEF r
    <3>4. Hears(<<r>>)
      BY <1>4, <3>3, HearsReply
    <3>5. Advance /\ at \notin Settled
      BY <1>6, <2>1 DEF ReadGreeting, Advance, Early, Settled
    <3>6. Note
      BY <3>2, <3>4, <3>5 DEF Note
    <3> QED BY <3>6 DEF Says
  <2> QED BY <1>3, <1>5, <1>6, <2>1 DEF ReadGreeting
<1>7. CASE ReadSocksRequest
  <2>1. ASSUME NEW n \in ClientReads, NEW item, item = Head(Buffered(client, n)),
               item.kind = "socks", req' = item
        PROVE  item \in ClientItems /\ req'.n = 1 /\ at = "request"
    BY <1>7, <2>1, NumberRead DEF ReadSocksRequest
  <2>2. ASSUME NEW n \in ClientReads, NEW item, item = Head(Buffered(client, n)),
               item.kind = "socks", req' = item, Quit(Tell(Consume(client, n), item,
               "refused"))
        PROVE  Says
    <3>1. item \in ClientItems /\ req'.n = 1 /\ at = "request"
      BY <2>1, <2>2
    <3>2. /\ GoodClient(Consume(client, n)) /\ Consume(client, n).got = client.got
          /\ Consume(client, n).end = client.end
      BY <1>4
    <3> QED BY <1>1, <2>2, <3>1, <3>2, QuitAnswer
  <2>3. ASSUME NEW n \in ClientReads, NEW item, item = Head(Buffered(client, n)),
               item.kind = "socks", req' = item, at' = "dial", client' = Consume(client, n)
        PROVE  Says
    <3>1. Advance
      BY <2>1, <2>3 DEF Advance, Deciding
    <3>2. Hears(<<>>)
      BY <1>1, <1>4, <2>3, HearsNothing
    <3> QED BY <3>1, <3>2 DEF Says, Silence
  <2> QED BY <1>3, <1>5, <1>7, <2>2, <2>3 DEF ReadSocksRequest
<1>8. CASE ReadRequest
  <2>1. ASSUME NEW n \in ClientReads, NEW item, item = Head(Buffered(client, n)),
               item.kind = "http", req' = item, at' \in {"connect", "forward"},
               client' = Consume(client, n)
        PROVE  Says
    <3>1. req'.n = IF at = "next" THEN req.n + 1 ELSE 1
      BY <1>8, <2>1, NumberRead DEF ReadRequest
    <3>2. Advance
      BY <1>8, <2>1, <3>1 DEF ReadRequest, Advance, Deciding
    <3>3. Hears(<<>>)
      BY <1>1, <1>4, <2>1, HearsNothing
    <3> QED BY <3>2, <3>3 DEF Says, Silence
  <2> QED BY <1>3, <1>5, <1>8, <2>1 DEF ReadRequest
<1> QED BY <1>6, <1>7, <1>8

LEMMA DiallingSays ==
    ASSUME SInv, Shape, PInv,
           \/ HandleConnect \/ Forward \/ Dial \/ DialFails \/ DialTimesOut
           \/ TellUnreached \/ DialSucceeds
    PROVE  Says
<1>1. Typed /\ GoodClient(client) /\ at \in Deciding /\ UNCHANGED req
  BY DEF Shape, Typed, HandleConnect, Forward, Dial, DialFails, DialTimesOut, Unreached,
     TellUnreached, DialSucceeds, Deciding
<1>2. req \in ClientItems /\ req = req'
  BY <1>1 DEF Typed
<1>3. ASSUME NEW kind \in {"badGateway", "denied", "refused", "unreached"},
             Quit(Tell(client, req, kind)), kind = "denied" => Refuses
      PROVE  Says
  BY <1>1, <1>2, <1>3, QuitAnswer
<1>4. ASSUME UNCHANGED client, at' \in Deciding
      PROVE  Says
  <2>1. Hears(<<>>)
    BY <1>1, <1>4, HearsNothing
  <2>2. Advance
    BY <1>1, <1>4 DEF Advance
  <2> QED BY <2>1, <2>2 DEF Says, Silence
<1>5. CASE HandleConnect
  BY <1>3, <1>4, <1>5 DEF HandleConnect, Deciding
<1>6. CASE Forward
  BY <1>3, <1>4, <1>6 DEF Forward, Deciding
<1>7. CASE Dial
  <2>1. CASE permits(rules, Target(req).host, Target(req).port)
    BY <1>4, <1>7, <2>1 DEF Dial, Deciding
  <2>2. CASE ~permits(rules, Target(req).host, Target(req).port)
    <3>1. /\ at = "dial" /\ Quit(Tell(client, req, "denied")) /\ at' = "done"
          /\ UNCHANGED rules
      BY <1>7, <2>2 DEF Dial, Quit
    <3>2. Refuses
      BY <1>1, <2>2, <3>1 DEF Refuses
    <3> QED BY <1>3, <3>1, <3>2
  <2> QED BY <2>1, <2>2
<1>8. CASE TellUnreached
  BY <1>3, <1>8 DEF TellUnreached
<1>9. CASE DialSucceeds \/ DialFails \/ DialTimesOut
  BY <1>4, <1>9 DEF DialSucceeds, DialFails, DialTimesOut, Unreached, Deciding
<1> QED BY <1>5, <1>6, <1>7, <1>8, <1>9

LEMMA ExchangeSays ==
    ASSUME SInv, Shape, PInv, Served, Proceed \/ SendRequest \/ RelayResponse
    PROVE  Says
<1>1. /\ Typed /\ GoodClient(client) /\ UNCHANGED req
      /\ at \in {"proceed", "send", "response", "final"} /\ at \in Deciding \cup Exchanging
  BY DEF Shape, Typed, Proceed, SendRequest, RelayResponse, Deciding, Exchanging
<1>2. req \in ClientItems /\ req = req' /\ req.n \in Nat
  BY <1>1, ItemsOK DEF Typed
<1>3. ASSUME Quit(client)
      PROVE  Says
  BY <1>1, <1>3, QuitSilence DEF Says
<1>4. ASSUME GoodClient(client'), client'.got = client.got, client'.end = client.end,
             at' \in Deciding \cup Exchanging
      PROVE  Says
  <2>1. Hears(<<>>)
    BY <1>1, <1>4, HearsNothing
  <2>2. Advance
    BY <1>1, <1>4 DEF Advance
  <2> QED BY <2>1, <2>2 DEF Says, Silence
<1>5. CASE Proceed
  <2>1. ASSUME client' = Receive(client, Reply(req, "continue")), at' = "send"
        PROVE  Says
    <3> DEFINE r == [kind |-> "continue", n |-> req.n]
    <3>1. r \in ToClient /\ IsNote(r)
      BY <1>2 DEF ToClient, Replies, IsNote
    <3>2. client' = Receive(client, <<r>>)
      BY <2>1 DEF Reply
    <3> HIDE DEF r
    <3>3. Hears(<<r>>)
      BY <1>1, <3>2, HearsReply
    <3>4. Advance /\ at \notin Settled
      BY <1>1, <2>1 DEF Advance, Deciding, Settled
    <3>5. Note
      BY <3>1, <3>3, <3>4 DEF Note
    <3> QED BY <3>5 DEF Says
  <2>2. ASSUME client' = client, at' = "send"
        PROVE  Says
    BY <1>1, <1>4, <2>2 DEF Deciding
  <2> QED BY <1>3, <1>5, <2>1, <2>2 DEF Proceed
<1>6. CASE SendRequest
  <2>1. ASSUME NEW n \in ClientReads, client' = Consume(client, n), at' = "response"
        PROVE  Says
    <3>1. /\ GoodClient(Consume(client, n)) /\ Consume(client, n).got = client.got
          /\ Consume(client, n).end = client.end
      BY <1>1, ReadClient
    <3> QED BY <1>4, <2>1, <3>1 DEF Exchanging
  <2>2. ASSUME client' = client, at' = "response"
        PROVE  Says
    BY <1>1, <1>4, <2>2 DEF Exchanging
  <2> QED BY <1>3, <1>6, <2>1, <2>2 DEF SendRequest
<1>7. CASE RelayResponse
  <2>1. ASSUME Quit(Tell(client, req, "badGateway"))
        PROVE  Says
    BY <1>1, <1>2, <2>1, QuitAnswer
  <2>2. ASSUME NEW n \in ServerReads, NEW item, item = Head(Buffered(server, n)),
               NEW relayed, relayed = Receive(client, <<item>>),
               \/ client' = relayed /\ item.kind = "interim" /\ at' = "final"
               \/ client' = relayed /\ item.kind \in {"switch", "response"}
                  /\ at' \in {"switch", "next"}
               \/ Quit(relayed)
        PROVE  Says
    <3>1. at \in Exchanging
      BY <1>7 DEF RelayResponse, Exchanging
    <3>2. PICK t : t = Consume(server, n)
      OBVIOUS
    <3>3. /\ item \in ServerItems /\ item.kind \in {"interim", "response", "switch"}
          /\ item.kind \in {"response", "switch"} => item.n = req.n
      BY <2>2, <3>1, <3>2, RelayIs
    <3>4. item \in ToClient /\ <<item>> \in Seq(ToClient)
      BY <3>3 DEF ToClient
    <3>5. GoodClient(relayed)
      BY <1>1, <2>2, <3>4, ReplyGood
    <3>6. Quit(relayed) => /\ at' = "done" /\ client'.got = relayed.got
                           /\ client'.end = relayed.end
      BY <1>1, <3>5, QuitIs
    <3>7. Hears(<<item>>)
      <4>1. client'.got = relayed.got /\ client'.end = relayed.end
        BY <2>2, <3>6
      <4> QED BY <1>1, <2>2, <4>1, HearsReply
    <3>8. CASE item.kind = "interim"
      <4>1. at' \in {"final", "done"}
        BY <2>2, <3>6, <3>8
      <4>2. Advance /\ at \notin Settled /\ IsNote(item)
        BY <1>1, <3>8, <4>1 DEF Advance, Exchanging, Settled, IsNote
      <4>3. Note
        BY <3>4, <3>7, <4>2 DEF Note
      <4> QED BY <4>3 DEF Says
    <3>9. CASE item.kind \in {"response", "switch"}
      <4>1. at' \in {"switch", "next", "done"}
        BY <2>2, <3>6, <3>9
      <4>2. Settles /\ IsFinal(item) /\ item.n = req'.n /\ item.kind # "denied"
        BY <1>1, <1>2, <3>3, <3>9, <4>1 DEF Settles, Settled, IsFinal
      <4>3. Answer
        BY <3>4, <3>7, <4>2 DEF Answer
      <4> QED BY <4>3 DEF Says
    <3> QED BY <3>3, <3>8, <3>9
  <2> QED BY <1>3, <1>7, <2>1, <2>2 DEF RelayResponse
<1> QED BY <1>5, <1>6, <1>7

LEMMA DrainServerIs ==
    ASSUME SInv, Shape, Served, DrainServer, at' # "done"
    PROVE  /\ server.buf \in Seq(ServerItems) /\ Pieces(server.buf, 0)
           /\ Hears(server.buf) /\ at = "switch" /\ at' = "drain" /\ UNCHANGED req
           /\ server'.sent = server.sent
           /\ Len(server.buf) = server'.sent - Len(Held(server'))
<1>1. /\ at = "switch" /\ at' = "drain" /\ UNCHANGED req
      /\ client' = Receive(client, server.buf) /\ server' = [server EXCEPT !.buf = <<>>]
  BY DEF DrainServer, Quit
<1>2. GoodServer(server) /\ server # NoServer /\ GoodClient(client)
  BY <1>1, ServerAt DEF Shape, WithServer, Typed
<1>3. server.buf \in Seq(ServerItems) /\ server.queue \in Seq(ServerItems)
  BY <1>2 DEF GoodServer
<1>4. /\ Pieces(Held(server), server.sent - Len(Held(server)))
      /\ Len(Held(server)) = server.sent /\ server.sent \in Nat
  BY <1>1, <1>2 DEF Served, Streaming, GoodServer
<1>5. Pieces(server.buf \o server.queue, 0)
  BY <1>4 DEF Held
<1>6. /\ Pieces(server.buf, 0) /\ Len(server.buf) \in Nat /\ Len(server.queue) \in Nat
      /\ server.sent = Len(server.buf) + Len(server.queue)
  <2>1. PICK a \in Seq(ServerItems), b \in Seq(ServerItems) :
          a = server.buf /\ b = server.queue
    BY <1>3
  <2>2. /\ Pieces(a, 0) /\ Len(a \o b) = Len(a) + Len(b)
        /\ Len(a) \in Nat /\ Len(b) \in Nat
    BY <1>5, <2>1, PiecesParts
  <2> QED BY <1>4, <2>1, <2>2 DEF Held
<1>7. Held(server') = server.queue /\ server'.sent = server.sent
  <2>1. server'.buf = <<>> /\ server'.queue = server.queue /\ server'.sent = server.sent
    BY <1>1, <1>2 DEF GoodServer, ServerFields
  <2>2. <<>> \o server.queue = server.queue
    BY <1>3, ConcatEmptySeq
  <2> QED BY <2>1, <2>2, Zenon DEF Held
<1>8. Hears(server.buf)
  BY <1>1, <1>2, HearsReply
<1>9. Len(server.buf) = server'.sent - Len(Held(server'))
  BY <1>6, <1>7
<1> QED BY <1>1, <1>3, <1>6, <1>7, <1>8, <1>9

LEMMA CopyDownIs ==
    ASSUME SInv, Shape, Served, CopyDown
    PROVE  /\ at = "splice" /\ UNCHANGED <<at, req>>
           /\ \E item \in ServerItems :
                /\ Hears(<<item>>) /\ item.kind = "data"
                /\ item.n = server.sent - Len(Held(server)) + 1
           /\ server'.sent = server.sent
           /\ server'.sent - Len(Held(server')) = server.sent - Len(Held(server)) + 1
<1>1. /\ at = "splice" /\ UNCHANGED <<at, req>> /\ server.queue # <<>>
      /\ client' = Receive(client, <<Head(server.queue)>>)
      /\ server' = [server EXCEPT !.queue = Tail(server.queue)]
  BY DEF CopyDown
<1>2. GoodServer(server) /\ server # NoServer /\ GoodClient(client) /\ server.buf = <<>>
  BY <1>1, SpliceAt
<1>3. PICK h \in Seq(ServerItems) : h = server.queue /\ h # <<>>
  BY <1>1, <1>2 DEF GoodServer
<1>4. Tail(h) \in Seq(ServerItems) /\ Len(Tail(h)) = Len(h) - 1 /\ Len(h) \in Nat \ {0}
  BY <1>3, TailOf
<1>5. Head(h) \in ServerItems
  BY <1>3, HeadTailProperties
<1>6. Held(server) = h
  <2>1. <<>> \o h = h
    BY ConcatEmptySeq
  <2> QED BY <1>2, <1>3, <2>1, Zenon DEF Held
<1>7. Held(server') = Tail(h) /\ server'.sent = server.sent
  <2>1. server'.buf = <<>> /\ server'.queue = Tail(h) /\ server'.sent = server.sent
    BY <1>1, <1>2, <1>3 DEF GoodServer, ServerFields
  <2>2. <<>> \o Tail(h) = Tail(h)
    BY <1>4, ConcatEmptySeq
  <2> QED BY <2>1, <2>2, Zenon DEF Held
<1>8. PICK d : d = server.sent - Len(h)
  OBVIOUS
<1>9. Pieces(h, d) /\ Len(h) <= server.sent /\ server.sent \in Nat
  BY <1>1, <1>2, <1>6, <1>8 DEF Served, Streaming, GoodServer
<1>10. d \in Nat
  BY <1>4, <1>8, <1>9
<1>11. Head(h).kind = "data" /\ Head(h).n = d + 1
  BY <1>3, <1>9, <1>10, PiecesTail
<1>12. Hears(<<Head(h)>>)
  BY <1>1, <1>2, <1>3, HearsReply
<1>13. server'.sent - Len(Held(server')) = d + 1
  BY <1>4, <1>7, <1>8, <1>9
<1> QED BY <1>1, <1>5, <1>6, <1>7, <1>8, <1>11, <1>12, <1>13

LEMMA TunnelSays ==
    ASSUME SInv, Shape, Served, \/ ReplyOK \/ DrainServer \/ DrainClient \/ SpliceEnds
                                \/ CopyUp \/ CopyDown \/ UpEnds \/ DownEnds
    PROVE  Says
<1>1. /\ Typed /\ GoodClient(client) /\ UNCHANGED req
      /\ at \in {"reply"} \cup Settled
  BY DEF Shape, Typed, ReplyOK, DrainServer, DrainClient, SpliceEnds, CopyUp, CopyDown,
         UpEnds, DownEnds, Settled
<1>2. req \in ClientItems /\ req = req' /\ req.n \in Nat
  BY <1>1, ItemsOK DEF Typed, Deciding
<1>3. ASSUME Quit(client)
      PROVE  Says
  BY <1>1, <1>3, QuitSilence DEF Says
<1>4. ASSUME client'.got = client.got, client'.end = client.end, {at, at'} \subseteq Settled
      PROVE  Says
  <2>1. Hears(<<>>)
    BY <1>1, <1>4, HearsNothing
  <2>2. Advance
    BY <1>1, <1>4 DEF Advance
  <2> QED BY <2>1, <2>2 DEF Says, Silence
<1>5. CASE ReplyOK
  <2>1. ASSUME client' = Receive(client, Reply(req, "ok")), at' = "drain"
        PROVE  Says
    <3> DEFINE r == [kind |-> "ok", n |-> req.n]
    <3>1. r \in ToClient /\ IsFinal(r) /\ r.n = req'.n /\ r.kind # "denied"
      BY <1>2 DEF ToClient, Replies, IsFinal
    <3>2. client' = Receive(client, <<r>>)
      BY <2>1 DEF Reply
    <3> HIDE DEF r
    <3>3. Hears(<<r>>)
      BY <1>1, <3>2, HearsReply
    <3>4. Settles
      BY <1>1, <1>5, <2>1 DEF Settles, Deciding, Settled, ReplyOK
    <3>5. Answer
      BY <3>1, <3>3, <3>4 DEF Answer
    <3> QED BY <3>5 DEF Says
  <2> QED BY <1>3, <1>5, <2>1 DEF ReplyOK
<1>6. CASE DrainServer
  <2>1. CASE at' # "done"
    <3>1. /\ server.buf \in Seq(ServerItems) /\ Pieces(server.buf, 0) /\ Hears(server.buf)
          /\ at = "switch" /\ at' = "drain"
      BY <1>6, <2>1, DrainServerIs
    <3>2. \A i \in DOMAIN server.buf : server.buf[i].kind = "data"
      BY <3>1 DEF Pieces
    <3>3. at \in Settled /\ at' \in {"drain", "splice"}
      BY <3>1 DEF Settled
    <3>4. Stream
      BY <1>1, <3>1, <3>2, <3>3 DEF Stream
    <3> QED BY <3>4 DEF Says
  <2>2. CASE at' = "done"
    BY <1>3, <1>6, <2>2 DEF DrainServer
  <2> QED BY <2>1, <2>2
<1>7. CASE CopyDown
  <2>1. PICK item \in ServerItems : Hears(<<item>>) /\ item.kind = "data"
    BY <1>7, CopyDownIs
  <2>2. <<item>> \in Seq(ServerItems) /\ \A i \in DOMAIN <<item>> : <<item>>[i].kind = "data"
    BY <2>1
  <2>3. at \in Settled /\ at' \in {"drain", "splice"}
    BY <1>7, CopyDownIs DEF Settled
  <2>4. Stream
    BY <1>1, <2>1, <2>2, <2>3 DEF Stream
  <2> QED BY <2>4 DEF Says
<1>8. CASE DrainClient
  <2>1. at' = "splice" => client'.got = client.got /\ client'.end = client.end
    BY <1>1, <1>8 DEF DrainClient, Quit, GoodClient, ClientFields
  <2>2. at' = "splice" => {at, at'} \subseteq Settled
    BY <1>8 DEF DrainClient, Settled
  <2> QED BY <1>3, <1>4, <1>8, <2>1, <2>2 DEF DrainClient
<1>9. CASE CopyUp \/ UpEnds \/ DownEnds
  <2>1. client'.got = client.got /\ client'.end = client.end
    BY <1>1, <1>9 DEF CopyUp, UpEnds, DownEnds, GoodClient, ClientFields
  <2>2. {at, at'} \subseteq Settled
    BY <1>9 DEF CopyUp, UpEnds, DownEnds, Settled
  <2> QED BY <1>4, <2>1, <2>2
<1>10. CASE SpliceEnds
  BY <1>3, <1>10 DEF SpliceEnds
<1> QED BY <1>5, <1>6, <1>7, <1>8, <1>9, <1>10

\* Whatever a step of a session does, its client hears no more than that.
LEMMA SessionSays ==
    ASSUME SInv, Shape, PInv, Served, Handler \/ DialSucceeds \/ DialFails \/ Copy
    PROVE  Says
BY NegotiationSays, DiallingSays, ExchangeSays, TunnelSays DEF Handler, Copy

\* The other steps tell it nothing.
LEMMA OthersSay ==
    ASSUME Shape, \/ Peers \/ Tick \/ Guard \/ CloseBegins \/ Serve \/ AcceptFails
                  \/ ClientConnects \/ UNCHANGED vars
    PROVE  /\ client'.got = client.got
           /\ client'.end # "gone" => client.end # "gone"
           /\ UNCHANGED req
           /\ UNCHANGED at \/ at' = "done" \/ {at, at'} \subseteq Early
<1>1. GoodClient(client)
  BY DEF Shape, Typed
<1>2. CASE ClientSends
  BY <1>1, <1>2, ClientSendsIs DEF ClientFields
<1>3. CASE ClientEnds \/ ClientStops
  <2>1. \A f \in ClientFields \ {"end", "reads"} : client'[f] = client[f]
    BY <1>1, <1>3, ClientEndsIs
  <2> QED BY <1>1, <1>3, <2>1, ClientEndsIs DEF ClientFields
<1>4. CASE ServerAnswers \/ ServerSends \/ ServerEnds \/ ServerStops
  BY <1>4 DEF ServerAnswers, ServerSends, ServerEnds, ServerStops
<1>5. CASE ~Peers
  <2>1. Aside
    BY <1>5, AsideOf
  <2> QED BY <2>1 DEF Aside, Early, Tick
<1> QED BY <1>2, <1>3, <1>4, <1>5 DEF Peers

-----------------------------------------------------------------------------
(* The answers that a client gets                                          *)

Ordered(got) ==
    \A i, j \in DOMAIN got :
      i < j /\ IsFinal(got[i]) /\ IsFinal(got[j]) => got[i].n < got[j].n

\* The first m requests are answered, or fewer of them to a client that left.
Count(c, m) ==
    /\ Ordered(c.got)
    /\ \E k \in 0..m : Answered(c.got) = 1..k /\ (c.end # "gone" => k = m)

\* How many requests are answered at a step.
Tally(m) ==
    /\ m \in Nat
    /\ at \in Early => m = 0
    /\ at \in Deciding \cup Exchanging => m = req.n - 1
    /\ at \in Settled => m = req.n
    /\ at = "done" => m = req.n - 1 \/ m = req.n

Counted == \E m \in Nat : Tally(m) /\ Count(client, m)

LEMMA ConcatIs ==
    ASSUME NEW S, NEW s \in Seq(S), NEW t \in Seq(S)
    PROVE  /\ s \o t \in Seq(S) /\ Len(s \o t) = Len(s) + Len(t)
           /\ Len(s) \in Nat /\ Len(t) \in Nat
           /\ DOMAIN s = 1..Len(s) /\ DOMAIN t = 1..Len(t)
           /\ DOMAIN (s \o t) = 1..(Len(s) + Len(t))
           /\ \A i \in DOMAIN s : (s \o t)[i] = s[i] /\ i \in DOMAIN (s \o t)
           /\ \A i \in DOMAIN t : /\ (s \o t)[Len(s) + i] = t[i]
                                  /\ Len(s) + i \in DOMAIN (s \o t)
           /\ \A i \in DOMAIN (s \o t) : i \notin DOMAIN s => i - Len(s) \in DOMAIN t
<1>1. /\ s \o t \in Seq(S) /\ Len(s \o t) = Len(s) + Len(t)
      /\ \A i \in 1..(Len(s) + Len(t)) :
           (s \o t)[i] = IF i <= Len(s) THEN s[i] ELSE t[i - Len(s)]
  BY ConcatProperties
<1>2. /\ Len(s) \in Nat /\ Len(t) \in Nat
      /\ DOMAIN s = 1..Len(s) /\ DOMAIN t = 1..Len(t)
      /\ DOMAIN (s \o t) = 1..(Len(s) + Len(t))
  BY <1>1, LenProperties
<1>3. ASSUME NEW i \in DOMAIN s
      PROVE  (s \o t)[i] = s[i] /\ i \in DOMAIN (s \o t)
  BY <1>1, <1>2
<1>4. ASSUME NEW i \in DOMAIN t
      PROVE  (s \o t)[Len(s) + i] = t[i] /\ Len(s) + i \in DOMAIN (s \o t)
  BY <1>1, <1>2
<1>5. ASSUME NEW i \in DOMAIN (s \o t), i \notin DOMAIN s
      PROVE  i - Len(s) \in DOMAIN t
  BY <1>2, <1>5
<1> QED BY <1>1, <1>2, <1>3, <1>4, <1>5

\* Items that are no answers leave the count.
LEMMA CountNotes ==
    ASSUME NEW got \in Seq(ToClient), NEW items \in Seq(ToClient), Ordered(got),
           \A i \in DOMAIN items : ~IsFinal(items[i])
    PROVE  Ordered(got \o items) /\ Answered(got \o items) = Answered(got)
<1> DEFINE all == got \o items
<1>1. /\ DOMAIN got = 1..Len(got) /\ Len(got) \in Nat
      /\ DOMAIN all = 1..(Len(got) + Len(items)) /\ Len(items) \in Nat
      /\ \A i \in DOMAIN got : all[i] = got[i] /\ i \in DOMAIN all
      /\ \A i \in DOMAIN items : all[Len(got) + i] = items[i]
      /\ \A i \in DOMAIN all : i \notin DOMAIN got => i - Len(got) \in DOMAIN items
  BY ConcatIs
<1> HIDE DEF all
<1>2. ASSUME NEW i \in DOMAIN all, IsFinal(all[i])
      PROVE  i \in DOMAIN got /\ all[i] = got[i]
  <2>1. ASSUME i \notin DOMAIN got
        PROVE  FALSE
    <3>1. i - Len(got) \in DOMAIN items
      BY <1>1, <2>1
    <3>2. Len(got) + (i - Len(got)) = i
      BY <1>1
    <3>3. all[i] = items[i - Len(got)]
      BY <1>1, <3>1, <3>2
    <3> QED BY <1>2, <3>1, <3>3
  <2> QED BY <1>1, <2>1
<1>3. Ordered(all)
  BY <1>2 DEF Ordered
<1>4. Answered(all) = Answered(got)
  <2>1. ASSUME NEW x \in Answered(all)
        PROVE  x \in Answered(got)
    <3>1. PICK i \in DOMAIN all : IsFinal(all[i]) /\ x = all[i].n
      BY DEF Answered
    <3>2. i \in DOMAIN got /\ all[i] = got[i]
      BY <1>2, <3>1
    <3> QED BY <3>1, <3>2 DEF Answered
  <2>2. ASSUME NEW x \in Answered(got)
        PROVE  x \in Answered(all)
    <3>1. PICK i \in DOMAIN got : IsFinal(got[i]) /\ x = got[i].n
      BY DEF Answered
    <3>2. i \in DOMAIN all /\ all[i] = got[i]
      BY <1>1
    <3> QED BY <3>1, <3>2 DEF Answered
  <2> QED BY <2>1, <2>2
<1> QED BY <1>3, <1>4 DEF all

\* The next answer.
LEMMA CountAnswer ==
    ASSUME NEW got \in Seq(ToClient), NEW item \in ToClient, Ordered(got), IsFinal(item),
           NEW k \in Nat, Answered(got) = 1..k, item.n = k + 1
    PROVE  Ordered(got \o <<item>>) /\ Answered(got \o <<item>>) = 1..(k + 1)
<1> DEFINE all == got \o <<item>>
<1>1. <<item>> \in Seq(ToClient) /\ Len(<<item>>) = 1 /\ <<item>>[1] = item
  OBVIOUS
<1>2. /\ DOMAIN got = 1..Len(got) /\ Len(got) \in Nat
      /\ DOMAIN all = 1..(Len(got) + 1)
      /\ \A i \in DOMAIN got : all[i] = got[i]
      /\ all[Len(got) + 1] = item
  BY <1>1, OneMore
<1> HIDE DEF all
<1>3. ASSUME NEW i \in DOMAIN got, IsFinal(got[i])
      PROVE  got[i].n \in 1..k
  BY <1>3 DEF Answered
<1>4. ASSUME NEW i \in DOMAIN all
      PROVE  i \in DOMAIN got \/ i = Len(got) + 1
  BY <1>2
<1>5. ASSUME NEW i \in DOMAIN all, NEW j \in DOMAIN all, i < j,
             IsFinal(all[i]), IsFinal(all[j])
      PROVE  all[i].n < all[j].n
  <2>1. i \in DOMAIN got /\ all[i] = got[i]
    BY <1>2, <1>5
  <2>2. CASE j \in DOMAIN got
    <3>1. all[j] = got[j]
      BY <1>2, <2>2
    <3> QED BY <1>5, <2>1, <2>2, <3>1 DEF Ordered
  <2>3. CASE j = Len(got) + 1
    <3>1. got[i].n \in 1..k /\ all[j] = item
      BY <1>2, <1>3, <1>5, <2>1, <2>3
    <3> QED BY <2>1, <3>1
  <2> QED BY <1>4, <2>2, <2>3
<1>6. ASSUME NEW x \in Answered(all)
      PROVE  x \in 1..(k + 1)
  <2>1. PICK i \in DOMAIN all : IsFinal(all[i]) /\ x = all[i].n
    BY <1>6 DEF Answered
  <2>2. CASE i \in DOMAIN got
    BY <1>2, <1>3, <2>1, <2>2
  <2>3. CASE i = Len(got) + 1
    BY <1>2, <2>1, <2>3
  <2> QED BY <1>4, <2>2, <2>3
<1>7. ASSUME NEW x \in 1..(k + 1)
      PROVE  x \in Answered(all)
  <2>1. CASE x = k + 1
    <3>1. Len(got) + 1 \in DOMAIN all
      BY <1>2
    <3> QED BY <1>2, <2>1, <3>1 DEF Answered
  <2>2. CASE x # k + 1
    <3>1. x \in Answered(got)
      BY <2>2
    <3>2. PICK i \in DOMAIN got : IsFinal(got[i]) /\ x = got[i].n
      BY <3>1 DEF Answered
    <3>3. i \in DOMAIN all /\ all[i] = got[i]
      BY <1>2
    <3> QED BY <3>2, <3>3 DEF Answered
  <2> QED BY <2>1, <2>2
<1>8. Ordered(all)
  BY <1>5 DEF Ordered
<1> QED BY <1>6, <1>7, <1>8 DEF all

LEMMA TallyAdvances ==
    ASSUME Typed, at # "done", NEW m, Tally(m), Advance
    PROVE  Tally(m)'
<1>1. req.n \in Nat /\ m \in Nat
  BY ItemsOK DEF Typed, NoRequest, Tally
<1>2. CASE UNCHANGED req /\ at' = "done"
  <2>1. m = req.n - 1 \/ m = req.n
    BY DEF Typed, Tally, NoRequest
  <2> QED BY <1>1, <1>2, <2>1 DEF Tally, Early, Deciding, Exchanging, Settled
<1>3. CASE UNCHANGED req /\ {at, at'} \subseteq Early
  BY <1>1, <1>3 DEF Tally, Early, Deciding, Exchanging, Settled
<1>4. CASE UNCHANGED req /\ {at, at'} \subseteq Deciding \cup Exchanging
  BY <1>1, <1>4 DEF Tally, Early, Deciding, Exchanging, Settled
<1>5. CASE UNCHANGED req /\ {at, at'} \subseteq Settled
  BY <1>1, <1>5 DEF Tally, Early, Deciding, Exchanging, Settled
<1>6. CASE /\ at \in {"first", "request", "next"} /\ at' \in Deciding \cup {"done"}
           /\ req'.n = IF at = "next" THEN req.n + 1 ELSE 1
  <2>1. m = req'.n - 1
    BY <1>1, <1>6 DEF Tally, Early, Settled
  <2> QED BY <1>1, <1>6, <2>1 DEF Tally, Early, Deciding, Exchanging, Settled
<1> QED BY <1>2, <1>3, <1>4, <1>5, <1>6 DEF Advance

LEMMA TallySettles ==
    ASSUME Typed, NEW m, Tally(m), Settles
    PROVE  Tally(m + 1)' /\ req'.n = m + 1
<1>1. req.n \in Nat /\ m \in Nat
  BY ItemsOK DEF Typed, NoRequest, Tally
<1>2. req'.n = m + 1 /\ at' \in Settled \cup {"done"}
  BY <1>1 DEF Settles, Tally, Early
<1>3. m + 1 \in Nat
  BY <1>1
<1> QED BY <1>2, <1>3 DEF Tally, Early, Deciding, Exchanging, Settled

LEMMA SaysCounted ==
    ASSUME Typed, Counted, at # "done", Says
    PROVE  Counted'
<1>1. client.got \in Seq(ToClient)
  BY DEF Typed, GoodClient
<1>2. PICK m \in Nat : Tally(m) /\ Count(client, m)
  BY DEF Counted
<1>3. Ordered(client.got)
  BY <1>2 DEF Count
<1>4. PICK k \in 0..m : Answered(client.got) = 1..k /\ (client.end # "gone" => k = m)
  BY <1>2 DEF Count
<1>5. ASSUME NEW items \in Seq(ToClient), Hears(items), Advance,
             \A i \in DOMAIN items : ~IsFinal(items[i])
      PROVE  Counted'
  <2>1. Ordered(client.got \o items) /\ Answered(client.got \o items) = Answered(client.got)
    BY <1>1, <1>3, <1>5, CountNotes
  <2>2. client'.got \in {client.got, client.got \o items} /\ client'.end = client.end
    BY <1>5 DEF Hears
  <2>3. Count(client', m)
    BY <1>3, <1>4, <2>1, <2>2 DEF Count
  <2>4. Tally(m)'
    BY <1>2, <1>5, TallyAdvances
  <2> QED BY <2>3, <2>4 DEF Counted
<1>6. CASE Silence
  <2>1. <<>> \in Seq(ToClient) /\ \A i \in DOMAIN <<>> : FALSE
    OBVIOUS
  <2> QED BY <1>5, <1>6, <2>1 DEF Silence
<1>7. CASE Note
  <2>1. PICK item \in ToClient : Hears(<<item>>) /\ IsNote(item) /\ Advance
    BY <1>7 DEF Note
  <2>2. <<item>> \in Seq(ToClient) /\ ~IsFinal(item)
    BY <2>1 DEF IsNote, IsFinal
  <2>3. \A i \in DOMAIN <<item>> : ~IsFinal(<<item>>[i])
    BY <2>2
  <2> QED BY <1>5, <2>1, <2>2, <2>3
<1>8. CASE Answer
  <2>1. PICK item \in ToClient :
          Hears(<<item>>) /\ IsFinal(item) /\ item.n = req'.n /\ Settles
    BY <1>8 DEF Answer
  <2>2. Tally(m + 1)' /\ item.n = m + 1
    BY <1>2, <2>1, TallySettles
  <2>3. CASE client.end = "gone"
    <3>1. client'.got = client.got /\ client'.end = "gone" /\ k \in 0..(m + 1)
      BY <2>1, <2>3 DEF Hears
    <3>2. Count(client', m + 1)
      BY <1>3, <1>4, <3>1 DEF Count
    <3> QED BY <2>2, <3>2 DEF Counted
  <2>4. CASE client.end # "gone"
    <3>1. k = m /\ client'.got = client.got \o <<item>>
      BY <1>4, <2>1, <2>4 DEF Hears
    <3>2. Ordered(client'.got) /\ Answered(client'.got) = 1..(m + 1)
      BY <1>1, <1>3, <1>4, <2>1, <2>2, <3>1, CountAnswer
    <3>3. m + 1 \in 0..(m + 1)
      OBVIOUS
    <3>4. Count(client', m + 1)
      BY <3>2, <3>3 DEF Count
    <3> QED BY <2>2, <3>4 DEF Counted
  <2> QED BY <2>3, <2>4
<1>9. CASE Stream
  <2>1. PICK items \in Seq(ServerItems) :
          /\ Hears(items) /\ \A i \in DOMAIN items : items[i].kind = "data"
          /\ at \in Settled /\ at' \in {"drain", "splice"} /\ UNCHANGED req
    BY <1>9 DEF Stream
  <2>2. items \in Seq(ToClient)
    BY <2>1 DEF ToClient
  <2>3. \A i \in DOMAIN items : ~IsFinal(items[i])
    BY <2>1 DEF IsFinal
  <2>4. Advance
    BY <2>1 DEF Advance, Settled
  <2> QED BY <1>5, <2>1, <2>2, <2>3, <2>4
<1> QED BY <1>6, <1>7, <1>8, <1>9 DEF Says

LEMMA OthersCounted ==
    ASSUME Typed, Counted, client'.got = client.got,
           client'.end # "gone" => client.end # "gone", UNCHANGED req,
           UNCHANGED at \/ at' = "done" \/ {at, at'} \subseteq Early
    PROVE  Counted'
<1>1. PICK m \in Nat : Tally(m) /\ Count(client, m)
  BY DEF Counted
<1>2. Count(client', m)
  BY <1>1 DEF Count
<1>3. Tally(m)'
  <2>1. CASE UNCHANGED at
    BY <1>1, <2>1 DEF Tally
  <2>2. CASE at # "done" /\ (at' = "done" \/ {at, at'} \subseteq Early)
    <3>1. Advance
      BY <2>2 DEF Advance
    <3> QED BY <1>1, <2>2, <3>1, TallyAdvances
  <2> QED BY <2>1, <2>2 DEF Early
<1> QED BY <1>2, <1>3 DEF Counted

LEMMA InitCounted == Init => Counted
<1> SUFFICES ASSUME Init PROVE Counted
  OBVIOUS
<1>1. client.got = <<>> /\ at = "idle" /\ req.n = 0
  BY DEF Init, Client
<1>2. \A i \in DOMAIN <<>> : FALSE
  OBVIOUS
<1>3. Ordered(client.got) /\ Answered(client.got) = {}
  BY <1>1, <1>2 DEF Ordered, Answered
<1>4. Count(client, 0)
  <2>1. 1..0 = {} /\ 0 \in 0..0
    OBVIOUS
  <2> QED BY <1>3, <2>1 DEF Count
<1>5. Tally(0)
  BY <1>1 DEF Tally, Early, Deciding, Exchanging, Settled
<1> QED BY <1>4, <1>5 DEF Counted

\* Which steps are those of a session that goes on.
LEMMA StepIs ==
    ASSUME [Next]_vars
    PROVE  \/ (Handler \/ DialSucceeds \/ DialFails \/ Copy) /\ at # "done"
           \/ \/ Peers \/ Tick \/ Guard \/ CloseBegins \/ Serve \/ AcceptFails
              \/ ClientConnects \/ UNCHANGED vars
<1>1. ASSUME Handler \/ DialSucceeds \/ DialFails \/ Copy
      PROVE  at # "done"
  BY <1>1 DEF Handler, Copy, ReadGreeting, ReadSocksRequest, ReadRequest, HandleConnect,
     Forward, Dial, DialFails, DialTimesOut, Unreached, TellUnreached, ReplyOK,
     DrainServer, DrainClient, SpliceEnds, Proceed,
     SendRequest, RelayResponse, DialSucceeds, CopyUp, CopyDown, UpEnds, DownEnds
<1> QED BY <1>1 DEF Next, Session

LEMMA NextCounted ==
    GInv /\ Shape /\ PInv /\ Served /\ Counted /\ [Next]_vars => Counted'
<1> SUFFICES ASSUME GInv, Shape, PInv, Served, Counted, [Next]_vars PROVE Counted'
  OBVIOUS
<1>1. SInv /\ Typed
  BY DEF GInv, Shape
<1>2. CASE (Handler \/ DialSucceeds \/ DialFails \/ Copy) /\ at # "done"
  BY <1>1, <1>2, SessionSays, SaysCounted
<1>3. CASE \/ Peers \/ Tick \/ Guard \/ CloseBegins \/ Serve \/ AcceptFails
           \/ ClientConnects \/ UNCHANGED vars
  BY <1>1, <1>3, OthersSay, OthersCounted
<1> QED BY <1>2, <1>3, StepIs

LEMMA CountedMeans ==
    ASSUME Typed, Counted
    PROVE  AnswersInOrder
<1>1. PICK m \in Nat : Tally(m) /\ Count(client, m)
  BY DEF Counted
<1>2. PICK k \in 0..m : Answered(client.got) = 1..k /\ (client.end # "gone" => k = m)
  BY <1>1 DEF Count
<1>3. req.n \in Nat
  BY ItemsOK DEF Typed, NoRequest
<1>4. m = req.n - 1 \/ m = req.n
  BY <1>1, <1>3 DEF Typed, Tally, NoRequest
<1>5. at \in {"next", "switch", "splice"} => m = req.n
  BY <1>1 DEF Tally, Settled
<1>6. /\ k \in 0..req.n
      /\ client.end # "gone" => k >= req.n - 1
      /\ client.end # "gone" /\ at \in {"next", "switch", "splice"} => k = req.n
  BY <1>2, <1>3, <1>4, <1>5
<1>7. Ordered(client.got)
  BY <1>1 DEF Count
<1> QED BY <1>2, <1>6, <1>7 DEF AnswersInOrder, Ordered

-----------------------------------------------------------------------------
(* The stream that a client gets                                           *)

\* Behind k other items stand the pieces of a stream, from the first.
Streamed(got, k) ==
    \A i \in DOMAIN got :
      IF i <= k THEN got[i].kind # "data" ELSE got[i].kind = "data" /\ got[i].n = i - k

\* Before a tunnel the client has got no piece; in it, all that the proxy does
\* not hold.
Told ==
    \E k \in 0..Len(client.got) :
      /\ Streamed(client.got, k)
      /\ at \notin {"drain", "splice", "done"} => k = Len(client.got)
      /\ at \in {"drain", "splice"} /\ client.end # "gone"
           => Len(client.got) - k = server.sent - Len(Held(server))

LEMMA StreamedReply ==
    ASSUME NEW got \in Seq(ToClient), Streamed(got, Len(got)),
           NEW item \in ToClient, item.kind # "data"
    PROVE  Streamed(got \o <<item>>, Len(got \o <<item>>))
<1> DEFINE all == got \o <<item>>
<1>1. <<item>> \in Seq(ToClient) /\ Len(<<item>>) = 1 /\ <<item>>[1] = item
  OBVIOUS
<1>2. /\ DOMAIN got = 1..Len(got) /\ Len(got) \in Nat
      /\ DOMAIN all = 1..(Len(got) + 1) /\ Len(all) = Len(got) + 1
      /\ \A i \in DOMAIN got : all[i] = got[i]
      /\ all[Len(got) + 1] = item
  BY <1>1, OneMore
<1> HIDE DEF all
<1>3. ASSUME NEW i \in DOMAIN all
      PROVE  i <= Len(all) /\ all[i].kind # "data"
  <2>1. CASE i \in DOMAIN got
    BY <1>2, <2>1 DEF Streamed
  <2>2. CASE i = Len(got) + 1
    BY <1>2, <2>2
  <2> QED BY <1>2, <2>1, <2>2
<1>4. Streamed(all, Len(all))
  BY <1>3 DEF Streamed
<1> QED BY <1>4 DEF all

LEMMA StreamedPieces ==
    ASSUME NEW got \in Seq(ToClient), NEW k \in 0..Len(got), Streamed(got, k),
           NEW items \in Seq(ServerItems), Pieces(items, Len(got) - k)
    PROVE  /\ k \in 0..Len(got \o items) /\ Streamed(got \o items, k)
           /\ Len(got \o items) = Len(got) + Len(items)
           /\ Len(got) \in Nat /\ Len(items) \in Nat
<1> DEFINE all == got \o items
<1>1. items \in Seq(ToClient)
  BY DEF ToClient
<1>2. /\ DOMAIN got = 1..Len(got) /\ Len(got) \in Nat /\ Len(items) \in Nat
      /\ DOMAIN all = 1..(Len(got) + Len(items)) /\ Len(all) = Len(got) + Len(items)
      /\ \A i \in DOMAIN got : all[i] = got[i]
      /\ \A i \in DOMAIN items : all[Len(got) + i] = items[i]
      /\ \A i \in DOMAIN all : i \notin DOMAIN got => i - Len(got) \in DOMAIN items
  BY <1>1, ConcatIs
<1> HIDE DEF all
<1>3. ASSUME NEW i \in DOMAIN all
      PROVE  IF i <= k THEN all[i].kind # "data" ELSE all[i].kind = "data" /\ all[i].n = i - k
  <2>1. CASE i \in DOMAIN got
    BY <1>2, <2>1 DEF Streamed
  <2>2. CASE i \notin DOMAIN got
    <3>1. i - Len(got) \in DOMAIN items /\ ~(i <= k) /\ i \in Nat
      BY <1>2, <2>2
    <3>2. all[i] = items[i - Len(got)]
      <4>1. Len(got) + (i - Len(got)) = i
        BY <1>2, <3>1
      <4> QED BY <1>2, <3>1, <4>1
    <3>3. /\ items[i - Len(got)].kind = "data"
          /\ items[i - Len(got)].n = (Len(got) - k) + (i - Len(got))
      BY <3>1 DEF Pieces
    <3>4. (Len(got) - k) + (i - Len(got)) = i - k
      BY <1>2, <3>1
    <3> QED BY <3>1, <3>2, <3>3, <3>4
  <2> QED BY <2>1, <2>2
<1>4. k \in 0..Len(all) /\ Streamed(all, k)
  BY <1>2, <1>3 DEF Streamed
<1> QED BY <1>2, <1>4 DEF all

\* The client gets one item before a tunnel.
LEMMA ToldReply ==
    ASSUME Typed, Told, at \notin {"drain", "splice", "done"},
           NEW item \in ToClient, item.kind # "data", Hears(<<item>>)
    PROVE  /\ Streamed(client'.got, Len(client'.got))
           /\ Len(client'.got) \in 0..Len(client'.got)
<1>1. client.got \in Seq(ToClient)
  BY DEF Typed, GoodClient
<1>2. Streamed(client.got, Len(client.got))
  BY DEF Told
<1>3. client'.got \in {client.got, client.got \o <<item>>}
  BY DEF Hears
<1>4. Streamed(client'.got, Len(client'.got))
  BY <1>1, <1>2, <1>3, StreamedReply
<1>5. client'.got \in Seq(ToClient)
  <2>1. <<item>> \in Seq(ToClient)
    OBVIOUS
  <2> QED BY <1>1, <1>3, <2>1, ConcatProperties
<1>6. Len(client'.got) \in Nat
  BY <1>5, LenProperties
<1> QED BY <1>4, <1>6

\* It gets nothing, and what the proxy holds for it stays as long.
LEMMA ToldNothing ==
    ASSUME Told, client'.got = client.got, client'.end # "gone" => client.end # "gone",
           \/ at' = "done"
           \/ {at, at'} \cap {"drain", "splice", "done"} = {}
           \/ /\ {at, at'} \subseteq {"drain", "splice"}
              /\ server'.sent - Len(Held(server')) = server.sent - Len(Held(server))
    PROVE  Told'
<1>1. PICK k \in 0..Len(client.got) :
        /\ Streamed(client.got, k)
        /\ at \notin {"drain", "splice", "done"} => k = Len(client.got)
        /\ at \in {"drain", "splice"} /\ client.end # "gone"
             => Len(client.got) - k = server.sent - Len(Held(server))
  BY DEF Told
<1>2. k \in 0..Len(client'.got) /\ Streamed(client'.got, k)
  BY <1>1
<1>3. at' \notin {"drain", "splice", "done"} => k = Len(client'.got)
  BY <1>1
<1>4. at' \in {"drain", "splice"} /\ client'.end # "gone"
        => Len(client'.got) - k = server'.sent - Len(Held(server'))
  BY <1>1
<1> QED BY <1>2, <1>3, <1>4 DEF Told

\* Steps that leave alone what the server has sent.
LEMMA SameGap ==
    ASSUME NEW s, NEW t, GoodServer(s),
           \A f \in ServerFields \ {"got", "shut", "end", "reads"} : t[f] = s[f]
    PROVE  t.sent - Len(Held(t)) = s.sent - Len(Held(s))
<1>1. Held(t) = Held(s) /\ t.sent = s.sent
  BY SameHeld
<1> QED BY <1>1

\* Most steps do not enter a tunnel, and only SpliceEnds leaves one.
Tunnels == ReplyOK \/ DrainServer \/ DrainClient \/ CopyUp \/ CopyDown \/ UpEnds \/ DownEnds

LEMMA OutsideTunnel ==
    ASSUME Handler \/ DialSucceeds \/ DialFails \/ Copy, ~Tunnels, at' # "done"
    PROVE  {at, at'} \cap {"drain", "splice", "done"} = {}
<1>1. \A conn : ~Quit(conn)
  BY DEF Quit
<1> QED BY <1>1 DEF Handler, Copy, Tunnels, ReadGreeting, ReadSocksRequest, ReadRequest,
     HandleConnect, Forward, Dial, DialFails, DialTimesOut, Unreached, TellUnreached,
     SpliceEnds, Proceed, SendRequest,
     RelayResponse, DialSucceeds

LEMMA SessionTold ==
    ASSUME SInv, Shape, PInv, Served, Told, at # "done",
           Handler \/ DialSucceeds \/ DialFails \/ Copy
    PROVE  Told'
<1>1. Typed /\ Says /\ client.got \in Seq(ToClient)
  BY SessionSays DEF Shape, Typed, GoodClient
<1>2. client.got \o <<>> = client.got
  BY <1>1, ConcatEmptySeq
<1>3. ASSUME NEW item \in ToClient, Hears(<<item>>), item.kind # "data",
             at \notin {"drain", "splice"}, at' \notin {"drain", "splice"}
      PROVE  Told'
  <2>1. /\ Streamed(client'.got, Len(client'.got))
        /\ Len(client'.got) \in 0..Len(client'.got)
    BY <1>1, <1>3, ToldReply
  <2> QED BY <1>3, <2>1 DEF Told
<1>4. CASE at' = "done" \/ {at, at'} \cap {"drain", "splice", "done"} = {}
  <2>1. CASE Silence
    <3>1. client'.got = client.got /\ client'.end = client.end
      BY <1>2, <2>1 DEF Silence, Hears
    <3> QED BY <1>4, <3>1, ToldNothing
  <2>2. CASE Note
    <3>1. PICK item \in ToClient : Hears(<<item>>) /\ IsNote(item) /\ at \notin Settled
      BY <2>2 DEF Note
    <3>2. item.kind # "data" /\ at \notin {"drain", "splice"} /\ at' \notin {"drain", "splice"}
      BY <1>4, <3>1 DEF IsNote, Settled
    <3> QED BY <1>3, <3>1, <3>2
  <2>3. CASE Answer
    <3>1. PICK item \in ToClient : Hears(<<item>>) /\ IsFinal(item) /\ Settles
      BY <2>3 DEF Answer
    <3>2. item.kind # "data" /\ at \notin {"drain", "splice"} /\ at' \notin {"drain", "splice"}
      BY <1>4, <3>1 DEF IsFinal, Settles, Deciding, Exchanging
    <3> QED BY <1>3, <3>1, <3>2
  <2>4. CASE Stream
    BY <1>4, <2>4 DEF Stream
  <2> QED BY <1>1, <2>1, <2>2, <2>3, <2>4 DEF Says
<1>5. CASE at' # "done" /\ ReplyOK
  <2>1. /\ at = "reply" /\ at' = "drain" /\ UNCHANGED <<server, req>>
        /\ client' = Receive(client, <<[kind |-> "ok", n |-> req.n]>>)
    BY <1>5 DEF ReplyOK, Quit, Reply
  <2>2. PICK r : r = [kind |-> "ok", n |-> req.n]
    OBVIOUS
  <2>3. r \in ToClient /\ r.kind # "data"
    BY <1>1, <2>1, <2>2, ItemsOK DEF Typed, Deciding, ToClient, Replies
  <2>4. GoodClient(client) /\ client' = Receive(client, <<r>>)
    BY <1>1, <2>1, <2>2 DEF Typed
  <2>5. Hears(<<r>>)
    BY <2>4, HearsReply
  <2>6. /\ Streamed(client'.got, Len(client'.got))
        /\ Len(client'.got) \in 0..Len(client'.got)
    BY <1>1, <2>1, <2>3, <2>5, ToldReply
  <2>7. server # NoServer /\ GoodServer(server)
    BY <1>1, <2>1, ServerAt DEF WithServer
  <2>8. Len(Held(server')) = server'.sent /\ server'.sent \in Nat
    BY <2>1, <2>7 DEF Served, GoodServer
  <2>9. PICK k : k = Len(client'.got)
    OBVIOUS
  <2>10. /\ k \in 0..Len(client'.got) /\ Streamed(client'.got, k)
         /\ Len(client'.got) - k = server'.sent - Len(Held(server'))
    BY <2>6, <2>8, <2>9
  <2>11. at' \in {"drain", "splice", "done"}
    BY <2>1
  <2> QED BY <2>10, <2>11 DEF Told
<1>6. ASSUME NEW items \in Seq(ServerItems), Hears(items), at' \in {"drain", "splice"},
             client.end # "gone" =>
               \E k \in 0..Len(client.got) :
                 /\ Streamed(client.got, k) /\ Pieces(items, Len(client.got) - k)
                 /\ Len(client.got) - k + Len(items) = server'.sent - Len(Held(server'))
      PROVE  Told'
  <2>1. CASE client.end = "gone"
    <3>1. client'.got = client.got /\ client'.end = "gone"
      BY <1>6, <2>1 DEF Hears
    <3>2. PICK k \in 0..Len(client.got) : Streamed(client.got, k)
      BY DEF Told
    <3> QED BY <1>6, <3>1, <3>2 DEF Told
  <2>2. CASE client.end # "gone"
    <3>1. client'.got = client.got \o items
      BY <1>6, <2>2 DEF Hears
    <3>2. PICK k \in 0..Len(client.got) :
            /\ Streamed(client.got, k) /\ Pieces(items, Len(client.got) - k)
            /\ Len(client.got) - k + Len(items) = server'.sent - Len(Held(server'))
      BY <1>6, <2>2
    <3>3. /\ k \in 0..Len(client'.got) /\ Streamed(client'.got, k)
          /\ Len(client'.got) = Len(client.got) + Len(items)
          /\ Len(client.got) \in Nat /\ Len(items) \in Nat
      BY <1>1, <3>1, <3>2, StreamedPieces
    <3>4. Len(client'.got) - k = server'.sent - Len(Held(server'))
      BY <3>2, <3>3
    <3> QED BY <1>6, <3>3, <3>4 DEF Told
  <2> QED BY <2>1, <2>2
<1>7. CASE at' # "done" /\ DrainServer
  <2>1. /\ server.buf \in Seq(ServerItems) /\ Pieces(server.buf, 0)
        /\ Hears(server.buf) /\ at = "switch" /\ at' = "drain"
        /\ Len(server.buf) = server'.sent - Len(Held(server'))
    BY <1>7, DrainServerIs
  <2>2. PICK k : k = Len(client.got)
    OBVIOUS
  <2>3. k \in Nat /\ Len(server.buf) \in Nat
    BY <1>1, <2>1, <2>2, LenProperties
  <2>4. Streamed(client.got, k)
    BY <2>1, <2>2 DEF Told
  <2>5. k \in 0..Len(client.got) /\ Len(client.got) - k = 0
    BY <2>2, <2>3
  <2>6. Pieces(server.buf, Len(client.got) - k)
    BY <2>1, <2>5
  <2>7. Len(client.got) - k + Len(server.buf) = server'.sent - Len(Held(server'))
    BY <2>1, <2>3, <2>5
  <2> QED BY <1>6, <2>1, <2>4, <2>5, <2>6, <2>7
<1>8. CASE CopyDown
  <2>1. PICK item \in ServerItems :
          /\ Hears(<<item>>) /\ item.kind = "data"
          /\ item.n = server.sent - Len(Held(server)) + 1
    BY <1>8, CopyDownIs
  <2>2. /\ at = "splice" /\ UNCHANGED at
        /\ server'.sent - Len(Held(server')) = server.sent - Len(Held(server)) + 1
    BY <1>8, CopyDownIs
  <2>3. <<item>> \in Seq(ServerItems) /\ Len(<<item>>) = 1 /\ <<item>>[1] = item
        /\ DOMAIN <<item>> = 1..1
    OBVIOUS
  <2>4. ASSUME client.end # "gone"
        PROVE  \E k \in 0..Len(client.got) :
                 /\ Streamed(client.got, k) /\ Pieces(<<item>>, Len(client.got) - k)
                 /\ Len(client.got) - k + Len(<<item>>) = server'.sent - Len(Held(server'))
    <3>1. PICK k \in 0..Len(client.got) :
            /\ Streamed(client.got, k)
            /\ Len(client.got) - k = server.sent - Len(Held(server))
      BY <2>2, <2>4 DEF Told
    <3>2. Pieces(<<item>>, Len(client.got) - k)
      BY <2>1, <2>3, <3>1 DEF Pieces
    <3>3. Len(client.got) - k + Len(<<item>>) = server'.sent - Len(Held(server'))
      BY <2>2, <2>3, <3>1
    <3> QED BY <3>1, <3>2, <3>3
  <2> QED BY <1>6, <2>1, <2>2, <2>3, <2>4
<1>9. CASE at' # "done" /\ (DrainClient \/ CopyUp \/ UpEnds \/ DownEnds)
  <2>1. {at, at'} \subseteq {"drain", "splice"}
    BY <1>9 DEF DrainClient, CopyUp, UpEnds, DownEnds, Quit
  <2>2. server # NoServer /\ GoodServer(server) /\ GoodClient(client)
    BY <1>1, <2>1, ServerAt DEF WithServer, Typed
  <2>3. client'.got = client.got /\ client'.end = client.end
    BY <1>9, <2>2 DEF DrainClient, CopyUp, UpEnds, DownEnds, Quit, GoodClient, ClientFields
  <2>4. \A f \in ServerFields \ {"got", "shut", "end"} : server'[f] = server[f]
    <3>1. CASE DrainClient
      <4>1. server' = Receive(server, client.buf) /\ client.buf \in Seq(ClientItems)
        BY <1>9, <2>2, <3>1 DEF DrainClient, Quit, GoodClient
      <4> QED BY <2>2, <4>1, ReceiveServer
    <3>2. CASE CopyUp
      <4>1. server' = Receive(server, <<Head(client.queue)>>) /\ DOMAIN server = ServerFields
        BY <2>2, <3>2 DEF CopyUp, GoodServer
      <4> QED BY <4>1, ReceiveFields
    <3>3. CASE UpEnds \/ DownEnds
      BY <2>2, <3>3 DEF UpEnds, DownEnds, GoodServer
    <3> QED BY <1>9, <3>1, <3>2, <3>3
  <2>5. server'.sent - Len(Held(server')) = server.sent - Len(Held(server))
    BY <2>2, <2>4, SameGap
  <2> QED BY <2>1, <2>3, <2>5, ToldNothing
<1>10. CASE at' # "done" /\ ~Tunnels
  BY <1>4, <1>10, OutsideTunnel
<1> QED BY <1>4, <1>5, <1>7, <1>8, <1>9, <1>10 DEF Tunnels

\* A server sends a piece to the proxy, and the clock and the guard nothing.
LEMMA OthersTold ==
    ASSUME SInv, Shape, Served, Told,
           \/ Peers \/ Tick \/ Guard \/ CloseBegins \/ Serve \/ AcceptFails
           \/ ClientConnects \/ UNCHANGED vars
    PROVE  Told'
<1>1. /\ client'.got = client.got
      /\ client'.end # "gone" => client.end # "gone"
      /\ UNCHANGED at \/ at' = "done" \/ {at, at'} \subseteq Early
  BY OthersSay
<1>2. CASE at' = "done"
  BY <1>1, <1>2, ToldNothing
<1>3. CASE at \notin {"drain", "splice"} /\ at' # "done"
  <2>1. {at, at'} \cap {"drain", "splice", "done"} = {}
    BY <1>1, <1>3 DEF Early
  <2> QED BY <1>1, <2>1, ToldNothing
<1>4. CASE at \in {"drain", "splice"} /\ at' # "done"
  <2>1. UNCHANGED at
    BY <1>1, <1>4 DEF Early
  <2>2. /\ server # NoServer /\ GoodServer(server) /\ server.sent \in Nat
        /\ server.asked \subseteq server.answered
    BY <1>4, ServerAt DEF Shape, WithServer, Served, Streaming, GoodServer
  <2>3. server'.sent - Len(Held(server')) = server.sent - Len(Held(server))
    <3>1. CASE ServerAnswers
      BY <2>2, <3>1 DEF ServerAnswers
    <3>2. CASE ServerSends
      <4> DEFINE x == [kind |-> "data", flags |-> {}, n |-> server.sent + 1]
      <4>1. /\ \A f \in ServerFields \ {"queue", "sent"} : server'[f] = server[f]
            /\ server'.queue = Append(server.queue, x) /\ server'.sent = server.sent + 1
        BY <2>2, <3>2, ServerSendsIs
      <4>2. x \in ServerItems /\ server'.buf = server.buf
        BY <2>2, <4>1 DEF ServerItems, ServerFields
      <4> HIDE DEF x
      <4>3. Held(server') = Append(Held(server), x) /\ Held(server) \in Seq(ServerItems)
        BY <2>2, <4>1, <4>2, HeldAppend, HeldGood
      <4>4. Len(Held(server')) = Len(Held(server)) + 1 /\ Len(Held(server)) \in Nat
        BY <4>2, <4>3, AppendOf
      <4> QED BY <2>2, <4>1, <4>4
    <3>3. CASE ServerEnds \/ ServerStops
      <4>1. \A f \in ServerFields \ {"got", "shut", "end", "reads"} : server'[f] = server[f]
        BY <2>2, <3>3, ServerEndsIs
      <4> QED BY <2>2, <4>1, SameGap
    <3>4. CASE ClientSends \/ ClientEnds \/ ClientStops
      BY <3>4 DEF ClientSends, ClientEnds, ClientStops
    <3>5. CASE ~Peers
      BY <3>5, AsideOf DEF Aside
    <3> QED BY <3>1, <3>2, <3>3, <3>4, <3>5 DEF Peers
  <2> QED BY <1>1, <1>4, <2>1, <2>3, ToldNothing
<1> QED BY <1>2, <1>3, <1>4

LEMMA InitTold == Init => Told
<1> SUFFICES ASSUME Init PROVE Told
  OBVIOUS
<1>1. client.got = <<>> /\ at = "idle" /\ Len(<<>>) = 0 /\ \A i \in DOMAIN <<>> : FALSE
  BY DEF Init, Client
<1>2. 0 \in 0..Len(client.got) /\ Streamed(client.got, 0) /\ 0 = Len(client.got)
  BY <1>1 DEF Streamed
<1> QED BY <1>1, <1>2 DEF Told

LEMMA NextTold ==
    GInv /\ Shape /\ PInv /\ Served /\ Told /\ [Next]_vars => Told'
<1> SUFFICES ASSUME GInv, Shape, PInv, Served, Told, [Next]_vars PROVE Told'
  OBVIOUS
<1>1. SInv
  BY DEF GInv
<1> QED BY <1>1, StepIs, SessionTold, OthersTold

\* Both halves together.
LEMMA ToldMeans ==
    ASSUME Shape, SInv, PInv, Told
    PROVE  StreamsInOrder
<1>1. \E k \in 0..Len(client.got) : \A i \in DOMAIN client.got :
        IF i <= k THEN client.got[i].kind # "data"
        ELSE client.got[i].kind = "data" /\ client.got[i].n = i - k
  BY DEF Told, Streamed
<1>2. ASSUME server # NoServer
      PROVE  InOrder
  <2>1. CASE at \in {"splice", "done"}
    BY <1>2, <2>1 DEF PInv, Delivered
  <2>2. CASE at \notin {"splice", "done"}
    <3>1. server.got = <<>>
      BY <1>2, <2>2 DEF PInv, Delivered
    <3>2. at \notin Early
      BY <1>2 DEF SInv, Connected, MayHaveServer, WithServer, Early
    <3>3. req \in ClientItems
      BY <2>2, <3>2 DEF Shape, Typed
    <3>4. PICK s \in Scripts : \E k \in DOMAIN s.items : s.items[k] = req
      BY <3>3 DEF ClientItems
    <3>5. Follows(server.got, s.items, 0) /\ \A k : Follows(server.got, s.items, k)
      <4>1. \A i \in DOMAIN <<>> : FALSE
        OBVIOUS
      <4> QED BY <3>1, <4>1 DEF Follows
    <3> QED BY <3>4, <3>5 DEF InOrder
  <2> QED BY <2>1, <2>2
<1> QED BY <1>1, <1>2 DEF StreamsInOrder, InOrder

-----------------------------------------------------------------------------
(* What is refused                                                         *)

\* A request is refused by the allowlist only in its name, and as the last.
Denial ==
    (\E i \in DOMAIN client.got : client.got[i].kind = "denied") =>
      /\ at = "done" /\ req \in ClientItems /\ req.kind \in {"http", "socks"}
      /\ ~permits(rules, Target(req).host, Target(req).port)

\* Whoever is connected finds the allowlist parsed.
Loaded ==
    phase \notin {"parse", "over"} \/ at # "idle" =>
      ConfigAccepted(config) /\ rules = loadAllowlist(config)

LEMMA NextLoaded == GInv /\ Loaded /\ [Next]_vars => Loaded'
<1> SUFFICES ASSUME GInv, Loaded, [Next]_vars PROVE Loaded'
  OBVIOUS
<1>1. CASE LoadAllowlist
  <2>1. at = "idle" /\ UNCHANGED <<at, config>>
    BY <1>1 DEF LoadAllowlist, GInv, Parsed
  <2> QED BY <1>1, <2>1 DEF LoadAllowlist, Loaded
<1>2. CASE StartNetguard \/ CloseListener \/ CloseReturns \/ CloseBegins
  BY <1>2 DEF StartNetguard, CloseListener, CloseReturns, CloseBegins, Loaded, sessionVars
<1>3. CASE Serve \/ AcceptFails \/ ClientConnects
  BY <1>3 DEF Serve, Accept, AcceptOnClosed, AcceptFails, LoopEnds, ClientConnects, Loaded,
     sessionVars, guardVars
<1>4. CASE Session \/ ((Tick \/ Peers) /\ UNCHANGED guardVars)
  <2>1. UNCHANGED <<config, rules, phase>> /\ (at # "idle" \/ at' = "idle")
    BY <1>4 DEF Session, Handler, Copy, ReadGreeting, ReadSocksRequest, ReadRequest,
       HandleConnect, Forward, Dial, DialFails, DialTimesOut, Unreached, TellUnreached,
       ReplyOK, DrainServer, DrainClient,
       SpliceEnds, Proceed, SendRequest, RelayResponse, DialSucceeds, CopyUp, CopyDown,
       UpEnds, DownEnds, Tick, Peers, ClientSends, ClientEnds, ClientStops, ServerAnswers,
       ServerSends, ServerEnds, ServerStops, guardVars
  <2> QED BY <2>1 DEF Loaded
<1>5. CASE UNCHANGED vars
  BY <1>5 DEF vars, sessionVars, guardVars, Loaded
<1> QED BY <1>1, <1>2, <1>3, <1>4, <1>5 DEF Next, Guard

\* The allowlist of a session does not change.
LEMMA SameRules ==
    ASSUME GInv, [Next]_vars, at # "idle"
    PROVE  UNCHANGED rules
<1>1. ~LoadAllowlist
  BY DEF LoadAllowlist, GInv, Parsed
<1>2. CASE Session \/ ((Tick \/ Peers) /\ UNCHANGED guardVars)
  BY <1>2 DEF Session, Handler, Copy, ReadGreeting, ReadSocksRequest, ReadRequest,
     HandleConnect, Forward, Dial, DialFails, DialTimesOut, Unreached, TellUnreached,
     ReplyOK, DrainServer, DrainClient,
     SpliceEnds, Proceed, SendRequest, RelayResponse, DialSucceeds, CopyUp, CopyDown,
     UpEnds, DownEnds, Tick, Peers, ClientSends, ClientEnds, ClientStops, ServerAnswers,
     ServerSends, ServerEnds, ServerStops
<1>3. CASE \/ StartNetguard \/ CloseListener \/ CloseReturns \/ CloseBegins
           \/ Serve \/ AcceptFails \/ ClientConnects \/ UNCHANGED vars
  BY <1>3 DEF StartNetguard, CloseListener, CloseReturns, CloseBegins, Serve, Accept,
     AcceptOnClosed, AcceptFails, LoopEnds, ClientConnects, sessionVars, vars
<1> QED BY <1>1, <1>2, <1>3 DEF Next, Guard

LEMMA DenialKept ==
    ASSUME Denial, client'.got = client.got, UNCHANGED req,
           at = "done" => at' = "done" /\ UNCHANGED rules
    PROVE  Denial'
BY DEF Denial

LEMMA NextDenial ==
    GInv /\ Shape /\ PInv /\ Served /\ Denial /\ [Next]_vars => Denial'
<1> SUFFICES ASSUME GInv, Shape, PInv, Served, Denial, [Next]_vars PROVE Denial'
  OBVIOUS
<1>1. SInv /\ Typed /\ client.got \in Seq(ToClient)
  BY DEF GInv, Shape, Typed, GoodClient
<1>2. CASE (Handler \/ DialSucceeds \/ DialFails \/ Copy) /\ at # "done"
  <2>1. \A i \in DOMAIN client.got : client.got[i].kind # "denied"
    BY <1>2 DEF Denial
  <2>2. ASSUME NEW items \in Seq(ToClient), Hears(items),
               \A i \in DOMAIN items : items[i].kind # "denied"
        PROVE  Denial'
    <3>1. \A i \in DOMAIN (client.got \o items) : (client.got \o items)[i].kind # "denied"
      <4> DEFINE all == client.got \o items
      <4>1. SUFFICES ASSUME NEW i \in DOMAIN all PROVE all[i].kind # "denied"
        OBVIOUS
      <4>2. PICK got \in Seq(ToClient) : got = client.got
        BY <1>1
      <4>3. /\ DOMAIN got = 1..Len(got) /\ Len(got) \in Nat
            /\ \A j \in DOMAIN got : all[j] = got[j]
            /\ \A j \in DOMAIN items : all[Len(got) + j] = items[j]
            /\ \A j \in DOMAIN all : j \notin DOMAIN got => j - Len(got) \in DOMAIN items
            /\ DOMAIN all = 1..(Len(got) + Len(items)) /\ Len(items) \in Nat
        BY <4>2, ConcatIs
      <4> HIDE DEF all
      <4>4. CASE i \in DOMAIN got
        BY <2>1, <4>2, <4>3, <4>4
      <4>5. CASE i \notin DOMAIN got
        <5>1. i - Len(got) \in DOMAIN items /\ Len(got) + (i - Len(got)) = i
          BY <4>3, <4>5
        <5>2. all[i] = items[i - Len(got)]
          BY <4>3, <5>1
        <5> QED BY <2>2, <5>1, <5>2
      <4> QED BY <4>4, <4>5
    <3>2. client'.got \in {client.got, client.got \o items}
      BY <2>2 DEF Hears
    <3>3. \A i \in DOMAIN client'.got : client'.got[i].kind # "denied"
      BY <2>1, <3>1, <3>2
    <3> QED BY <3>3 DEF Denial
  <2>3. Says
    BY <1>1, <1>2, SessionSays
  <2>4. CASE Silence
    <3>1. <<>> \in Seq(ToClient) /\ \A i \in DOMAIN <<>> : FALSE
      OBVIOUS
    <3> QED BY <2>2, <2>4, <3>1 DEF Silence
  <2>5. ASSUME NEW item \in ToClient, Hears(<<item>>), item.kind # "denied"
        PROVE  Denial'
    <3>1. <<item>> \in Seq(ToClient) /\ \A i \in DOMAIN <<item>> : <<item>>[i].kind # "denied"
      BY <2>5
    <3> QED BY <2>2, <2>5, <3>1
  <2>6. CASE Note
    BY <2>5, <2>6 DEF Note, IsNote
  <2>7. CASE Answer
    <3>1. PICK item \in ToClient : Hears(<<item>>) /\ (item.kind = "denied" => Refuses)
      BY <2>7 DEF Answer
    <3>2. CASE item.kind = "denied"
      <4>1. /\ at' = "done" /\ UNCHANGED <<req, rules>> /\ at = "dial"
            /\ ~permits(rules, Target(req).host, Target(req).port)
        BY <3>1, <3>2 DEF Refuses
      <4>2. req \in ClientItems /\ req.kind \in {"http", "socks"}
        BY <1>1, <4>1 DEF Typed, Deciding, PInv, Kinds
      <4>3. PICK q, l : q = req /\ l = rules /\ q = req' /\ l = rules'
        BY <4>1
      <4>4. /\ q \in ClientItems /\ q.kind \in {"http", "socks"}
            /\ ~permits(l, Target(q).host, Target(q).port)
        BY <4>1, <4>2, <4>3
      <4> QED BY <4>1, <4>3, <4>4 DEF Denial
    <3> QED BY <2>5, <3>1, <3>2
  <2>8. CASE Stream
    <3>1. PICK items \in Seq(ServerItems) :
            Hears(items) /\ \A i \in DOMAIN items : items[i].kind = "data"
      BY <2>8 DEF Stream
    <3>2. items \in Seq(ToClient) /\ \A i \in DOMAIN items : items[i].kind # "denied"
      BY <3>1 DEF ToClient
    <3> QED BY <2>2, <3>1, <3>2
  <2> QED BY <2>3, <2>4, <2>6, <2>7, <2>8 DEF Says
<1>3. CASE \/ Peers \/ Tick \/ Guard \/ CloseBegins \/ Serve \/ AcceptFails
           \/ ClientConnects \/ UNCHANGED vars
  <2>1. /\ client'.got = client.got /\ UNCHANGED req
        /\ UNCHANGED at \/ at' = "done" \/ {at, at'} \subseteq Early
    BY <1>1, <1>3, OthersSay
  <2>2. at = "done" => at' = "done" /\ UNCHANGED rules
    BY <2>1, SameRules DEF Early
  <2> QED BY <2>1, <2>2, DenialKept
<1> QED BY <1>2, <1>3, StepIs

LEMMA InitRefusal == Init => Loaded /\ Denial
<1> SUFFICES ASSUME Init PROVE Loaded /\ Denial
  OBVIOUS
<1>1. client.got = <<>> /\ \A i \in DOMAIN <<>> : FALSE
  BY DEF Init, Client
<1> QED BY <1>1 DEF Init, Loaded, Denial

-----------------------------------------------------------------------------
(* What the allowlist refuses                                              *)

Labels == DOMAIN LowerCase

LEMMA PartIs ==
    ASSUME NEW S, NEW h \in Seq(S), NEW m \in Nat \ {0}, NEW n \in Nat, n <= Len(h), m <= n
    PROVE  /\ SubSeq(h, m, n) \in Seq(S) /\ SubSeq(h, m, n) # <<>>
           /\ Len(SubSeq(h, m, n)) = n - m + 1
           /\ \A i \in 1..(n - m + 1) : SubSeq(h, m, n)[i] = h[m + i - 1]
<1>1. DOMAIN h = 1..Len(h) /\ Len(h) \in Nat
  BY LenProperties
<1>2. \A i \in m..n : h[i] \in S
  <2>1. \A i \in m..n : i \in 1..Len(h)
    BY <1>1
  <2> QED BY <1>1, <2>1, ElementOfSeq
<1>3. m \in Int /\ n \in Int
  OBVIOUS
<1>4. /\ SubSeq(h, m, n) \in Seq(S)
      /\ Len(SubSeq(h, m, n)) = IF m <= n THEN n - m + 1 ELSE 0
      /\ \A i \in 1..(n - m + 1) : SubSeq(h, m, n)[i] = h[m + i - 1]
  BY <1>2, <1>3, SubSeqProperties
<1>5. Len(SubSeq(h, m, n)) # 0
  BY <1>4
<1> QED BY <1>4, <1>5, EmptySeq

\* The same, of the names of hosts.
LEMMA PartOfHost ==
    \A h \in Seq(Labels) : \A m \in Nat \ {0} : \A n \in Nat :
      n <= Len(h) /\ m <= n =>
        /\ SubSeq(h, m, n) \in Seq(Labels) /\ SubSeq(h, m, n) # <<>>
        /\ Len(SubSeq(h, m, n)) = n - m + 1
        /\ \A i \in 1..(n - m + 1) : SubSeq(h, m, n)[i] = h[m + i - 1]
BY PartIs

LEMMA OneLess ==
    ASSUME NEW k \in Nat, k > 1
    PROVE  \E n \in Nat : n = k - 1 /\ n <= k /\ 1 <= n /\ (k > 2 => 2 <= n)
OBVIOUS

\* A label in lower case.
LEMMA LabelIs ==
    ASSUME NEW l \in Labels
    PROVE  /\ LowerCase[l] \in Labels /\ LowerCase[LowerCase[l]] = LowerCase[l]
           /\ LowerCase[l] = "" => l = ""
BY LowerCaseOK DEF Labels

LEMMA CanonicalIs ==
    ASSUME NEW h \in Seq(Labels), h # <<>>
    PROVE  \E bare \in Seq(Labels) :
             /\ bare # <<>>
             /\ canonicalHost(h) = [i \in 1..Len(bare) |-> LowerCase[bare[i]]]
             /\ bare = IF Len(h) > 1 /\ h[Len(h)] = "" THEN SubSeq(h, 1, Len(h) - 1) ELSE h
<1>1. Len(h) \in Nat /\ Len(h) # 0
  BY EmptySeq, LenProperties
<1> DEFINE bare == IF Len(h) > 1 /\ h[Len(h)] = "" THEN SubSeq(h, 1, Len(h) - 1) ELSE h
<1>2. bare \in Seq(Labels) /\ bare # <<>>
  <2>1. CASE Len(h) > 1 /\ h[Len(h)] = ""
    <3>1. Len(h) > 1
      BY <2>1
    <3>2. PICK n \in Nat : n = Len(h) - 1 /\ n <= Len(h) /\ 1 <= n
      BY <1>1, <3>1, OneLess
    <3>3. SubSeq(h, 1, n) \in Seq(Labels) /\ SubSeq(h, 1, n) # <<>>
      <4>1. 1 \in Nat \ {0}
        OBVIOUS
      <4> QED BY <3>2, <4>1, PartOfHost
    <3>4. bare = SubSeq(h, 1, n)
      BY <2>1, <3>2
    <3> QED BY <3>3, <3>4
  <2>2. CASE ~(Len(h) > 1 /\ h[Len(h)] = "")
    BY <2>2
  <2> QED BY <2>1, <2>2
<1>3. canonicalHost(h) = [i \in DOMAIN bare |-> LowerCase[bare[i]]]
  BY DEF canonicalHost
<1> HIDE DEF bare
<1>4. DOMAIN bare = 1..Len(bare)
  BY <1>2, LenProperties
<1>5. canonicalHost(h) = [i \in 1..Len(bare) |-> LowerCase[bare[i]]]
  BY <1>3, <1>4
<1> QED BY <1>2, <1>5 DEF bare

LEMMA CanonicalGood ==
    ASSUME NEW h \in Seq(Labels), h # <<>>
    PROVE  canonicalHost(h) \in Seq(Labels) /\ canonicalHost(h) # <<>>
<1>1. PICK bare \in Seq(Labels) :
        bare # <<>> /\ canonicalHost(h) = [i \in 1..Len(bare) |-> LowerCase[bare[i]]]
  BY CanonicalIs
<1>2. Len(bare) \in Nat /\ Len(bare) # 0 /\ DOMAIN bare = 1..Len(bare)
  BY <1>1, EmptySeq, LenProperties
<1>3. \A i \in 1..Len(bare) : LowerCase[bare[i]] \in Labels
  BY <1>2, LabelIs, ElementOfSeq
<1>4. [i \in 1..Len(bare) |-> LowerCase[bare[i]]] \in Seq(Labels)
  BY <1>2, <1>3
<1>5. 1 \in DOMAIN canonicalHost(h)
  BY <1>1, <1>2
<1> QED BY <1>1, <1>4, <1>5

\* A second pass changes only a name with two trailing dots.
LEMMA CanonicalTwice ==
    ASSUME NEW h \in Seq(Labels), h # <<>>, ~TwoDots(h)
    PROVE  canonicalHost(canonicalHost(h)) = canonicalHost(h)
<1>1. PICK bare \in Seq(Labels) :
        /\ bare # <<>>
        /\ canonicalHost(h) = [i \in 1..Len(bare) |-> LowerCase[bare[i]]]
        /\ bare = IF Len(h) > 1 /\ h[Len(h)] = "" THEN SubSeq(h, 1, Len(h) - 1) ELSE h
  BY CanonicalIs
<1>2. PICK c \in Seq(Labels) : c = canonicalHost(h) /\ c # <<>>
  BY CanonicalGood
<1>3. Len(bare) \in Nat /\ Len(bare) # 0 /\ DOMAIN bare = 1..Len(bare) /\ Len(h) \in Nat
  BY <1>1, EmptySeq, LenProperties
<1>4. DOMAIN c = 1..Len(bare) /\ \A i \in 1..Len(bare) : c[i] = LowerCase[bare[i]]
  BY <1>1, <1>2
<1>5. Len(c) = Len(bare)
  BY <1>3, <1>4, LenProperties
<1>6. ~(Len(c) > 1 /\ c[Len(c)] = "")
  <2>1. SUFFICES ASSUME Len(c) > 1, c[Len(c)] = "" PROVE FALSE
    OBVIOUS
  <2>2. Len(bare) \in 1..Len(bare)
    BY <1>3
  <2>3. c[Len(bare)] = LowerCase[bare[Len(bare)]] /\ c[Len(bare)] = ""
    BY <1>4, <1>5, <2>1, <2>2
  <2>4. bare[Len(bare)] \in Labels
    BY <2>2, ElementOfSeq
  <2>5. bare[Len(bare)] = ""
    BY <2>3, <2>4, LabelIs
  <2>6. Len(bare) > 1
    BY <1>5, <2>1
  <2>7. CASE Len(h) > 1 /\ h[Len(h)] = ""
    <3>1. Len(h) > 1 /\ h[Len(h)] = ""
      BY <2>7
    <3>2. PICK n \in Nat : n = Len(h) - 1 /\ n <= Len(h) /\ 1 <= n
      BY <1>3, <3>1, OneLess
    <3>3. bare = SubSeq(h, 1, n)
      BY <1>1, <3>1, <3>2
    <3>4. /\ Len(bare) = n - 1 + 1
          /\ \A i \in 1..(n - 1 + 1) : bare[i] = h[1 + i - 1]
      <4>1. 1 \in Nat \ {0}
        OBVIOUS
      <4> QED BY <3>2, <3>3, <4>1, PartOfHost
    <3>5. Len(bare) = n /\ n \in 1..(n - 1 + 1) /\ 1 + n - 1 = n
      BY <3>2, <3>4
    <3>6. bare[n] = h[n]
      BY <3>4, <3>5
    <3>7. h[Len(h) - 1] = ""
      BY <2>5, <3>2, <3>5, <3>6
    <3>8. Len(h) > 2
      BY <1>3, <2>6, <3>2, <3>5
    <3> QED BY <3>1, <3>7, <3>8 DEF TwoDots
  <2>8. CASE ~(Len(h) > 1 /\ h[Len(h)] = "")
    <3>1. bare = h
      BY <1>1, <2>8
    <3> QED BY <2>5, <2>6, <2>8, <3>1
  <2> QED BY <2>7, <2>8
<1>7. canonicalHost(c) = [i \in DOMAIN c |-> LowerCase[c[i]]]
  BY <1>6 DEF canonicalHost
<1>8. \A i \in DOMAIN c : LowerCase[c[i]] = c[i]
  BY <1>3, <1>4, LabelIs, ElementOfSeq
<1>9. c = [i \in DOMAIN c |-> c[i]]
  BY <1>2
<1>10. canonicalHost(c) = c
  BY <1>7, <1>8, <1>9
<1> QED BY <1>2, <1>10

LEMMA UnbracketedGood ==
    ASSUME NEW h \in Seq(Labels), h # <<>>
    PROVE  Unbracketed(h) \in Seq(Labels) /\ Unbracketed(h) # <<>>
<1>1. CASE Bracketed(h)
  <2>1. Len(h) \in Nat
    BY LenProperties
  <2>2. Len(h) > 2
    BY <1>1 DEF Bracketed
  <2>3. PICK n \in Nat : n = Len(h) - 1 /\ n <= Len(h) /\ 2 <= n
    <3>1. Len(h) > 1
      BY <2>1, <2>2
    <3> QED BY <2>1, <2>2, <3>1, OneLess
  <2>4. SubSeq(h, 2, n) \in Seq(Labels) /\ SubSeq(h, 2, n) # <<>>
    <3>1. 2 \in Nat \ {0}
      OBVIOUS
    <3> QED BY <2>3, <3>1, PartOfHost
  <2>5. Unbracketed(h) = SubSeq(h, 2, n)
    BY <1>1, <2>3 DEF Unbracketed
  <2> QED BY <2>4, <2>5
<1>2. CASE ~Bracketed(h)
  BY <1>2 DEF Unbracketed
<1> QED BY <1>1, <1>2

\* What a rule of the user allows is permitted.
LEMMA AllowedPermits ==
    ASSUME NEW cfg, ConfigAccepted(cfg), NEW host, NEW port,
           canonicalHost(host) \in Seq(Labels), Allowed(cfg, host, port)
    PROVE  permits(loadAllowlist(cfg), host, port)
<1> DEFINE asked == canonicalHost(host)
<1>1. PICK s \in Asked(cfg) : Means(s, host, port)
  BY DEF Allowed
<1> DEFINE rule == canonicalHost(Unbracketed(s.host))
           wildcard == Len(rule) > 1 /\ rule[1] = "*"
           named == IF wildcard THEN Tail(rule) ELSE rule
           number == IF s.port = AnyPort THEN 0 ELSE s.port
           parsed == [host |-> named, wildcard |-> wildcard, port |-> number]
<1>2. /\ ParsedRule(s) # {}
      /\ ParsedRule(s) = {parsed}
  <2>1. ParsedRule(s) # {}
    BY DEF ConfigAccepted
  <2>2. ~(~Splits(s) \/ named = EmptyHost
          \/ ~(s.port = AnyPort \/ PortInRange(s.port)))
    BY <2>1 DEF ParsedRule
  <2>3. ParsedRule(s) = {parsed}
    BY <2>2 DEF ParsedRule
  <2> QED BY <2>1, <2>2, <2>3
<1>3. parsed \in loadAllowlist(cfg)
  BY <1>1, <1>2 DEF loadAllowlist
<1>4. /\ parsed.host = named /\ parsed.wildcard = wildcard /\ parsed.port = number
  BY Zenon
<1>5. asked \in Seq(Labels) /\ asked = canonicalHost(host)
  OBVIOUS
<1>6. rule = canonicalHost(Unbracketed(s.host))
  BY Zenon DEF rule
<1> HIDE DEF asked, rule, wildcard
<1>7. /\ s.port \in {AnyPort, port}
      /\ rule = asked \/ (wildcard /\ (asked = Tail(rule) \/ Below(asked, Tail(rule))))
  BY <1>1, <1>5, <1>6, Zenon DEF Means, wildcard
<1>8. number \in {0, port}
  <2>1. CASE s.port = AnyPort
    BY <2>1
  <2>2. CASE s.port # AnyPort
    BY <1>7, <2>2
  <2> QED BY <2>1, <2>2
<1>9. named = asked \/ (wildcard /\ Below(asked, named))
  <2>1. CASE ~wildcard
    BY <1>7, <2>1
  <2>2. CASE wildcard /\ rule # asked
    BY <1>7, <2>2
  <2>3. CASE wildcard /\ rule = asked
    <3>1. Len(asked) > 1
      BY <2>3 DEF wildcard
    <3>2. Len(asked) \in Nat /\ asked # <<>>
      BY <1>5, <3>1, EmptySeq, LenProperties
    <3>3. Tail(asked) = SubSeq(asked, 2, Len(asked))
      <4>1. /\ Tail(asked) \in Seq(Labels) /\ Len(Tail(asked)) = Len(asked) - 1
            /\ \A i \in 1..Len(Tail(asked)) : Tail(asked)[i] = asked[i + 1]
        BY <1>5, <3>2, HeadTailProperties
      <4>2. /\ SubSeq(asked, 2, Len(asked)) \in Seq(Labels)
            /\ Len(SubSeq(asked, 2, Len(asked))) = Len(asked) - 2 + 1
            /\ \A i \in 1..(Len(asked) - 2 + 1) :
                 SubSeq(asked, 2, Len(asked))[i] = asked[2 + i - 1]
        BY <1>5, <3>1, <3>2, SubSeqProperties
      <4>3. Len(asked) - 2 + 1 = Len(asked) - 1 /\ \A i \in Nat : 2 + i - 1 = i + 1
        BY <3>2
      <4>4. \A i \in 1..Len(Tail(asked)) : Tail(asked)[i] = SubSeq(asked, 2, Len(asked))[i]
        BY <3>2, <4>1, <4>2, <4>3
      <4> QED BY <4>1, <4>2, <4>3, <4>4, SeqEqual
    <3>4. 2 \in 2..Len(asked)
      BY <3>1, <3>2
    <3>5. Below(asked, Tail(asked))
      BY <3>3, <3>4 DEF Below
    <3> QED BY <2>3, <3>5
  <2> QED BY <2>1, <2>2, <2>3
<1>10. \E r \in loadAllowlist(cfg) :
         /\ r.port \in {0, port}
         /\ r.host = asked \/ (r.wildcard /\ Below(asked, r.host))
  <2>1. PICK r : r = parsed
    OBVIOUS
  <2>2. r \in loadAllowlist(cfg) /\ r.host = named /\ r.wildcard = wildcard /\ r.port = number
    BY <1>3, <1>4, <2>1, Zenon
  <2>3. r.port \in {0, port}
    BY <1>8, <2>2, Zenon
  <2>4. r.host = asked \/ (r.wildcard /\ Below(asked, r.host))
    BY <1>9, <2>2, Zenon
  <2> QED BY <2>2, <2>3, <2>4
<1> QED BY <1>10 DEF permits, asked

\* Only the canonical form of a name counts.
LEMMA SameName ==
    ASSUME NEW list, NEW g, NEW h, NEW port, canonicalHost(g) = canonicalHost(h)
    PROVE  permits(list, g, port) <=> permits(list, h, port)
BY Zenon DEF permits

LEMMA RefusalMeans ==
    ASSUME Shape, Loaded, Denial
    PROVE  RefusedRightly
<1> SUFFICES ASSUME NEW i \in DOMAIN client.got, client.got[i].kind = "denied",
                    Allowed(config, Named(req), Target(req).port)
             PROVE  /\ req.kind = "http"
                    /\ \/ req.target.host[1] = "[" /\ req.target.port = NoPort
                       \/ Colon(req.target)
                       \/ TwoDots(Named(req))
  BY DEF RefusedRightly
<1>1. /\ at = "done" /\ req \in ClientItems /\ req.kind \in {"http", "socks"}
      /\ ~permits(rules, Target(req).host, Target(req).port)
  BY DEF Denial
<1>2. ConfigAccepted(config) /\ rules = loadAllowlist(config)
  BY <1>1 DEF Loaded
<1>3. req.target.host \in Seq(Labels) /\ req.target.host # <<>>
  BY <1>1, ItemsOK DEF Labels
<1>4. Named(req) \in Seq(Labels) /\ Named(req) # <<>>
  BY <1>3, UnbracketedGood DEF Named
<1>5. canonicalHost(Named(req)) \in Seq(Labels)
  BY <1>4, CanonicalGood
<1>6. permits(rules, Named(req), Target(req).port)
  BY <1>2, <1>5, AllowedPermits
<1>7. req.kind = "http"
  <2>1. SUFFICES ASSUME req.kind = "socks" PROVE FALSE
    BY <1>1
  <2>2. Named(req) = Target(req).host
    BY <2>1 DEF Named, Target
  <2> QED BY <1>1, <1>6, <2>2
<1>8. Target(req) = targetOf(req.target, IF Connect(req) THEN 443 ELSE 80)
  BY <1>7 DEF Target
<1>9. ASSUME ~(req.target.host[1] = "[" /\ req.target.port = NoPort),
             ~Colon(req.target), ~TwoDots(Named(req))
      PROVE  FALSE
  <2>1. Target(req).host = canonicalHost(Named(req))
    <3>1. Named(req) = Unbracketed(req.target.host)
      BY <1>7 DEF Named
    <3>2. CASE Splits(req.target)
      BY <1>8, <3>1, <3>2 DEF targetOf
    <3>3. CASE ~Splits(req.target)
      <4>1. req.target.port = NoPort /\ req.target.host[1] # "["
        BY <1>9, <3>3 DEF Colon
      <4>2. Whole(req.target) = req.target.host
        BY <4>1 DEF Whole
      <4>3. Named(req) = req.target.host
        BY <3>1, <4>1 DEF Unbracketed, Bracketed
      <4> QED BY <1>8, <3>3, <4>2, <4>3 DEF targetOf
    <3> QED BY <3>2, <3>3
  <2>2. canonicalHost(Target(req).host) = canonicalHost(Named(req))
    BY <1>4, <1>9, <2>1, CanonicalTwice
  <2>3. permits(rules, Target(req).host, Target(req).port)
    BY <1>6, <2>2, SameName
  <2> QED BY <1>1, <2>3
<1> QED BY <1>7, <1>9

-----------------------------------------------------------------------------
(* The properties of a session                                             *)

\* All that the steps of a session keep.
SessionInv == GInv /\ Shape /\ PInv /\ Served

LEMMA SessionInvariant == Spec => []SessionInv
<1>1. Init => SessionInv
  BY InitGInv, InitShape, InitPInv, InitServed DEF SessionInv
<1>2. SessionInv /\ [Next]_vars => SessionInv'
  BY NextGInv, NextShape, NextPInv, NextServed DEF SessionInv
<1> QED BY <1>1, <1>2, PTL DEF Spec

\* Both ends of a tunnel get the bytes of the other one from the first, in
\* order and without a gap, also those that came with the request, its body
\* or the 101 (netguard.go:410-417, 637-643).
THEOREM StreamsArriveInOrder == Spec => []StreamsInOrder
<1>1. Init => Told
  BY InitTold
<1>2. SessionInv /\ Told /\ [Next]_vars => Told'
  BY NextTold DEF SessionInv
<1>3. SessionInv /\ Told => StreamsInOrder
  BY ToldMeans DEF SessionInv, GInv
<1> QED BY <1>1, <1>2, <1>3, SessionInvariant, PTL DEF Spec

\* Every request of a connection gets one final answer, in the order of the
\* requests, over any number of servers, interim responses and upgrades
\* (netguard.go:420-424, 493-516, 609-705).
THEOREM AnswersComeInOrder == Spec => []AnswersInOrder
<1>1. Init => Counted
  BY InitCounted
<1>2. SessionInv /\ Counted /\ [Next]_vars => Counted'
  BY NextCounted DEF SessionInv
<1>3. SessionInv /\ Counted => AnswersInOrder
  BY CountedMeans DEF SessionInv, Shape
<1> QED BY <1>1, <1>2, <1>3, SessionInvariant, PTL DEF Spec

\* The allowlist refuses no request that a rule of the user allows, but for
\* the three forms of a name that RefusedRightly lists (netguard.go:96-97,
\* 167-186, 659-674).
THEOREM RefusesOnlyRightly == Spec => []RefusedRightly
<1>1. Init => Loaded /\ Denial
  BY InitRefusal
<1>2. SessionInv /\ Loaded /\ Denial /\ [Next]_vars => Loaded' /\ Denial'
  BY NextLoaded, NextDenial DEF SessionInv
<1>3. SessionInv /\ Loaded /\ Denial => RefusedRightly
  BY RefusalMeans DEF SessionInv
<1> QED BY <1>1, <1>2, <1>3, SessionInvariant, PTL DEF Spec
=============================================================================
