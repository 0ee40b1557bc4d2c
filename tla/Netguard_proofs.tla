--------------------------- MODULE Netguard_proofs ---------------------------
(***************************************************************************)
(* Proofs about Netguard, for any policies, clients and timeouts: which     *)
(* servers are reached, what both connections look like at each step, and  *)
(* how far a session is in what its client sends.                          *)
(***************************************************************************)
EXTENDS Netguard, SequenceTheorems, TLAPS

\* The fields of a connection to a server.
ServerFields == {"target", "queue", "buf", "end", "asked", "answered", "got",
                 "shut", "sent", "reads"}

\* The steps at which a server may, and at which it must be connected.
WithServer == {"reply", "proceed", "send", "response", "final", "switch",
               "drain", "splice", "next"}
MayHaveServer == WithServer \cup {"forward", "done"}

\* The allowlist is what was parsed, or nothing yet.
Parsed ==
    /\ rules = {} \/ (ConfigAccepted(config) /\ rules = loadAllowlist(config))
    /\ phase \in {"parse", "start"} => at = "idle"

\* A connection is dialled, and then used, for a permitted target only.
Permitted ==
    /\ at = "dialing" => permits(rules, Target(req).host, Target(req).port)
    /\ at \in {"proceed", "send"} => server # NoServer /\ Target(req) = server.target
    /\ server # NoServer =>
         /\ permits(rules, server.target.host, server.target.port)
         /\ \A r \in server.asked : Target(r) = server.target

\* Which steps have a server, and how many connections are open.
Connected ==
    /\ server # NoServer => at \in MayHaveServer
    /\ at \in WithServer => server # NoServer
    /\ server # NoServer =>
         /\ DOMAIN server = ServerFields
         /\ server.shut = "closed" <=> at = "done"
    /\ upstreams = IF server = NoServer \/ at = "done" THEN 0 ELSE 1

\* From the moment a request is sent or a tunnel stands no deadline runs.
NoDeadline ==
    /\ DOMAIN timer = {"read", "write", "dial"}
    /\ at \in {"send", "response", "final", "switch", "drain", "splice"}
         => timer.read = Never

\* Nothing is closed before close, and loops end only by faults.
Open ==
    /\ ~closed => listeners = Listeners /\ phase \notin {"closing", "waiting"}
    /\ faults \in Nat
    /\ loops \subseteq Listeners
    /\ complaint => faults > 0

SInv == Permitted /\ Connected /\ NoDeadline

GInv == Parsed /\ SInv /\ Open

-----------------------------------------------------------------------------
(* The allowlist                                                           *)

LEMMA PortIsPositive ==
    ASSUME NEW p, PortInRange(p)
    PROVE  p # 0
  BY DEF PortInRange

\* A rule that permits a target was parsed from a text that allows it.
LEMMA PermitsMeans ==
    ASSUME NEW cfg, ConfigAccepted(cfg), NEW host, NEW port,
           permits(loadAllowlist(cfg), host, port)
    PROVE  Allowed(cfg, host, port)
<1> DEFINE asked == canonicalHost(host)
<1>1. PICK r \in loadAllowlist(cfg) :
        /\ r.port \in {0, port}
        /\ r.host = asked \/ (r.wildcard /\ Below(asked, r.host))
  BY DEF permits
<1>2. PICK s \in Asked(cfg) : r \in ParsedRule(s)
  BY <1>1 DEF loadAllowlist
<1> DEFINE rule == canonicalHost(Unbracketed(s.host))
           wildcard == Len(rule) > 1 /\ rule[1] = "*"
           named == IF wildcard THEN Tail(rule) ELSE rule
           number == IF s.port = AnyPort THEN 0 ELSE s.port
           accepted == Splits(s) /\ (s.port = AnyPort \/ PortInRange(s.port))
           parsed == [host |-> named, wildcard |-> wildcard, port |-> number]
<1>3. accepted /\ r = parsed
  <2>1. CASE ~Splits(s) \/ named = EmptyHost
             \/ ~(s.port = AnyPort \/ PortInRange(s.port))
    <3>1. ParsedRule(s) = {}
      BY <2>1 DEF ParsedRule
    <3> QED BY <1>2, <3>1
  <2>2. CASE ~(~Splits(s) \/ named = EmptyHost
               \/ ~(s.port = AnyPort \/ PortInRange(s.port)))
    <3>1. ParsedRule(s) = {parsed}
      BY <2>2 DEF ParsedRule
    <3> QED BY <1>2, <2>2, <3>1
  <2> QED BY <2>1, <2>2
<1> HIDE DEF asked, rule, wildcard
<1>4. r.host = named /\ r.port = number /\ r.wildcard = wildcard
  BY <1>3, Zenon
<1>5. s.port \in {AnyPort, port}
  <2>1. number \in {0, port}
    BY <1>1, <1>4, Zenon
  <2>2. CASE s.port = AnyPort
    BY <2>2
  <2>3. CASE s.port # AnyPort
    <3>1. PortInRange(s.port)
      BY <1>3, <2>3, Zenon
    <3>2. s.port # 0
      BY <3>1, PortIsPositive
    <3> QED BY <2>1, <2>3, <3>2, Zenon
  <2> QED BY <2>2, <2>3
<1>6. rule = asked \/ (wildcard /\ (asked = Tail(rule) \/ Below(asked, Tail(rule))))
  <2>1. named = asked \/ (wildcard /\ Below(asked, named))
    BY <1>1, <1>4, Zenon
  <2>2. CASE wildcard
    BY <2>1, <2>2
  <2>3. CASE ~wildcard
    BY <2>1, <2>3
  <2> QED BY <2>2, <2>3
<1>7. rule = canonicalHost(Unbracketed(s.host))
  BY Zenon DEF rule
<1>8. Means(s, host, port)
  BY <1>5, <1>6, <1>7, Zenon DEF Means, wildcard, asked
<1> QED BY <1>2, <1>8 DEF Allowed
-----------------------------------------------------------------------------
(* The server of a session                                                 *)

\* What reads and writes leave as it was.
Keeps(s, t) ==
    /\ t # NoServer /\ DOMAIN t = ServerFields
    /\ t.target = s.target /\ t.asked = s.asked
    /\ t.shut = "closed" <=> s.shut = "closed"

LEMMA IsServer ==
    ASSUME NEW s, DOMAIN s = ServerFields
    PROVE  s # NoServer
<1>1. "target" \notin DOMAIN NoServer
  BY DEF NoServer
<1>2. "target" \in DOMAIN s
  BY DEF ServerFields
<1> QED BY <1>1, <1>2, Zenon

LEMMA ReceiveKeeps ==
    ASSUME NEW s, DOMAIN s = ServerFields, NEW items
    PROVE  Keeps(s, Receive(s, items))
<1>1. DOMAIN Receive(s, items) = ServerFields
  BY DEF Receive
<1>2. /\ Receive(s, items).target = s.target
      /\ Receive(s, items).asked = s.asked
      /\ Receive(s, items).shut = s.shut
  BY DEF Receive, ServerFields
<1> QED BY <1>1, <1>2, IsServer, Zenon DEF Keeps

LEMMA ConsumeKeeps ==
    ASSUME NEW s, DOMAIN s = ServerFields, NEW n
    PROVE  Keeps(s, Consume(s, n))
<1>1. DOMAIN Consume(s, n) = ServerFields
  BY DEF Consume
<1>2. /\ Consume(s, n).target = s.target
      /\ Consume(s, n).asked = s.asked
      /\ Consume(s, n).shut = s.shut
  BY DEF Consume, ServerFields
<1> QED BY <1>1, <1>2, IsServer, Zenon DEF Keeps

\* A step that moves neither the handler nor the server, and no deadline.
LEMMA Unmoved ==
    ASSUME SInv, UNCHANGED <<rules, at, req, server, upstreams, timer>>
    PROVE  SInv'
BY DEF SInv, Permitted, Connected, NoDeadline

\* The handler goes on with the same server.
LEMMA GoesOn ==
    ASSUME SInv, UNCHANGED <<rules, req, upstreams>>, server # NoServer,
           {at, at'} \subseteq WithServer \cup {"forward"},
           Keeps(server, server'),
           at' \in {"proceed", "send"} => at \in {"proceed", "send"}
    PROVE  Permitted' /\ Connected'
<1>1. Permitted'
  BY DEF SInv, Permitted, Keeps, WithServer
<1>2. Connected'
  BY DEF SInv, Connected, Keeps, WithServer, MayHaveServer
<1> QED BY <1>1, <1>2

\* The handler closes what it has open.
LEMMA QuitKeeps ==
    ASSUME SInv, at # "done", NEW conn, Quit(conn), UNCHANGED rules
    PROVE  SInv'
<1>1. NoDeadline'
  BY DEF Quit, NoTimer, NoDeadline
<1>2. CASE server = NoServer
  <2>1. Permitted'
    BY <1>2 DEF Quit, SInv, Permitted
  <2>2. Connected'
    BY <1>2 DEF Quit, SInv, Connected, WithServer
  <2> QED BY <1>1, <2>1, <2>2 DEF SInv
<1>3. CASE server # NoServer
  <2>1. DOMAIN server = ServerFields /\ upstreams = 1
    BY <1>3 DEF SInv, Connected
  <2>2. server' = [server EXCEPT !.shut = "closed"] /\ at' = "done"
    BY <1>3 DEF Quit
  <2>3. /\ DOMAIN server' = ServerFields /\ server'.shut = "closed"
        /\ server'.target = server.target /\ server'.asked = server.asked
    BY <2>1, <2>2 DEF ServerFields
  <2>4. server' # NoServer
    BY <2>3, IsServer
  <2>5. Permitted'
    BY <1>3, <2>2, <2>3 DEF SInv, Permitted
  <2>6. upstreams' = 0
    BY <1>3, <2>1 DEF Quit
  <2>7. Connected'
    BY <2>2, <2>3, <2>4, <2>6 DEF Connected, WithServer, MayHaveServer
  <2> QED BY <1>1, <2>5, <2>7 DEF SInv
<1> QED BY <1>2, <1>3

-----------------------------------------------------------------------------
(* The steps of a handler                                                  *)

\* Steps that need no connection to a server, and leave none.
LEMMA Unconnected ==
    ASSUME SInv, server = NoServer, UNCHANGED <<server, upstreams>>,
           at \notin WithServer \cup {"done"},
           at' \notin WithServer \cup {"done"},
           at' # "dialing", DOMAIN timer' = {"read", "write", "dial"}
    PROVE  SInv'
<1>1. Permitted'
  BY DEF SInv, Permitted, WithServer
<1>2. Connected'
  BY DEF SInv, Connected, WithServer
<1>3. NoDeadline'
  BY DEF NoDeadline, WithServer
<1> QED BY <1>1, <1>2, <1>3 DEF SInv

LEMMA NegotiationKeeps ==
    ASSUME SInv, ReadGreeting \/ ReadSocksRequest \/ ReadRequest \/ HandleConnect
    PROVE  SInv'
<1>1. UNCHANGED <<config, rules>> /\ at # "done"
  BY DEF ReadGreeting, ReadSocksRequest, ReadRequest, HandleConnect
<1>2. CASE \E conn : Quit(conn)
  BY <1>1, <1>2, QuitKeeps
<1>3. DOMAIN timer = {"read", "write", "dial"}
  BY DEF SInv, NoDeadline
<1>4. CASE ReadGreeting /\ ~\E conn : Quit(conn)
  <2>1. server = NoServer
    BY <1>4 DEF ReadGreeting, SInv, Connected, MayHaveServer, WithServer
  <2>2. at = "greeting" /\ at' = "request" /\ UNCHANGED <<server, upstreams, timer>>
    BY <1>4 DEF ReadGreeting
  <2> QED BY <1>3, <2>1, <2>2, Unconnected DEF WithServer
<1>5. CASE ReadSocksRequest /\ ~\E conn : Quit(conn)
  <2>1. server = NoServer
    BY <1>5 DEF ReadSocksRequest, SInv, Connected, MayHaveServer, WithServer
  <2>2. at = "request" /\ at' = "dial" /\ UNCHANGED <<server, upstreams, timer>>
    BY <1>5 DEF ReadSocksRequest
  <2> QED BY <1>3, <2>1, <2>2, Unconnected DEF WithServer
<1>6. CASE HandleConnect /\ ~\E conn : Quit(conn)
  <2>1. server = NoServer
    BY <1>6 DEF HandleConnect, SInv, Connected, MayHaveServer, WithServer
  <2>2. at = "connect" /\ at' = "dial" /\ UNCHANGED <<server, upstreams, timer>>
    BY <1>6 DEF HandleConnect
  <2> QED BY <1>3, <2>1, <2>2, Unconnected DEF WithServer
<1>7. CASE ReadRequest /\ ~\E conn : Quit(conn)
  <2>1. /\ at \in {"first", "next"}
        /\ timer' \in {timer, [timer EXCEPT !.read = Never]}
        /\ \/ at' = "connect" /\ server' = NoServer
              /\ \/ server # NoServer /\ upstreams' = upstreams - 1
                 \/ server = NoServer /\ upstreams' = upstreams
           \/ at' = "forward" /\ UNCHANGED <<server, upstreams>>
    BY <1>7 DEF ReadRequest
  <2>2. NoDeadline'
    BY <1>3, <2>1 DEF NoDeadline
  <2>3. Permitted'
    BY <1>1, <2>1 DEF SInv, Permitted
  <2>4. Connected'
    BY <2>1 DEF SInv, Connected, MayHaveServer, WithServer
  <2> QED BY <2>2, <2>3, <2>4 DEF SInv
<1> QED BY <1>2, <1>4, <1>5, <1>6, <1>7

LEMMA DiallingKeeps ==
    ASSUME SInv,
           Forward \/ Dial \/ DialSucceeds \/ DialFails \/ DialTimesOut \/ TellUnreached
    PROVE  SInv'
<1>1. UNCHANGED <<config, rules, req>> /\ at # "done"
  BY DEF Forward, Dial, DialSucceeds, DialFails, DialTimesOut, Unreached, TellUnreached
<1>2. CASE \E conn : Quit(conn)
  BY <1>1, <1>2, QuitKeeps
<1>3. DOMAIN timer = {"read", "write", "dial"}
  BY DEF SInv, NoDeadline
<1>4. CASE Forward /\ ~\E conn : Quit(conn)
  <2>1. /\ at = "forward" /\ UNCHANGED timer
        /\ \/ /\ server # NoServer /\ server.target = Target(req)
              /\ at' = "proceed" /\ UNCHANGED <<server, upstreams>>
           \/ /\ at' = "dial" /\ server' = NoServer
              /\ upstreams' = upstreams - (IF server = NoServer THEN 0 ELSE 1)
    BY <1>4 DEF Forward
  <2>2. NoDeadline'
    BY <1>3, <2>1 DEF NoDeadline
  <2>3. Permitted'
    BY <1>1, <2>1 DEF SInv, Permitted
  <2>4. Connected'
    BY <2>1 DEF SInv, Connected, MayHaveServer, WithServer
  <2> QED BY <2>2, <2>3, <2>4 DEF SInv
<1>5. CASE Dial /\ ~\E conn : Quit(conn)
  <2>1. /\ at = "dial" /\ at' = "dialing" /\ UNCHANGED <<server, upstreams>>
        /\ permits(rules, Target(req).host, Target(req).port)
        /\ timer' = [timer EXCEPT !.dial = DialTimeout]
    BY <1>5 DEF Dial
  <2>2. server = NoServer
    BY <2>1 DEF SInv, Connected, MayHaveServer, WithServer
  <2>3. NoDeadline'
    BY <1>3, <2>1 DEF NoDeadline
  <2>4. Permitted'
    BY <1>1, <2>1, <2>2 DEF SInv, Permitted
  <2>5. Connected'
    BY <2>1, <2>2 DEF SInv, Connected, MayHaveServer, WithServer
  <2> QED BY <2>3, <2>4, <2>5 DEF SInv
<1>6. CASE DialSucceeds
  <2>1. /\ at = "dialing" /\ at' \in {"proceed", "reply"}
        /\ server' = Server(Target(req)) /\ upstreams' = upstreams + 1
        /\ timer' = [timer EXCEPT !.dial = Never]
    BY <1>6 DEF DialSucceeds
  <2>2. server = NoServer /\ upstreams = 0
    BY <2>1 DEF SInv, Connected, MayHaveServer, WithServer
  <2>3. /\ DOMAIN server' = ServerFields /\ server'.shut = "open"
        /\ server'.target = Target(req) /\ server'.asked = {}
    BY <2>1 DEF Server, ServerFields
  <2>4. server' # NoServer
    BY <2>3, IsServer
  <2>5. NoDeadline'
    BY <1>3, <2>1 DEF NoDeadline
  <2>6. Permitted'
    BY <1>1, <2>1, <2>3, <2>4 DEF SInv, Permitted
  <2>7. Connected'
    BY <2>1, <2>2, <2>3, <2>4 DEF Connected, MayHaveServer, WithServer
  <2> QED BY <2>5, <2>6, <2>7 DEF SInv
<1>7. CASE DialFails \/ DialTimesOut
  <2>1. /\ at = "dialing" /\ at' = "unreached" /\ UNCHANGED <<server, upstreams>>
        /\ timer' = [timer EXCEPT !.dial = Never]
    BY <1>7 DEF DialFails, DialTimesOut, Unreached
  <2>2. server = NoServer
    BY <2>1 DEF SInv, Connected, MayHaveServer, WithServer
  <2>3. DOMAIN timer' = {"read", "write", "dial"}
    BY <1>3, <2>1
  <2> QED BY <2>1, <2>2, <2>3, Unconnected DEF WithServer
<1>8. TellUnreached => \E conn : Quit(conn)
  BY DEF TellUnreached
<1> QED BY <1>2, <1>4, <1>5, <1>6, <1>7, <1>8

\* Steps of a session that goes on with its server.
LEMMA HasServer ==
    ASSUME SInv, at \in WithServer
    PROVE  /\ server # NoServer /\ DOMAIN server = ServerFields
           /\ at # "done" /\ server.shut # "closed"
BY DEF SInv, Connected, WithServer

LEMMA Itself ==
    ASSUME NEW s, DOMAIN s = ServerFields
    PROVE  Keeps(s, s)
BY IsServer DEF Keeps

\* Sets of fields that a step may change, one at a time.
LEMMA OtherFields ==
    ASSUME NEW s, DOMAIN s = ServerFields, NEW v,
           NEW f \in {"queue", "buf", "end", "answered", "got", "sent"}
    PROVE  Keeps(s, [s EXCEPT ![f] = v])
<1> DEFINE t == [s EXCEPT ![f] = v]
<1>1. DOMAIN t = ServerFields /\ t.target = s.target /\ t.asked = s.asked /\ t.shut = s.shut
  BY DEF ServerFields
<1> HIDE DEF t
<1> QED BY <1>1, IsServer DEF Keeps

LEMMA KeepsTwice ==
    ASSUME NEW s, NEW t, NEW u, Keeps(s, t), Keeps(t, u)
    PROVE  Keeps(s, u)
BY Zenon DEF Keeps

LEMMA HalfCloses ==
    ASSUME NEW s, DOMAIN s = ServerFields, s.shut # "closed"
    PROVE  Keeps(s, [s EXCEPT !.shut = "half"])
<1> DEFINE t == [s EXCEPT !.shut = "half"]
<1>1. DOMAIN t = ServerFields /\ t.target = s.target /\ t.asked = s.asked /\ t.shut = "half"
  BY DEF ServerFields
<1> HIDE DEF t
<1> QED BY <1>1, IsServer DEF Keeps

LEMMA TunnelKeeps ==
    ASSUME SInv, \/ ReplyOK \/ DrainServer \/ DrainClient \/ SpliceEnds
                 \/ CopyUp \/ CopyDown \/ UpEnds \/ DownEnds
    PROVE  SInv'
<1>1. UNCHANGED <<config, rules, req>> /\ at \in {"reply", "switch", "drain", "splice"}
  BY DEF ReplyOK, DrainServer, DrainClient, SpliceEnds, CopyUp, CopyDown, UpEnds, DownEnds
<1>2. /\ server # NoServer /\ DOMAIN server = ServerFields
      /\ at # "done" /\ server.shut # "closed"
  BY <1>1, HasServer DEF WithServer
<1>3. CASE \E conn : Quit(conn)
  BY <1>1, <1>2, <1>3, QuitKeeps
<1>4. SpliceEnds => \E conn : Quit(conn)
  BY DEF SpliceEnds
<1> SUFFICES ASSUME ~\E conn : Quit(conn)
             PROVE  SInv'
  BY <1>3
<1>5. /\ at' \in {"drain", "splice"} /\ UNCHANGED upstreams
      /\ UNCHANGED timer \/ timer' = NoTimer
      /\ at = "reply" => timer' = NoTimer
  BY <1>4 DEF ReplyOK, DrainServer, DrainClient, CopyUp, CopyDown, UpEnds, DownEnds
<1>6. Keeps(server, server')
  <2>1. CASE ReplyOK \/ DownEnds
    <3>1. UNCHANGED server
      BY <2>1 DEF ReplyOK, DownEnds
    <3> QED BY <1>2, <3>1, Itself
  <2>2. CASE DrainServer
    <3>1. server' = [server EXCEPT !.buf = <<>>]
      BY <2>2 DEF DrainServer
    <3> QED BY <1>2, <3>1, OtherFields
  <2>3. CASE CopyDown
    <3>1. server' = [server EXCEPT !.queue = Tail(@)]
      BY <2>3 DEF CopyDown
    <3> QED BY <1>2, <3>1, OtherFields
  <2>4. CASE DrainClient \/ CopyUp
    <3>1. PICK items : server' = Receive(server, items)
      BY <2>4 DEF DrainClient, CopyUp
    <3> QED BY <1>2, <3>1, ReceiveKeeps
  <2>5. CASE UpEnds
    <3>1. server' = [server EXCEPT !.shut = "half"]
      BY <2>5 DEF UpEnds
    <3> QED BY <1>2, <3>1, HalfCloses
  <2> QED BY <1>4, <2>1, <2>2, <2>3, <2>4, <2>5
<1>7. NoDeadline'
  BY <1>1, <1>5 DEF SInv, NoDeadline, NoTimer
<1>8. Permitted' /\ Connected'
  BY <1>1, <1>2, <1>5, <1>6, GoesOn DEF WithServer
<1> QED BY <1>7, <1>8 DEF SInv

LEMMA ExchangeKeeps ==
    ASSUME SInv, Proceed \/ SendRequest \/ RelayResponse
    PROVE  SInv'
<1>1. UNCHANGED <<config, rules, req>> /\ at \in {"proceed", "send", "response", "final"}
  BY DEF Proceed, SendRequest, RelayResponse
<1>2. /\ server # NoServer /\ DOMAIN server = ServerFields
      /\ at # "done" /\ server.shut # "closed"
  BY <1>1, HasServer DEF WithServer
<1>3. CASE \E conn : Quit(conn)
  BY <1>1, <1>2, <1>3, QuitKeeps
<1> SUFFICES ASSUME ~\E conn : Quit(conn)
             PROVE  SInv'
  BY <1>3
<1>4. DOMAIN timer = {"read", "write", "dial"}
  BY DEF SInv, NoDeadline
<1>5. CASE Proceed
  <2>1. /\ at = "proceed" /\ at' = "send" /\ timer' = NoTimer
        /\ UNCHANGED <<server, upstreams>>
    BY <1>5 DEF Proceed
  <2>2. NoDeadline'
    BY <2>1 DEF NoDeadline, NoTimer
  <2>3. Permitted' /\ Connected'
    BY <1>1, <1>2, <2>1, Itself, GoesOn DEF WithServer
  <2> QED BY <2>2, <2>3 DEF SInv
<1>6. CASE SendRequest
  <2>1. /\ at = "send" /\ at' = "response" /\ UNCHANGED <<upstreams, timer>>
        /\ server' = [server EXCEPT !.asked = @ \cup {req}]
    BY <1>6 DEF SendRequest
  <2>2. /\ DOMAIN server' = ServerFields /\ server'.target = server.target
        /\ server'.asked = server.asked \cup {req} /\ server'.shut = server.shut
    BY <1>2, <2>1 DEF ServerFields
  <2>3. server' # NoServer
    BY <2>2, IsServer
  <2>4. NoDeadline'
    BY <1>4, <2>1 DEF SInv, NoDeadline
  <2>5. Permitted'
    BY <1>1, <1>2, <2>1, <2>2, <2>3 DEF SInv, Permitted
  <2>6. Connected'
    BY <1>2, <2>1, <2>2, <2>3 DEF SInv, Connected, WithServer, MayHaveServer
  <2> QED BY <2>4, <2>5, <2>6 DEF SInv
<1>7. CASE RelayResponse
  <2>1. /\ at' \in {"final", "switch", "next"} /\ UNCHANGED upstreams
        /\ at' = "next" \/ UNCHANGED timer
        /\ timer' \in {timer, [timer EXCEPT !.read = IdleTimeout]}
        /\ at \in {"response", "final"}
        /\ \E n : server' = Consume(server, n)
    BY <1>7 DEF RelayResponse
  <2>2. Keeps(server, server')
    BY <1>2, <2>1, ConsumeKeeps
  <2>3. NoDeadline'
    BY <1>4, <2>1 DEF SInv, NoDeadline
  <2>4. Permitted' /\ Connected'
    BY <1>1, <1>2, <2>1, <2>2, GoesOn DEF WithServer
  <2> QED BY <2>3, <2>4 DEF SInv
<1> QED BY <1>5, <1>6, <1>7

-----------------------------------------------------------------------------
(* The clock, the peers and the listeners                                  *)

LEMMA PeersKeep ==
    ASSUME SInv, Peers
    PROVE  SInv'
<1>1. UNCHANGED <<rules, at, req, upstreams, timer>>
  BY DEF Peers, ClientSends, ClientEnds, ClientStops, ServerAnswers, ServerSends,
     ServerEnds, ServerStops
<1>2. CASE UNCHANGED server
  BY <1>1, <1>2, Unmoved
<1>3. CASE server' # server
  <2>1. /\ server # NoServer /\ at # "done"
        /\ ServerAnswers \/ ServerSends \/ ServerEnds \/ ServerStops
    BY <1>3 DEF Peers, ClientSends, ClientEnds, ClientStops, ServerAnswers, ServerSends,
       ServerEnds, ServerStops
  <2>2. DOMAIN server = ServerFields /\ at \in WithServer \cup {"forward"}
    BY <2>1 DEF SInv, Connected, MayHaveServer
  <2>3. Keeps(server, server')
    <3>1. CASE ServerAnswers
      <4>1. PICK q, a : server' = [[server EXCEPT !["queue"] = q] EXCEPT !["answered"] = a]
        BY <3>1 DEF ServerAnswers
      <4>2. Keeps(server, [server EXCEPT !["queue"] = q])
        BY <2>2, OtherFields
      <4>3. Keeps([server EXCEPT !["queue"] = q], server')
        BY <2>2, <4>1, OtherFields
      <4> QED BY <4>2, <4>3, KeepsTwice
    <3>2. CASE ServerSends
      <4>1. PICK q, a : server' = [[server EXCEPT !["queue"] = q] EXCEPT !["sent"] = a]
        BY <3>2 DEF ServerSends
      <4>2. Keeps(server, [server EXCEPT !["queue"] = q])
        BY <2>2, OtherFields
      <4>3. Keeps([server EXCEPT !["queue"] = q], server')
        BY <2>2, <4>1, OtherFields
      <4> QED BY <4>2, <4>3, KeepsTwice
    <3>3. CASE ServerEnds \/ ServerStops
      <4>1. \/ \E e : server' = [server EXCEPT !["end"] = e]
            \/ server' = [server EXCEPT !["reads"] = FALSE]
        BY <3>3 DEF ServerEnds, ServerStops
      <4>2. CASE \E e : server' = [server EXCEPT !["end"] = e]
        <5>1. PICK e : server' = [server EXCEPT !["end"] = e]
          BY <4>2
        <5> QED BY <2>2, <5>1, OtherFields
      <4>3. CASE server' = [server EXCEPT !["reads"] = FALSE]
        <5>1. /\ DOMAIN server' = ServerFields /\ server'.target = server.target
              /\ server'.asked = server.asked /\ server'.shut = server.shut
          BY <2>2, <4>3 DEF ServerFields
        <5> QED BY <5>1, IsServer DEF Keeps
      <4> QED BY <4>1, <4>2, <4>3
    <3> QED BY <2>1, <3>1, <3>2, <3>3
  <2>4. Permitted' /\ Connected'
    BY <1>1, <2>1, <2>2, <2>3, GoesOn
  <2>5. NoDeadline'
    BY <1>1 DEF SInv, NoDeadline
  <2> QED BY <2>4, <2>5 DEF SInv
<1> QED BY <1>2, <1>3

\* A deadline that does not run does not begin to.
LEMMA TickKeeps ==
    ASSUME SInv, Tick
    PROVE  SInv'
<1>1. UNCHANGED <<rules, at, req, server, upstreams>>
  BY DEF Tick
<1>2. DOMAIN timer = {"read", "write", "dial"}
  BY DEF SInv, NoDeadline
<1>3. DOMAIN timer' = {"read", "write", "dial"} /\ (timer.read = Never => timer'.read = Never)
  BY <1>2 DEF Tick, Running
<1>4. NoDeadline'
  BY <1>1, <1>3 DEF SInv, NoDeadline
<1>5. Permitted'
  BY <1>1 DEF SInv, Permitted
<1>6. Connected'
  BY <1>1 DEF SInv, Connected
<1> QED BY <1>4, <1>5, <1>6 DEF SInv

LEMMA SessionKeeps ==
    ASSUME SInv, Handler \/ DialSucceeds \/ DialFails \/ Copy \/ Tick \/ Peers
    PROVE  SInv'
BY NegotiationKeeps, DiallingKeeps, TunnelKeeps, ExchangeKeeps, TickKeeps, PeersKeep
   DEF Handler, Copy

\* The allowlist changes only before any client is there.
LEMMA ListenersKeep ==
    ASSUME GInv, Guard \/ CloseBegins \/ Serve \/ AcceptFails \/ ClientConnects
    PROVE  SInv'
<1>1. CASE LoadAllowlist
  <2>1. at = "idle" /\ UNCHANGED <<at, server, upstreams, timer>>
    BY <1>1 DEF LoadAllowlist, GInv, Parsed
  <2>2. server = NoServer
    BY <2>1 DEF GInv, SInv, Connected, MayHaveServer, WithServer
  <2>3. DOMAIN timer' = {"read", "write", "dial"}
    BY <2>1 DEF GInv, SInv, NoDeadline
  <2> QED BY <2>1, <2>2, <2>3, Unconnected DEF GInv, WithServer
<1>2. CASE StartNetguard \/ CloseReturns \/ CloseBegins \/ AcceptOnClosed \/ AcceptFails
  <2>1. UNCHANGED sessionVars
    BY <1>2 DEF StartNetguard, CloseReturns, CloseBegins, AcceptOnClosed, AcceptFails,
       LoopEnds
  <2> QED BY <2>1, Unmoved DEF sessionVars, GInv
<1>3. CASE ClientConnects \/ Accept \/ CloseListener
  <2>1. CASE UNCHANGED at
    <3>1. UNCHANGED <<rules, at, req, server, upstreams, timer>>
      BY <1>3, <2>1 DEF ClientConnects, Accept, CloseListener, StartSession
    <3> QED BY <3>1, Unmoved DEF GInv
  <2>2. CASE at' # at
    <3>1. /\ at \in {"idle", "backlog"} /\ at' \in {"backlog", "greeting", "first", "done"}
          /\ UNCHANGED <<rules, req, server, upstreams>>
          /\ timer' \in {timer, [NoTimer EXCEPT !.read = DialTimeout, !.write = DialTimeout]}
      BY <1>3, <2>2 DEF ClientConnects, Accept, CloseListener, StartSession
    <3>2. server = NoServer
      BY <3>1 DEF GInv, SInv, Connected, MayHaveServer, WithServer
    <3>3. NoDeadline'
      BY <3>1 DEF GInv, SInv, NoDeadline, NoTimer
    <3>4. Permitted'
      BY <3>1, <3>2 DEF Permitted
    <3>5. Connected'
      BY <3>1, <3>2 DEF GInv, SInv, Connected, WithServer
    <3> QED BY <3>3, <3>4, <3>5 DEF SInv
  <2> QED BY <2>1, <2>2
<1> QED BY <1>1, <1>2, <1>3 DEF Guard, Serve

LEMMA ParsedKept ==
    ASSUME GInv, Next
    PROVE  Parsed'
<1>1. CASE LoadAllowlist
  BY <1>1 DEF LoadAllowlist, GInv, Parsed
<1>2. CASE StartNetguard
  BY <1>2 DEF StartNetguard, sessionVars, GInv, Parsed
<1>3. CASE ~LoadAllowlist /\ ~StartNetguard
  <2>1. UNCHANGED <<config, rules>>
    <3>1. CASE Session \/ ((Tick \/ Peers) /\ UNCHANGED guardVars)
      BY <3>1 DEF Session, Handler, Copy, Tick, Peers, ClientSends, ClientEnds, ClientStops,
         ServerAnswers, ServerSends, ServerEnds, ServerStops, ReadGreeting,
         ReadSocksRequest,
         ReadRequest, HandleConnect, Forward, Dial, DialFails, DialTimesOut, Unreached,
         TellUnreached, DialSucceeds, ReplyOK,
         DrainServer, DrainClient, SpliceEnds, Proceed, SendRequest, RelayResponse,
         CopyUp, CopyDown, UpEnds, DownEnds
    <3>2. CASE CloseListener \/ CloseReturns \/ CloseBegins \/ Serve \/ AcceptFails
               \/ ClientConnects
      BY <3>2 DEF CloseListener, CloseReturns, CloseBegins, Serve, AcceptFails,
         ClientConnects, Accept, AcceptOnClosed, LoopEnds, sessionVars
    <3> QED BY <1>3, <3>1, <3>2 DEF Next, Guard
  <2>2. phase' \in {"parse", "start"} => at' = "idle"
    <3>1. CASE Session \/ ((Tick \/ Peers) /\ UNCHANGED guardVars)
      <4>1. UNCHANGED phase
        BY <3>1 DEF Session, guardVars
      <4>2. at = "idle" => at' = "idle"
        BY <3>1 DEF Session, Handler, Copy, Tick, Peers, ClientSends, ClientEnds,
           ClientStops,
           ServerAnswers, ServerSends, ServerEnds, ServerStops, ReadGreeting,
           ReadSocksRequest,
           ReadRequest, HandleConnect, Forward, Dial, DialFails, DialTimesOut, Unreached,
           TellUnreached, DialSucceeds, ReplyOK,
           DrainServer, DrainClient, SpliceEnds, Proceed, SendRequest, RelayResponse,
           CopyUp, CopyDown, UpEnds, DownEnds
      <4> QED BY <4>1, <4>2 DEF GInv, Parsed
    <3>2. CASE CloseListener \/ CloseReturns \/ CloseBegins \/ Serve \/ AcceptFails
               \/ ClientConnects
      BY <3>2 DEF CloseListener, CloseReturns, CloseBegins, Serve, AcceptFails,
         ClientConnects, Accept, AcceptOnClosed, LoopEnds, sessionVars, guardVars,
         GInv, Parsed
    <3> QED BY <1>3, <3>1, <3>2 DEF Next, Guard
  <2>3. (rules = {} \/ (ConfigAccepted(config) /\ rules = loadAllowlist(config)))'
    BY <2>1 DEF GInv, Parsed
  <2> QED BY <2>2, <2>3 DEF Parsed
<1> QED BY <1>1, <1>2, <1>3

LEMMA OpenKept ==
    ASSUME GInv, Next
    PROVE  Open'
<1>1. CASE UNCHANGED guardVars
  BY <1>1 DEF GInv, Open, guardVars
<1>2. CASE LoadAllowlist \/ StartNetguard \/ CloseBegins
  BY <1>2 DEF LoadAllowlist, StartNetguard, CloseBegins, GInv, Open
<1>3. CASE CloseListener \/ CloseReturns
  BY <1>3 DEF CloseListener, CloseReturns, GInv, Open
<1>4. CASE AcceptFails
  BY <1>4 DEF AcceptFails, LoopEnds, GInv, Open
<1>5. CASE AcceptOnClosed
  <2>1. closed
    BY <1>5 DEF AcceptOnClosed, GInv, Open
  <2> QED BY <1>5, <2>1 DEF AcceptOnClosed, LoopEnds, GInv, Open
<1>6. CASE Accept \/ ClientConnects \/ Session
  BY <1>1, <1>6 DEF Accept, ClientConnects, Session
<1> QED BY <1>1, <1>2, <1>3, <1>4, <1>5, <1>6 DEF Next, Guard, Serve

LEMMA InitGInv == Init => GInv
<1> SUFFICES ASSUME Init
             PROVE  GInv
  OBVIOUS
<1>1. Parsed
  BY DEF Init, Parsed
<1>2. SInv
  BY DEF Init, SInv, Permitted, Connected, NoDeadline, WithServer, NoTimer
<1>3. Open
  BY DEF Init, Open
<1> QED BY <1>1, <1>2, <1>3 DEF GInv

LEMMA NextGInv == GInv /\ [Next]_vars => GInv'
<1> SUFFICES ASSUME GInv, [Next]_vars
             PROVE  GInv'
  OBVIOUS
<1>1. CASE Next
  <2>1. SInv'
    BY <1>1, SessionKeeps, ListenersKeep DEF Next, Session, GInv
  <2> QED BY <1>1, <2>1, ParsedKept, OpenKept DEF GInv
<1>2. CASE UNCHANGED vars
  <2>1. SInv'
    BY <1>2, Unmoved DEF vars, sessionVars, GInv
  <2>2. Parsed' /\ Open'
    BY <1>2 DEF vars, sessionVars, guardVars, GInv, Parsed, Open
  <2> QED BY <2>1, <2>2 DEF GInv
<1> QED BY <1>1, <1>2

THEOREM Invariant == Spec => []GInv
<1> QED BY InitGInv, NextGInv, PTL DEF Spec

-----------------------------------------------------------------------------
(* The properties                                                          *)

\* Whatever the policy is and whatever the client asks for, in any order and
\* on kept connections, servers are reached only where a rule of the user
\* allows it (netguard.go:481-484, 539-542).
THEOREM ReachesOnlyAllowed == Spec => []OnlyAllowed
<1>1. GInv => OnlyAllowed
  <2> SUFFICES ASSUME GInv, server # NoServer
               PROVE  /\ Allowed(config, server.target.host, server.target.port)
                      /\ \A r \in server.asked : Target(r) = server.target
    BY DEF OnlyAllowed
  <2>1. permits(rules, server.target.host, server.target.port)
    BY DEF GInv, SInv, Permitted
  <2>2. rules # {}
    BY <2>1 DEF permits
  <2>3. ConfigAccepted(config) /\ rules = loadAllowlist(config)
    BY <2>2 DEF GInv, Parsed
  <2>4. Allowed(config, server.target.host, server.target.port)
    BY <2>1, <2>3, PermitsMeans
  <2> QED BY <2>4 DEF GInv, SInv, Permitted
<1> QED BY <1>1, Invariant, PTL

\* No session leaves a connection to a server open (netguard.go:485-491,
\* 571-573, 298-307).
THEOREM LeavesNothingOpen == Spec => []NoLeak
<1>1. GInv => NoLeak
  BY DEF GInv, SInv, Connected, NoLeak
<1> QED BY <1>1, Invariant, PTL

\* close makes no serve loop report an error (netguard.go:242-258).
THEOREM ClosesQuietly == Spec => []QuietClose
<1>1. GInv => QuietClose
  BY DEF GInv, Open, QuietClose
<1> QED BY <1>1, Invariant, PTL

\* Steps of a tunnel that leave both directions open.
LEMMA OthersKeepOpen ==
    ASSUME GInv, Next, ~UpEnds, at = "splice", server.shut = "open"
    PROVE  server'.shut = "open"
<1>1. server # NoServer /\ DOMAIN server = ServerFields
  BY HasServer DEF GInv, WithServer
<1>2. \/ UNCHANGED server \/ Peers \/ CopyUp \/ CopyDown
  BY DEF Next, Guard, Serve, Session, Handler, Copy, Tick, Peers, ReadGreeting,
     ReadSocksRequest, ReadRequest, HandleConnect, Forward, Dial, DialFails,
     DialTimesOut, Unreached, TellUnreached,
     DialSucceeds, ReplyOK, DrainServer, DrainClient, SpliceEnds, Proceed,
     SendRequest, RelayResponse, DownEnds, LoadAllowlist,
     StartNetguard, CloseListener, CloseReturns, CloseBegins, AcceptFails,
     ClientConnects, Accept, AcceptOnClosed, LoopEnds, sessionVars
<1>3. CASE CopyUp
  <2>1. PICK items : server' = Receive(server, items)
    BY <1>3 DEF CopyUp
  <2> QED BY <1>1, <2>1 DEF Receive, ServerFields
<1>4. CASE CopyDown
  BY <1>1, <1>4 DEF CopyDown, ServerFields
<1>5. CASE Peers /\ server' # server
  BY <1>1, <1>5 DEF Peers, ClientSends, ClientEnds, ClientStops, ServerAnswers, ServerSends,
     ServerEnds, ServerStops, ServerFields
<1> QED BY <1>2, <1>3, <1>4, <1>5

\* A tunnel ends by its ends and not by a deadline, whatever the timeouts are
\* (netguard.go:408, 466, 580).
THEOREM TunnelsLastForEver == Spec => TunnelsLast
<1> DEFINE Ends == at = "splice" /\ server.shut = "open" /\ server'.shut # "open"
                     => client.end # "open" \/ server.end # "open"
<1>1. GInv /\ [Next]_vars => [Ends]_vars
  <2> SUFFICES ASSUME GInv, Next, at = "splice", server.shut = "open",
                      server'.shut # "open"
               PROVE  client.end # "open" \/ server.end # "open"
    OBVIOUS
  <2>1. UpEnds
    BY OthersKeepOpen
  <2>2. timer.read # 0
    BY SessionConstantsOK DEF GInv, SInv, NoDeadline
  <2> QED BY <2>1, <2>2 DEF UpEnds, AtEnd, ServerWriteFails
<1> QED BY <1>1, Invariant, PTL DEF Spec, TunnelsLast

-----------------------------------------------------------------------------
(* Both connections, step by step                                          *)

\* What the proxy has not used yet of what a peer has sent.
Held(conn) == conn.buf \o conn.queue

ClientFields == {"left", "queue", "buf", "end", "reads", "got", "shut"}
EndKinds == {"open", "half", "gone"}
ShutKinds == {"open", "half", "closed"}

\* What travels to the server, and what to the client.
ClientItems == UNION {{s.items[k] : k \in DOMAIN s.items} : s \in Scripts}
ServerItems == [kind : {"interim", "response", "switch", "data"},
                flags : SUBSET {"close"}, n : Nat]
Replies == [kind : {"method", "continue", "ok", "badGateway", "denied", "refused",
                    "unreached"}, n : Nat]
ToClient == Replies \cup ServerItems

GoodClient(c) ==
    /\ DOMAIN c = ClientFields
    /\ c.end \in EndKinds /\ c.shut \in ShutKinds
    /\ c.buf \in Seq(ClientItems) /\ c.queue \in Seq(ClientItems)
    /\ c.left \in Seq(ClientItems) /\ c.got \in Seq(ToClient)

GoodServer(s) ==
    /\ DOMAIN s = ServerFields
    /\ s.end \in EndKinds /\ s.shut \in ShutKinds
    /\ s.buf \in Seq(ServerItems) /\ s.queue \in Seq(ServerItems)
    /\ s.got \in Seq(ClientItems) /\ s.sent \in Nat
    /\ s.asked \subseteq ClientItems

\* The steps before a request is known, those that decide about it, those of
\* an exchange that is under way, and those after its final answer.
Early == {"idle", "backlog", "greeting", "request", "first"}
Deciding == {"connect", "forward", "dial", "dialing", "unreached", "reply", "proceed",
             "send"}
Exchanging == {"response", "final"}
Settled == {"next", "switch", "drain", "splice"}

NoRequest == [n |-> 0]

\* Both connections are well typed, and the request is one of the client.
Typed ==
    /\ GoodClient(client)
    /\ server # NoServer => GoodServer(server)
    /\ at \in Early \cup Deciding \cup Exchanging \cup Settled \cup {"done"}
    /\ at \in Early => req = NoRequest
    /\ at \in Deciding \cup Exchanging \cup Settled => req \in ClientItems
    /\ req \in ClientItems \cup {NoRequest}

\* A tunnel starts with empty buffers and without deadlines, and nothing is
\* shut before it.
Shaped ==
    /\ at \notin {"splice", "done"} =>
         client.shut = "open" /\ (server # NoServer => server.shut = "open")
    /\ at = "splice" => client.buf = <<>>
    /\ at \in {"reply", "drain", "splice"} => server.buf = <<>>
    /\ at \in {"send"} \cup Exchanging \cup Settled => timer.write = Never
    /\ EndAfterAll

Shape == Typed /\ Shaped

LEMMA TailOfConcat ==
    ASSUME NEW S, NEW s \in Seq(S), NEW t \in Seq(S), s # <<>>
    PROVE  /\ s \o t # <<>>
           /\ Head(s \o t) = Head(s)
           /\ Tail(s \o t) = Tail(s) \o t
<1>1. s \o t \in Seq(S) /\ Len(s \o t) = Len(s) + Len(t) /\ Len(s) \in Nat \ {0} /\ Len(t) \in Nat
  BY ConcatProperties, EmptySeq, LenProperties
<1>2. s \o t # <<>>
  BY <1>1, EmptySeq
<1>3. Head(s \o t) = Head(s)
  BY <1>1, <1>2, ConcatProperties
<1>4. Tail(s) \in Seq(S) /\ Len(Tail(s)) = Len(s) - 1
  BY HeadTailProperties
<1>5. Tail(s \o t) \in Seq(S) /\ Len(Tail(s \o t)) = Len(s) + Len(t) - 1
  BY <1>1, <1>2, HeadTailProperties
<1>6. Tail(s) \o t \in Seq(S) /\ Len(Tail(s) \o t) = Len(s) + Len(t) - 1
  BY <1>1, <1>4, ConcatProperties
<1>7. ASSUME NEW i \in 1..Len(Tail(s \o t))
      PROVE  Tail(s \o t)[i] = (Tail(s) \o t)[i]
  <2>1. Tail(s \o t)[i] = (s \o t)[i + 1]
    BY <1>1, <1>2, HeadTailProperties
  <2>2. (s \o t)[i + 1] = IF i + 1 <= Len(s) THEN s[i + 1] ELSE t[i + 1 - Len(s)]
    BY <1>1, <1>5, ConcatProperties
  <2>3. (Tail(s) \o t)[i] = IF i <= Len(s) - 1 THEN Tail(s)[i] ELSE t[i - (Len(s) - 1)]
    BY <1>1, <1>4, <1>5, ConcatProperties
  <2>4. i <= Len(s) - 1 => Tail(s)[i] = s[i + 1]
    BY <1>1, <1>4, HeadTailProperties
  <2> QED BY <1>1, <1>5, <2>1, <2>2, <2>3, <2>4
<1>8. Tail(s \o t) = Tail(s) \o t
  BY <1>5, <1>6, <1>7, SeqEqual
<1> QED BY <1>2, <1>3, <1>8

\* One read uses up the first item that is held.
LEMMA ConsumeHeld ==
    ASSUME NEW S, NEW c, c.buf \in Seq(S), c.queue \in Seq(S),
           {"buf", "queue"} \subseteq DOMAIN c, NEW n \in Fills(c)
    PROVE  /\ Held(c) # <<>>
           /\ Head(Buffered(c, n)) = Head(Held(c))
           /\ Consume(c, n).buf \in Seq(S) /\ Consume(c, n).queue \in Seq(S)
           /\ Held(Consume(c, n)) = Tail(Held(c))
<1> DEFINE d == Consume(c, n)
<1>1. d.buf = Tail(Buffered(c, n)) /\ d.queue = SubSeq(c.queue, n + 1, Len(c.queue))
  BY DEF Consume
<1>2. Len(c.queue) \in Nat
  BY LenProperties
<1> HIDE DEF d
<1>3. CASE c.buf # <<>>
  <2>1. n = 0
    BY <1>3 DEF Fills
  <2>2. SubSeq(c.queue, 1, n) = <<>> /\ SubSeq(c.queue, n + 1, Len(c.queue)) = c.queue
    BY <1>2, <2>1, SubSeqEmpty, SubSeqFull
  <2>3. Buffered(c, n) = c.buf
    BY <2>2, ConcatEmptySeq DEF Buffered
  <2>4. d.buf = Tail(c.buf) /\ d.queue = c.queue /\ Tail(c.buf) \in Seq(S)
    BY <1>1, <1>3, <2>2, <2>3, HeadTailProperties
  <2> QED BY <1>3, <2>3, <2>4, TailOfConcat DEF Held, d
<1>4. CASE c.buf = <<>>
  <2>1. n \in 1..Len(c.queue)
    BY <1>4 DEF Fills
  <2>2. Held(c) = c.queue
    BY <1>4, ConcatEmptySeq DEF Held
  <2> DEFINE taken == SubSeq(c.queue, 1, n)
             rest == SubSeq(c.queue, n + 1, Len(c.queue))
  <2>3. \A i \in 1..Len(c.queue) : c.queue[i] \in S
    BY ElementOfSeq
  <2>4. taken \in Seq(S) /\ Len(taken) = n
    BY <1>2, <2>1, <2>3, SubSeqProperties
  <2>5. rest \in Seq(S)
    BY <1>2, <2>1, <2>3, SubSeqProperties
  <2>6. taken \o rest = c.queue
    BY <1>2, <2>1, ConcatAdjacentSubSeq
  <2>7. Buffered(c, n) = taken
    BY <1>4, <2>4, ConcatEmptySeq DEF Buffered
  <2> HIDE DEF taken, rest
  <2>8. taken # <<>>
    BY <2>1, <2>4, EmptySeq
  <2>9. Tail(taken) \in Seq(S)
    BY <2>4, <2>8, HeadTailProperties
  <2>10. d.buf = Tail(taken) /\ d.queue = rest
    BY <1>1, <2>7 DEF rest
  <2>11. Head(taken) = Head(c.queue) /\ Tail(c.queue) = Tail(taken) \o rest
         /\ c.queue # <<>>
    BY <2>4, <2>5, <2>6, <2>8, TailOfConcat
  <2>12. Held(d) = Tail(taken) \o rest
    BY <2>10 DEF Held
  <2>13. d.buf \in Seq(S) /\ d.queue \in Seq(S)
    BY <2>5, <2>9, <2>10
  <2> QED BY <2>2, <2>7, <2>11, <2>12, <2>13 DEF d
<1> QED BY <1>3, <1>4
-----------------------------------------------------------------------------
(* What each operation on a connection leaves as it was                    *)

LEMMA ConsumeFields ==
    ASSUME NEW c, NEW n
    PROVE  /\ DOMAIN Consume(c, n) = DOMAIN c
           /\ \A f \in DOMAIN c \ {"buf", "queue"} : Consume(c, n)[f] = c[f]
BY DEF Consume

LEMMA ReceiveFields ==
    ASSUME NEW c, NEW items
    PROVE  /\ DOMAIN Receive(c, items) = DOMAIN c
           /\ \A f \in DOMAIN c \ {"got"} : Receive(c, items)[f] = c[f]
           /\ "got" \in DOMAIN c => Receive(c, items).got =
                IF c.end = "gone" THEN c.got ELSE c.got \o items
BY DEF Receive

LEMMA ConsumeClient ==
    ASSUME NEW c, GoodClient(c), NEW n \in Fills(c)
    PROVE  /\ GoodClient(Consume(c, n))
           /\ Consume(c, n).end = c.end /\ Consume(c, n).got = c.got
           /\ Consume(c, n).left = c.left /\ Consume(c, n).shut = c.shut
           /\ Held(c) # <<>> /\ Head(Buffered(c, n)) = Head(Held(c))
           /\ Held(Consume(c, n)) = Tail(Held(c))
           /\ Head(Buffered(c, n)) \in ClientItems
<1> DEFINE d == Consume(c, n)
<1>1. /\ DOMAIN d = ClientFields /\ d.end = c.end /\ d.got = c.got
      /\ d.left = c.left /\ d.shut = c.shut
  BY ConsumeFields DEF GoodClient, ClientFields
<1>2. /\ Held(c) # <<>> /\ Head(Buffered(c, n)) = Head(Held(c))
      /\ d.buf \in Seq(ClientItems) /\ d.queue \in Seq(ClientItems)
      /\ Held(d) = Tail(Held(c))
  BY ConsumeHeld DEF GoodClient, ClientFields
<1>3. Held(c) \in Seq(ClientItems)
  BY ConcatProperties DEF GoodClient, Held
<1>4. Head(Held(c)) \in ClientItems
  BY <1>2, <1>3, HeadTailProperties
<1> HIDE DEF d
<1>5. GoodClient(d)
  BY <1>1, <1>2 DEF GoodClient
<1> QED BY <1>1, <1>2, <1>4, <1>5 DEF d

LEMMA ConsumeServer ==
    ASSUME NEW s, GoodServer(s), NEW n \in Fills(s)
    PROVE  /\ GoodServer(Consume(s, n))
           /\ \A f \in ServerFields \ {"buf", "queue"} : Consume(s, n)[f] = s[f]
           /\ Held(s) # <<>> /\ Head(Buffered(s, n)) = Head(Held(s))
           /\ Held(Consume(s, n)) = Tail(Held(s))
           /\ Head(Buffered(s, n)) \in ServerItems
<1> DEFINE d == Consume(s, n)
<1>1. DOMAIN d = ServerFields /\ \A f \in ServerFields \ {"buf", "queue"} : d[f] = s[f]
  BY ConsumeFields DEF GoodServer
<1>2. /\ d.end = s.end /\ d.got = s.got /\ d.shut = s.shut /\ d.sent = s.sent
      /\ d.asked = s.asked
  BY <1>1 DEF ServerFields
<1>3. /\ Held(s) # <<>> /\ Head(Buffered(s, n)) = Head(Held(s))
      /\ d.buf \in Seq(ServerItems) /\ d.queue \in Seq(ServerItems)
      /\ Held(d) = Tail(Held(s))
  BY ConsumeHeld DEF GoodServer, ServerFields
<1>4. Held(s) \in Seq(ServerItems)
  BY ConcatProperties DEF GoodServer, Held
<1>5. Head(Held(s)) \in ServerItems
  BY <1>3, <1>4, HeadTailProperties
<1> HIDE DEF d
<1>6. GoodServer(d)
  BY <1>1, <1>2, <1>3 DEF GoodServer
<1> QED BY <1>1, <1>3, <1>5, <1>6 DEF d

LEMMA ReceiveClient ==
    ASSUME NEW c, GoodClient(c), NEW items \in Seq(ToClient)
    PROVE  /\ GoodClient(Receive(c, items))
           /\ \A f \in ClientFields \ {"got"} : Receive(c, items)[f] = c[f]
           /\ Receive(c, items).got = IF c.end = "gone" THEN c.got ELSE c.got \o items
<1> DEFINE d == Receive(c, items)
<1>1. /\ DOMAIN d = ClientFields /\ \A f \in ClientFields \ {"got"} : d[f] = c[f]
      /\ d.got = IF c.end = "gone" THEN c.got ELSE c.got \o items
  BY ReceiveFields DEF GoodClient, ClientFields
<1>2. d.got \in Seq(ToClient)
  BY <1>1, ConcatProperties DEF GoodClient
<1>3. /\ d.end = c.end /\ d.shut = c.shut /\ d.buf = c.buf /\ d.queue = c.queue
      /\ d.left = c.left
  BY <1>1 DEF ClientFields
<1> HIDE DEF d
<1>4. GoodClient(d)
  BY <1>1, <1>2, <1>3 DEF GoodClient
<1> QED BY <1>1, <1>4 DEF d

LEMMA ReceiveServer ==
    ASSUME NEW s, GoodServer(s), NEW items \in Seq(ClientItems)
    PROVE  /\ GoodServer(Receive(s, items))
           /\ \A f \in ServerFields \ {"got"} : Receive(s, items)[f] = s[f]
           /\ Receive(s, items).got = IF s.end = "gone" THEN s.got ELSE s.got \o items
<1> DEFINE d == Receive(s, items)
<1>1. /\ DOMAIN d = ServerFields /\ \A f \in ServerFields \ {"got"} : d[f] = s[f]
      /\ d.got = IF s.end = "gone" THEN s.got ELSE s.got \o items
  BY ReceiveFields DEF GoodServer, ServerFields
<1>2. d.got \in Seq(ClientItems)
  BY <1>1, ConcatProperties DEF GoodServer
<1>3. /\ d.end = s.end /\ d.shut = s.shut /\ d.buf = s.buf /\ d.queue = s.queue
      /\ d.sent = s.sent /\ d.asked = s.asked
  BY <1>1 DEF ServerFields
<1> HIDE DEF d
<1>4. GoodServer(d)
  BY <1>1, <1>2, <1>3 DEF GoodServer
<1> QED BY <1>1, <1>4 DEF d

\* A field of its own type takes the place of the old one.
LEMMA ClientField ==
    ASSUME NEW c, GoodClient(c), NEW v,
           NEW f \in {"end", "shut", "buf", "queue", "left"},
           CASE f = "end" -> v \in EndKinds
             [] f = "shut" -> v \in ShutKinds
             [] OTHER -> v \in Seq(ClientItems)
    PROVE  GoodClient([c EXCEPT ![f] = v])
BY DEF GoodClient, ClientFields

LEMMA ServerField ==
    ASSUME NEW s, GoodServer(s), NEW v,
           NEW f \in {"end", "shut", "buf", "queue", "sent", "answered", "asked"},
           CASE f = "end" -> v \in EndKinds
             [] f = "shut" -> v \in ShutKinds
             [] f \in {"buf", "queue"} -> v \in Seq(ServerItems)
             [] f = "sent" -> v \in Nat
             [] f = "asked" -> v \subseteq ClientItems
             [] f = "answered" -> TRUE
    PROVE  GoodServer([s EXCEPT ![f] = v])
<1> DEFINE t == [s EXCEPT ![f] = v]
<1>1. /\ DOMAIN t = ServerFields /\ t[f] = v
      /\ \A g \in ServerFields \ {f} : t[g] = s[g]
  BY DEF GoodServer, ServerFields
<1> HIDE DEF t
<1>2. t.end \in EndKinds /\ t.shut \in ShutKinds
  BY <1>1 DEF GoodServer, ServerFields
<1>3. t.buf \in Seq(ServerItems) /\ t.queue \in Seq(ServerItems)
  BY <1>1 DEF GoodServer, ServerFields
<1>4. t.got \in Seq(ClientItems) /\ t.sent \in Nat /\ t.asked \subseteq ClientItems
  BY <1>1 DEF GoodServer, ServerFields
<1> QED BY <1>1, <1>2, <1>3, <1>4 DEF GoodServer, t

\* What a script says of its items.
LEMMA ItemsOK ==
    ASSUME NEW item \in ClientItems
    PROVE  /\ item.n \in Nat
           /\ item.kind \in {"http", "socks"}
                => item.target.host \in Seq(DOMAIN LowerCase) \ {<<>>}
<1>1. PICK s \in Scripts : \E k \in DOMAIN s.items : item = s.items[k]
  BY DEF ClientItems
<1>2. PICK k \in DOMAIN s.items : item = s.items[k]
  BY <1>1
<1>3. ItemOK(s.items, k)
  BY ScriptsOK
<1> QED BY <1>2, <1>3 DEF ItemOK

LEMMA RepliesOK ==
    ASSUME NEW item \in ClientItems \cup {NoRequest},
           NEW kind \in {"method", "continue", "ok", "badGateway", "denied", "refused",
                         "unreached"}
    PROVE  Reply(item, kind) \in Seq(ToClient)
<1>1. item.n \in Nat
  BY ItemsOK DEF NoRequest
<1> QED BY <1>1 DEF Reply, ToClient, Replies
-----------------------------------------------------------------------------
(* The shape of both connections                                           *)

LEMMA QuitIs ==
    ASSUME Typed, NEW conn, GoodClient(conn), Quit(conn)
    PROVE  /\ at' = "done"
           /\ GoodClient(client') /\ client'.got = conn.got /\ client'.end = conn.end
           /\ server = NoServer => server' = NoServer
           /\ server # NoServer =>
                /\ server' # NoServer /\ GoodServer(server')
                /\ \A f \in ServerFields \ {"shut"} : server'[f] = server[f]
<1>1. at' = "done" /\ client' = [conn EXCEPT !["shut"] = "closed"]
  BY DEF Quit
<1>2. GoodClient(client')
  BY <1>1, ClientField DEF ShutKinds
<1>3. client'.got = conn.got /\ client'.end = conn.end
  BY <1>1 DEF GoodClient, ClientFields
<1>4. server = NoServer => server' = NoServer
  BY DEF Quit
<1>5. ASSUME server # NoServer
      PROVE  /\ server' # NoServer /\ GoodServer(server')
             /\ \A f \in ServerFields \ {"shut"} : server'[f] = server[f]
  <2>1. GoodServer(server) /\ server' = [server EXCEPT !["shut"] = "closed"]
    BY <1>5 DEF Quit, Typed
  <2>2. GoodServer(server')
    BY <2>1, ServerField DEF ShutKinds
  <2>3. \A f \in ServerFields \ {"shut"} : server'[f] = server[f]
    BY <2>1 DEF GoodServer
  <2> QED BY <2>2, <2>3, IsServer DEF GoodServer
<1> QED BY <1>1, <1>2, <1>3, <1>4, <1>5

LEMMA QuitShape ==
    ASSUME Typed, NEW conn, GoodClient(conn), Quit(conn),
           req' \in ClientItems \cup {NoRequest}
    PROVE  Shape'
<1>1. /\ at' = "done" /\ GoodClient(client')
      /\ server' # NoServer => GoodServer(server')
  BY QuitIs
<1>2. Typed'
  BY <1>1 DEF Typed, Early, Deciding, Exchanging, Settled
<1>3. Shaped'
  BY <1>1 DEF Shaped, EndAfterAll, Exchanging, Settled
<1> QED BY <1>2, <1>3 DEF Shape

LEMMA TellGood ==
    ASSUME NEW c, GoodClient(c), NEW item \in ClientItems \cup {NoRequest},
           NEW kind \in {"badGateway", "denied", "refused", "unreached"}
    PROVE  GoodClient(Tell(c, item, kind))
BY ReceiveClient, RepliesOK DEF Tell

\* Before a tunnel, with the connections as open as they were.
LEMMA OpenShape ==
    ASSUME Shape, at \notin {"splice", "done"}, at' \notin {"splice", "done"},
           GoodClient(client'), client'.shut = "open",
           server' # NoServer => GoodServer(server') /\ server'.shut = "open",
           at' \in {"reply", "drain"} => server'.buf = <<>>,
           at' \in {"send"} \cup Exchanging \cup Settled => timer'.write = Never,
           at' \in Early \cup Deciding \cup Exchanging \cup Settled,
           at' \in Early => req' = NoRequest,
           at' \notin Early => req' \in ClientItems,
           req' \in ClientItems \cup {NoRequest}
    PROVE  Shape'
<1>1. Typed'
  BY DEF Typed, Early, Deciding, Exchanging, Settled
<1>2. Shaped'
  BY DEF Shaped, EndAfterAll
<1> QED BY <1>1, <1>2 DEF Shape


LEMMA ReadClient ==
    ASSUME Typed, NEW n \in ClientReads
    PROVE  /\ GoodClient(Consume(client, n))
           /\ Consume(client, n).end = client.end /\ Consume(client, n).got = client.got
           /\ Consume(client, n).left = client.left /\ Consume(client, n).shut = client.shut
           /\ Held(client) # <<>> /\ Head(Buffered(client, n)) = Head(Held(client))
           /\ Held(Consume(client, n)) = Tail(Held(client))
           /\ Head(Buffered(client, n)) \in ClientItems
<1>1. n \in Fills(client)
  BY DEF ClientReads
<1> QED BY <1>1, ConsumeClient DEF Typed

\* A reply to a connection that is as open as before.
LEMMA ReplyGood ==
    ASSUME NEW c, GoodClient(c), NEW items \in Seq(ToClient)
    PROVE  GoodClient(Receive(c, items)) /\ Receive(c, items).shut = c.shut
BY ReceiveClient DEF ClientFields

LEMMA ReadGreetingShape ==
    ASSUME Shape, ReadGreeting
    PROVE  Shape'
<1>1. at = "greeting" /\ UNCHANGED req /\ req = NoRequest
  BY DEF ReadGreeting, Shape, Typed, Early
<1>2. Typed /\ GoodClient(client) /\ client.shut = "open"
  BY <1>1 DEF Shape, Typed, Shaped
<1>3. CASE Quit(client)
  BY <1>1, <1>2, <1>3, QuitShape
<1>4. CASE \E n \in ClientReads : Quit(Consume(client, n))
  BY <1>1, <1>2, <1>4, ReadClient, QuitShape
<1>5. CASE \E n \in ClientReads :
             /\ client' = Receive(Consume(client, n), Reply(req, "method"))
             /\ at' = "request" /\ UNCHANGED <<server, upstreams, timer>>
  <2> PICK n \in ClientReads : client' = Receive(Consume(client, n), Reply(req, "method"))
    BY <1>5
  <2>1. GoodClient(Consume(client, n)) /\ Consume(client, n).shut = client.shut
    BY <1>2, ReadClient
  <2>2. Reply(req, "method") \in Seq(ToClient)
    BY <1>1, RepliesOK
  <2>3. GoodClient(client') /\ client'.shut = "open"
    BY <1>2, <2>1, <2>2, ReplyGood
  <2>4. at' = "request" /\ UNCHANGED server
    BY <1>5
  <2>5. server' # NoServer => GoodServer(server') /\ server'.shut = "open"
    BY <1>1, <2>4 DEF Shape, Typed, Shaped
  <2> QED BY <1>1, <2>3, <2>4, <2>5, OpenShape DEF Early, Exchanging, Settled
<1> QED BY <1>3, <1>4, <1>5 DEF ReadGreeting

LEMMA ReadSocksRequestShape ==
    ASSUME Shape, ReadSocksRequest
    PROVE  Shape'
<1>1. at = "request" /\ req = NoRequest
  BY DEF ReadSocksRequest, Shape, Typed, Early
<1>2. Typed /\ GoodClient(client) /\ client.shut = "open"
  BY <1>1 DEF Shape, Typed, Shaped
<1>3. CASE Quit(client) /\ UNCHANGED req
  BY <1>1, <1>2, <1>3, QuitShape
<1>4. CASE \E n \in ClientReads : Quit(Consume(client, n)) /\ UNCHANGED req
  BY <1>1, <1>2, <1>4, ReadClient, QuitShape
<1>5. ASSUME NEW n \in ClientReads, req' = Head(Buffered(client, n)),
             \/ Quit(Tell(Consume(client, n), req', "refused"))
             \/ at' = "dial" /\ client' = Consume(client, n) /\ UNCHANGED server
      PROVE  Shape'
  <2>1. /\ GoodClient(Consume(client, n)) /\ Consume(client, n).shut = client.shut
        /\ req' \in ClientItems
    BY <1>2, <1>5, ReadClient
  <2>2. GoodClient(Tell(Consume(client, n), req', "refused"))
    BY <2>1, TellGood
  <2>3. CASE Quit(Tell(Consume(client, n), req', "refused"))
    BY <1>2, <2>1, <2>2, <2>3, QuitShape
  <2>4. CASE at' = "dial" /\ client' = Consume(client, n) /\ UNCHANGED server
    <3>1. server' # NoServer => GoodServer(server') /\ server'.shut = "open"
      BY <1>1, <2>4 DEF Shape, Typed, Shaped
    <3> QED BY <1>1, <1>2, <2>1, <2>4, <3>1, OpenShape DEF Early, Deciding, Exchanging,
               Settled
  <2> QED BY <1>5, <2>3, <2>4
<1> QED BY <1>3, <1>4, <1>5 DEF ReadSocksRequest

LEMMA ReadRequestShape ==
    ASSUME Shape, ReadRequest
    PROVE  Shape'
<1>1. at \in {"first", "next"}
  BY DEF ReadRequest
<1>2. Typed /\ GoodClient(client) /\ client.shut = "open" /\ req \in ClientItems \cup {NoRequest}
  BY <1>1 DEF Shape, Typed, Shaped
<1>3. CASE Quit(client) /\ UNCHANGED req
  BY <1>2, <1>3, QuitShape
<1>4. CASE \E n \in ClientReads : Quit(Consume(client, n)) /\ UNCHANGED req
  BY <1>2, <1>4, ReadClient, QuitShape
<1>5. ASSUME NEW n \in ClientReads, req' = Head(Buffered(client, n)),
             client' = Consume(client, n), at' \in {"connect", "forward"},
             server' \in {server, NoServer}
      PROVE  Shape'
  <2>1. /\ GoodClient(Consume(client, n)) /\ Consume(client, n).shut = client.shut
        /\ req' \in ClientItems
    BY <1>2, <1>5, ReadClient
  <2>2. server' # NoServer => GoodServer(server') /\ server'.shut = "open"
    BY <1>1, <1>5 DEF Shape, Typed, Shaped
  <2> QED BY <1>1, <1>2, <1>5, <2>1, <2>2, OpenShape DEF Early, Deciding, Exchanging,
             Settled
<1> QED BY <1>3, <1>4, <1>5 DEF ReadRequest

\* Steps that decide about a request and leave the client alone.
LEMMA DecidesShape ==
    ASSUME Shape, at \in Deciding, UNCHANGED <<client, req>>,
           at' \in {"dial", "dialing", "unreached", "proceed"}, server' \in {server,
           NoServer}
    PROVE  Shape'
<1>1. /\ GoodClient(client) /\ client.shut = "open" /\ req \in ClientItems
      /\ at \notin {"splice", "done"}
  BY DEF Shape, Typed, Shaped, Deciding
<1>2. server' # NoServer => GoodServer(server') /\ server'.shut = "open"
  BY <1>1 DEF Shape, Typed, Shaped
<1> QED BY <1>1, <1>2, OpenShape DEF Early, Deciding, Exchanging, Settled

\* It gives up with a reply, or without one.
LEMMA GivesUpShape ==
    ASSUME Shape, UNCHANGED req,
           \/ Quit(client)
           \/ \E kind \in {"badGateway", "denied", "refused", "unreached"} :
                Quit(Tell(client, req, kind))
    PROVE  Shape'
<1>1. Typed /\ GoodClient(client) /\ req \in ClientItems \cup {NoRequest}
  BY DEF Shape, Typed
<1> QED BY <1>1, TellGood, QuitShape

LEMMA DecideShape ==
    ASSUME Shape,
           HandleConnect \/ Forward \/ Dial \/ DialFails \/ DialTimesOut \/ TellUnreached
    PROVE  Shape'
<1>1. UNCHANGED req /\ at \in Deciding
  BY DEF HandleConnect, Forward, Dial, DialFails, DialTimesOut, Unreached, TellUnreached,
     Deciding
<1>2. CASE \E kind \in {"badGateway", "denied", "refused", "unreached"} :
             Quit(Tell(client, req, kind))
  BY <1>1, <1>2, GivesUpShape
<1>3. CASE ~\E kind \in {"badGateway", "denied", "refused", "unreached"} :
              Quit(Tell(client, req, kind))
  <2>1. /\ UNCHANGED client /\ server' \in {server, NoServer}
        /\ at' \in {"dial", "dialing", "unreached", "proceed"}
    BY <1>3 DEF HandleConnect, Forward, Dial, DialFails, DialTimesOut, Unreached,
       TellUnreached
  <2> QED BY <1>1, <2>1, DecidesShape
<1> QED BY <1>2, <1>3

LEMMA ServerGood ==
    ASSUME NEW target
    PROVE  /\ GoodServer(Server(target)) /\ Server(target) # NoServer
           /\ Server(target).shut = "open" /\ Server(target).buf = <<>>
<1> DEFINE s == Server(target)
<1>1. /\ DOMAIN s = ServerFields /\ s.end = "open" /\ s.shut = "open"
      /\ s.buf = <<>> /\ s.queue = <<>> /\ s.got = <<>> /\ s.sent = 0 /\ s.asked = {}
  BY DEF Server, ServerFields
<1> HIDE DEF s
<1>2. GoodServer(s)
  BY <1>1, EmptySeq DEF GoodServer, EndKinds, ShutKinds
<1> QED BY <1>1, <1>2, IsServer DEF s

LEMMA DialSucceedsShape ==
    ASSUME Shape, DialSucceeds
    PROVE  Shape'
<1>1. /\ at = "dialing" /\ UNCHANGED <<req, client>> /\ at' \in {"proceed", "reply"}
      /\ server' = Server(Target(req))
  BY DEF DialSucceeds
<1>2. GoodClient(client) /\ client.shut = "open" /\ req \in ClientItems
  BY <1>1 DEF Shape, Typed, Shaped, Deciding
<1>3. GoodServer(server') /\ server'.shut = "open" /\ server'.buf = <<>>
  BY <1>1, ServerGood
<1> QED BY <1>1, <1>2, <1>3, OpenShape DEF Early, Deciding, Exchanging, Settled

LEMMA ServerAt ==
    ASSUME SInv, Typed, at \in WithServer
    PROVE  server # NoServer /\ GoodServer(server) /\ at # "done"
BY HasServer DEF Typed

\* A tunnel that stands, with one direction ended or none.
LEMMA SpliceShape ==
    ASSUME Typed, at \in Settled, at' = "splice", UNCHANGED req,
           GoodClient(client'), server' # NoServer, GoodServer(server'),
           client'.buf = <<>>, server'.buf = <<>>, timer'.write = Never, EndAfterAll'
    PROVE  Shape'
<1>1. Typed'
  BY DEF Typed, Early, Deciding, Exchanging, Settled
<1>2. Shaped'
  BY DEF Shaped
<1> QED BY <1>1, <1>2 DEF Shape

LEMMA ReplyOKShape ==
    ASSUME SInv, Shape, ReplyOK
    PROVE  Shape'
<1>1. at = "reply" /\ UNCHANGED req
  BY DEF ReplyOK
<1>2. /\ Typed /\ server # NoServer /\ GoodServer(server) /\ server.shut = "open"
      /\ server.buf = <<>> /\ GoodClient(client) /\ client.shut = "open" /\ req \in ClientItems
  BY <1>1, ServerAt DEF Shape, Typed, Shaped, WithServer, Deciding
<1>3. CASE Quit(client)
  BY <1>1, <1>3, GivesUpShape
<1>4. CASE /\ client' = Receive(client, Reply(req, "ok"))
           /\ timer' = NoTimer /\ at' = "drain" /\ UNCHANGED server
  <2>1. Reply(req, "ok") \in Seq(ToClient)
    BY <1>2, RepliesOK
  <2>2. GoodClient(client') /\ client'.shut = "open"
    BY <1>2, <1>4, <2>1, ReplyGood
  <2>3. timer'.write = Never
    BY <1>4 DEF NoTimer
  <2>4. GoodServer(server') /\ server'.shut = "open" /\ server'.buf = <<>>
    BY <1>2, <1>4
  <2> QED BY <1>1, <1>2, <1>4, <2>2, <2>3, <2>4, OpenShape DEF Early, Deciding,
             Exchanging, Settled
<1> QED BY <1>3, <1>4 DEF ReplyOK

LEMMA DrainServerShape ==
    ASSUME SInv, Shape, DrainServer
    PROVE  Shape'
<1>1. at = "switch" /\ UNCHANGED req
  BY DEF DrainServer
<1>2. /\ Typed /\ server # NoServer /\ GoodServer(server) /\ server.shut = "open"
      /\ GoodClient(client) /\ client.shut = "open" /\ req \in ClientItems /\ timer.write = Never
  BY <1>1, ServerAt DEF Shape, Typed, Shaped, WithServer, Settled
<1>3. CASE Quit(client)
  BY <1>1, <1>3, GivesUpShape
<1>4. CASE /\ client' = Receive(client, server.buf)
           /\ server' = [server EXCEPT !["buf"] = <<>>]
           /\ at' = "drain" /\ UNCHANGED timer
  <2>1. server.buf \in Seq(ToClient)
    BY <1>2 DEF GoodServer, ToClient
  <2>2. GoodClient(client') /\ client'.shut = "open"
    BY <1>2, <1>4, <2>1, ReplyGood
  <2>3. GoodServer(server')
    BY <1>2, <1>4, ServerField, EmptySeq
  <2>4. server'.shut = "open" /\ server'.buf = <<>>
    BY <1>2, <1>4 DEF GoodServer, ServerFields
  <2>5. timer'.write = Never
    BY <1>2, <1>4
  <2> QED BY <1>1, <1>2, <1>4, <2>2, <2>3, <2>4, <2>5, OpenShape DEF Early, Deciding,
             Exchanging, Settled
<1> QED BY <1>3, <1>4 DEF DrainServer

LEMMA DrainClientShape ==
    ASSUME SInv, Shape, DrainClient
    PROVE  Shape'
<1>1. at = "drain" /\ UNCHANGED req
  BY DEF DrainClient
<1>2. /\ Typed /\ server # NoServer /\ GoodServer(server) /\ server.shut = "open" /\ server.buf = <<>>
      /\ GoodClient(client) /\ client.shut = "open" /\ timer.write = Never
  BY <1>1, ServerAt DEF Shape, Typed, Shaped, WithServer, Settled
<1>3. CASE Quit(client)
  BY <1>1, <1>3, GivesUpShape
<1>4. CASE /\ server' = Receive(server, client.buf)
           /\ client' = [client EXCEPT !["buf"] = <<>>]
           /\ at' = "splice" /\ UNCHANGED timer
  <2>1. client.buf \in Seq(ClientItems)
    BY <1>2 DEF GoodClient
  <2>2. /\ GoodServer(server')
        /\ \A f \in ServerFields \ {"got"} : server'[f] = server[f]
    BY <1>2, <1>4, <2>1, ReceiveServer
  <2>3. server'.shut = "open" /\ server'.buf = <<>>
    BY <1>2, <2>2 DEF ServerFields
  <2>4. GoodClient(client')
    BY <1>2, <1>4, ClientField, EmptySeq
  <2>5. client'.shut = "open" /\ client'.buf = <<>>
    BY <1>2, <1>4 DEF GoodClient, ClientFields
  <2>6. EndAfterAll'
    BY <2>3, <2>5 DEF EndAfterAll
  <2>7. server' # NoServer
    BY <2>2, IsServer DEF GoodServer
  <2> QED BY <1>1, <1>2, <1>4, <2>2, <2>3, <2>4, <2>5, <2>6, <2>7, SpliceShape DEF Settled
<1> QED BY <1>3, <1>4 DEF DrainClient

\* What every step of a splice finds.
LEMMA SpliceAt ==
    ASSUME SInv, Shape, at = "splice"
    PROVE  /\ Typed /\ server # NoServer /\ GoodServer(server) /\ server.buf = <<>>
           /\ GoodClient(client) /\ client.buf = <<>>
           /\ timer.write = Never /\ timer.read = Never
           /\ timer.write # 0 /\ timer.read # 0
<1>1. timer.write = Never /\ timer.read = Never
  BY DEF SInv, NoDeadline, Shape, Shaped, Settled
<1>2. Never # 0
  BY SessionConstantsOK
<1> QED BY <1>1, <1>2, ServerAt DEF Shape, Typed, Shaped, WithServer, Settled

LEMMA CopyUpShape ==
    ASSUME SInv, Shape, CopyUp
    PROVE  Shape'
<1>1. /\ at = "splice" /\ UNCHANGED <<at, req, timer>> /\ server.shut = "open"
      /\ client.queue # <<>> /\ server' = Receive(server, <<Head(client.queue)>>)
      /\ client' = [client EXCEPT !["queue"] = Tail(client.queue)]
  BY DEF CopyUp
<1>2. /\ Typed /\ server # NoServer /\ GoodServer(server) /\ server.buf = <<>>
      /\ GoodClient(client) /\ client.buf = <<>> /\ timer.write = Never
  BY <1>1, SpliceAt
<1>3. Head(client.queue) \in ClientItems /\ Tail(client.queue) \in Seq(ClientItems)
  BY <1>1, <1>2, HeadTailProperties DEF GoodClient
<1>4. /\ GoodServer(server')
      /\ \A f \in ServerFields \ {"got"} : server'[f] = server[f]
  <2>1. <<Head(client.queue)>> \in Seq(ClientItems)
    BY <1>3
  <2> QED BY <1>1, <1>2, <2>1, ReceiveServer
<1>5. GoodClient(client')
  BY <1>1, <1>2, <1>3, ClientField
<1>6. client'.buf = <<>> /\ client'.shut = client.shut /\ client'.end = client.end
  BY <1>1, <1>2 DEF GoodClient, ClientFields
<1>7. /\ server'.buf = <<>> /\ server'.shut = "open" /\ server'.end = server.end
      /\ server'.queue = server.queue
  BY <1>1, <1>2, <1>4 DEF ServerFields
<1>8. EndAfterAll'
  BY <1>1, <1>2, <1>6, <1>7 DEF EndAfterAll, Shape, Shaped
<1>9. server' # NoServer
  BY <1>4, IsServer DEF GoodServer
<1> QED BY <1>1, <1>2, <1>4, <1>5, <1>6, <1>7, <1>8, <1>9, SpliceShape DEF Settled

LEMMA CopyDownShape ==
    ASSUME SInv, Shape, CopyDown
    PROVE  Shape'
<1>1. /\ at = "splice" /\ UNCHANGED <<at, req, timer>> /\ client.shut = "open"
      /\ server.queue # <<>> /\ client' = Receive(client, <<Head(server.queue)>>)
      /\ server' = [server EXCEPT !["queue"] = Tail(server.queue)]
  BY DEF CopyDown
<1>2. /\ Typed /\ server # NoServer /\ GoodServer(server) /\ server.buf = <<>>
      /\ GoodClient(client) /\ client.buf = <<>> /\ timer.write = Never
  BY <1>1, SpliceAt
<1>3. Head(server.queue) \in ServerItems /\ Tail(server.queue) \in Seq(ServerItems)
  BY <1>1, <1>2, HeadTailProperties DEF GoodServer
<1>4. <<Head(server.queue)>> \in Seq(ToClient)
  BY <1>3 DEF ToClient
<1>5. /\ GoodClient(client')
      /\ \A f \in ClientFields \ {"got"} : client'[f] = client[f]
  BY <1>1, <1>2, <1>4, ReceiveClient
<1>6. GoodServer(server')
  BY <1>1, <1>2, <1>3, ServerField
<1>7. /\ client'.buf = <<>> /\ client'.shut = "open" /\ client'.end = client.end
      /\ client'.queue = client.queue
  BY <1>1, <1>2, <1>5 DEF ClientFields
<1>8. server'.buf = <<>> /\ server'.shut = server.shut /\ server'.end = server.end
  BY <1>1, <1>2 DEF GoodServer, ServerFields
<1>9. EndAfterAll'
  BY <1>1, <1>2, <1>7, <1>8 DEF EndAfterAll, Shape, Shaped
<1>10. server' # NoServer
  BY <1>6, IsServer DEF GoodServer
<1> QED BY <1>1, <1>2, <1>5, <1>6, <1>7, <1>8, <1>9, <1>10, SpliceShape DEF Settled

LEMMA EndsShape ==
    ASSUME SInv, Shape, UpEnds \/ DownEnds
    PROVE  Shape'
<1>1. at = "splice" /\ UNCHANGED <<at, req, timer>>
  BY DEF UpEnds, DownEnds
<1>2. /\ Typed /\ server # NoServer /\ GoodServer(server) /\ server.buf = <<>>
      /\ GoodClient(client) /\ client.buf = <<>> /\ timer.write = Never
      /\ timer.write # 0 /\ timer.read # 0
  BY <1>1, SpliceAt
<1>3. CASE UpEnds
  <2>1. server' = [server EXCEPT !["shut"] = "half"] /\ UNCHANGED client
    BY <1>3 DEF UpEnds
  <2>2. GoodServer(server')
    BY <1>2, <2>1, ServerField DEF ShutKinds
  <2>3. /\ server'.buf = <<>> /\ server'.end = server.end /\ server'.queue = server.queue
    BY <1>2, <2>1 DEF GoodServer, ServerFields
  <2>4. client.end # "gone" /\ server.end # "gone" => client.end = "half" /\ client.queue = <<>>
    BY <1>2, <1>3 DEF UpEnds, AtEnd, ServerWriteFails
  <2>5. EndAfterAll'
    BY <1>1, <1>2, <2>1, <2>3, <2>4 DEF EndAfterAll, Shape, Shaped
  <2>6. server' # NoServer
    BY <2>2, IsServer DEF GoodServer
  <2> QED BY <1>1, <1>2, <2>1, <2>2, <2>3, <2>5, <2>6, SpliceShape DEF Settled
<1>4. CASE DownEnds
  <2>1. client' = [client EXCEPT !["shut"] = "half"] /\ UNCHANGED server
    BY <1>4 DEF DownEnds
  <2>2. GoodClient(client')
    BY <1>2, <2>1, ClientField DEF ShutKinds
  <2>3. /\ client'.buf = <<>> /\ client'.end = client.end /\ client'.queue = client.queue
    BY <1>2, <2>1 DEF GoodClient, ClientFields
  <2>4. client.end # "gone" /\ server.end # "gone" => server.end = "half" /\ server.queue = <<>>
    BY <1>2, <1>4 DEF DownEnds, AtEnd, ClientWriteFails
  <2>5. EndAfterAll'
    BY <1>1, <1>2, <2>1, <2>3, <2>4 DEF EndAfterAll, Shape, Shaped
  <2> QED BY <1>1, <1>2, <2>1, <2>2, <2>3, <2>5, SpliceShape DEF Settled
<1> QED BY <1>3, <1>4

LEMMA ProceedShape ==
    ASSUME SInv, Shape, Proceed
    PROVE  Shape'
<1>1. at = "proceed" /\ UNCHANGED req
  BY DEF Proceed
<1>2. /\ Typed /\ server # NoServer /\ GoodServer(server) /\ server.shut = "open"
      /\ GoodClient(client) /\ client.shut = "open" /\ req \in ClientItems
  BY <1>1, ServerAt DEF Shape, Typed, Shaped, WithServer, Deciding
<1>3. CASE Quit(client)
  BY <1>1, <1>3, GivesUpShape
<1>4. CASE /\ client' \in {client, Receive(client, Reply(req, "continue"))}
           /\ timer' = NoTimer /\ at' = "send" /\ UNCHANGED server
  <2>1. Reply(req, "continue") \in Seq(ToClient)
    BY <1>2, RepliesOK
  <2>2. GoodClient(client') /\ client'.shut = "open"
    BY <1>2, <1>4, <2>1, ReplyGood
  <2>3. timer'.write = Never
    BY <1>4 DEF NoTimer
  <2> QED BY <1>1, <1>2, <1>4, <2>2, <2>3, OpenShape DEF Early, Deciding, Exchanging,
             Settled
<1> QED BY <1>3, <1>4 DEF Proceed

LEMMA SendRequestShape ==
    ASSUME SInv, Shape, SendRequest
    PROVE  Shape'
<1>1. at = "send" /\ UNCHANGED req
  BY DEF SendRequest
<1>2. /\ Typed /\ server # NoServer /\ GoodServer(server) /\ server.shut = "open"
      /\ GoodClient(client) /\ client.shut = "open" /\ req \in ClientItems /\ timer.write = Never
  BY <1>1, ServerAt DEF Shape, Typed, Shaped, WithServer, Deciding
<1>3. CASE Quit(client)
  BY <1>1, <1>3, GivesUpShape
<1>4. CASE /\ client' = client \/ \E n \in ClientReads : client' = Consume(client, n)
           /\ server' = [server EXCEPT !["asked"] = server.asked \cup {req}]
           /\ at' = "response" /\ UNCHANGED timer
  <2>1. GoodClient(client') /\ client'.shut = "open"
    BY <1>2, <1>4, ReadClient
  <2>2. server.asked \cup {req} \subseteq ClientItems
    BY <1>2 DEF GoodServer
  <2>3. GoodServer(server')
    BY <1>2, <1>4, <2>2, ServerField
  <2>4. server'.shut = "open"
    BY <1>2, <1>4 DEF GoodServer, ServerFields
  <2> QED BY <1>1, <1>2, <1>4, <2>1, <2>3, <2>4, OpenShape DEF Early, Deciding,
             Exchanging, Settled
<1> QED BY <1>3, <1>4 DEF SendRequest

LEMMA ReadServer ==
    ASSUME GoodServer(server), NEW n \in ServerReads
    PROVE  /\ GoodServer(Consume(server, n))
           /\ \A f \in ServerFields \ {"buf", "queue"} : Consume(server, n)[f] = server[f]
           /\ Held(server) # <<>> /\ Head(Buffered(server, n)) = Head(Held(server))
           /\ Held(Consume(server, n)) = Tail(Held(server))
           /\ Head(Buffered(server, n)) \in ServerItems
BY ConsumeServer DEF ServerReads

LEMMA RelayResponseShape ==
    ASSUME SInv, Shape, RelayResponse
    PROVE  Shape'
<1>1. at \in {"response", "final"} /\ UNCHANGED req
  BY DEF RelayResponse
<1>2. /\ Typed /\ server # NoServer /\ GoodServer(server) /\ server.shut = "open"
      /\ GoodClient(client) /\ client.shut = "open" /\ req \in ClientItems /\ timer.write = Never
  BY <1>1, ServerAt DEF Shape, Typed, Shaped, WithServer, Exchanging
<1>3. CASE Quit(client) \/ Quit(Tell(client, req, "badGateway"))
  BY <1>1, <1>3, GivesUpShape
<1>4. ASSUME NEW n \in ServerReads,
             LET relayed == Receive(client, <<Head(Buffered(server, n))>>) IN
             \/ Quit(relayed)
             \/ /\ server' = Consume(server, n) /\ client' = relayed
                /\ at' \in {"final", "switch", "next"}
                /\ timer' \in {timer, [timer EXCEPT !.read = IdleTimeout]}
      PROVE  Shape'
  <2> DEFINE relayed == Receive(client, <<Head(Buffered(server, n))>>)
  <2>1. /\ GoodServer(Consume(server, n)) /\ Consume(server, n).shut = server.shut
        /\ Head(Buffered(server, n)) \in ServerItems
    BY <1>2, ReadServer DEF ServerFields
  <2>2. <<Head(Buffered(server, n))>> \in Seq(ToClient)
    BY <2>1 DEF ToClient
  <2>3. GoodClient(relayed) /\ relayed.shut = "open"
    BY <1>2, <2>2, ReplyGood
  <2> HIDE DEF relayed
  <2>4. CASE Quit(relayed)
    BY <1>1, <1>2, <2>3, <2>4, QuitShape
  <2>5. CASE /\ server' = Consume(server, n) /\ client' = relayed
             /\ at' \in {"final", "switch", "next"}
             /\ timer' \in {timer, [timer EXCEPT !.read = IdleTimeout]}
    <3>1. timer'.write = Never
      BY <1>2, <2>5 DEF SInv, NoDeadline
    <3> QED BY <1>1, <1>2, <2>1, <2>3, <2>5, <3>1, OpenShape DEF Early, Deciding,
               Exchanging, Settled
  <2> QED BY <1>4, <2>4, <2>5 DEF relayed
<1> QED BY <1>3, <1>4 DEF RelayResponse

-----------------------------------------------------------------------------
(* The shape after the other steps                                         *)

\* The handler stays where it is, and nothing is shut.
LEMMA StaysShape ==
    ASSUME Shape, UNCHANGED <<at, req>>,
           GoodClient(client'), client'.shut = client.shut, client'.buf = client.buf,
           server = NoServer => server' = NoServer,
           server # NoServer => /\ server' # NoServer /\ GoodServer(server')
                                /\ server'.shut = server.shut /\ server'.buf = server.buf,
           server' # NoServer => server # NoServer,
           timer.write = Never => timer'.write = Never,
           at \in {"reply", "drain", "splice"} => server # NoServer,
           at = "splice" => EndAfterAll'
    PROVE  Shape'
<1>1. Typed'
  BY DEF Shape, Typed
<1>2. Shaped'
  BY DEF Shape, Shaped, EndAfterAll
<1> QED BY <1>1, <1>2 DEF Shape

LEMMA ClientSendsIs ==
    ASSUME GoodClient(client), ClientSends
    PROVE  /\ GoodClient(client') /\ client.end = "open" /\ client.left # <<>>
           /\ client' = [client EXCEPT !.left = Tail(client.left),
                                       !.queue = Append(client.queue, Head(client.left))]
           /\ \A f \in ClientFields \ {"left", "queue"} : client'[f] = client[f]
           /\ client'.left = Tail(client.left)
           /\ client'.queue = Append(client.queue, Head(client.left))
           /\ UNCHANGED <<at, req, server, timer>>
<1>1. /\ client.end = "open" /\ client.left # <<>>
      /\ client' = [client EXCEPT !.left = Tail(client.left),
                                  !.queue = Append(client.queue, Head(client.left))]
      /\ UNCHANGED <<at, req, server, timer>>
  BY DEF ClientSends
<1>2. /\ DOMAIN client' = ClientFields
      /\ \A f \in ClientFields \ {"left", "queue"} : client'[f] = client[f]
      /\ client'.left = Tail(client.left)
      /\ client'.queue = Append(client.queue, Head(client.left))
  BY <1>1 DEF GoodClient, ClientFields
<1>3. Tail(client.left) \in Seq(ClientItems) /\ Head(client.left) \in ClientItems
  BY <1>1, HeadTailProperties DEF GoodClient
<1>4. Append(client.queue, Head(client.left)) \in Seq(ClientItems)
  BY <1>3, AppendProperties DEF GoodClient
<1>5. /\ client'.end = client.end /\ client'.shut = client.shut
      /\ client'.buf = client.buf /\ client'.got = client.got
  BY <1>2 DEF ClientFields
<1>6. GoodClient(client')
  BY <1>2, <1>3, <1>4, <1>5 DEF GoodClient
<1> QED BY <1>1, <1>2, <1>6

LEMMA ClientEndsIs ==
    ASSUME GoodClient(client), ClientEnds \/ ClientStops
    PROVE  /\ GoodClient(client') /\ client.end # "gone"
           /\ client'.end \in {client.end, "half", "gone"}
           /\ \A f \in ClientFields \ {"end", "reads"} : client'[f] = client[f]
           /\ UNCHANGED <<at, req, server, timer>>
<1>1. \/ \E e \in {"half", "gone"} : client' = [client EXCEPT !["end"] = e]
      \/ client' = [client EXCEPT !["reads"] = FALSE]
  BY DEF ClientEnds, ClientStops
<1>2. /\ client.end # "gone" /\ UNCHANGED <<at, req, server, timer>>
  BY DEF ClientEnds, ClientStops
<1>3. GoodClient(client')
  <2>1. CASE \E e \in {"half", "gone"} : client' = [client EXCEPT !["end"] = e]
    <3>1. PICK e \in {"half", "gone"} : client' = [client EXCEPT !["end"] = e]
      BY <2>1
    <3> QED BY <3>1, ClientField DEF EndKinds
  <2>2. CASE client' = [client EXCEPT !["reads"] = FALSE]
    <3>1. /\ DOMAIN client' = ClientFields
          /\ \A f \in ClientFields \ {"reads"} : client'[f] = client[f]
      BY <2>2 DEF GoodClient, ClientFields
    <3> QED BY <3>1 DEF GoodClient, ClientFields
  <2> QED BY <1>1, <2>1, <2>2
<1>4. /\ client'.end \in {client.end, "half", "gone"}
      /\ \A f \in ClientFields \ {"end", "reads"} : client'[f] = client[f]
  BY <1>1 DEF GoodClient, ClientFields
<1> QED BY <1>2, <1>3, <1>4

LEMMA ServerAnswersIs ==
    ASSUME GoodServer(server), ServerAnswers
    PROVE  /\ GoodServer(server') /\ server.end = "open"
           /\ \A f \in ServerFields \ {"queue", "answered"} : server'[f] = server[f]
           /\ \E r \in server.asked \ server.answered, item \in ServerItems :
                /\ item.n = r.n /\ item.kind \in {"interim", "response", "switch"}
                /\ item.kind = "switch" => "upgrade" \in r.flags
                /\ item.kind = "interim" => server.queue = <<>> /\ at = "response"
                /\ server'.queue = Append(server.queue, item)
                /\ server'.answered = IF item.kind = "interim" THEN server.answered
                                      ELSE server.answered \cup {r}
           /\ UNCHANGED <<at, req, client, timer>>
<1>1. /\ server.end = "open" /\ UNCHANGED <<at, req, client, timer>>
  BY DEF ServerAnswers
<1>2. PICK r \in server.asked \ server.answered,
          kind \in {"interim", "response", "switch"}, flags \in {{}, {"close"}} :
         /\ kind = "switch" => "upgrade" \in r.flags
         /\ kind = "interim" => server.queue = <<>> /\ at = "response"
         /\ server' = [server EXCEPT
              !.queue = Append(@, [kind |-> kind, flags |-> flags, n |-> r.n]),
              !.answered = IF kind = "interim" THEN @ ELSE @ \cup {r}]
  BY DEF ServerAnswers
<1> DEFINE item == [kind |-> kind, flags |-> flags, n |-> r.n]
<1>3. item \in ServerItems /\ item.n = r.n /\ item.kind = kind
  <2>1. r.n \in Nat
    BY ItemsOK DEF GoodServer
  <2> QED BY <2>1 DEF ServerItems
<1>4. server' = [server EXCEPT !.queue = Append(server.queue, item),
                               !.answered = IF kind = "interim" THEN server.answered
                                            ELSE server.answered \cup {r}]
  BY <1>2
<1> HIDE DEF item
<1>5. /\ DOMAIN server' = ServerFields
      /\ \A f \in ServerFields \ {"queue", "answered"} : server'[f] = server[f]
      /\ server'.queue = Append(server.queue, item)
      /\ server'.answered = IF kind = "interim" THEN server.answered
                            ELSE server.answered \cup {r}
  BY <1>4 DEF GoodServer, ServerFields
<1>6. server'.queue \in Seq(ServerItems)
  BY <1>3, <1>5, AppendProperties DEF GoodServer
<1>7. /\ server'.end = server.end /\ server'.shut = server.shut /\ server'.buf = server.buf
      /\ server'.got = server.got /\ server'.sent = server.sent /\ server'.asked = server.asked
  BY <1>5 DEF ServerFields
<1>8. GoodServer(server')
  BY <1>5, <1>6, <1>7 DEF GoodServer
<1>9. \E q \in server.asked \ server.answered, i \in ServerItems :
         /\ i.n = q.n /\ i.kind \in {"interim", "response", "switch"}
         /\ i.kind = "switch" => "upgrade" \in q.flags
         /\ i.kind = "interim" => server.queue = <<>> /\ at = "response"
         /\ server'.queue = Append(server.queue, i)
         /\ server'.answered = IF i.kind = "interim" THEN server.answered
                               ELSE server.answered \cup {q}
  BY <1>2, <1>3, <1>5
<1> QED BY <1>1, <1>5, <1>8, <1>9

LEMMA ServerSendsIs ==
    ASSUME GoodServer(server), ServerSends
    PROVE  /\ GoodServer(server') /\ server.end = "open"
           /\ Tunnelled \/ \E i \in DOMAIN server.queue : server.queue[i].kind = "switch"
           /\ \A f \in ServerFields \ {"queue", "sent"} : server'[f] = server[f]
           /\ server'.sent = server.sent + 1
           /\ server'.queue = Append(server.queue,
                [kind |-> "data", flags |-> {}, n |-> server.sent + 1])
           /\ UNCHANGED <<at, req, client, timer>>
<1> DEFINE item == [kind |-> "data", flags |-> {}, n |-> server.sent + 1]
<1>1. /\ server.end = "open" /\ UNCHANGED <<at, req, client, timer>>
      /\ Tunnelled \/ \E i \in DOMAIN server.queue : server.queue[i].kind = "switch"
      /\ server' = [server EXCEPT !.queue = Append(server.queue, item), !.sent = server.sent + 1]
  BY DEF ServerSends
<1>2. item \in ServerItems
  BY DEF GoodServer, ServerItems
<1> HIDE DEF item
<1>3. /\ DOMAIN server' = ServerFields
      /\ \A f \in ServerFields \ {"queue", "sent"} : server'[f] = server[f]
      /\ server'.queue = Append(server.queue, item)
      /\ server'.sent = server.sent + 1
  BY <1>1 DEF GoodServer, ServerFields
<1>4. server'.queue \in Seq(ServerItems)
  BY <1>2, <1>3, AppendProperties DEF GoodServer
<1>5. /\ server'.end = server.end /\ server'.shut = server.shut /\ server'.buf = server.buf
      /\ server'.got = server.got /\ server'.asked = server.asked
  BY <1>3 DEF ServerFields
<1>6. GoodServer(server')
  BY <1>3, <1>4, <1>5 DEF GoodServer
<1> QED BY <1>1, <1>3, <1>6 DEF item

LEMMA ServerEndsIs ==
    ASSUME GoodServer(server), ServerEnds \/ ServerStops
    PROVE  /\ GoodServer(server') /\ server.end # "gone"
           /\ server'.end \in {server.end, "half", "gone"}
           /\ \A f \in ServerFields \ {"end", "reads"} : server'[f] = server[f]
           /\ UNCHANGED <<at, req, client, timer>>
<1>1. \/ \E e \in {"half", "gone"} : server' = [server EXCEPT !["end"] = e]
      \/ server' = [server EXCEPT !["reads"] = FALSE]
  BY DEF ServerEnds, ServerStops
<1>2. /\ server.end # "gone" /\ UNCHANGED <<at, req, client, timer>>
  BY DEF ServerEnds, ServerStops
<1>3. GoodServer(server')
  <2>1. CASE \E e \in {"half", "gone"} : server' = [server EXCEPT !["end"] = e]
    <3>1. PICK e \in {"half", "gone"} : server' = [server EXCEPT !["end"] = e]
      BY <2>1
    <3> QED BY <3>1, ServerField DEF EndKinds
  <2>2. CASE server' = [server EXCEPT !["reads"] = FALSE]
    <3>1. /\ DOMAIN server' = ServerFields
          /\ \A f \in ServerFields \ {"reads"} : server'[f] = server[f]
      BY <2>2 DEF GoodServer, ServerFields
    <3>2. GoodServer(server)
      OBVIOUS
    <3> QED BY <3>1, <3>2 DEF GoodServer, ServerFields
  <2> QED BY <1>1, <2>1, <2>2
<1>4. /\ server'.end \in {server.end, "half", "gone"}
      /\ \A f \in ServerFields \ {"end", "reads"} : server'[f] = server[f]
  BY <1>1 DEF GoodServer, ServerFields
<1> QED BY <1>2, <1>3, <1>4

LEMMA PeersShape ==
    ASSUME SInv, Shape, Peers
    PROVE  Shape'
<1>1. UNCHANGED <<at, req, timer>>
  BY DEF Peers, ClientSends, ClientEnds, ClientStops, ServerAnswers, ServerSends,
     ServerEnds, ServerStops
<1>2. GoodClient(client) /\ (server # NoServer => GoodServer(server))
  BY DEF Shape, Typed
<1>3. at \in {"reply", "drain", "splice"} => server # NoServer
  BY HasServer DEF WithServer
<1>4. at = "splice" => EndAfterAll
  BY DEF Shape, Shaped
<1>5. CASE ClientSends \/ ClientEnds \/ ClientStops
  <2>1. UNCHANGED server /\ GoodClient(client')
    BY <1>2, <1>5, ClientSendsIs, ClientEndsIs
  <2>2. client'.shut = client.shut /\ client'.buf = client.buf
    BY <1>2, <1>5, ClientSendsIs, ClientEndsIs DEF ClientFields
  <2>3. ClientSends => client.end = "open" /\ client'.end = "open"
    BY <1>2, ClientSendsIs DEF ClientFields
  <2>4. ClientEnds \/ ClientStops =>
          /\ client.end # "gone" /\ client'.end \in {client.end, "half", "gone"}
          /\ client'.queue = client.queue
    BY <1>2, ClientEndsIs DEF ClientFields
  <2>5. at = "splice" => EndAfterAll'
    BY <1>1, <1>4, <1>5, <2>1, <2>2, <2>3, <2>4 DEF EndAfterAll
  <2> QED BY <1>1, <1>2, <1>3, <2>1, <2>2, <2>5, StaysShape
<1>6. CASE ServerAnswers \/ ServerSends \/ ServerEnds \/ ServerStops
  <2>1. server # NoServer /\ GoodServer(server)
    BY <1>2, <1>6 DEF ServerAnswers, ServerSends, ServerEnds, ServerStops
  <2>2. UNCHANGED client /\ GoodServer(server')
    BY <1>6, <2>1, ServerAnswersIs, ServerSendsIs, ServerEndsIs
  <2>3. server'.shut = server.shut /\ server'.buf = server.buf
    BY <1>6, <2>1, ServerAnswersIs, ServerSendsIs, ServerEndsIs DEF ServerFields
  <2>4. ServerAnswers \/ ServerSends => server.end = "open" /\ server'.end = "open"
    BY <2>1, ServerAnswersIs, ServerSendsIs DEF ServerFields
  <2>5. ServerEnds \/ ServerStops =>
          /\ server.end # "gone" /\ server'.end \in {server.end, "half", "gone"}
          /\ server'.queue = server.queue
    BY <2>1, ServerEndsIs DEF ServerFields
  <2>6. at = "splice" => EndAfterAll'
    BY <1>1, <1>4, <1>6, <2>2, <2>3, <2>4, <2>5 DEF EndAfterAll
  <2>7. server' # NoServer
    BY <2>2, IsServer DEF GoodServer
  <2> QED BY <1>1, <1>2, <1>3, <2>1, <2>2, <2>3, <2>6, <2>7, StaysShape
<1> QED BY <1>5, <1>6 DEF Peers

\* Steps of the guard, and time: they leave both connections alone, and move
\* a handler only to its first step.
Aside ==
    /\ UNCHANGED <<client, server, req>>
    /\ \/ UNCHANGED <<at, timer>>
       \/ /\ UNCHANGED at /\ Tick
       \/ at \in {"idle", "backlog"} /\ at' \in {"backlog", "greeting", "first", "done"}

LEMMA AsideOf ==
    ASSUME \/ Tick \/ Guard \/ CloseBegins \/ Serve \/ AcceptFails \/ ClientConnects
           \/ UNCHANGED vars
    PROVE  Aside
<1>1. CASE Tick \/ Guard \/ CloseBegins
  BY <1>1 DEF Aside, Tick, Guard, CloseBegins, LoadAllowlist, StartNetguard,
     CloseListener, CloseReturns, sessionVars
<1>2. CASE Serve \/ AcceptFails \/ ClientConnects \/ UNCHANGED vars
  BY <1>2 DEF Aside, Serve, AcceptFails, ClientConnects, Accept, AcceptOnClosed, LoopEnds,
     StartSession, vars, sessionVars
<1> QED BY <1>1, <1>2

LEMMA AsideShape ==
    ASSUME SInv, Shape, Aside
    PROVE  Shape'
<1>1. UNCHANGED <<client, server, req>> /\ GoodClient(client)
  BY DEF Aside, Shape, Typed
<1>2. CASE UNCHANGED <<at, timer>> \/ (UNCHANGED at /\ Tick)
  <2>1. timer.write = Never => timer'.write = Never
    BY <1>2 DEF Tick, Running, SInv, NoDeadline
  <2>2. at \in {"reply", "drain", "splice"} => server # NoServer
    BY HasServer DEF WithServer
  <2>3. EndAfterAll'
    BY <1>1, <1>2 DEF Shape, Shaped, EndAfterAll
  <2> QED BY <1>1, <1>2, <2>1, <2>2, <2>3, StaysShape DEF Shape, Typed
<1>3. CASE at \in {"idle", "backlog"} /\ at' \in {"backlog", "greeting", "first", "done"}
  <2>1. Typed'
    BY <1>1, <1>3 DEF Shape, Typed, Early, Deciding, Exchanging, Settled
  <2>2. Shaped'
    BY <1>1, <1>3 DEF Shape, Shaped, EndAfterAll, Exchanging, Settled
  <2> QED BY <2>1, <2>2 DEF Shape
<1> QED BY <1>2, <1>3 DEF Aside

LEMMA InitShape == Init => Shape
<1> SUFFICES ASSUME Init
             PROVE  Shape
  OBVIOUS
<1>1. PICK s \in Scripts : client = Client(s.items)
  BY DEF Init
<1>2. s.items \in Seq(ClientItems)
  <2>1. s.items \in Seq({s.items[k] : k \in DOMAIN s.items})
    BY ScriptsOK
  <2>2. {s.items[k] : k \in DOMAIN s.items} \subseteq ClientItems
    BY DEF ClientItems
  <2> QED BY <2>1, <2>2
<1>3. /\ DOMAIN client = ClientFields /\ client.left = s.items /\ client.queue = <<>>
      /\ client.buf = <<>> /\ client.end = "open" /\ client.got = <<>> /\ client.shut = "open"
  BY <1>1 DEF Client, ClientFields
<1>4. GoodClient(client)
  BY <1>2, <1>3, EmptySeq DEF GoodClient, EndKinds, ShutKinds
<1>5. Typed
  BY <1>4 DEF Init, Typed, Early, Deciding, Exchanging, Settled, NoRequest
<1>6. Shaped
  BY <1>3 DEF Init, Shaped, EndAfterAll, Exchanging, Settled
<1> QED BY <1>5, <1>6 DEF Shape

LEMMA NextShape == GInv /\ Shape /\ [Next]_vars => Shape'
<1> SUFFICES ASSUME GInv, Shape, [Next]_vars
             PROVE  Shape'
  OBVIOUS
<1>1. SInv
  BY DEF GInv
<1>2. CASE Handler \/ DialSucceeds \/ DialFails \/ Copy
  BY <1>1, <1>2, ReadGreetingShape, ReadSocksRequestShape, ReadRequestShape, DecideShape,
     DialSucceedsShape, ReplyOKShape, DrainServerShape, DrainClientShape, CopyUpShape,
     CopyDownShape, EndsShape, ProceedShape, SendRequestShape, RelayResponseShape,
     GivesUpShape DEF Handler, Copy, SpliceEnds
<1>3. CASE Peers
  BY <1>1, <1>3, PeersShape
<1>4. CASE Aside
  BY <1>1, <1>4, AsideShape
<1> QED BY <1>2, <1>3, <1>4, AsideOf DEF Next, Session

\* The end of one side of a tunnel reaches the other side behind everything
\* that was sent before it (splice, closeWrite).
THEOREM EndsAfterAll == Spec => []EndAfterAll
<1>1. Shape => EndAfterAll
  BY DEF Shape, Shaped
<1> QED BY <1>1, Invariant, InitShape, NextShape, PTL DEF Spec

-----------------------------------------------------------------------------
(* Where a session stands in what its client sends                         *)

\* What the client has still to say: what the proxy holds, and what follows.
Rest(c) == Held(c) \o c.left

\* Is t all that follows the first k items of a script?
IsRest(t, items, k) ==
    /\ items \in Seq(ClientItems) /\ t \in Seq(ClientItems)
    /\ k \in Nat /\ k + Len(t) = Len(items) /\ Follows(t, items, k)

LEMMA FollowsTail ==
    ASSUME NEW t, NEW items, NEW k, IsRest(t, items, k), t # <<>>
    PROVE  /\ k + 1 \in DOMAIN items /\ Head(t) = items[k + 1]
           /\ IsRest(Tail(t), items, k + 1)
<1>1. /\ items \in Seq(ClientItems) /\ t \in Seq(ClientItems)
      /\ k \in Nat /\ k + Len(t) = Len(items) /\ Follows(t, items, k)
  BY DEF IsRest
<1>2. /\ Head(t) = t[1] /\ Tail(t) \in Seq(ClientItems) /\ Len(Tail(t)) = Len(t) - 1
      /\ \A i \in 1..Len(Tail(t)) : Tail(t)[i] = t[i + 1]
  BY <1>1, HeadTailProperties
<1>3. Len(t) \in Nat \ {0} /\ DOMAIN t = 1..Len(t) /\ DOMAIN items = 1..Len(items)
      /\ Len(items) \in Nat
  BY <1>1, EmptySeq, LenProperties
<1>4. DOMAIN Tail(t) = 1..(Len(t) - 1)
  BY <1>2, LenProperties
<1>5. k + 1 \in DOMAIN items /\ Head(t) = items[k + 1]
  BY <1>1, <1>2, <1>3 DEF Follows
<1>6. ASSUME NEW i \in DOMAIN Tail(t)
      PROVE  (k + 1) + i \in DOMAIN items /\ Tail(t)[i] = items[(k + 1) + i]
  <2>1. i + 1 \in DOMAIN t /\ Tail(t)[i] = t[i + 1]
    BY <1>2, <1>3, <1>4
  <2>2. k + (i + 1) \in DOMAIN items /\ t[i + 1] = items[k + (i + 1)]
    BY <1>1, <2>1 DEF Follows
  <2>3. k + (i + 1) = (k + 1) + i
    BY <1>1, <1>4
  <2> QED BY <2>1, <2>2, <2>3
<1>7. k + 1 \in Nat /\ (k + 1) + Len(Tail(t)) = Len(items)
  BY <1>1, <1>2, <1>3
<1> QED BY <1>1, <1>2, <1>5, <1>6, <1>7 DEF IsRest, Follows

\* A part that is all taken at once.
LEMMA FollowsParts ==
    ASSUME NEW a \in Seq(ClientItems), NEW b \in Seq(ClientItems), NEW items, NEW k,
           IsRest(a \o b, items, k)
    PROVE  /\ Follows(a, items, k) /\ IsRest(b, items, k + Len(a))
<1>1. /\ items \in Seq(ClientItems) /\ k \in Nat /\ k + Len(a \o b) = Len(items)
      /\ Follows(a \o b, items, k)
  BY DEF IsRest
<1>2. /\ Len(a \o b) = Len(a) + Len(b)
      /\ \A i \in 1..(Len(a) + Len(b)) :
           (a \o b)[i] = IF i <= Len(a) THEN a[i] ELSE b[i - Len(a)]
  BY ConcatProperties
<1>3. /\ Len(a) \in Nat /\ Len(b) \in Nat /\ DOMAIN a = 1..Len(a) /\ DOMAIN b = 1..Len(b)
  BY LenProperties
<1>4. a \o b \in Seq(ClientItems) /\ DOMAIN (a \o b) = 1..(Len(a) + Len(b))
  BY <1>2, ConcatProperties, LenProperties
<1>5. ASSUME NEW i \in DOMAIN a
      PROVE  k + i \in DOMAIN items /\ a[i] = items[k + i]
  <2>1. i \in DOMAIN (a \o b) /\ (a \o b)[i] = a[i]
    BY <1>2, <1>3, <1>4
  <2> QED BY <1>1, <2>1 DEF Follows
<1>6. ASSUME NEW i \in DOMAIN b
      PROVE  (k + Len(a)) + i \in DOMAIN items /\ b[i] = items[(k + Len(a)) + i]
  <2>1. Len(a) + i \in DOMAIN (a \o b) /\ (a \o b)[Len(a) + i] = b[i]
    BY <1>2, <1>3, <1>4
  <2>2. k + (Len(a) + i) \in DOMAIN items /\ b[i] = items[k + (Len(a) + i)]
    BY <1>1, <2>1 DEF Follows
  <2>3. k + (Len(a) + i) = (k + Len(a)) + i
    BY <1>1, <1>3
  <2> QED BY <2>2, <2>3
<1>7. k + Len(a) \in Nat /\ (k + Len(a)) + Len(b) = Len(items)
  BY <1>1, <1>2, <1>3
<1> QED BY <1>1, <1>5, <1>6, <1>7 DEF IsRest, Follows

\* One more item reaches the other end.
LEMMA FollowsOneMore ==
    ASSUME NEW got \in Seq(ClientItems), NEW items, NEW j \in Nat,
           Follows(got, items, j), NEW item \in ClientItems,
           j + Len(got) + 1 \in DOMAIN items, item = items[j + Len(got) + 1]
    PROVE  /\ Follows(got \o <<item>>, items, j)
           /\ Len(got \o <<item>>) = Len(got) + 1
<1>1. /\ Len(got) \in Nat /\ DOMAIN got = 1..Len(got)
      /\ <<item>> \in Seq(ClientItems) /\ Len(<<item>>) = 1
  BY LenProperties
<1>2. /\ Len(got \o <<item>>) = Len(got) + 1 /\ got \o <<item>> \in Seq(ClientItems)
      /\ \A i \in 1..(Len(got) + 1) :
           (got \o <<item>>)[i] = IF i <= Len(got) THEN got[i] ELSE <<item>>[i - Len(got)]
  BY <1>1, ConcatProperties
<1>3. DOMAIN (got \o <<item>>) = 1..(Len(got) + 1)
  BY <1>2, LenProperties
<1>4. ASSUME NEW i \in DOMAIN (got \o <<item>>)
      PROVE  j + i \in DOMAIN items /\ (got \o <<item>>)[i] = items[j + i]
  <2>1. CASE i <= Len(got)
    <3>1. i \in DOMAIN got /\ (got \o <<item>>)[i] = got[i]
      BY <1>1, <1>2, <1>3, <2>1
    <3> QED BY <3>1 DEF Follows
  <2>2. CASE i = Len(got) + 1
    <3>1. (got \o <<item>>)[i] = <<item>>[i - Len(got)] /\ i - Len(got) = 1
      BY <1>1, <1>2, <1>3, <2>2
    <3>2. (got \o <<item>>)[i] = item /\ j + i = j + Len(got) + 1
      BY <1>1, <2>2, <3>1
    <3> QED BY <3>2
  <2> QED BY <1>1, <1>3, <2>1, <2>2
<1> QED BY <1>2, <1>4 DEF Follows

LEMMA RestGood ==
    ASSUME NEW c, GoodClient(c)
    PROVE  Held(c) \in Seq(ClientItems) /\ Rest(c) \in Seq(ClientItems)
<1>1. Held(c) \in Seq(ClientItems)
  BY ConcatProperties DEF Held, GoodClient
<1> QED BY <1>1, ConcatProperties DEF Rest, GoodClient

LEMMA RestRead ==
    ASSUME Typed, NEW n \in ClientReads
    PROVE  /\ Rest(client) # <<>> /\ Head(Buffered(client, n)) = Head(Rest(client))
           /\ Rest(Consume(client, n)) = Tail(Rest(client))
<1>1. Held(client) \in Seq(ClientItems) /\ client.left \in Seq(ClientItems)
  BY RestGood DEF Typed, GoodClient
<1>2. /\ Held(client) # <<>> /\ Head(Buffered(client, n)) = Head(Held(client))
      /\ Held(Consume(client, n)) = Tail(Held(client)) /\ Consume(client, n).left = client.left
  BY ReadClient
<1> QED BY <1>1, <1>2, TailOfConcat DEF Rest

LEMMA Associative ==
    \A a, b, c \in Seq(ClientItems) : (a \o b) \o c = a \o (b \o c)
BY ConcatAssociative

LEMMA AppendIs ==
    \A s \in Seq(ClientItems), item \in ClientItems :
      Append(s, item) = s \o <<item>> /\ <<item>> \in Seq(ClientItems)
BY AppendIsConcat

LEMMA HeadAndTail ==
    ASSUME NEW S, NEW left \in Seq(S), left # <<>>
    PROVE  left = <<Head(left)>> \o Tail(left)
<1> DEFINE h == Head(left)
           t == Tail(left)
           one == <<h>>
<1>1. h \in S /\ t \in Seq(S) /\ one \in Seq(S)
  BY HeadTailProperties
<1>2. Len(one \o t) = 1 + Len(t) /\ one \o t \in Seq(S)
  BY <1>1, ConcatProperties
<1>3. Len(t) = Len(left) - 1 /\ \A i \in 1..Len(t) : t[i] = left[i + 1]
  BY HeadTailProperties
<1>4. Len(left) \in Nat /\ h = left[1]
  BY HeadTailProperties, LenProperties
<1>5. \A i \in 1..(1 + Len(t)) : (one \o t)[i] = IF i <= 1 THEN one[i] ELSE t[i - 1]
  BY <1>1, ConcatProperties
<1>6. ASSUME NEW i \in 1..Len(left)
      PROVE  (one \o t)[i] = left[i]
  BY <1>3, <1>4, <1>5
<1>7. Len(one \o t) = Len(left)
  BY <1>2, <1>3, <1>4
<1> HIDE DEF h, t, one
<1>8. left = one \o t
  BY <1>2, <1>6, <1>7, SeqEqual
<1> QED BY <1>8 DEF h, t, one

\* What the client sends next is what the proxy reads next.
LEMMA RestSends ==
    ASSUME GoodClient(client), ClientSends
    PROVE  Rest(client') = Rest(client)
<1>1. /\ client.left # <<>> /\ client'.buf = client.buf /\ client'.left = Tail(client.left)
      /\ client'.queue = Append(client.queue, Head(client.left))
  BY ClientSendsIs DEF ClientFields
<1>2. /\ client.left \in Seq(ClientItems) /\ client.queue \in Seq(ClientItems)
      /\ client.buf \in Seq(ClientItems)
  BY DEF GoodClient
<1> DEFINE one == <<Head(client.left)>>
           t == Tail(client.left)
           front == client.buf \o client.queue
<1>3. Head(client.left) \in ClientItems /\ t \in Seq(ClientItems)
  BY <1>1, <1>2, HeadTailProperties
<1>4. client'.queue = client.queue \o one /\ one \in Seq(ClientItems)
  BY <1>1, <1>2, <1>3, AppendIs
<1>5. client.left = one \o t
  BY <1>1, <1>2, HeadAndTail
<1>6. front \in Seq(ClientItems)
  BY <1>2, ConcatProperties
<1> HIDE DEF one, t
<1>7. client'.buf \o client'.queue = front \o one
  <2>1. (client.buf \o client.queue) \o one = client.buf \o (client.queue \o one)
    BY <1>2, <1>4, Associative
  <2> QED BY <1>1, <1>4, <2>1, Zenon
<1> HIDE DEF front
<1>8. (front \o one) \o t = front \o (one \o t)
  BY <1>3, <1>4, <1>6, Associative
<1>9. Rest(client') = (front \o one) \o t
  BY <1>1, <1>7, Zenon DEF Rest, Held, t
<1>10. Rest(client) = front \o client.left
  BY Zenon DEF Rest, Held, front
<1> QED BY <1>5, <1>8, <1>9, <1>10, Zenon

\* The requests that each step works on.
Kinds ==
    /\ at \in Deciding \cup Exchanging \cup Settled => req.kind \in {"http", "socks"}
    /\ at \in {"forward", "proceed", "send", "next", "switch"} \cup Exchanging => Plain(req)
    /\ at = "reply" => ~Plain(req)

\* How far the session is after the first k items: its request is the last
\* one of them, or the last but its body, and a server has got what follows.
Stands(items, k) ==
    /\ at \in Early \ {"request"} => k = 0
    /\ at = "request" => k = 1
    /\ at \in Deciding => k \in DOMAIN items /\ items[k] = req
    /\ at \in Exchanging \cup {"next", "switch", "drain"}
         => k - BodyOf(req) \in DOMAIN items /\ items[k - BodyOf(req)] = req
    /\ at = "splice" => \E j \in DOMAIN items :
         /\ items[j] = req /\ Follows(server.got, items, j + BodyOf(req))
         /\ server.end # "gone" => k = j + BodyOf(req) + Len(server.got)

Placed ==
    at # "done" => \E s \in Scripts : \E k \in Nat :
      IsRest(Rest(client), s.items, k) /\ Stands(s.items, k)

\* The server half of StreamsInOrder.
InOrder ==
    \E s \in Scripts : \E k \in DOMAIN s.items :
      s.items[k] = req /\ Follows(server.got, s.items, k + BodyOf(req))

\* Only a tunnel passes on what the client sends.
Delivered ==
    server # NoServer => IF at \in {"splice", "done"} THEN InOrder ELSE server.got = <<>>

\* A client that waits for its 100 has got it when its body is read.
Continued ==
    at = "send" /\ "expect" \in req.flags /\ client.end # "gone" =>
      \E i \in DOMAIN client.got : client.got[i].kind = "continue" /\ client.got[i].n = req.n

PInv == Kinds /\ Placed /\ Delivered /\ Continued

LEMMA BodyIs ==
    ASSUME NEW item
    PROVE  /\ BodyOf(item) \in {0, 1}
           /\ ~Plain(item) => BodyOf(item) = 0
           /\ Plain(item) => BodyOf(item) = IF "body" \in item.flags THEN 1 ELSE 0
BY DEF BodyOf

\* The proxy reads nothing, and its request stays the same.
LEMMA PlacedMoves ==
    ASSUME Placed, at # "done", Rest(client') = Rest(client),
           \/ {at, at'} \subseteq Early \ {"request"}
           \/ /\ UNCHANGED req
              /\ \/ {at, at'} \subseteq Deciding
                 \/ at \in Deciding /\ at' \in Exchanging \cup {"drain"} /\ BodyOf(req) = 0
                 \/ {at, at'} \subseteq Exchanging \cup {"next", "switch", "drain"}
                 \/ /\ UNCHANGED at
                    /\ at = "splice" => /\ server'.got = server.got
                                        /\ server'.end # "gone" => server.end # "gone"
    PROVE  Placed'
<1>1. PICK s \in Scripts, k \in Nat : IsRest(Rest(client), s.items, k) /\ Stands(s.items, k)
  BY DEF Placed
<1>2. IsRest(Rest(client'), s.items, k)
  BY <1>1
<1>3. CASE {at, at'} \subseteq Early \ {"request"}
  <2>1. Stands(s.items, k)'
    BY <1>1, <1>3 DEF Stands, Early, Deciding, Exchanging
  <2> QED BY <1>2, <2>1 DEF Placed
<1>4. CASE UNCHANGED req /\ {at, at'} \subseteq Deciding
  <2>1. Stands(s.items, k)'
    BY <1>1, <1>4 DEF Stands, Early, Deciding, Exchanging
  <2> QED BY <1>2, <2>1 DEF Placed
<1>5. CASE /\ UNCHANGED req /\ BodyOf(req) = 0
           /\ at \in Deciding /\ at' \in Exchanging \cup {"drain"}
  <2>1. k - BodyOf(req') = k
    BY <1>5
  <2>2. k \in DOMAIN s.items /\ s.items[k] = req'
    BY <1>1, <1>5 DEF Stands
  <2>3. Stands(s.items, k)'
    BY <1>5, <2>1, <2>2 DEF Stands, Early, Deciding, Exchanging
  <2> QED BY <1>2, <2>3 DEF Placed
<1>6. CASE UNCHANGED req /\ {at, at'} \subseteq Exchanging \cup {"next", "switch", "drain"}
  <2>1. k - BodyOf(req') \in DOMAIN s.items /\ s.items[k - BodyOf(req')] = req'
    BY <1>1, <1>6 DEF Stands
  <2>2. Stands(s.items, k)'
    BY <1>6, <2>1 DEF Stands, Early, Deciding, Exchanging
  <2> QED BY <1>2, <2>2 DEF Placed
<1>7. CASE /\ UNCHANGED <<at, req>>
           /\ at = "splice" => /\ server'.got = server.got
                               /\ server'.end # "gone" => server.end # "gone"
  <2>1. Stands(s.items, k)'
    BY <1>1, <1>7 DEF Stands
  <2> QED BY <1>2, <2>1 DEF Placed
<1> QED BY <1>3, <1>4, <1>5, <1>6, <1>7

\* It has read one item.
LEMMA PlacedReads ==
    ASSUME Typed, Placed, at # "done", NEW n \in ClientReads,
           Rest(client') = Rest(Consume(client, n)), at' # "splice",
           \A s \in Scripts : \A k \in Nat :
             /\ Stands(s.items, k)
             /\ k + 1 \in DOMAIN s.items /\ Head(Buffered(client, n)) = s.items[k + 1]
             => Stands(s.items, k + 1)'
    PROVE  Placed'
<1>1. PICK s \in Scripts, k \in Nat : IsRest(Rest(client), s.items, k) /\ Stands(s.items, k)
  BY DEF Placed
<1>2. /\ Rest(client) # <<>> /\ Head(Buffered(client, n)) = Head(Rest(client))
      /\ Rest(Consume(client, n)) = Tail(Rest(client))
  BY RestRead
<1>3. /\ k + 1 \in DOMAIN s.items /\ Head(Rest(client)) = s.items[k + 1]
      /\ IsRest(Tail(Rest(client)), s.items, k + 1)
  BY <1>1, <1>2, FollowsTail
<1>4. Stands(s.items, k + 1)'
  BY <1>1, <1>2, <1>3
<1>5. IsRest(Rest(client'), s.items, k + 1)
  BY <1>2, <1>3
<1> QED BY <1>4, <1>5 DEF Placed

\* A handler that gives up leaves the stream as it was.
LEMMA QuitPlaced ==
    ASSUME SInv, Shape, PInv, at # "done", NEW conn, GoodClient(conn), Quit(conn),
           UNCHANGED req \/ server = NoServer
    PROVE  PInv'
<1>1. /\ at' = "done" /\ (server = NoServer => server' = NoServer)
      /\ server # NoServer => server' # NoServer /\ server'.got = server.got
  BY QuitIs DEF Shape, ServerFields
<1>2. Kinds' /\ Placed' /\ Continued'
  BY <1>1 DEF Kinds, Placed, Continued, Deciding, Exchanging, Settled
<1>3. Delivered'
  <2> SUFFICES ASSUME server # NoServer
               PROVE  InOrder'
    BY <1>1 DEF Delivered
  <2>1. UNCHANGED req /\ server'.got = server.got
    BY <1>1
  <2>2. CASE at = "splice"
    BY <2>1, <2>2 DEF PInv, Delivered, InOrder
  <2>3. CASE at # "splice"
    <3>1. server.got = <<>>
      BY <2>3 DEF PInv, Delivered
    <3>2. at \in MayHaveServer
      BY DEF SInv, Connected
    <3>3. req \in ClientItems
      BY <2>3, <3>2 DEF Shape, Typed, MayHaveServer, WithServer, Deciding, Exchanging,
         Settled
    <3>4. PICK s \in Scripts : \E k \in DOMAIN s.items : s.items[k] = req
      BY <3>3 DEF ClientItems
    <3>5. \A k : Follows(server'.got, s.items, k + BodyOf(req'))
      BY <2>1, <3>1 DEF Follows
    <3> QED BY <2>1, <3>4, <3>5 DEF InOrder
  <2> QED BY <2>2, <2>3
<1> QED BY <1>2, <1>3 DEF PInv

LEMMA RestReceive ==
    ASSUME NEW c, GoodClient(c), NEW items \in Seq(ToClient)
    PROVE  Rest(Receive(c, items)) = Rest(c)
<1> DEFINE d == Receive(c, items)
<1>1. \A f \in ClientFields \ {"got"} : d[f] = c[f]
  BY ReceiveClient
<1> HIDE DEF d
<1>2. d.buf = c.buf /\ d.queue = c.queue /\ d.left = c.left
  BY <1>1 DEF ClientFields
<1>3. Rest(d) = Rest(c)
  BY <1>2, Zenon DEF Rest, Held
<1> QED BY <1>3 DEF d

\* One item behind a sequence.
LEMMA OneMore ==
    ASSUME NEW S, NEW s \in Seq(S), NEW one \in Seq(S), Len(one) = 1
    PROVE  /\ s \o one \in Seq(S) /\ Len(s \o one) = Len(s) + 1
           /\ Len(s) \in Nat /\ DOMAIN s = 1..Len(s) /\ DOMAIN (s \o one) = 1..(Len(s) + 1)
           /\ \A i \in DOMAIN s : (s \o one)[i] = s[i]
           /\ (s \o one)[Len(s) + 1] = one[1]
<1>1. /\ s \o one \in Seq(S) /\ Len(s \o one) = Len(s) + 1
      /\ \A i \in 1..(Len(s) + 1) : (s \o one)[i] = IF i <= Len(s) THEN s[i] ELSE one[i - Len(s)]
  BY ConcatProperties
<1>2. Len(s) \in Nat /\ DOMAIN s = 1..Len(s) /\ DOMAIN (s \o one) = 1..(Len(s) + 1)
  BY <1>1, LenProperties
<1>3. \A i \in DOMAIN s : (s \o one)[i] = s[i]
  BY <1>1, <1>2
<1>4. (s \o one)[Len(s) + 1] = one[1]
  <2>1. Len(s) + 1 \in 1..(Len(s) + 1) /\ ~(Len(s) + 1 <= Len(s)) /\ (Len(s) + 1) - Len(s) = 1
    BY <1>2
  <2> QED BY <1>1, <2>1
<1> QED BY <1>1, <1>2, <1>3, <1>4

\* A read has no effect on the server, which gets nothing before a tunnel.
LEMMA NegotiationPlaced ==
    ASSUME SInv, Shape, PInv, ReadGreeting \/ ReadSocksRequest \/ ReadRequest
    PROVE  PInv'
<1>1. at \in {"greeting", "request", "first", "next"}
  BY DEF ReadGreeting, ReadSocksRequest, ReadRequest
<1>2. /\ Typed /\ GoodClient(client) /\ at # "done" /\ Kinds /\ Placed
      /\ at # "next" => server = NoServer
  BY <1>1 DEF Shape, Typed, PInv, SInv, Connected, MayHaveServer, WithServer
<1>3. CASE UNCHANGED req /\ (Quit(client) \/ \E n \in ClientReads : Quit(Consume(client, n)))
  BY <1>2, <1>3, ReadClient, QuitPlaced
<1>4. server # NoServer => server.got = <<>>
  BY <1>1 DEF PInv, Delivered
<1>5. CASE /\ ReadGreeting
           /\ \E n \in ClientReads :
                /\ client' = Receive(Consume(client, n), Reply(req, "method"))
                /\ at' = "request" /\ UNCHANGED <<server, upstreams, timer>>
  <2>1. at = "greeting" /\ UNCHANGED req /\ req = NoRequest /\ at' = "request" /\ UNCHANGED server
    BY <1>5 DEF ReadGreeting, Shape, Typed, Early
  <2>2. PICK n \in ClientReads : client' = Receive(Consume(client, n), Reply(req, "method"))
    BY <1>5
  <2>3. GoodClient(Consume(client, n)) /\ Reply(req, "method") \in Seq(ToClient)
    BY <1>2, <2>1, ReadClient, RepliesOK
  <2>4. Rest(client') = Rest(Consume(client, n))
    BY <2>2, <2>3, RestReceive
  <2>5. \A s \in Scripts : \A k \in Nat : Stands(s.items, k) => Stands(s.items, k + 1)'
    BY <2>1 DEF Stands, Early, Deciding, Exchanging
  <2>6. Placed'
    BY <1>2, <2>1, <2>4, <2>5, PlacedReads
  <2>7. Kinds' /\ Delivered' /\ Continued'
    BY <1>4, <2>1 DEF Kinds, Delivered, Continued, Deciding, Exchanging, Settled
  <2> QED BY <2>6, <2>7 DEF PInv
<1>6. ASSUME NEW n \in ClientReads, req' = Head(Buffered(client, n)),
             Rest(client') = Rest(Consume(client, n)),
             server' \in {server, NoServer}, req'.kind \in {"http", "socks"},
             \/ at' \in {"connect", "dial"}
             \/ at' = "forward" /\ Plain(req')
      PROVE  PInv'
  <2>1. \A s \in Scripts : \A k \in Nat :
          k + 1 \in DOMAIN s.items /\ Head(Buffered(client, n)) = s.items[k + 1]
            => Stands(s.items, k + 1)'
    BY <1>6 DEF Stands, Early, Deciding, Exchanging
  <2>2. Placed'
    BY <1>2, <1>6, <2>1, PlacedReads
  <2>3. Kinds' /\ Delivered' /\ Continued'
    BY <1>4, <1>6 DEF Kinds, Delivered, Continued, Deciding, Exchanging, Settled
  <2> QED BY <2>2, <2>3 DEF PInv
<1>7. CASE ReadSocksRequest
  <2>1. CASE \E n \in ClientReads : /\ req' = Head(Buffered(client, n)) /\ req'.kind = "socks"
                                    /\ Quit(Tell(Consume(client, n), req', "refused"))
    <3>1. PICK n \in ClientReads : /\ req' = Head(Buffered(client, n))
                                   /\ Quit(Tell(Consume(client, n), req', "refused"))
      BY <2>1
    <3>2. GoodClient(Consume(client, n)) /\ req' \in ClientItems
      BY <1>2, <3>1, ReadClient
    <3>3. GoodClient(Tell(Consume(client, n), req', "refused"))
      BY <3>2, TellGood
    <3>4. server = NoServer
      BY <1>2, <1>7 DEF ReadSocksRequest
    <3> QED BY <1>2, <3>1, <3>3, <3>4, QuitPlaced
  <2>2. CASE \E n \in ClientReads : /\ req' = Head(Buffered(client, n)) /\ req'.kind = "socks"
                                    /\ at' = "dial" /\ client' = Consume(client, n)
                                    /\ UNCHANGED server
    BY <1>6, <2>2
  <2> QED BY <1>3, <1>7, <2>1, <2>2 DEF ReadSocksRequest
<1>8. CASE ReadRequest
  <2>1. CASE \E n \in ClientReads : /\ req' = Head(Buffered(client, n)) /\ req'.kind = "http"
                                    /\ at' = (IF Connect(req') THEN "connect" ELSE "forward")
                                    /\ client' = Consume(client, n)
                                    /\ server' \in {server, NoServer}
    BY <1>6, <2>1 DEF Plain
  <2> QED BY <1>3, <1>8, <2>1 DEF ReadRequest
<1> QED BY <1>3, <1>5, <1>7, <1>8 DEF ReadGreeting

\* Without a read, and before a server gets anything.
LEMMA WritesPlaced ==
    ASSUME PInv, UNCHANGED req, at \notin {"splice", "done"}, at' \notin {"splice", "done"},
           Rest(client') = Rest(client),
           \/ {at, at'} \subseteq Deciding
           \/ at \in Deciding /\ at' \in Exchanging \cup {"drain"} /\ BodyOf(req) = 0
           \/ {at, at'} \subseteq Exchanging \cup {"next", "switch", "drain"},
           server' # NoServer => server'.got = <<>>,
           Kinds', Continued'
    PROVE  PInv'
<1>1. Placed'
  BY PlacedMoves DEF PInv
<1>2. Delivered'
  BY DEF Delivered
<1> QED BY <1>1, <1>2 DEF PInv

LEMMA DiallingPlaced ==
    ASSUME SInv, Shape, PInv,
           \/ HandleConnect \/ Forward \/ Dial \/ DialFails \/ DialTimesOut
           \/ TellUnreached \/ DialSucceeds
    PROVE  PInv'
<1>1. UNCHANGED req /\ at \in {"connect", "forward", "dial", "dialing", "unreached"}
  BY DEF HandleConnect, Forward, Dial, DialFails, DialTimesOut, Unreached, TellUnreached,
     DialSucceeds
<1>2. /\ Typed /\ GoodClient(client) /\ at # "done" /\ req \in ClientItems
      /\ server # NoServer => server.got = <<>>
      /\ req.kind \in {"http", "socks"} /\ (at = "forward" => Plain(req))
  BY <1>1 DEF Shape, Typed, PInv, Deciding, Delivered, Kinds
<1>3. CASE \E kind \in {"badGateway", "denied", "refused", "unreached"} :
             Quit(Tell(client, req, kind))
  BY <1>1, <1>2, <1>3, TellGood, QuitPlaced
<1>4. CASE /\ UNCHANGED client
           /\ \/ at' \in {"dial", "dialing", "unreached", "reply"}
              \/ (at' = "proceed" /\ Plain(req))
           /\ at' = "reply" => ~Plain(req)
           /\ server' \in {server, NoServer} \/ server' = Server(Target(req))
  <2>1. server' # NoServer => server'.got = <<>>
    BY <1>2, <1>4 DEF Server
  <2>2. Kinds' /\ Continued'
    BY <1>1, <1>2, <1>4 DEF Kinds, Continued, Exchanging
  <2>3. Rest(client') = Rest(client)
    BY <1>4
  <2>4. {at, at'} \subseteq Deciding
    BY <1>1, <1>4 DEF Deciding
  <2> QED BY <1>1, <1>4, <2>1, <2>2, <2>3, <2>4, WritesPlaced
<1>5. CASE HandleConnect \/ Forward \/ Dial \/ DialFails \/ DialTimesOut \/ TellUnreached
  BY <1>2, <1>3, <1>4, <1>5 DEF HandleConnect, Forward, Dial, DialFails, DialTimesOut,
     Unreached, TellUnreached
<1>6. CASE DialSucceeds
  BY <1>2, <1>4, <1>6 DEF DialSucceeds
<1> QED BY <1>5, <1>6

LEMMA ExchangePlaced ==
    ASSUME SInv, Shape, PInv, Proceed \/ SendRequest \/ RelayResponse
    PROVE  PInv'
<1>1. UNCHANGED req /\ at \in {"proceed", "send", "response", "final"}
  BY DEF Proceed, SendRequest, RelayResponse
<1>2. /\ Typed /\ GoodClient(client) /\ at # "done" /\ req \in ClientItems
      /\ server # NoServer /\ GoodServer(server) /\ server.got = <<>>
      /\ req.kind \in {"http", "socks"} /\ Plain(req) /\ Placed
  BY <1>1, ServerAt DEF Shape, Typed, PInv, Deciding, Delivered, Kinds, Exchanging,
     WithServer
<1>3. CASE \/ Quit(client) \/ Quit(Tell(client, req, "badGateway"))
           \/ \E n \in ServerReads : Quit(Receive(client, <<Head(Buffered(server, n))>>))
  <2>1. ASSUME NEW n \in ServerReads
        PROVE  GoodClient(Receive(client, <<Head(Buffered(server, n))>>))
    <3>1. <<Head(Buffered(server, n))>> \in Seq(ToClient)
      BY <1>2, ReadServer DEF ToClient
    <3> QED BY <1>2, <3>1, ReceiveClient
  <2> QED BY <1>1, <1>2, <1>3, <2>1, TellGood, QuitPlaced
<1>4. CASE /\ Proceed /\ at' = "send" /\ UNCHANGED server
           /\ client' = IF "expect" \in req.flags
                        THEN Receive(client, Reply(req, "continue")) ELSE client
  <2>1. Reply(req, "continue") \in Seq(ToClient) /\ Reply(req, "continue") # <<>>
    BY <1>2, RepliesOK DEF Reply
  <2>2. Rest(client') = Rest(client)
    BY <1>2, <1>4, <2>1, RestReceive
  <2>3. ASSUME "expect" \in req.flags, client'.end # "gone"
        PROVE  \E i \in DOMAIN client'.got :
                 client'.got[i].kind = "continue" /\ client'.got[i].n = req'.n
    <3> DEFINE more == Reply(req, "continue")
    <3>1. client'.got = client.got \o more
      BY <1>2, <1>4, <2>1, <2>3, ReceiveClient DEF ClientFields
    <3>2. Len(more) = 1 /\ more[1].kind = "continue" /\ more[1].n = req.n
      BY DEF Reply
    <3>3. client.got \in Seq(ToClient) /\ more \in Seq(ToClient)
      BY <1>2, <2>1 DEF GoodClient
    <3> HIDE DEF more
    <3>4. /\ Len(client.got) \in Nat /\ DOMAIN client'.got = 1..(Len(client.got) + 1)
          /\ client'.got[Len(client.got) + 1] = more[1]
      BY <3>1, <3>2, <3>3, OneMore
    <3>5. Len(client.got) + 1 \in DOMAIN client'.got
      BY <3>4
    <3> QED BY <1>1, <3>2, <3>4, <3>5
  <2>4. Kinds' /\ Continued'
    BY <1>1, <1>2, <1>4, <2>3 DEF Kinds, Continued
  <2>5. {at, at'} \subseteq Deciding
    BY <1>4 DEF Deciding, Proceed
  <2> QED BY <1>1, <1>2, <1>4, <2>2, <2>4, <2>5, WritesPlaced
<1>5. CASE /\ SendRequest /\ at' = "response"
           /\ server' = [server EXCEPT !["asked"] = server.asked \cup {req}]
           /\ IF "body" \in req.flags
              THEN \E n \in ClientReads : client' = Consume(client, n)
              ELSE UNCHANGED client
  <2>1. at = "send" /\ server'.got = <<>>
    BY <1>2, <1>5 DEF SendRequest, GoodServer, ServerFields
  <2>2. Kinds' /\ Continued'
    BY <1>1, <1>2, <1>5 DEF Kinds, Continued, Exchanging
  <2>3. CASE "body" \notin req.flags
    <3>1. BodyOf(req) = 0
      BY <2>3, BodyIs
    <3>2. at \in Deciding /\ at' \in Exchanging
      BY <1>5, <2>1 DEF Deciding, Exchanging
    <3> QED BY <1>1, <1>5, <2>1, <2>2, <2>3, <3>1, <3>2, WritesPlaced
  <2>4. CASE "body" \in req.flags
    <3>1. PICK n \in ClientReads : client' = Consume(client, n)
      BY <1>5, <2>4
    <3>2. BodyOf(req') = 1
      BY <1>1, <1>2, <2>4, BodyIs
    <3>3. \A s \in Scripts : \A k \in Nat : Stands(s.items, k) => Stands(s.items, k + 1)'
      BY <1>1, <1>5, <2>1, <3>2 DEF Stands, Early, Deciding, Exchanging
    <3>4. Placed'
      BY <1>2, <1>5, <3>1, <3>3, PlacedReads
    <3>5. Delivered'
      BY <1>5, <2>1 DEF Delivered
    <3> QED BY <2>2, <3>4, <3>5 DEF PInv
  <2> QED BY <2>3, <2>4
<1>6. CASE /\ at \in {"response", "final"} /\ at' \in {"final", "switch", "next"}
           /\ \E n \in ServerReads :
                /\ server' = Consume(server, n)
                /\ client' = Receive(client, <<Head(Buffered(server, n))>>)
  <2>1. PICK n \in ServerReads :
               /\ server' = Consume(server, n)
               /\ client' = Receive(client, <<Head(Buffered(server, n))>>)
    BY <1>6
  <2>2. server'.got = <<>> /\ <<Head(Buffered(server, n))>> \in Seq(ToClient)
    BY <1>2, <2>1, ReadServer DEF ServerFields, ToClient
  <2>3. Rest(client') = Rest(client)
    BY <1>2, <2>1, <2>2, RestReceive
  <2>4. Kinds' /\ Continued'
    BY <1>1, <1>2, <1>6 DEF Kinds, Continued
  <2>5. {at, at'} \subseteq Exchanging \cup {"next", "switch", "drain"}
    BY <1>6 DEF Exchanging
  <2> QED BY <1>1, <1>6, <2>2, <2>3, <2>4, <2>5, WritesPlaced
<1>7. CASE Proceed
  BY <1>3, <1>4, <1>7 DEF Proceed
<1>8. CASE SendRequest
  BY <1>3, <1>5, <1>8 DEF SendRequest
<1>9. CASE RelayResponse
  BY <1>1, <1>3, <1>6, <1>9 DEF RelayResponse
<1> QED BY <1>7, <1>8, <1>9

\* In a tunnel the server has got what Placed says.
LEMMA TunnelStands ==
    ASSUME PInv, at \in Settled, at' = "splice", UNCHANGED req, Placed'
    PROVE  PInv'
<1>1. Kinds' /\ Continued'
  BY DEF PInv, Kinds, Continued, Deciding, Exchanging, Settled
<1>2. InOrder'
  <2>1. PICK s \in Scripts : \E k \in Nat : IsRest(Rest(client'), s.items, k) /\ Stands(s.items, k)'
    BY DEF Placed
  <2>2. \E j \in DOMAIN s.items :
           s.items[j] = req' /\ Follows(server'.got, s.items, j + BodyOf(req'))
    BY <2>1 DEF Stands
  <2> QED BY <2>2 DEF InOrder
<1>3. Delivered'
  BY <1>2 DEF Delivered
<1> QED BY <1>1, <1>3 DEF PInv

LEMMA DrainClientPlaced ==
    ASSUME SInv, Shape, PInv, DrainClient, at' = "splice"
    PROVE  PInv'
<1>1. /\ at = "drain" /\ UNCHANGED req /\ server' = Receive(server, client.buf)
      /\ client' = [client EXCEPT !.buf = <<>>]
  BY DEF DrainClient, Quit
<1>2. /\ Typed /\ GoodClient(client) /\ Placed /\ server # NoServer /\ GoodServer(server)
      /\ server.got = <<>>
  BY <1>1, ServerAt DEF Shape, Typed, PInv, Delivered, WithServer
<1>3. /\ client.buf \in Seq(ClientItems) /\ client.queue \in Seq(ClientItems)
      /\ client.left \in Seq(ClientItems)
  BY <1>2 DEF GoodClient
<1>4. client'.buf = <<>> /\ client'.queue = client.queue /\ client'.left = client.left
  BY <1>1, <1>2 DEF GoodClient, ClientFields
<1> DEFINE rest == client.queue \o client.left
<1>5. rest \in Seq(ClientItems)
  BY <1>3, ConcatProperties
<1>6. Rest(client) = client.buf \o rest
  <2>1. (client.buf \o client.queue) \o client.left = client.buf \o (client.queue \o client.left)
    BY <1>3, Associative
  <2> QED BY <2>1, Zenon DEF Rest, Held
<1>7. Rest(client') = rest
  <2>1. <<>> \o client.queue = client.queue
    BY <1>3, ConcatEmptySeq
  <2> QED BY <1>4, <2>1, Zenon DEF Rest, Held
<1> HIDE DEF rest
<1>8. PICK s \in Scripts : \E k \in Nat : IsRest(Rest(client), s.items, k) /\ Stands(s.items, k)
  BY <1>1, <1>2 DEF Placed
<1>9. PICK k \in Nat : IsRest(client.buf \o rest, s.items, k) /\ Stands(s.items, k)
  BY <1>6, <1>8
<1>10. Follows(client.buf, s.items, k) /\ IsRest(rest, s.items, k + Len(client.buf))
  BY <1>3, <1>5, <1>9, FollowsParts
<1>11. k - BodyOf(req) \in DOMAIN s.items /\ s.items[k - BodyOf(req)] = req
  BY <1>1, <1>9 DEF Stands
<1>12. Len(client.buf) \in Nat /\ BodyOf(req) \in {0, 1}
  BY <1>3, LenProperties, BodyIs
<1>13. server'.end = server.end /\ (server'.got = IF server.end = "gone" THEN <<>> ELSE client.buf)
  <2>1. /\ server'.end = server.end
        /\ server'.got = IF server.end = "gone" THEN server.got ELSE server.got \o client.buf
    BY <1>1, <1>2, <1>3, ReceiveServer DEF ServerFields
  <2>2. <<>> \o client.buf = client.buf
    BY <1>3, ConcatEmptySeq
  <2> QED BY <1>2, <2>1, <2>2, Zenon
<1>14. Follows(server'.got, s.items, k)
  BY <1>10, <1>13 DEF Follows
<1>15. PICK m \in Nat : m = k + Len(client.buf)
  BY <1>12
<1>16. Stands(s.items, m)'
  <2>1. PICK j \in Nat : j = k - BodyOf(req)
    <3>1. k - BodyOf(req) \in Nat
      BY <1>9, <1>11, LenProperties DEF IsRest
    <3> QED BY <3>1
  <2>2. j \in DOMAIN s.items /\ s.items[j] = req' /\ j + BodyOf(req') = k
    BY <1>1, <1>11, <1>12, <2>1
  <2>3. Follows(server'.got, s.items, j + BodyOf(req'))
    BY <1>14, <2>2
  <2>4. server'.end # "gone" => m = j + BodyOf(req') + Len(server'.got)
    BY <1>13, <1>15, <2>2
  <2> QED BY <2>2, <2>3, <2>4 DEF Stands, Early, Deciding, Exchanging
<1>17. IsRest(Rest(client'), s.items, m)
  BY <1>7, <1>10, <1>15
<1>18. Placed'
  BY <1>16, <1>17 DEF Placed
<1> QED BY <1>1, <1>18, TunnelStands DEF Settled

LEMMA CopyUpPlaced ==
    ASSUME SInv, Shape, PInv, CopyUp
    PROVE  PInv'
<1>1. /\ at = "splice" /\ UNCHANGED <<at, req>> /\ client.queue # <<>>
      /\ server' = Receive(server, <<Head(client.queue)>>)
      /\ client' = [client EXCEPT !.queue = Tail(client.queue)]
  BY DEF CopyUp
<1>2. /\ Typed /\ GoodClient(client) /\ Placed /\ GoodServer(server) /\ client.buf = <<>>
  BY <1>1, SpliceAt DEF PInv
<1>3. /\ client.queue \in Seq(ClientItems) /\ client.left \in Seq(ClientItems)
      /\ server.got \in Seq(ClientItems)
  BY <1>2 DEF GoodClient, GoodServer
<1>4. client'.buf = <<>> /\ client'.queue = Tail(client.queue) /\ client'.left = client.left
  BY <1>1, <1>2 DEF GoodClient, ClientFields
<1>5. Head(client.queue) \in ClientItems /\ Tail(client.queue) \in Seq(ClientItems)
  BY <1>1, <1>3, HeadTailProperties
<1>6. Rest(client) = client.queue \o client.left
  <2>1. <<>> \o client.queue = client.queue
    BY <1>3, ConcatEmptySeq
  <2> QED BY <1>2, <2>1, Zenon DEF Rest, Held
<1>7. Rest(client') = Tail(client.queue) \o client.left
  <2>1. <<>> \o Tail(client.queue) = Tail(client.queue)
    BY <1>5, ConcatEmptySeq
  <2> QED BY <1>4, <2>1, Zenon DEF Rest, Held
<1>8. /\ Rest(client) # <<>> /\ Head(Rest(client)) = Head(client.queue)
      /\ Tail(Rest(client)) = Rest(client')
  BY <1>1, <1>3, <1>6, <1>7, TailOfConcat
<1>9. PICK s \in Scripts : \E k \in Nat : IsRest(Rest(client), s.items, k) /\ Stands(s.items, k)
  BY <1>1, <1>2 DEF Placed
<1>10. PICK k \in Nat : IsRest(Rest(client), s.items, k) /\ Stands(s.items, k)
  BY <1>9
<1>11. /\ k + 1 \in DOMAIN s.items /\ Head(client.queue) = s.items[k + 1]
       /\ IsRest(Rest(client'), s.items, k + 1)
  BY <1>8, <1>10, FollowsTail
<1>12. PICK j \in DOMAIN s.items :
         /\ s.items[j] = req /\ Follows(server.got, s.items, j + BodyOf(req))
         /\ server.end # "gone" => k = j + BodyOf(req) + Len(server.got)
  BY <1>1, <1>10 DEF Stands
<1>13. j + BodyOf(req) \in Nat
  <2>1. s.items \in Seq(ClientItems)
    BY <1>10 DEF IsRest
  <2>2. j \in Nat
    BY <2>1, LenProperties
  <2> QED BY <2>2, BodyIs
<1>14. /\ server'.end = server.end
       /\ server'.got = IF server.end = "gone" THEN server.got
                        ELSE server.got \o <<Head(client.queue)>>
  <2>1. <<Head(client.queue)>> \in Seq(ClientItems)
    BY <1>5
  <2> QED BY <1>1, <1>2, <2>1, ReceiveServer DEF ServerFields
<1>15. Stands(s.items, k + 1)'
  <2>1. CASE server.end = "gone"
    BY <1>1, <1>12, <1>14, <2>1 DEF Stands, Early, Deciding, Exchanging
  <2>2. CASE server.end # "gone"
    <3>1. k = j + BodyOf(req) + Len(server.got)
      BY <1>12, <2>2
    <3>2. /\ Follows(server'.got, s.items, j + BodyOf(req))
          /\ Len(server'.got) = Len(server.got) + 1
      BY <1>3, <1>5, <1>11, <1>12, <1>13, <1>14, <2>2, <3>1, FollowsOneMore
    <3>3. k + 1 = j + BodyOf(req) + Len(server'.got)
      <4>1. Len(server.got) \in Nat
        BY <1>3, LenProperties
      <4> QED BY <1>13, <3>1, <3>2, <4>1
    <3> QED BY <1>1, <1>12, <3>2, <3>3 DEF Stands, Early, Deciding, Exchanging
  <2> QED BY <2>1, <2>2
<1>16. Placed'
  BY <1>11, <1>15 DEF Placed
<1> QED BY <1>1, <1>16, TunnelStands DEF Settled

LEMMA TunnelPlaced ==
    ASSUME SInv, Shape, PInv, \/ ReplyOK \/ DrainServer \/ DrainClient \/ SpliceEnds
                              \/ CopyUp \/ CopyDown \/ UpEnds \/ DownEnds
    PROVE  PInv'
<1>1. /\ at \in {"reply", "switch", "drain", "splice"} /\ UNCHANGED req
  BY DEF ReplyOK, DrainServer, DrainClient, SpliceEnds, CopyUp, CopyDown, UpEnds, DownEnds
<1>2. /\ Typed /\ GoodClient(client) /\ at # "done" /\ Placed /\ req \in ClientItems
      /\ GoodServer(server) /\ (at # "splice" => server.got = <<>>)
      /\ req.kind \in {"http", "socks"} /\ (at = "reply" => ~Plain(req))
  BY <1>1, ServerAt DEF Shape, Typed, PInv, Delivered, WithServer, Kinds, Deciding, Settled
<1>3. CASE Quit(client)
  BY <1>1, <1>2, <1>3, QuitPlaced
<1>4. CASE /\ at = "reply" /\ client' = Receive(client, Reply(req, "ok"))
           /\ at' = "drain" /\ UNCHANGED server
  <2>1. Reply(req, "ok") \in Seq(ToClient)
    BY <1>2, RepliesOK
  <2>2. Rest(client') = Rest(client)
    BY <1>2, <1>4, <2>1, RestReceive
  <2>3. BodyOf(req) = 0
    BY <1>2, <1>4, BodyIs
  <2>4. Kinds' /\ Continued'
    BY <1>1, <1>2, <1>4 DEF Kinds, Continued, Exchanging
  <2>5. at \in Deciding
    BY <1>4 DEF Deciding
  <2> QED BY <1>1, <1>2, <1>4, <2>2, <2>3, <2>4, <2>5, WritesPlaced
<1>5. CASE /\ at = "switch" /\ client' = Receive(client, server.buf)
           /\ server' = [server EXCEPT !.buf = <<>>] /\ at' = "drain"
  <2>1. server.buf \in Seq(ToClient)
    BY <1>2 DEF GoodServer, ToClient
  <2>2. Rest(client') = Rest(client)
    BY <1>2, <1>5, <2>1, RestReceive
  <2>3. server'.got = <<>>
    BY <1>2, <1>5 DEF GoodServer, ServerFields
  <2>4. Kinds' /\ Continued'
    BY <1>1, <1>2, <1>5 DEF Kinds, Continued, Exchanging
  <2> QED BY <1>1, <1>5, <2>2, <2>3, <2>4, WritesPlaced
<1>6. CASE CopyDown \/ UpEnds \/ DownEnds
  <2>1. at = "splice" /\ UNCHANGED at
    BY <1>6 DEF CopyDown, UpEnds, DownEnds
  <2>2. Rest(client') = Rest(client)
    <3>1. CASE UpEnds
      BY <3>1 DEF UpEnds
    <3>2. CASE DownEnds
      <4>1. /\ client'.buf = client.buf /\ client'.queue = client.queue
            /\ client'.left = client.left
        BY <1>2, <3>2 DEF DownEnds, GoodClient, ClientFields
      <4> QED BY <4>1, Zenon DEF Rest, Held
    <3>3. CASE CopyDown
      <4>1. /\ client' = Receive(client, <<Head(server.queue)>>) /\ server.queue # <<>>
        BY <3>3 DEF CopyDown
      <4>2. Head(server.queue) \in ServerItems
        BY <1>2, <4>1, HeadTailProperties DEF GoodServer
      <4>3. <<Head(server.queue)>> \in Seq(ToClient)
        BY <4>2 DEF ToClient
      <4> QED BY <1>2, <4>1, <4>3, RestReceive
    <3> QED BY <1>6, <3>1, <3>2, <3>3
  <2>3. server'.got = server.got /\ server'.end = server.end
    BY <1>2, <1>6 DEF CopyDown, UpEnds, DownEnds, GoodServer, ServerFields
  <2>4. Placed'
    BY <1>1, <1>2, <2>1, <2>2, <2>3, PlacedMoves
  <2> QED BY <1>1, <2>1, <2>4, TunnelStands DEF Settled
<1>7. CASE ReplyOK
  BY <1>3, <1>4, <1>7 DEF ReplyOK
<1>8. CASE DrainServer
  BY <1>3, <1>5, <1>8 DEF DrainServer
<1>9. CASE DrainClient
  BY <1>3, <1>9, DrainClientPlaced DEF DrainClient
<1> QED BY <1>3, <1>6, <1>7, <1>8, <1>9, CopyUpPlaced DEF SpliceEnds

\* The peers send and go; the guard and the clock leave both connections.
LEMMA PeersPlaced ==
    ASSUME SInv, Shape, PInv, Peers
    PROVE  PInv'
<1>1. UNCHANGED <<at, req>> /\ at # "done"
  BY DEF Peers, ClientSends, ClientEnds, ClientStops, ServerAnswers, ServerSends,
     ServerEnds, ServerStops
<1>2. GoodClient(client) /\ (server # NoServer => GoodServer(server))
  BY DEF Shape, Typed
<1>3. Kinds'
  BY <1>1 DEF PInv, Kinds
<1>4. CASE ClientSends \/ ClientEnds \/ ClientStops
  <2>1. UNCHANGED server
    BY <1>4 DEF ClientSends, ClientEnds, ClientStops
  <2>2. Rest(client') = Rest(client)
    <3>1. CASE ClientSends
      BY <1>2, <3>1, RestSends
    <3>2. CASE ClientEnds \/ ClientStops
      <4>1. /\ client'.buf = client.buf /\ client'.queue = client.queue
            /\ client'.left = client.left
        BY <1>2, <3>2, ClientEndsIs DEF ClientFields
      <4> QED BY <4>1, Zenon DEF Rest, Held
    <3> QED BY <1>4, <3>1, <3>2
  <2>3. Placed'
    BY <1>1, <2>1, <2>2, PlacedMoves DEF PInv
  <2>4. client'.got = client.got /\ (client'.end # "gone" => client.end # "gone")
    BY <1>2, <1>4, ClientSendsIs, ClientEndsIs DEF ClientFields
  <2>5. Continued'
    BY <1>1, <2>4 DEF PInv, Continued
  <2>6. Delivered'
    BY <1>1, <2>1 DEF PInv, Delivered, InOrder
  <2> QED BY <1>3, <2>3, <2>5, <2>6 DEF PInv
<1>5. CASE ServerAnswers \/ ServerSends \/ ServerEnds \/ ServerStops
  <2>1. server # NoServer /\ GoodServer(server)
    BY <1>2, <1>5 DEF ServerAnswers, ServerSends, ServerEnds, ServerStops
  <2>2. /\ UNCHANGED client /\ server'.got = server.got
        /\ server'.end # "gone" => server.end # "gone"
    BY <1>5, <2>1, ServerAnswersIs, ServerSendsIs, ServerEndsIs DEF ServerFields
  <2>3. Placed'
    BY <1>1, <2>2, PlacedMoves DEF PInv
  <2>4. Continued'
    BY <1>1, <2>2 DEF PInv, Continued
  <2>5. Delivered'
    BY <1>1, <2>1, <2>2 DEF PInv, Delivered, InOrder
  <2> QED BY <1>3, <2>3, <2>4, <2>5 DEF PInv
<1> QED BY <1>4, <1>5 DEF Peers

LEMMA AsidePlaced ==
    ASSUME SInv, Shape, PInv, Aside
    PROVE  PInv'
<1>1. UNCHANGED <<client, server, req>>
  BY DEF Aside
<1>2. CASE UNCHANGED at
  BY <1>1, <1>2 DEF PInv, Kinds, Placed, Stands, Delivered, InOrder, Continued
<1>3. CASE at \in {"idle", "backlog"} /\ at' = "done"
  <2>1. server = NoServer
    BY <1>3 DEF SInv, Connected, MayHaveServer, WithServer
  <2> QED BY <1>1, <1>3, <2>1 DEF PInv, Kinds, Placed, Delivered, Continued, Deciding,
             Exchanging, Settled
<1>4. CASE at \in {"idle", "backlog"} /\ at' \in {"backlog", "greeting", "first"}
  <2>1. {at, at'} \subseteq Early \ {"request"} /\ at # "done"
    BY <1>4 DEF Early
  <2>2. Placed'
    BY <1>1, <2>1, PlacedMoves DEF PInv
  <2>3. Kinds' /\ Delivered' /\ Continued'
    BY <1>1, <1>4 DEF PInv, Kinds, Delivered, Continued, Deciding, Exchanging, Settled
  <2> QED BY <2>2, <2>3 DEF PInv
<1> QED BY <1>2, <1>3, <1>4 DEF Aside, Tick

LEMMA InitPInv == Init => PInv
<1> SUFFICES ASSUME Init
             PROVE  PInv
  OBVIOUS
<1>1. at = "idle" /\ server = NoServer
  BY DEF Init
<1>2. PICK s \in Scripts : client = Client(s.items)
  BY DEF Init
<1>3. s.items \in Seq(ClientItems)
  <2>1. s.items \in Seq({s.items[k] : k \in DOMAIN s.items})
    BY ScriptsOK
  <2>2. {s.items[k] : k \in DOMAIN s.items} \subseteq ClientItems
    BY DEF ClientItems
  <2> QED BY <2>1, <2>2
<1>4. Rest(client) = s.items
  <2>1. client.buf = <<>> /\ client.queue = <<>> /\ client.left = s.items
    BY <1>2 DEF Client
  <2>2. <<>> \o <<>> = <<>> /\ <<>> \o s.items = s.items
    BY <1>3, ConcatEmptySeq, EmptySeq
  <2> QED BY <2>1, <2>2, Zenon DEF Rest, Held
<1>5. IsRest(Rest(client), s.items, 0)
  <2>1. Len(s.items) \in Nat /\ DOMAIN s.items = 1..Len(s.items)
    BY <1>3, LenProperties
  <2> QED BY <1>3, <1>4, <2>1 DEF IsRest, Follows
<1>6. Stands(s.items, 0)
  BY <1>1 DEF Stands, Deciding, Exchanging
<1>7. Placed
  BY <1>5, <1>6 DEF Placed
<1>8. Kinds /\ Delivered /\ Continued
  BY <1>1 DEF Kinds, Delivered, Continued, Deciding, Exchanging, Settled
<1> QED BY <1>7, <1>8 DEF PInv

LEMMA NextPInv == GInv /\ Shape /\ PInv /\ [Next]_vars => PInv'
<1> SUFFICES ASSUME GInv, Shape, PInv, [Next]_vars
             PROVE  PInv'
  OBVIOUS
<1>1. SInv
  BY DEF GInv
<1>2. CASE Handler \/ DialSucceeds \/ DialFails \/ Copy
  BY <1>1, <1>2, NegotiationPlaced, DiallingPlaced, ExchangePlaced, TunnelPlaced
     DEF Handler, Copy
<1>3. CASE Peers
  BY <1>1, <1>3, PeersPlaced
<1>4. CASE Aside
  BY <1>1, <1>4, AsidePlaced
<1> QED BY <1>2, <1>3, <1>4, AsideOf DEF Next, Session

\* The client and the proxy never wait for each other over an announced body
\* (netguard.go:582-584).
LEMMA NobodyWaits ==
    ASSUME Shape, PInv
    PROVE  NoMutualWait
<1> SUFFICES ASSUME at = "send", "body" \in req.flags, client.end = "open",
                    client.left # <<>>, client.queue = <<>>, client.buf = <<>>,
                    Head(client.left).kind = "body", "expect" \in Head(client.left).flags
             PROVE  \E i \in DOMAIN client.got :
                      client.got[i].kind = "continue" /\ client.got[i].n = Head(client.left).n
  BY DEF NoMutualWait, MaySend
<1>1. client.left \in Seq(ClientItems)
  BY DEF Shape, Typed, GoodClient
<1>2. Rest(client) = client.left
  <2>1. <<>> \o <<>> = <<>> /\ <<>> \o client.left = client.left
    BY <1>1, ConcatEmptySeq, EmptySeq
  <2> QED BY <2>1, Zenon DEF Rest, Held
<1>3. PICK s \in Scripts : \E k \in Nat : IsRest(Rest(client), s.items, k) /\ Stands(s.items, k)
  BY DEF PInv, Placed
<1>4. PICK k \in Nat : IsRest(Rest(client), s.items, k) /\ Stands(s.items, k)
  BY <1>3
<1>5. k + 1 \in DOMAIN s.items /\ Head(client.left) = s.items[k + 1]
  BY <1>2, <1>4, FollowsTail
<1>6. s.items[k] = req
  BY <1>4 DEF Stands, Deciding
<1>7. ItemOK(s.items, k + 1)
  BY <1>5, ScriptsOK
<1>8. "expect" \in s.items[(k + 1) - 1].flags /\ s.items[(k + 1) - 1].n = s.items[k + 1].n
  BY <1>5, <1>7 DEF ItemOK
<1>9. (k + 1) - 1 = k
  OBVIOUS
<1>10. "expect" \in req.flags /\ req.n = Head(client.left).n
  BY <1>5, <1>6, <1>8, <1>9
<1> QED BY <1>10 DEF PInv, Continued

\* Requests are numbered as they come.
LEMMA NumberRead ==
    ASSUME Shape, PInv, at # "done", NEW n \in ClientReads,
           NEW item, item = Head(Buffered(client, n))
    PROVE  /\ item \in ClientItems
           /\ at = "first" /\ item.kind = "http" => item.n = 1
           /\ at = "request" /\ item.kind = "socks" => item.n = 1
           /\ at = "next" /\ item.kind = "http" => item.n = req.n + 1
<1>1. item \in ClientItems
  BY ReadClient DEF Shape
<1>2. PICK s \in Scripts : \E k \in Nat : IsRest(Rest(client), s.items, k) /\ Stands(s.items, k)
  BY DEF PInv, Placed
<1>3. PICK k \in Nat : IsRest(Rest(client), s.items, k) /\ Stands(s.items, k)
  BY <1>2
<1>4. Rest(client) # <<>> /\ item = Head(Rest(client))
  BY RestRead DEF Shape
<1>5. k + 1 \in DOMAIN s.items /\ item = s.items[k + 1]
  BY <1>3, <1>4, FollowsTail
<1>6. ItemOK(s.items, k + 1)
  BY <1>5, ScriptsOK
<1>7. ASSUME at = "first", item.kind = "http"
      PROVE  item.n = 1
  <2>1. k = 0
    BY <1>3, <1>7 DEF Stands, Early
  <2> QED BY <1>5, <1>6, <1>7, <2>1 DEF ItemOK
<1>8. ASSUME at = "request", item.kind = "socks"
      PROVE  item.n = 1
  <2>1. k = 1
    BY <1>3, <1>8 DEF Stands, Early
  <2> QED BY <1>5, <1>6, <1>8, <2>1 DEF ItemOK
<1>9. ASSUME at = "next", item.kind = "http"
      PROVE  item.n = req.n + 1
  <2>1. PICK j : j = k - BodyOf(req)
    OBVIOUS
  <2>2. j \in DOMAIN s.items /\ s.items[j] = req
    BY <1>3, <1>9, <2>1 DEF Stands
  <2>3. ItemOK(s.items, j)
    BY <2>2, ScriptsOK
  <2>4. j + 1 + BodyOf(req) = k + 1
    BY <2>1, BodyIs
  <2>5. req.kind = "http"
    BY <1>9 DEF PInv, Kinds, Plain
  <2> QED BY <1>5, <1>9, <2>2, <2>3, <2>4, <2>5 DEF ItemOK
<1> QED BY <1>1, <1>7, <1>8, <1>9

\* The client that holds its body back for a 100 and the proxy that is about
\* to read the body never wait for each other (netguard.go:582-584).
THEOREM NeverWaitForEachOther == Spec => []NoMutualWait
<1>1. Init => Shape /\ PInv
  BY InitShape, InitPInv
<1>2. GInv /\ Shape /\ PInv /\ [Next]_vars => Shape' /\ PInv'
  BY NextShape, NextPInv
<1>3. Shape /\ PInv => NoMutualWait
  BY NobodyWaits
<1> QED BY <1>1, <1>2, <1>3, Invariant, PTL DEF Spec
=============================================================================
