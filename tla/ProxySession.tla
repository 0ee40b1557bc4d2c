---------------------------- MODULE ProxySession ----------------------------
(***************************************************************************)
(* One connection to a proxy: handleSocks and handleHTTP in netguard.go,    *)
(* with everything they call, against a client and servers that send, close *)
(* and vanish when they like.                                              *)
(*                                                                         *)
(* What a peer sends is a sequence of items: a whole greeting, request,    *)
(* body, response or piece of a stream.  An item is in the socket (queue), *)
(* then in the bufio.Reader of the proxy (buf), then used.  One read takes *)
(* any number of items out of the socket.  Time passes in ticks; a         *)
(* deadline is the number of ticks that are left.                          *)
(***************************************************************************)
EXTENDS Allowlist

CONSTANTS Configs,     \* the allow rules of a policy file and of the flags
          Scripts,     \* what a client sends: a listener and a sequence of items
          DialTimeout, \* dialTimeout, in ticks
          IdleTimeout, \* keepAliveIdleTimeout, in ticks
          MaxData,     \* how many pieces of a stream a server sends
          Never        \* no deadline

ASSUME SessionConstantsOK ==
    /\ DialTimeout \in Nat \ {0} /\ IdleTimeout \in Nat \ {0}
    /\ MaxData \in Nat
    /\ Never \notin Nat

Connect(item) == "CONNECT" \in item.flags
Plain(item) == item.kind = "http" /\ ~Connect(item)

\* How many items the body of a request is.
BodyOf(item) == IF Plain(item) /\ "body" \in item.flags THEN 1 ELSE 0

\* Clients may send anything.  Their requests are numbered for the properties:
\* from 1, one by one, with a body between them where one is announced.  Only
\* a body whose request announced Expect: 100-continue is held back.
ItemOK(items, k) ==
    LET item == items[k]
        next == k + 1 + BodyOf(item)
    IN  /\ item.n \in Nat
        /\ (item.kind = "http" /\ k = 1) \/ (item.kind = "socks" /\ k = 2) => item.n = 1
        /\ item.kind = "http" /\ next \in DOMAIN items /\ items[next].kind = "http"
             => items[next].n = item.n + 1
        /\ item.kind = "body" /\ "expect" \in item.flags
             => k > 1 /\ "expect" \in items[k - 1].flags /\ items[k - 1].n = item.n
        /\ item.kind \in {"http", "socks"}
             => item.target.host \in Seq(DOMAIN LowerCase) \ {<<>>}

ASSUME ScriptsOK ==
    \A s \in Scripts :
        /\ s.items \in Seq({s.items[k] : k \in DOMAIN s.items})
        /\ \A k \in DOMAIN s.items : ItemOK(s.items, k)

VARIABLES
    config,    \* the allow rules the user gave
    rules,     \* the allowlist they were parsed to
    proto,     \* the listener the client is connected to
    at,        \* the step of the handler
    req,       \* the request it works on
    client,    \* the connection to the client
    server,    \* the connection to the server
    upstreams, \* how many connections to servers are open
    timer      \* the deadlines of reads, of writes and of the dial

sessionVars == <<config, rules, proto, at, req, client, server, upstreams, timer>>

-----------------------------------------------------------------------------
(* Connections                                                             *)

\* A client that will send script; shut is what the proxy has closed.
Client(script) == [left |-> script, queue |-> <<>>, buf |-> <<>>, end |-> "open",
                   reads |-> TRUE, got |-> <<>>, shut |-> "open"]

\* A fresh server: the requests it was asked and has answered, the stream it
\* got, and how much of a stream it has sent.
Server(target) == [target |-> target, queue |-> <<>>, buf |-> <<>>, end |-> "open",
                   reads |-> TRUE, asked |-> {}, answered |-> {}, got |-> <<>>,
                   shut |-> "open", sent |-> 0]

\* No connection to a server.
NoServer == [shut |-> "none"]

NoTimer == [read |-> Never, write |-> Never, dial |-> Never]

\* How many items one read moves into the buffer, which it first uses up.
Fills(conn) == IF conn.buf # <<>> THEN {0} ELSE 1..Len(conn.queue)
Buffered(conn, n) == conn.buf \o SubSeq(conn.queue, 1, n)
Consume(conn, n) == [conn EXCEPT !.buf = Tail(Buffered(conn, n)),
                                 !.queue = SubSeq(@, n + 1, Len(@))]

\* The end of the stream, or an error in its place.
AtEnd(conn) ==
    conn.end = "gone" \/ (conn.end = "half" /\ conn.queue = <<>>)

ClientReads == {n \in Fills(client) : client.buf # <<>> \/ timer.read # 0}
ClientReadFails == client.buf = <<>> /\ (timer.read = 0 \/ AtEnd(client))
ServerReads == Fills(server)
ServerReadFails == server.buf = <<>> /\ AtEnd(server)

\* A peer that is gone gets nothing; a write may succeed all the same.
Receive(conn, items) ==
    IF conn.end = "gone" THEN conn ELSE [conn EXCEPT !.got = @ \o items]

\* A write to a peer that does not read waits, until its deadline if it has one.
Takes(conn) == conn.end = "gone" \/ conn.reads
Stuck(from, to) == from.queue # <<>> /\ ~Takes(to)

ClientWrites == timer.write # 0 /\ Takes(client)
ClientWriteFails == timer.write = 0 \/ client.end = "gone"
ServerWriteFails == server.end = "gone"

Reply(item, kind) == <<[kind |-> kind, n |-> item.n]>>

\* The best effort of a handler that gives up, once MayTell.
MayTell == ClientWrites \/ ClientWriteFails
Tell(conn, item, kind) ==
    IF ClientWrites THEN Receive(conn, Reply(item, kind)) ELSE conn

\* The handler returns: everything it has open is closed.
Quit(conn) ==
    /\ at' = "done"
    /\ client' = [conn EXCEPT !.shut = "closed"]
    /\ IF server = NoServer THEN UNCHANGED <<server, upstreams>>
       ELSE /\ server' = [server EXCEPT !.shut = "closed"]
            /\ upstreams' = upstreams - 1
    /\ timer' = NoTimer

-----------------------------------------------------------------------------
(* Negotiation                                                             *)

\* Mutant: the negotiation has no deadline.
StartWithoutDeadline ==
    /\ at' = IF proto = "socks" THEN "greeting" ELSE "first"
    /\ timer' = NoTimer

\* handleSocks and handleHTTP begin with the same deadline.
StartSession ==
    /\ at' = IF proto = "socks" THEN "greeting" ELSE "first"
    /\ timer' = [NoTimer EXCEPT !.read = DialTimeout, !.write = DialTimeout]

ReadGreeting ==
    /\ at = "greeting"
    /\ \/ ClientReadFails /\ Quit(client)
       \/ \E n \in ClientReads :
            LET item == Head(Buffered(client, n)) IN
            \/ /\ item.kind = "greet" /\ ClientWrites
               /\ client' = Receive(Consume(client, n), Reply(req, "method"))
               /\ at' = "request"
               /\ UNCHANGED <<server, upstreams, timer>>
            \/ /\ item.kind # "greet" \/ ClientWriteFails
               /\ Quit(Consume(client, n))
    /\ UNCHANGED <<config, rules, proto, req>>

ReadSocksRequest ==
    /\ at = "request"
    /\ \/ ClientReadFails /\ Quit(client) /\ UNCHANGED req
       \/ \E n \in ClientReads :
            LET item == Head(Buffered(client, n)) IN
            IF item.kind # "socks" THEN Quit(Consume(client, n)) /\ UNCHANGED req
            ELSE /\ req' = item
                 /\ IF "bind" \in item.flags
                    THEN MayTell /\ Quit(Tell(Consume(client, n), item, "refused"))
                    ELSE /\ at' = "dial"
                         /\ client' = Consume(client, n)
                         /\ UNCHANGED <<server, upstreams, timer>>
    /\ UNCHANGED <<config, rules, proto>>

\* A first request, or another one on a connection that was kept.  A CONNECT
\* on such a connection has no use for the server of the last request.
ReadRequest ==
    /\ at \in {"first", "next"}
    /\ \/ ClientReadFails /\ Quit(client) /\ UNCHANGED req
       \/ \E n \in ClientReads :
            LET item == Head(Buffered(client, n)) IN
            IF item.kind # "http" THEN Quit(Consume(client, n)) /\ UNCHANGED req
            ELSE /\ req' = item
                 /\ client' = Consume(client, n)
                 /\ timer' = IF at = "next" THEN [timer EXCEPT !.read = Never]
                             ELSE timer
                 /\ at' = IF Connect(item) THEN "connect" ELSE "forward"
                 /\ IF Connect(item) /\ server # NoServer
                    THEN server' = NoServer /\ upstreams' = upstreams - 1
                    ELSE UNCHANGED <<server, upstreams>>
    /\ UNCHANGED <<config, rules, proto>>

-----------------------------------------------------------------------------
(* Dialling                                                                *)

\* SOCKS names its port; CONNECT and plain requests have a default.
Target(item) ==
    IF item.kind = "socks" THEN item.target
    ELSE targetOf(item.target, IF Connect(item) THEN 443 ELSE 80)

HandleConnect ==
    /\ at = "connect"
    /\ IF PortInRange(Target(req).port)
       THEN at' = "dial" /\ UNCHANGED <<client, server, upstreams, timer>>
       ELSE MayTell /\ Quit(Tell(client, req, "refused"))
    /\ UNCHANGED <<config, rules, proto, req>>

\* Mutant: a kept connection serves every target.
ForwardOnKept ==
    /\ at = "forward"
    /\ \/ /\ "https" \in req.flags \/ ~PortInRange(Target(req).port)
          /\ MayTell /\ Quit(Tell(client, req, "refused"))
       \/ /\ "https" \notin req.flags /\ PortInRange(Target(req).port)
          /\ at' = IF server # NoServer THEN "proceed" ELSE "dial"
          /\ UNCHANGED <<client, server, upstreams, timer>>
    /\ UNCHANGED <<config, rules, proto, req>>

\* Mutant: the old server is forgotten, but stays open.
ForwardForgets ==
    /\ at = "forward"
    /\ \/ /\ "https" \in req.flags \/ ~PortInRange(Target(req).port)
          /\ MayTell /\ Quit(Tell(client, req, "refused"))
       \/ /\ "https" \notin req.flags /\ PortInRange(Target(req).port)
          /\ IF server # NoServer /\ server.target = Target(req)
             THEN at' = "proceed" /\ UNCHANGED server
             ELSE at' = "dial" /\ server' = NoServer
          /\ UNCHANGED <<client, upstreams, timer>>
    /\ UNCHANGED <<config, rules, proto, req>>

\* The connection to the last server is used again for the same host and
\* port, and closed before any other is dialled.
Forward ==
    /\ at = "forward"
    /\ \/ /\ "https" \in req.flags \/ ~PortInRange(Target(req).port)
          /\ MayTell /\ Quit(Tell(client, req, "refused"))
       \/ /\ "https" \notin req.flags /\ PortInRange(Target(req).port)
          /\ IF server # NoServer /\ server.target = Target(req)
             THEN at' = "proceed" /\ UNCHANGED <<server, upstreams>>
             ELSE /\ at' = "dial"
                  /\ server' = NoServer
                  /\ upstreams' = upstreams - (IF server = NoServer THEN 0 ELSE 1)
          /\ UNCHANGED <<client, timer>>
    /\ UNCHANGED <<config, rules, proto, req>>

\* The allowlist is asked for the name, before anything is resolved.
Dial ==
    /\ at = "dial"
    /\ IF permits(rules, Target(req).host, Target(req).port)
       THEN /\ at' = "dialing"
            /\ timer' = [timer EXCEPT !.dial = DialTimeout]
            /\ UNCHANGED <<client, server, upstreams>>
       ELSE MayTell /\ Quit(Tell(client, req, "denied"))
    /\ UNCHANGED <<config, rules, proto, req>>

\* The dial has returned an error.
Unreached ==
    /\ at' = "unreached"
    /\ timer' = [timer EXCEPT !.dial = Never]
    /\ UNCHANGED <<config, rules, proto, req, client, server, upstreams>>

DialSucceeds ==
    /\ at = "dialing"
    /\ timer.dial # 0
    /\ server' = Server(Target(req))
    /\ upstreams' = upstreams + 1
    /\ timer' = [timer EXCEPT !.dial = Never]
    /\ at' = IF Plain(req) THEN "proceed" ELSE "reply"
    /\ UNCHANGED <<config, rules, proto, req, client>>

\* The name does not resolve, or nobody answers.
DialFails ==
    /\ at = "dialing" /\ timer.dial # 0
    /\ Unreached

DialTimesOut ==
    /\ at = "dialing" /\ timer.dial = 0
    /\ Unreached

TellUnreached ==
    /\ at = "unreached" /\ MayTell
    /\ Quit(Tell(client, req, "unreached"))
    /\ UNCHANGED <<config, rules, proto, req>>

-----------------------------------------------------------------------------
(* A tunnel: SOCKS, CONNECT, or HTTP after 101 Switching Protocols         *)

\* Mutant: the deadline of the negotiation stays.
ReplyKeepsDeadline ==
    /\ at = "reply"
    /\ \/ /\ ClientWrites
          /\ client' = Receive(client, Reply(req, "ok"))
          /\ at' = "drain"
          /\ UNCHANGED <<server, upstreams, timer>>
       \/ ClientWriteFails /\ Quit(client)
    /\ UNCHANGED <<config, rules, proto, req>>

ReplyOK ==
    /\ at = "reply"
    /\ \/ /\ ClientWrites
          /\ client' = Receive(client, Reply(req, "ok"))
          /\ timer' = NoTimer
          /\ at' = "drain"
          /\ UNCHANGED <<server, upstreams>>
       \/ ClientWriteFails /\ Quit(client)
    /\ UNCHANGED <<config, rules, proto, req>>

\* What the server sent together with its 101.
DrainServer ==
    /\ at = "switch"
    /\ \/ /\ server.buf = <<>> \/ ClientWrites
          /\ client' = Receive(client, server.buf)
          /\ server' = [server EXCEPT !.buf = <<>>]
          /\ at' = "drain"
          /\ UNCHANGED <<upstreams, timer>>
       \/ server.buf # <<>> /\ ClientWriteFails /\ Quit(client)
    /\ UNCHANGED <<config, rules, proto, req>>

\* Mutant: what the client sent together with its request stays behind.
SpliceAtOnce ==
    /\ at = "drain"
    /\ at' = "splice"
    /\ UNCHANGED <<config, rules, proto, req, client, server, upstreams, timer>>

\* What the client sent together with its request.
DrainClient ==
    /\ at = "drain"
    /\ \/ /\ client.buf = <<>> \/ Takes(server)
          /\ server' = Receive(server, client.buf)
          /\ client' = [client EXCEPT !.buf = <<>>]
          /\ at' = "splice"
          /\ UNCHANGED <<upstreams, timer>>
       \/ client.buf # <<>> /\ ServerWriteFails /\ Quit(client)
    /\ UNCHANGED <<config, rules, proto, req>>

\* The two goroutines of splice.  closeWrite passes the end of one direction
\* on; the other direction goes on.
CopyUp ==
    /\ at = "splice" /\ server.shut = "open"
    /\ client.queue # <<>> /\ timer.read # 0 /\ Takes(server)
    /\ server' = Receive(server, <<Head(client.queue)>>)
    /\ client' = [client EXCEPT !.queue = Tail(@)]
    /\ UNCHANGED <<config, rules, proto, at, req, upstreams, timer>>

CopyDown ==
    /\ at = "splice" /\ client.shut = "open"
    /\ server.queue # <<>> /\ ClientWrites
    /\ client' = Receive(client, <<Head(server.queue)>>)
    /\ server' = [server EXCEPT !.queue = Tail(@)]
    /\ UNCHANGED <<config, rules, proto, at, req, upstreams, timer>>

\* Mutant: a half-closed client ends its direction with bytes on the way.
UpEndsEarly ==
    /\ at = "splice" /\ server.shut = "open"
    /\ client.end # "open"
    /\ server' = [server EXCEPT !.shut = "half"]
    /\ UNCHANGED <<config, rules, proto, at, req, client, upstreams, timer>>

UpEnds ==
    /\ at = "splice" /\ server.shut = "open"
    /\ \/ AtEnd(client) \/ timer.read = 0
       \/ client.queue # <<>> /\ ServerWriteFails
    /\ server' = [server EXCEPT !.shut = "half"]
    /\ UNCHANGED <<config, rules, proto, at, req, client, upstreams, timer>>

\* Mutant: only an orderly end of the server ends its direction.
DownEndsOnEOF ==
    /\ at = "splice" /\ client.shut = "open"
    /\ server.end = "half" /\ server.queue = <<>>
    /\ client' = [client EXCEPT !.shut = "half"]
    /\ UNCHANGED <<config, rules, proto, at, req, server, upstreams, timer>>

DownEnds ==
    /\ at = "splice" /\ client.shut = "open"
    /\ AtEnd(server) \/ (server.queue # <<>> /\ ClientWriteFails)
    /\ client' = [client EXCEPT !.shut = "half"]
    /\ UNCHANGED <<config, rules, proto, at, req, server, upstreams, timer>>

\* splice waits for both directions and then closes both connections.
SpliceEnds ==
    /\ at = "splice" /\ server.shut = "half" /\ client.shut = "half"
    /\ Quit(client)
    /\ UNCHANGED <<config, rules, proto, req>>

-----------------------------------------------------------------------------
(* One exchange of plain HTTP: the rest of forwardRequest                  *)

\* Mutant: Expect: 100-continue is left to the server.
ProceedWithoutContinue ==
    /\ at = "proceed"
    /\ timer' = NoTimer
    /\ at' = "send"
    /\ UNCHANGED <<config, rules, proto, req, client, server, upstreams>>

\* The deadlines end here, so the write of 100 Continue has none.
Proceed ==
    /\ at = "proceed"
    /\ \/ /\ "expect" \notin req.flags \/ Takes(client)
          /\ client' = IF "expect" \in req.flags
                       THEN Receive(client, Reply(req, "continue")) ELSE client
          /\ timer' = NoTimer
          /\ at' = "send"
          /\ UNCHANGED <<server, upstreams>>
       \/ "expect" \in req.flags /\ client.end = "gone" /\ Quit(client)
    /\ UNCHANGED <<config, rules, proto, req>>

\* The body of a request is read from the client while it is sent.
SendRequest ==
    /\ at = "send"
    /\ \/ /\ Takes(server)
          /\ IF "body" \in req.flags
             THEN \E n \in ClientReads : client' = Consume(client, n)
             ELSE UNCHANGED client
          /\ server' = [server EXCEPT !.asked = @ \cup {req}]
          /\ at' = "response"
          /\ UNCHANGED <<upstreams, timer>>
       \/ /\ ServerWriteFails \/ ("body" \in req.flags /\ ClientReadFails)
          /\ Quit(client)
    /\ UNCHANGED <<config, rules, proto, req>>

\* Does the client connection carry another request?
KeepOpen(item) == "close" \notin req.flags /\ "close" \notin item.flags

\* Mutant: an interim response is taken for the final one.
RelayFirst ==
    /\ at = "response"
    /\ \/ /\ ServerReadFails /\ MayTell
          /\ Quit(Tell(client, req, "badGateway"))
       \/ \E n \in ServerReads :
            LET item == Head(Buffered(server, n))
                relayed == Receive(client, <<item>>) IN
            \/ /\ KeepOpen(item) /\ ClientWrites
               /\ server' = Consume(server, n)
               /\ client' = relayed
               /\ at' = IF item.kind = "switch" THEN "switch" ELSE "next"
               /\ timer' = [timer EXCEPT !.read = IdleTimeout]
               /\ UNCHANGED upstreams
            \/ ~KeepOpen(item) /\ MayTell /\ Quit(relayed)
    /\ UNCHANGED <<config, rules, proto, req>>

\* The response, after any interim ones.  It is answered with a 502 when the
\* server ends before its first line.
RelayResponse ==
    /\ at \in {"response", "final"}
    /\ \/ /\ ServerReadFails
          /\ at = "response" => MayTell
          /\ Quit(IF at = "response" THEN Tell(client, req, "badGateway") ELSE client)
       \/ \E n \in ServerReads :
            LET item == Head(Buffered(server, n))
                relayed == Receive(client, <<item>>) IN
            \/ /\ item.kind \in {"interim", "switch"} /\ ClientWrites
               /\ server' = Consume(server, n)
               /\ client' = relayed
               /\ at' = IF item.kind = "interim" THEN "final" ELSE "switch"
               /\ UNCHANGED <<upstreams, timer>>
            \/ /\ item.kind = "response" /\ KeepOpen(item) /\ ClientWrites
               /\ server' = Consume(server, n)
               /\ client' = relayed
               /\ at' = "next"
               /\ timer' = [timer EXCEPT !.read = IdleTimeout]
               /\ UNCHANGED upstreams
            \/ /\ \/ item.kind = "response" /\ ~KeepOpen(item) /\ ClientWrites
                  \/ ClientWriteFails
               /\ Quit(relayed)
    /\ UNCHANGED <<config, rules, proto, req>>

Handler ==
    \/ ReadGreeting \/ ReadSocksRequest \/ ReadRequest
    \/ HandleConnect \/ Forward \/ Dial \/ DialTimesOut \/ TellUnreached
    \/ ReplyOK \/ DrainServer \/ DrainClient \/ SpliceEnds
    \/ Proceed \/ SendRequest \/ RelayResponse

Copy == CopyUp \/ CopyDown \/ UpEnds \/ DownEnds

-----------------------------------------------------------------------------
(* The clock and the peers                                                 *)

Running(t) == t # Never /\ t # 0

\* A dial returns as soon as its time is over.
Tick ==
    /\ timer.dial # 0
    /\ \E k \in DOMAIN timer : Running(timer[k])
    /\ timer' = [k \in DOMAIN timer |->
                   IF Running(timer[k]) THEN timer[k] - 1 ELSE timer[k]]
    /\ UNCHANGED <<config, rules, proto, at, req, client, server, upstreams>>

\* A client that announced Expect: 100-continue holds the body back.
MaySend(c) ==
    Head(c.left).kind = "body" /\ "expect" \in Head(c.left).flags
      => \E i \in DOMAIN c.got :
           c.got[i].kind = "continue" /\ c.got[i].n = Head(c.left).n

ClientSends ==
    /\ at \notin {"idle", "done"}
    /\ client.end = "open" /\ client.left # <<>>
    /\ MaySend(client)
    /\ client' = [client EXCEPT !.left = Tail(@), !.queue = Append(@, Head(client.left))]
    /\ UNCHANGED <<config, rules, proto, at, req, server, upstreams, timer>>

\* It closes its sending side, or all of it and maybe with data on the way.
ClientEnds ==
    /\ at \notin {"idle", "done"}
    /\ client.end # "gone"
    /\ client' \in {[client EXCEPT !.end = e] : e \in {"half", "gone"}}
    /\ client' # client
    /\ UNCHANGED <<config, rules, proto, at, req, server, upstreams, timer>>

ClientStops ==
    /\ at \notin {"idle", "done"}
    /\ client.end # "gone" /\ client.reads
    /\ client' = [client EXCEPT !.reads = FALSE]
    /\ UNCHANGED <<config, rules, proto, at, req, server, upstreams, timer>>

Tunnelled == ~Plain(req) \/ at \in {"switch", "drain", "splice"}

\* A server answers each request it has got once, or switches protocols when
\* it is asked to.
ServerAnswers ==
    /\ at \notin {"idle", "done"}
    /\ server # NoServer /\ server.end = "open"
    /\ \E r \in server.asked \ server.answered,
          kind \in {"interim", "response", "switch"}, flags \in {{}, {"close"}} :
         /\ kind # "response" => flags = {}
         /\ kind = "switch" => "upgrade" \in r.flags
         /\ kind = "interim" => server.queue = <<>> /\ at = "response"
         /\ server' = [server EXCEPT
              !.queue = Append(@, [kind |-> kind, flags |-> flags, n |-> r.n]),
              !.answered = IF kind = "interim" THEN @ ELSE @ \cup {r}]
    /\ UNCHANGED <<config, rules, proto, at, req, client, upstreams, timer>>

\* A server of a tunnel sends when it likes, after a 101 at the earliest.
ServerSends ==
    /\ at \notin {"idle", "done"}
    /\ server # NoServer /\ server.end = "open"
    /\ server.sent < MaxData
    /\ \/ Tunnelled
       \/ \E i \in DOMAIN server.queue : server.queue[i].kind = "switch"
    /\ server' = [server EXCEPT
         !.queue = Append(@, [kind |-> "data", flags |-> {}, n |-> server.sent + 1]),
         !.sent = @ + 1]
    /\ UNCHANGED <<config, rules, proto, at, req, client, upstreams, timer>>

ServerEnds ==
    /\ at \notin {"idle", "done"}
    /\ server # NoServer /\ server.end # "gone"
    /\ server' \in {[server EXCEPT !.end = e] : e \in {"half", "gone"}}
    /\ server' # server
    /\ UNCHANGED <<config, rules, proto, at, req, client, upstreams, timer>>

ServerStops ==
    /\ at \notin {"idle", "done"}
    /\ server # NoServer /\ server.end # "gone" /\ server.reads
    /\ server' = [server EXCEPT !.reads = FALSE]
    /\ UNCHANGED <<config, rules, proto, at, req, client, upstreams, timer>>

Peers ==
    \/ ClientSends \/ ClientEnds \/ ClientStops
    \/ ServerAnswers \/ ServerSends \/ ServerEnds \/ ServerStops
=============================================================================
