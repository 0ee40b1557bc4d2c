------------------------------ MODULE Netguard ------------------------------
(***************************************************************************)
(* The proxies of one run: the allowlist is parsed, startNetguard serves   *)
(* both listeners, close ends that (netguard.go, main.go).  The sessions   *)
(* share only the allowlist, which never changes, so one client shows what *)
(* can happen to any of them.  close does not end a session.               *)
(***************************************************************************)
EXTENDS ProxySession, FiniteSets

CONSTANT MaxFaults  \* how often accept fails on an open listener, for each
                    \* listener that the client may use

ASSUME MaxFaultsOK == MaxFaults \in [{"socks", "http"} -> Nat]

VARIABLES
    phase,     \* what the run does with the proxies next
    closed,    \* the flag of the same name
    listeners, \* the listeners that are open
    loops,     \* the serve loops that run
    complaint, \* has a loop reported a failed accept?
    faults     \* how often accept has failed

guardVars == <<phase, closed, listeners, loops, complaint, faults>>
vars == <<sessionVars, guardVars>>

Listeners == {"socks", "http"}

TypeOK ==
    /\ config \in Configs
    /\ rules \subseteq [host : Seq(DOMAIN LowerCase), wildcard : BOOLEAN, port : 0..65535]
    /\ proto \in Listeners
    /\ at \in {"idle", "backlog", "greeting", "request", "first", "next",
               "connect", "forward", "dial", "dialing", "unreached", "reply", "switch",
               "drain", "splice", "proceed", "send", "response", "final", "done"}
    /\ client.end \in {"open", "half", "gone"} /\ client.shut \in {"open", "half", "closed"}
    /\ server # NoServer =>
         server.end \in {"open", "half", "gone"} /\ server.shut \in {"open", "half", "closed"}
    /\ upstreams \in 0..1
    /\ timer.read \in 0..IdleTimeout \cup 0..DialTimeout \cup {Never}
    /\ timer.write \in 0..DialTimeout \cup {Never}
    /\ timer.dial \in 0..DialTimeout \cup {Never}
    /\ phase \in {"parse", "start", "serving", "closing", "waiting", "over"}
    /\ closed \in BOOLEAN /\ complaint \in BOOLEAN
    /\ listeners \subseteq Listeners /\ loops \subseteq Listeners
    /\ faults \in 0..MaxFaults[proto]

Init ==
    /\ config \in Configs
    /\ rules = {}
    /\ \E s \in Scripts : proto = s.proto /\ client = Client(s.items)
    /\ at = "idle"
    /\ req = [n |-> 0]
    /\ server = NoServer
    /\ upstreams = 0
    /\ timer = NoTimer
    /\ phase = "parse"
    /\ closed = FALSE
    /\ listeners = Listeners
    /\ loops = {}
    /\ complaint = FALSE
    /\ faults = 0

-----------------------------------------------------------------------------

\* A bad rule ends the run.  Without any rule there is no network at all.
LoadAllowlist ==
    /\ phase = "parse"
    /\ IF ConfigAccepted(config) /\ Asked(config) # {}
       THEN phase' = "start" /\ rules' = loadAllowlist(config)
       ELSE phase' = "over" /\ UNCHANGED rules
    /\ UNCHANGED <<config, proto, at, req, client, server, upstreams, timer,
                   closed, listeners, loops, complaint, faults>>

StartNetguard ==
    /\ phase = "start"
    /\ phase' = "serving"
    /\ loops' = Listeners
    /\ UNCHANGED <<sessionVars, closed, listeners, complaint, faults>>

\* The command of the container runs only while the proxies serve.  The
\* kernel completes the connection; serve has yet to accept it.
ClientConnects ==
    /\ at = "idle" /\ phase = "serving"
    /\ at' = "backlog"
    /\ UNCHANGED <<config, rules, proto, req, client, server, upstreams, timer, guardVars>>

Accept ==
    /\ at = "backlog"
    /\ proto \in loops \cap listeners
    /\ StartSession
    /\ UNCHANGED <<config, rules, proto, req, client, server, upstreams, guardVars>>

\* serve returns on any error, and reports it unless close has begun.
LoopEnds(l) ==
    /\ loops' = loops \ {l}
    /\ complaint' = (complaint \/ ~closed)
    /\ UNCHANGED <<sessionVars, phase, closed, listeners>>

AcceptFails ==
    \E l \in loops \cap listeners :
       faults < MaxFaults[proto] /\ faults' = faults + 1 /\ LoopEnds(l)

AcceptOnClosed ==
    \E l \in loops \ listeners : UNCHANGED faults /\ LoopEnds(l)

\* close is deferred until the container has ended, or never started: no
\* client is left.
NoClient == at \in {"idle", "done"} \/ client.end = "gone"

CloseBegins ==
    /\ phase = "serving" /\ NoClient
    /\ phase' = "closing"
    /\ closed' = TRUE
    /\ UNCHANGED <<sessionVars, listeners, loops, complaint, faults>>

\* Mutant: only the first listener is closed.
CloseFirstListener ==
    /\ phase = "closing"
    /\ listeners' = listeners \ {"socks"}
    /\ phase' = "waiting"
    /\ at' = IF at = "backlog" /\ proto \notin listeners' THEN "done" ELSE at
    /\ UNCHANGED <<config, rules, proto, req, client, server, upstreams, timer,
                   closed, loops, complaint, faults>>

\* A connection that nobody has accepted ends with its listener.
CloseListener ==
    /\ phase = "closing"
    /\ LET l == IF "socks" \in listeners THEN "socks" ELSE "http" IN
         /\ listeners' = listeners \ {l}
         /\ at' = IF at = "backlog" /\ proto = l THEN "done" ELSE at
    /\ phase' = IF listeners' = {} THEN "waiting" ELSE "closing"
    /\ UNCHANGED <<config, rules, proto, req, client, server, upstreams, timer,
                   closed, loops, complaint, faults>>

CloseReturns ==
    /\ phase = "waiting"
    /\ loops = {}
    /\ phase' = "over"
    /\ UNCHANGED <<sessionVars, closed, listeners, loops, complaint, faults>>

-----------------------------------------------------------------------------

Guard == LoadAllowlist \/ StartNetguard \/ CloseListener \/ CloseReturns
Serve == Accept \/ AcceptOnClosed
Session == (Handler \/ DialSucceeds \/ DialFails \/ Copy) /\ UNCHANGED guardVars

Next ==
    \/ Guard \/ CloseBegins \/ Serve \/ AcceptFails \/ ClientConnects
    \/ Session
    \/ (Tick \/ Peers) /\ UNCHANGED guardVars

Spec == Init /\ [][Next]_vars

\* All goroutines are scheduled, and time passes.  Peers owe nothing, not
\* even that they read, so a copy that writes to one that does not may wait
\* for ever; and nothing makes a run close its proxies.
FairSpec ==
    /\ Spec
    /\ WF_vars(Guard)
    /\ WF_vars(Serve)
    /\ WF_vars(Handler /\ UNCHANGED guardVars)
    /\ WF_vars((CopyUp \/ UpEnds) /\ ~Stuck(client, server) /\ UNCHANGED guardVars)
    /\ WF_vars((CopyDown \/ DownEnds) /\ ~Stuck(server, client) /\ UNCHANGED guardVars)
    /\ WF_vars(Tick /\ UNCHANGED guardVars)

-----------------------------------------------------------------------------
(* Properties                                                              *)

\* netguard.go:481-484, 539-542: a connection to a server exists only for a
\* target that a rule the user wrote allows, and every request sent over it
\* names that very target, also when the connection is used again.
OnlyAllowed ==
    server # NoServer =>
      /\ Allowed(config, server.target.host, server.target.port)
      /\ \A r \in server.asked : Target(r) = server.target

\* The name that a client asks for, as a rule would name it.
Named(item) ==
    IF item.kind = "socks" THEN item.target.host ELSE Unbracketed(item.target.host)
Colon(target) == ~Splits(target) /\ target.port # NoPort
TwoDots(h) == Len(h) > 2 /\ h[Len(h) - 1] = "" /\ h[Len(h)] = ""

\* netguard.go:96-97, 167-186: the allowlist refuses only what no rule of the
\* file or of a flag allows.  There are three exceptions, all of them in HTTP:
\* an IPv6 target without a port keeps its brackets in targetOf (line 668) and
\* matches no rule, so does a target with nothing behind its colon, or nothing
\* in front of it, that keeps the colon there, and a name with two trailing
\* dots loses one in targetOf and one in permits, but a rule only one.
RefusedRightly ==
    (\E i \in DOMAIN client.got : client.got[i].kind = "denied") =>
      \/ ~Allowed(config, Named(req), Target(req).port)
      \/ /\ req.kind = "http"
         /\ \/ req.target.host[1] = "[" /\ req.target.port = NoPort
            \/ Colon(req.target)
            \/ TwoDots(Named(req))

\* Is t what stands in items after the first k of them?
Follows(t, items, k) == \A i \in DOMAIN t : k + i \in DOMAIN items /\ t[i] = items[k + i]

\* netguard.go:410-417, 637-643: both ends of a tunnel get the bytes of the
\* other one from the first, in order and without a gap, also those that
\* were sent together with the request or with the 101.  What the server
\* gets is what the client has sent after its request, and after its body;
\* the client gets the stream behind all answers, from its first piece.
StreamsInOrder ==
    /\ server # NoServer =>
         \E s \in Scripts : \E k \in DOMAIN s.items :
           s.items[k] = req /\ Follows(server.got, s.items, k + BodyOf(req))
    /\ \E k \in 0..Len(client.got) : \A i \in DOMAIN client.got :
         IF i <= k THEN client.got[i].kind # "data"
         ELSE client.got[i].kind = "data" /\ client.got[i].n = i - k

\* splice, closeWrite: a peer sees the end of the stream only after all that
\* the other one sent before it ended it.
EndAfterAll ==
    at = "splice" =>
      /\ server.shut = "half" /\ client.end # "gone" /\ server.end # "gone"
           => client.end = "half" /\ client.queue = <<>> /\ client.buf = <<>>
      /\ client.shut = "half" /\ client.end # "gone" /\ server.end # "gone"
           => server.end = "half" /\ server.queue = <<>> /\ server.buf = <<>>

IsFinal(item) ==
    item.kind \in {"response", "switch", "ok", "badGateway", "denied", "refused", "unreached"}
Answered(got) == {got[i].n : i \in {j \in DOMAIN got : IsFinal(got[j])}}

\* netguard.go:420-424, 493-516, 609-705: the client gets one final answer to
\* every request, in the order of its requests, whatever servers they went
\* to.  Only the last request can be without one while the client is there.
AnswersInOrder ==
    /\ \A i, j \in DOMAIN client.got :
         i < j /\ IsFinal(client.got[i]) /\ IsFinal(client.got[j])
           => client.got[i].n < client.got[j].n
    /\ \E k \in 0..req.n :
         /\ Answered(client.got) = 1..k
         /\ client.end # "gone" => k >= req.n - 1
         /\ client.end # "gone" /\ at \in {"next", "switch", "splice"} => k = req.n

\* A session has at most one connection to a server, and none when it ends.
NoLeak ==
    /\ upstreams = (IF server # NoServer /\ server.shut # "closed" THEN 1 ELSE 0)
    /\ at = "done" => upstreams = 0

\* netguard.go:242-258: serve reports no failed accept because of close.
QuietClose == complaint => faults > 0

\* netguard.go:334, 429, 288, 501: a client that is silent, or a server that
\* does not answer the dial, holds no session for ever.
Waits == {"greeting", "request", "first", "next", "dialing"}
WaitsEnd == at \in Waits ~> at \notin Waits

\* splice: an end of one side reaches the other side, unless what came before
\* it is held up for ever by that other side, which does not read: the copies
\* have no deadline (netguard.go:304-305).
EndPassedOn ==
    /\ at = "splice" /\ client.end # "open" ~>
         ~(at = "splice" /\ server.shut = "open") \/ Stuck(client, server)
    /\ at = "splice" /\ server.end # "open" ~>
         ~(at = "splice" /\ client.shut = "open") \/ Stuck(server, client)

\* netguard.go:582-584: the client that holds a body back for its 100 and the
\* proxy that has nothing left to read of it never wait for each other.
NoMutualWait ==
    /\ at = "send" /\ "body" \in req.flags
    /\ client.end = "open" /\ client.left # <<>>
    /\ client.queue = <<>> /\ client.buf = <<>>
    => MaySend(client)

\* netguard.go:242-248: close returns, whatever clients and servers do.
CloseEnds == closed ~> phase = "over"

\* netguard.go:408, 466, 580: a tunnel ends only by its ends, never by the
\* deadline of the negotiation.
TunnelsLast ==
    [][at = "splice" /\ server.shut = "open" /\ server'.shut # "open"
         => client.end # "open" \/ server.end # "open"]_vars
=============================================================================
