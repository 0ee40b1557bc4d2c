------------------------------ MODULE Allowlist ------------------------------
(***************************************************************************)
(* Which targets a container may reach: the rules of the policy file and of *)
(* -allow, how they are parsed, and the test of one target (netguard.go,   *)
(* policy.go, main.go).                                                    *)
(*                                                                         *)
(* A host is the sequence of its labels; an empty last label is a trailing *)
(* dot, and an IPv6 address may stand between "[" and "]".  The text of a  *)
(* rule or a target is a host and what stands after the last colon.  The   *)
(* order of rules has no effect, so they are sets.                         *)
(***************************************************************************)
EXTENDS Naturals, Sequences

CONSTANTS LowerCase, \* LowerCase[l]: the label l in lower case
          AnyPort,   \* the port "*"
          NoPort,    \* no colon
          EmptyPort  \* a colon and nothing after it

\* strings.ToLower: what is in lower case stays, and no label vanishes.
ASSUME LowerCaseOK ==
    \A l \in DOMAIN LowerCase :
        /\ LowerCase[l] \in DOMAIN LowerCase
        /\ LowerCase[LowerCase[l]] = LowerCase[l]
        /\ LowerCase[l] = "" => l = ""

EmptyHost == <<"">>

canonicalHost(h) ==
    LET bare == IF Len(h) > 1 /\ h[Len(h)] = "" THEN SubSeq(h, 1, Len(h) - 1)
                ELSE h
    IN  [i \in DOMAIN bare |-> LowerCase[bare[i]]]

Bracketed(host) == Len(host) > 2 /\ host[1] = "[" /\ host[Len(host)] = "]"
Unbracketed(host) == IF Bracketed(host) THEN SubSeq(host, 2, Len(host) - 1) ELSE host

\* Does splitHostPort find a host, without its brackets, and a port?
Splits(text) ==
    IF text.host[1] = "[" THEN Bracketed(text.host) /\ text.port # NoPort
    ELSE text.host # EmptyHost /\ text.port \notin {NoPort, EmptyPort}

\* A text that is not split; ":" is its colon and what stands behind.
Whole(text) == IF text.port = NoPort THEN text.host ELSE Append(text.host, ":")

PortInRange(port) == port \notin {AnyPort, NoPort, EmptyPort} /\ port \in 1..65535

-----------------------------------------------------------------------------
(* Parsing                                                                 *)

\* One rule, or no rule when the text is refused.
ParsedRule(spec) ==
    LET host == canonicalHost(Unbracketed(spec.host))
        wildcard == Len(host) > 1 /\ host[1] = "*"
        named == IF wildcard THEN Tail(host) ELSE host
    IN  IF ~Splits(spec) \/ named = EmptyHost
           \/ ~(spec.port = AnyPort \/ PortInRange(spec.port))
        THEN {}
        ELSE {[host |-> named, wildcard |-> wildcard,
               port |-> IF spec.port = AnyPort THEN 0 ELSE spec.port]}

\* An entry of the policy file names its ports; none stands for all.
specs(entries) ==
    UNION {IF e.ports = {} THEN {[host |-> e.host, port |-> AnyPort]}
           ELSE {[host |-> e.host, port |-> p] : p \in e.ports} : e \in entries}

PolicyAccepted(entries) ==
    \A e \in entries : e.host # EmptyHost /\ \A p \in e.ports : PortInRange(p)

\* What the user asked for: the rules of the file and of the flags together.
Asked(config) == specs(config.policy) \cup config.flags

ConfigAccepted(config) ==
    /\ PolicyAccepted(config.policy)
    /\ \A s \in Asked(config) : ParsedRule(s) # {}

\* Mutant: a flag replaces the rules of the file.
FlagsReplaceRules(config) ==
    UNION {ParsedRule(s) : s \in IF config.flags # {} THEN config.flags
                                 ELSE specs(config.policy)}

loadAllowlist(config) == UNION {ParsedRule(s) : s \in Asked(config)}

-----------------------------------------------------------------------------
(* The test of one target                                                  *)

\* Is t what remains of s after at least one label?
Below(s, t) == \E k \in 2..Len(s) : SubSeq(s, k, Len(s)) = t

permits(rules, host, port) ==
    LET asked == canonicalHost(host)
    IN  \E r \in rules :
          /\ r.port \in {0, port}
          /\ r.host = asked \/ (r.wildcard /\ Below(asked, r.host))

\* The host and port of an HTTP target.  One that is not split is a host on
\* the default port, with its colon if it has one; no text at all is refused.
targetOf(target, fallback) ==
    IF Splits(target)
    THEN [host |-> canonicalHost(Unbracketed(target.host)), port |-> target.port]
    ELSE [host |-> canonicalHost(Whole(target)),
          port |-> IF target = [host |-> EmptyHost, port |-> NoPort] THEN NoPort
                   ELSE fallback]

-----------------------------------------------------------------------------
(* The meaning of a rule, from the table above parseAllowlist              *)

\* "host:port" allows the host on the port, "*.domain:port" the domain and
\* every name below it, "host:*" every port.
Means(spec, host, port) ==
    LET rule == canonicalHost(Unbracketed(spec.host))
        asked == canonicalHost(host)
    IN  /\ spec.port \in {AnyPort, port}
        /\ \/ rule = asked
           \/ /\ Len(rule) > 1 /\ rule[1] = "*"
              /\ asked = Tail(rule) \/ Below(asked, Tail(rule))

\* Did the user allow this target?
Allowed(config, host, port) == \E s \in Asked(config) : Means(s, host, port)
=============================================================================
