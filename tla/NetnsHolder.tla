----------------------------- MODULE NetnsHolder -----------------------------
(***************************************************************************)
(* The handshake between a run and the helper that owns the network        *)
(* namespace of its container (netns.go).                                  *)
(*                                                                         *)
(* The run starts the helper, writes its ID maps, releases it over a pipe  *)
(* and receives one listener per address over a socket.  The helper waits  *)
(* for its go-ahead, executes itself again, listens, sends and then stays  *)
(* until the run's end of the pipe is closed.  Either side can fail or be  *)
(* killed at any step; what the other side sees is the end of file of the  *)
(* pipe or of the socket, once every copy of the far end is closed.        *)
(***************************************************************************)
EXTENDS Naturals

CONSTANT NAddrs  \* how many listeners the run asks for

ASSUME NAddrsOK == NAddrs \in Nat \ {0}

VARIABLES
    at,          \* the step the run takes next
    aliveOpen,   \* is the run's end of the pipe open?
    childSock,   \* does the run still hold the helper's end of the socket?
    parentSock,  \* is the run's own end of the socket open?
    got,         \* how many listeners the run has received
    helper,      \* the step the helper takes next
    idMaps,      \* are the ID maps of the helper written?
    goAhead,     \* is the byte in the pipe?
    sent,        \* how many listeners the helper has sent
    interrupted  \* history: was the helper killed from outside?

runVars == <<at, aliveOpen, childSock, parentSock, got>>
vars == <<runVars, helper, idMaps, goAhead, sent, interrupted>>

HelperLives == helper \notin {"none", "dead"}

TypeOK ==
    /\ at \in {"start", "spawned", "maps", "release", "receive", "held",
               "stop", "kill", "gone", "killed"}
    /\ aliveOpen \in BOOLEAN /\ childSock \in BOOLEAN /\ parentSock \in BOOLEAN
    /\ got \in Nat /\ sent \in Nat /\ got <= sent /\ sent <= NAddrs
    /\ helper \in {"none", "stage1", "exec", "stage2", "listen", "hold", "dead"}
    /\ idMaps \in BOOLEAN /\ goAhead \in BOOLEAN /\ interrupted \in BOOLEAN

Init ==
    /\ at = "start" /\ aliveOpen = FALSE /\ childSock = FALSE
    /\ parentSock = FALSE /\ got = 0
    /\ helper = "none" /\ idMaps = FALSE /\ goAhead = FALSE /\ sent = 0
    /\ interrupted = FALSE

-----------------------------------------------------------------------------
(* The run: startNetnsHolder and stop                                      *)

StartHelper ==
    /\ at = "start"
    /\ \/ /\ at' = "spawned" /\ helper' = "stage1"
          /\ aliveOpen' = TRUE /\ childSock' = TRUE /\ parentSock' = TRUE
       \/ at' = "gone" /\ UNCHANGED <<helper, aliveOpen, childSock, parentSock>>
    /\ UNCHANGED <<got, idMaps, goAhead, sent, interrupted>>

\* Mutant: the helper's end of the socket stays open in the run.
KeepChildEnds ==
    /\ at = "spawned"
    /\ at' = "maps"
    /\ UNCHANGED <<aliveOpen, childSock, parentSock, got, helper, idMaps, goAhead,
                   sent, interrupted>>

DropChildEnds ==
    /\ at = "spawned"
    /\ at' = "maps"
    /\ childSock' = FALSE
    /\ UNCHANGED <<aliveOpen, parentSock, got, helper, idMaps, goAhead, sent,
                   interrupted>>

\* newuidmap and newgidmap need a live helper, and can fail anyway.
WriteIDMaps ==
    /\ at = "maps"
    /\ \/ HelperLives /\ at' = "release" /\ idMaps' = TRUE
       \/ at' = "stop" /\ UNCHANGED idMaps
    /\ UNCHANGED <<aliveOpen, childSock, parentSock, got, helper, goAhead, sent,
                   interrupted>>

Release ==
    /\ at = "release"
    /\ IF HelperLives
       THEN at' = "receive" /\ goAhead' = TRUE
       ELSE at' = "stop" /\ UNCHANGED goAhead
    /\ UNCHANGED <<aliveOpen, childSock, parentSock, got, helper, idMaps, sent,
                   interrupted>>

\* The helper closes its end of the socket when it has sent everything.
HelperSock == helper \in {"stage1", "exec", "stage2", "listen"}

Receive ==
    /\ at = "receive"
    /\ \/ /\ got < sent
          /\ got' = got + 1
          /\ IF got' = NAddrs THEN at' = "held" /\ parentSock' = FALSE
             ELSE UNCHANGED <<at, parentSock>>
       \/ \* the end of file, or net.FileListener fails
          /\ got < sent \/ (~HelperSock /\ ~childSock)
          /\ at' = "stop"
          /\ UNCHANGED <<got, parentSock>>
    /\ UNCHANGED <<aliveOpen, childSock, helper, idMaps, goAhead, sent,
                   interrupted>>

\* The container has ended, or something else has failed.
Finish ==
    /\ at = "held"
    /\ at' = "stop"
    /\ UNCHANGED <<aliveOpen, childSock, parentSock, got, helper, idMaps,
                   goAhead, sent, interrupted>>

CloseAlive ==
    /\ at = "stop"
    /\ at' = "kill"
    /\ aliveOpen' = FALSE
    /\ UNCHANGED <<childSock, parentSock, got, helper, idMaps, goAhead, sent,
                   interrupted>>

KillAndWait ==
    /\ at = "kill"
    /\ at' = "gone"
    /\ helper' = "dead"
    /\ parentSock' = FALSE
    /\ UNCHANGED <<aliveOpen, childSock, got, idMaps, goAhead, sent, interrupted>>

Run == \/ StartHelper \/ DropChildEnds \/ WriteIDMaps \/ Release \/ Receive
       \/ CloseAlive \/ KillAndWait

\* The kernel closes what a killed run had open.
RunKilled ==
    /\ at \notin {"gone", "killed"}
    /\ at' = "killed"
    /\ aliveOpen' = FALSE /\ childSock' = FALSE /\ parentSock' = FALSE
    /\ UNCHANGED <<got, helper, idMaps, goAhead, sent, interrupted>>

-----------------------------------------------------------------------------
(* The helper: runNetnsHolderStage1 and runNetnsHolder                     *)

GotoHelper(step) ==
    /\ helper' = step
    /\ UNCHANGED <<runVars, idMaps, goAhead, sent, interrupted>>

\* Mutant: an end of file is not taken for an error.
ReadByteOnly == helper = "stage1" /\ goAhead /\ GotoHelper("exec")

ReadGoAhead ==
    /\ helper = "stage1"
    /\ \/ goAhead /\ GotoHelper("exec")
       \/ ~goAhead /\ ~aliveOpen /\ GotoHelper("dead")

ExecStage2 == helper = "exec" /\ \E step \in {"stage2", "dead"} : GotoHelper(step)

\* Without ID maps the exec has taken every capability.
LoopbackUp ==
    /\ helper = "stage2"
    /\ \/ idMaps /\ GotoHelper("listen")
       \/ GotoHelper("dead")

SendListener ==
    /\ helper = "listen"
    /\ \/ /\ parentSock
          /\ sent' = sent + 1
          /\ helper' = IF sent' = NAddrs THEN "hold" ELSE "listen"
          /\ UNCHANGED <<runVars, idMaps, goAhead, interrupted>>
       \/ GotoHelper("dead")

\* Mutant: stage two waits for nothing.
LeaveAtOnce == helper = "hold" /\ GotoHelper("dead")
Hold == helper = "hold" /\ ~aliveOpen /\ GotoHelper("dead")

Helper == ReadGoAhead \/ ExecStage2 \/ LoopbackUp \/ SendListener \/ Hold

\* It is in the process group of the run: a Ctrl-C reaches it, too.
HelperKilled ==
    /\ HelperLives
    /\ helper' = "dead" /\ interrupted' = TRUE
    /\ UNCHANGED <<runVars, idMaps, goAhead, sent>>

Next == Run \/ Finish \/ RunKilled \/ Helper \/ HelperKilled

Spec == Init /\ [][Next]_vars

\* Both processes are scheduled; nothing makes a run finish.
FairSpec == Spec /\ WF_vars(Run) /\ WF_vars(Helper)

-----------------------------------------------------------------------------
(* Properties                                                              *)

\* startNetnsHolder: a run that has its listeners has a helper that holds the
\* namespaces, unless somebody else killed it.
HeldIsLive == at = "held" /\ ~interrupted => helper = "hold" /\ got = NAddrs

\* netns.go:40-45: stage two only ever executes with its ID map in place.
StageTwoMapped == helper \in {"exec", "stage2", "listen", "hold"} => idMaps

\* stop: a run that goes on has no helper left.
GoneIsGone == at = "gone" => ~HelperLives

\* startNetnsHolder and stop never wait for ever, whatever the helper does.
StartReturns == at # "held" ~> at \in {"held", "gone", "killed"}

\* runNetnsHolder: the helper ends with its run, also with one that crashed.
HelperEnds == at \in {"gone", "killed"} ~> ~HelperLives

-----------------------------------------------------------------------------
(* The inductive invariant                                                 *)

Handshake ==
    /\ at = "start" => helper = "none"
    /\ goAhead => idMaps
    /\ at = "release" => idMaps
    /\ helper = "listen" => sent < NAddrs
    /\ helper \in {"none", "stage1", "exec", "stage2"} => sent = 0
    /\ at \notin {"stop", "kill", "gone", "killed", "start"} => aliveOpen
    /\ at \in {"start", "kill", "gone", "killed"} => ~aliveOpen
    /\ sent = NAddrs => helper = "hold" \/ ~aliveOpen \/ interrupted

IInv == TypeOK /\ HeldIsLive /\ StageTwoMapped /\ GoneIsGone /\ Handshake
        /\ (at = "held" => got = NAddrs)
=============================================================================
