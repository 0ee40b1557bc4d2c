----------------------------- MODULE RunSignals -----------------------------
(***************************************************************************)
(* The signals of one "curimata run" (signals.go) against the start and    *)
(* the end of its container (startAgentEnvironment in main.go).            *)
(*                                                                         *)
(* Three things run concurrently: the main goroutine, which creates,       *)
(* starts, releases and waits for the container and unwinds its defers;    *)
(* the forwarder goroutine, which passes signals on; and the container's   *)
(* init process.  Signals come from outside at any time.  Where they are   *)
(* not caught, most of them end curimata at once.                          *)
(***************************************************************************)
EXTENDS Naturals, Sequences

CONSTANTS Signals,     \* forwardedSignals
          StopSignals, \* those that ask the container to end
          Deadly,      \* those that end a Go program that does not catch them
          Kill,        \* SIGKILL, which is never caught
          Cap,         \* capacity of the channel; 16 in the code
          Codes,       \* exit codes of the container
          Deaths,      \* numbers of the signals it can die of by itself, of
                       \* the kernel, or of one that was passed on to it
          MaxSignals   \* bound: how many signals are sent to curimata

ASSUME ConstantsOK ==
    /\ StopSignals \subseteq Deadly /\ Deadly \subseteq Signals
    /\ Kill \notin Signals
    /\ Cap \in Nat \ {0} /\ MaxSignals \in Nat
    /\ Codes \subseteq Nat /\ Deaths \subseteq Nat \ {0}

VARIABLES
    at,            \* the step the main goroutine takes next
    stateDir,      \* the libcontainer state directory; left behind by a
                   \* Destroy that failed
    notify,        \* signal.Notify: never called, on, or stopped
    received,      \* the channel of caught signals
    done,          \* is the channel done closed?
    forwarder,     \* the goroutine of forwardTo
    stopRequested, \* its local variable
    killTimer,     \* its local variable; spent when its value was received
    init,          \* the container's init process
    ran,           \* was the init released, to become the command?
    death,         \* wait status of a dead init; a history of whether it was
                   \* curimata that killed it
    exit,          \* exit code of curimata
    accepted,      \* history: the signals that entered the channel
    passed,        \* history: what the forwarder sent for them, in order
    sent           \* history: the signals sent to curimata

mainVars == <<at, stateDir, notify, done, exit>>
forwardVars == <<stopRequested, killTimer, passed>>
initVars == <<init, ran, death>>
sendVars == <<accepted, sent>>
vars == <<mainVars, received, forwarder, forwardVars, initVars, sendVars>>

Steps == {"begin", "created", "caught", "started", "forwarding", "ready",
          "wait", "closing", "uncaught", "ended", "killed", "sigpipe"}
Over == at \in {"ended", "killed", "sigpipe"}
KillNumber == 9
Status == [signaled : BOOLEAN, number : Codes \cup Deaths \cup {0, KillNumber},
           ours : BOOLEAN]
Alive == init \in {"waiting", "running"}

TypeOK ==
    /\ at \in Steps
    /\ stateDir \in {"none", "there", "left"}
    /\ notify \in {"never", "on", "stopped"}
    /\ received \in Seq(Signals) /\ Len(received) <= Cap
    /\ done \in BOOLEAN
    /\ forwarder \in {"none", "running", "returned"}
    /\ stopRequested \in BOOLEAN
    /\ killTimer \in {"nil", "armed", "fired", "spent"}
    /\ init \in {"none", "waiting", "running", "dead"}
    /\ ran \in BOOLEAN
    /\ death \in Status
    /\ exit \in Nat
    /\ accepted \in Seq(Signals)
    /\ passed \in Seq(Signals \cup {Kill})
    /\ sent \in Nat

Init ==
    /\ at = "begin" /\ stateDir = "none" /\ notify = "never" /\ done = FALSE
    /\ received = <<>> /\ forwarder = "none"
    /\ stopRequested = FALSE /\ killTimer = "nil"
    /\ init = "none" /\ ran = FALSE
    /\ death = [signaled |-> FALSE, number |-> 0, ours |-> FALSE]
    /\ exit = 0
    /\ accepted = <<>> /\ passed = <<>> /\ sent = 0

-----------------------------------------------------------------------------
(* The main goroutine                                                      *)

\* An error return: main prints the error and exits with 1, after the defers.
Return1(step) == at' = step /\ exit' = 1

CreateContainer ==
    /\ at = "begin"
    /\ \/ at' = "created" /\ stateDir' = "there" /\ UNCHANGED exit
       \/ Return1("ended") /\ UNCHANGED stateDir
    /\ UNCHANGED <<notify, done, received, forwarder, forwardVars, initVars,
                   sendVars>>

CatchSignals ==
    /\ at = "created"
    /\ at' = "caught"
    /\ notify' = "on"
    /\ UNCHANGED <<stateDir, done, exit, received, forwarder, forwardVars,
                   initVars, sendVars>>

\* newTerminal or container.Start can fail; a failed Start leaves no init.
Start ==
    /\ at = "caught"
    /\ \/ at' = "started" /\ init' = "waiting" /\ UNCHANGED exit
       \/ Return1("closing") /\ UNCHANGED init
    /\ UNCHANGED <<stateDir, notify, done, received, forwarder, forwardVars,
                   ran, death, sendVars>>

ForwardTo ==
    /\ at = "started"
    /\ at' = "forwarding"
    /\ forwarder' = "running"
    /\ UNCHANGED <<stateDir, notify, done, exit, received, forwardVars,
                   initVars, sendVars>>

\* The log, the proxies and the terminal.
SetUp ==
    /\ at = "forwarding"
    /\ \/ at' = "ready" /\ UNCHANGED exit
       \/ Return1("closing")
    /\ UNCHANGED <<stateDir, notify, done, received, forwarder, forwardVars,
                   initVars, sendVars>>

\* container.Exec fails when the init is dead, and can fail otherwise.
Exec ==
    /\ at = "ready"
    /\ \/ /\ init = "waiting"
          /\ at' = "wait" /\ init' = "running" /\ ran' = TRUE
          /\ UNCHANGED exit
       \/ Return1("closing") /\ UNCHANGED <<init, ran>>
    /\ UNCHANGED <<stateDir, notify, done, received, forwarder, forwardVars,
                   death, sendVars>>

\* Mutant: the number of the signal alone, without the 128.
RawNumber(state) == state.number
exitCodeOf(state) == IF state.signaled THEN 128 + state.number ELSE state.number

\* Without a process state there is only an error to return.
Wait ==
    /\ at = "wait"
    /\ init = "dead"
    /\ \/ at' = "closing" /\ exit' = exitCodeOf(death)
       \/ Return1("closing")
    /\ UNCHANGED <<stateDir, notify, done, received, forwarder, forwardVars,
                   initVars, sendVars>>

\* The deferred signals.stop runs before the deferred container.Destroy.
StopSignalling ==
    /\ at = "closing"
    /\ at' = "uncaught"
    /\ notify' = "stopped"
    /\ done' = TRUE
    /\ UNCHANGED <<stateDir, exit, received, forwarder, forwardVars, initVars,
                   sendVars>>

Dies(signaled, number, ours) ==
    /\ init' = "dead"
    /\ death' = [signaled |-> signaled, number |-> number, ours |-> ours]
Killed == Dies(TRUE, KillNumber, TRUE)

\* Destroy kills an init that still waits.  Whether it can then remove the
\* cgroup and the state directory is not asked.  Afterwards main exits, and
\* with it the forwarder.
Destroy ==
    /\ at = "uncaught"
    /\ at' = "ended"
    /\ stateDir' \in {"none", "left"}
    /\ forwarder' = "none"
    /\ IF init = "waiting" THEN Killed
       ELSE UNCHANGED <<init, death>>
    /\ UNCHANGED <<notify, done, exit, received, forwardVars, ran, sendVars>>

Main == \/ CreateContainer \/ CatchSignals \/ Start \/ ForwardTo \/ SetUp
        \/ Exec \/ Wait \/ StopSignalling \/ Destroy

-----------------------------------------------------------------------------
(* The forwarder goroutine                                                 *)

\* process.Signal(SIGKILL): nothing happens to an init that is dead.
KillInit == IF Alive THEN Killed ELSE UNCHANGED <<init, death>>

isStopSignal(s) == s \in StopSignals

\* A signal that asks for nothing is passed on; so is the first stop signal,
\* which starts the grace period; any other stop signal kills.  What a signal
\* other than SIGKILL does to the init is up to it: InitExits.
PassOn(s) ==
    passed' = Append(passed, s) /\ UNCHANGED <<init, death>>
PassKill == passed' = Append(passed, Kill) /\ KillInit

\* Mutants: stopRequested is tested before the kind of the signal;
\* stopRequested is never set; no timer is started.
ForwardAnySecond ==
    /\ forwarder = "running" /\ received # <<>>
    /\ received' = Tail(received)
    /\ IF stopRequested THEN PassKill /\ UNCHANGED <<stopRequested, killTimer>>
       ELSE /\ PassOn(Head(received))
            /\ IF isStopSignal(Head(received))
               THEN stopRequested' = TRUE /\ killTimer' = "armed"
               ELSE UNCHANGED <<stopRequested, killTimer>>
    /\ UNCHANGED <<mainVars, forwarder, ran, sendVars>>

ForwardForgetful ==
    /\ forwarder = "running" /\ received # <<>>
    /\ received' = Tail(received)
    /\ PassOn(Head(received))
    /\ IF isStopSignal(Head(received)) THEN killTimer' = "armed"
       ELSE UNCHANGED killTimer
    /\ UNCHANGED <<mainVars, forwarder, stopRequested, ran, sendVars>>

ForwardWithoutTimer ==
    /\ forwarder = "running" /\ received # <<>>
    /\ received' = Tail(received)
    /\ IF isStopSignal(Head(received)) /\ stopRequested
       THEN PassKill /\ UNCHANGED stopRequested
       ELSE /\ PassOn(Head(received))
            /\ stopRequested' = (stopRequested \/ isStopSignal(Head(received)))
    /\ UNCHANGED <<mainVars, forwarder, killTimer, ran, sendVars>>

Forward ==
    /\ forwarder = "running" /\ received # <<>>
    /\ received' = Tail(received)
    /\ \/ /\ ~isStopSignal(Head(received))
          /\ PassOn(Head(received))
          /\ UNCHANGED <<stopRequested, killTimer>>
       \/ /\ isStopSignal(Head(received)) /\ stopRequested
          /\ PassKill
          /\ UNCHANGED <<stopRequested, killTimer>>
       \/ /\ isStopSignal(Head(received)) /\ ~stopRequested
          /\ PassOn(Head(received))
          /\ stopRequested' = TRUE
          /\ killTimer' = "armed"
    /\ UNCHANGED <<mainVars, forwarder, ran, sendVars>>

ForwardTimer ==
    /\ forwarder = "running" /\ killTimer = "fired"
    /\ killTimer' = "spent"
    /\ KillInit
    /\ UNCHANGED <<mainVars, received, forwarder, stopRequested, passed, ran,
                   sendVars>>

\* select takes any case that is ready: caught signals and an expired timer
\* can still be handled after done is closed.
ForwardDone ==
    /\ forwarder = "running" /\ done
    /\ forwarder' = "returned"
    /\ UNCHANGED <<mainVars, received, forwardVars, initVars, sendVars>>

Forwarder == Forward \/ ForwardTimer \/ ForwardDone

-----------------------------------------------------------------------------
(* The rest of the world                                                   *)

\* stopGracePeriod is over.
TimerFires ==
    /\ killTimer = "armed" /\ ~Over
    /\ killTimer' = "fired"
    /\ UNCHANGED <<mainVars, received, forwarder, stopRequested, passed,
                   initVars, sendVars>>

\* The init exits, faults, is killed for its memory, or dies of a signal.
InitExits ==
    /\ Alive
    /\ \/ \E c \in Codes : Dies(FALSE, c, FALSE)
       \/ \E n \in Deaths : Dies(TRUE, n, FALSE)
    /\ UNCHANGED <<mainVars, received, forwarder, forwardVars, ran, sendVars>>

\* os/signal sends to the channel without blocking: a full one loses the signal.
Deliver(s) ==
    IF Len(received) < Cap
    THEN /\ received' = Append(received, s)
         /\ accepted' = Append(accepted, s)
    ELSE UNCHANGED <<received, accepted>>

SendSignal(s) ==
    /\ ~Over
    /\ sent < MaxSignals
    /\ sent' = sent + 1
    /\ \/ /\ notify = "on"
          /\ Deliver(s)
          /\ UNCHANGED <<at, forwarder>>
       \/ /\ notify # "on"
          /\ IF s \in Deadly THEN at' = "killed" /\ forwarder' = "none"
             ELSE UNCHANGED <<at, forwarder>>
          /\ UNCHANGED <<received, accepted>>
    /\ UNCHANGED <<stateDir, notify, done, exit, forwardVars, initVars>>

\* SIGPIPE ends a Go program that does not catch it and writes to a stdout or
\* stderr that nobody reads any more; forwardedSignals leaves it out.
BreakPipe ==
    /\ ~Over
    /\ at' = "sigpipe" /\ forwarder' = "none"
    /\ UNCHANGED <<stateDir, notify, done, exit, received, forwardVars, initVars,
                   sendVars>>

Next == \/ Main \/ Forwarder \/ TimerFires \/ InitExits \/ BreakPipe
        \/ \E s \in Signals : SendSignal(s)

Spec == Init /\ [][Next]_vars

\* The scheduler runs both goroutines, and time passes.  Nothing is assumed
\* of the container or of who sends signals.
FairSpec == Spec /\ WF_vars(Main) /\ WF_vars(Forwarder) /\ WF_vars(TimerFires)

-----------------------------------------------------------------------------
(* Properties                                                              *)

\* The signals that the forwarder has taken from the channel.
Handled == Len(accepted) - Len(received)

SecondStop(i) == /\ accepted[i] \in StopSignals
                 /\ \E j \in 1..(i - 1) : accepted[j] \in StopSignals

\* forwardTo: every caught signal reaches the container once and in order,
\* those from before the start too, except that a stop signal after the first
\* one becomes SIGKILL.
PassedOn ==
    /\ Handled = Len(passed)
    /\ \A i \in 1..Len(received) : received[i] = accepted[Handled + i]
    /\ \A i \in 1..Len(passed) :
          passed[i] = IF SecondStop(i) THEN Kill ELSE accepted[i]

\* forwardTo: curimata kills a command only when the grace period after the
\* first stop signal is over, or a second stop signal came; but for the
\* Destroy of a container whose command never ran.
GraceRespected ==
    death.ours =>
        \/ killTimer = "spent" /\ (\E i \in 1..Handled : accepted[i] \in StopSignals)
        \/ \E i \in 1..Handled : SecondStop(i)
        \/ at = "ended" /\ ~ran

\* startAgentEnvironment: whatever fails in between and whatever signals come,
\* a run that returns leaves no container process; and no state directory, but
\* for the one that Destroy itself could not remove (main.go:177).
CleanEnd == at = "ended" => stateDir # "there" /\ ~Alive

\* README.md:60-62, main and exitCodeOf: 0 means that the command ran and said
\* so; of a command that some signal killed, its own, the kernel's or
\* curimata's, the exit code tells which, as in a shell; and nothing but 1 is
\* said of a command that did not run.  1 may also be an error of curimata.
ExitTellsEnd ==
    at = "ended" /\ exit # 1 =>
        /\ ran
        /\ IF death.signaled THEN exit = 128 + death.number
           ELSE exit = death.number

StopPending == stopRequested \/ \E i \in 1..Len(received) : received[i] \in StopSignals

\* forwardTo: a stop signal that was caught ends the run, whatever the
\* container does with it and whenever it comes.
StopEndsRun == StopPending ~> Over

-----------------------------------------------------------------------------
(* The inductive invariant                                                 *)

\* The variables of the forwarder against the signals it has handled.
Latch ==
    /\ stopRequested <=> \E i \in 1..Len(passed) : accepted[i] \in StopSignals
    /\ killTimer # "nil" => stopRequested

\* The container and the exit code against the steps of the main goroutine.
Phases ==
    /\ at \in {"begin", "created", "caught"} => init = "none"
    /\ at \in {"begin", "created", "caught", "started", "forwarding", "ready"}
          => ~ran
    /\ at = "wait" => ran
    /\ init = "running" => at \in {"wait", "killed", "sigpipe"}
    /\ init = "waiting" => ~ran
    /\ init # "dead" => ~death.ours
    /\ at = "begin" => stateDir = "none"
    /\ at \in {"closing", "uncaught", "ended"} =>
          IF ran THEN init = "dead" /\ exit \in {1, exitCodeOf(death)}
          ELSE exit = 1

IInv == TypeOK /\ PassedOn /\ Latch /\ Phases /\ CleanEnd /\ GraceRespected

-----------------------------------------------------------------------------
(* What a comment says and the code does not do                            *)

\* Violated.  main.go:179-180: once signals are caught, "the deferred cleanup
\* above must still run".
CleanupStillRuns == at = "killed" /\ notify # "never" => stateDir # "there"
=============================================================================
