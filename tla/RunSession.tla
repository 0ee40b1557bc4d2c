----------------------------- MODULE RunSession -----------------------------
(***************************************************************************)
(* One "curimata run" from its command line to its exit: the steps and     *)
(* signals of RunSignals together with the limits it was asked for, the    *)
(* proxies, and the terminal that it takes over (terminal.go).  What       *)
(* RunSignals calls SetUp and the begin of the cleanup is opened up here.  *)
(***************************************************************************)
EXTENDS RunSignals, Limits

CONSTANTS Settings, \* command lines with their policy files and terminals
          MaxOutput \* bound: how much the command writes

\* The flags and the fields of the file are integers, but for the CPUs.
ASSUME SettingsOK ==
    \A s \in Settings : \A asked \in {s.flags, s.file} : \A f \in DOMAIN asked :
        asked[f] \in Int \/ (f = "cpus" /\ asked[f] = NaN)

VARIABLES
    setting,    \* the command line, the policy file, is stdin a terminal, and
                \* are stdout and stderr a pipe?
    stage,      \* what is done before the container is created
    limits,     \* options.resourceLimits
    session,    \* is there a systemd user session?
    cgroup,     \* the cgroup that is asked of libcontainer
    proxies,    \* none, serving or closed
    host,       \* the mode of the host terminal; stuck when Reset failed
    closeTimer, \* the timer of terminal.close
    copier,     \* the goroutine that copies output to the screen
    screen,     \* does what stdout and stderr lead to take output, does it not
                \* for now, or has it gone?
    written,    \* how much the command has written
    shown       \* how much of it is on the screen

argVars == <<setting, stage, limits, session, cgroup>>
outputVars == <<copier, screen, written, shown>>
terminalVars == <<host, closeTimer, outputVars>>
sessionVars == <<argVars, proxies, terminalVars>>
allVars == <<vars, sessionVars>>

NoCgroup == cgroupConfig(NoLimits, FALSE)

SessionInit ==
    /\ Init
    /\ setting \in Settings
    /\ stage = "parse" /\ limits = NoLimits
    /\ session \in BOOLEAN
    /\ cgroup = NoCgroup
    /\ proxies = "none"
    /\ host = "cooked" /\ closeTimer = "nil"
    /\ copier = "none" /\ screen = "on" /\ written = 0 /\ shown = 0

-----------------------------------------------------------------------------
(* Before the container                                                    *)

\* An error here ends the run, as an error of createContainer does.
ParseRunArgs ==
    /\ at = "begin" /\ stage = "parse"
    /\ LET l == apply(setting.flags, setting.file) IN
         IF check(l) /\ requireScope(l, systemdScope(setting.noSystemd, session))
         THEN /\ limits' = l /\ stage' = "box"
              /\ UNCHANGED vars
         ELSE /\ CreateContainer /\ at' = "ended"
              /\ UNCHANGED <<limits, stage>>
    /\ UNCHANGED <<setting, session, cgroup, proxies, terminalVars>>

\* The box, the rules and the network helper; a pull takes its time.
ResolveRootfs ==
    /\ at = "begin" /\ stage = "box"
    /\ \/ stage' = "create" /\ UNCHANGED vars
       \/ CreateContainer /\ at' = "ended" /\ UNCHANGED stage
    /\ UNCHANGED <<setting, limits, session, cgroup, proxies, terminalVars>>

\* The scope is decided anew.
Create ==
    /\ stage = "create"
    /\ CreateContainer
    /\ cgroup' = IF at' = "ended" THEN cgroup
                 ELSE cgroupConfig(limits, systemdScope(setting.noSystemd, session))
    /\ UNCHANGED <<setting, stage, limits, session, proxies, terminalVars>>

StartContainer ==
    /\ Start
    /\ at' = "started" => Startable(cgroup, session)
    /\ UNCHANGED sessionVars

-----------------------------------------------------------------------------
(* The proxies and the terminal                                            *)

SetUpDone == SetUp /\ at' = "ready"

\* Mutant: a setup that fails ends the process without the defers.
SetUpExits ==
    /\ at = "forwarding" /\ Return1("ended") /\ forwarder' = "none"
    /\ UNCHANGED <<stateDir, notify, done, received, forwardVars, initVars, sendVars>>
SetUpFails == SetUp /\ at' = "closing"

\* openNetlog can fail.
OpenNetwork ==
    /\ at = "forwarding" /\ setting.network /\ proxies = "none"
    /\ \/ proxies' = "serving" /\ UNCHANGED vars
       \/ SetUpFails /\ UNCHANGED proxies
    /\ UNCHANGED <<argVars, terminalVars>>

\* SetRaw is the last step of attach that can fail.
Attach ==
    /\ at = "forwarding" /\ setting.terminal
    /\ setting.network => proxies = "serving"
    /\ \/ SetUpDone /\ host' = "raw" /\ copier' = "copying"
       \/ SetUpFails /\ UNCHANGED <<host, copier>>
    /\ UNCHANGED <<argVars, proxies, closeTimer, screen, written, shown>>

PassStreams ==
    /\ ~setting.terminal
    /\ setting.network => proxies = "serving"
    /\ SetUpDone
    /\ UNCHANGED sessionVars

\* The deferred calls: interactiveTerminal.close, then networkGuard.close.
StartCloseTimer ==
    /\ at = "closing" /\ host = "raw" /\ closeTimer = "nil"
    /\ closeTimer' = "armed"
    /\ UNCHANGED <<vars, argVars, proxies, host, outputVars>>

\* Mutants: close gives up without a Reset when the time is over; it does
\* not wait for the output.
CloseOrGiveUp ==
    /\ at = "closing" /\ host = "raw"
    /\ \/ copier \in {"done", "broken"} /\ closeTimer # "nil" /\ host' = "cooked"
       \/ closeTimer = "fired" /\ host' = "left raw"
    /\ UNCHANGED <<vars, argVars, proxies, closeTimer, outputVars>>

CloseAtOnce ==
    /\ at = "closing" /\ host = "raw"
    /\ host' = "cooked"
    /\ UNCHANGED <<vars, argVars, proxies, closeTimer, outputVars>>

\* An error of Reset is not looked at.
CloseTerminal ==
    /\ at = "closing" /\ host = "raw"
    /\ \/ copier \in {"done", "broken"} /\ closeTimer # "nil"
       \/ closeTimer = "fired"
    /\ host' \in {"cooked", "stuck"}
    /\ UNCHANGED <<vars, argVars, proxies, closeTimer, outputVars>>

CloseProxies ==
    /\ at = "closing" /\ host # "raw" /\ proxies = "serving"
    /\ proxies' = "closed"
    /\ UNCHANGED <<vars, argVars, terminalVars>>

GiveSignalsBack ==
    /\ host # "raw" /\ proxies # "serving"
    /\ StopSignalling
    /\ UNCHANGED sessionVars

SessionMain ==
    \/ ParseRunArgs \/ ResolveRootfs \/ Create \/ StartContainer
    \/ OpenNetwork \/ Attach \/ PassStreams
    \/ StartCloseTimer \/ CloseTerminal \/ CloseProxies \/ GiveSignalsBack
    \/ (CatchSignals \/ ForwardTo \/ Exec \/ Wait \/ Destroy) /\ UNCHANGED sessionVars

-----------------------------------------------------------------------------
(* The output of the command                                               *)

Write ==
    /\ init = "running" /\ setting.terminal /\ written < MaxOutput /\ ~Over
    /\ written' = written + 1
    /\ UNCHANGED <<vars, argVars, proxies, host, closeTimer, copier, screen, shown>>

CopyOutput ==
    /\ copier = "copying" /\ screen = "on" /\ shown < written
    /\ shown' = shown + 1
    /\ UNCHANGED <<vars, argVars, proxies, host, closeTimer, copier, screen, written>>

\* The pty ends when no process of the container is left and it is drained;
\* or a read or a write fails.  A pipe that is gone is no such failure.
CopyEnds ==
    /\ copier = "copying"
    /\ \/ ~Alive /\ shown = written /\ copier' = "done"
       \/ (screen = "gone" => shown = written) /\ copier' = "broken"
    /\ UNCHANGED <<vars, argVars, proxies, host, closeTimer, screen, written, shown>>

\* A screen can stop for any time; the reader of a pipe can go.
ScreenStops ==
    /\ ~Over /\ screen # "gone"
    /\ \/ copier = "copying" /\ screen' = IF screen = "on" THEN "off" ELSE "on"
       \/ forwarder = "running" /\ setting.pipe /\ screen' = "gone"
    /\ UNCHANGED <<vars, argVars, proxies, host, closeTimer, copier, written, shown>>

\* Writes into a pipe that is gone: output, a line of the forwarder's log
\* before it kills or passes a stop signal on, a line of a proxy's log.
CopyIntoPipe == copier = "copying" /\ shown < written
LogsNow == \/ killTimer = "fired"
           \/ received # <<>> /\ isStopSignal(Head(received))
WriteIntoPipe ==
    /\ screen = "gone"
    /\ CopyIntoPipe \/ proxies = "serving" \/ (forwarder = "running" /\ LogsNow)
    /\ BreakPipe
    /\ UNCHANGED sessionVars

\* What the forwarder does without a line in the log, and with one.
ForwarderStep ==
    /\ \/ ForwardDone
       \/ Forward /\ (isStopSignal(Head(received)) => screen # "gone")
       \/ ForwardTimer /\ screen # "gone"
    /\ UNCHANGED sessionVars

CloseTimerFires ==
    /\ closeTimer = "armed" /\ closeTimer' = "fired" /\ ~Over
    /\ UNCHANGED <<vars, argVars, proxies, host, outputVars>>

\* The user logs in or out.
SessionChanges ==
    /\ at \in {"begin", "created", "caught"}
    /\ session' = ~session
    /\ UNCHANGED <<vars, setting, stage, limits, cgroup, proxies, terminalVars>>

Outside == TimerFires \/ InitExits \/ \E s \in Signals : SendSignal(s)

SessionNext ==
    \/ SessionMain
    \/ ForwarderStep \/ (Outside /\ UNCHANGED sessionVars)
    \/ Write \/ CopyOutput \/ CopyEnds \/ ScreenStops \/ WriteIntoPipe
    \/ CloseTimerFires \/ SessionChanges

SessionSpec == SessionInit /\ [][SessionNext]_allVars

\* As in RunSignals; the screen owes nothing.
FairSessionSpec ==
    /\ SessionSpec
    /\ WF_allVars(SessionMain)
    /\ WF_allVars(ForwarderStep \/ (LogsNow /\ WriteIntoPipe))
    /\ WF_allVars(TimerFires /\ UNCHANGED sessionVars)
    /\ WF_allVars(CloseTimerFires)

-----------------------------------------------------------------------------
(* Properties                                                              *)

\* terminal.go:117-131, main.go:181-226: whatever fails and whatever signals
\* come, curimata leaves the host terminal as it was, also when a signal ends
\* it where signals are not caught.  There are two exceptions: the terminal
\* itself refuses the Reset, and the output goes into a pipe that is gone, so
\* that SIGPIPE ends curimata at its next write.
TerminalRestored ==
    Over \/ at = "uncaught" =>
        \/ host = "cooked"
        \/ host = "stuck"
        \/ at = "sigpipe" /\ setting.pipe

\* terminal.go:117-123: all that the command wrote is on the screen before
\* the cleanup goes on, unless the screen did not take it for two seconds.
OutputShown ==
    at \in {"uncaught", "ended"} /\ shown < written
      => closeTimer = "fired" \/ copier = "broken"

\* What the user asked for, a flag before the file.
Asked(f) ==
    IF f \in DOMAIN setting.flags THEN setting.flags[f]
    ELSE IF f \in DOMAIN setting.file THEN setting.file[f] ELSE 0

\* policy.go:15-17, cgroup.go:35-54, 94-121: a command runs only with the very
\* limits that were asked for, whatever the session does meanwhile, and a
\* limit is never lost in a conversion.
LimitsInForce ==
    ran => /\ cgroup.memory = Asked("memoryMiB") * MiB
           /\ cgroup.pids = Asked("pids")
           /\ Asked("cpus") - 10 * cgroup.quota \in 0..9
           /\ Asked("cpus") > 0 => cgroup.quota >= MinQuota
           /\ (\E f \in Fields : Asked(f) > 0) => cgroup.systemd

-----------------------------------------------------------------------------
(* The inductive invariants, beside IInv of RunSignals                     *)

\* The terminal and the copy of the output against the steps of the run.
TerminalStates ==
    /\ host \in {"cooked", "raw", "stuck"}
    /\ screen = "gone" => setting.pipe
    /\ at = "sigpipe" => screen = "gone"
    /\ shown \in Nat /\ written \in Nat /\ shown <= written
    /\ host = "raw" => at \in {"ready", "wait", "closing", "sigpipe"}
    /\ at \in {"ready", "wait", "closing"} => notify = "on"
    /\ at \in {"caught", "started", "forwarding"} => notify = "on"

OutputStates ==
    /\ at \in {"started", "forwarding", "ready", "wait"} => init # "none"
    /\ copier # "none" => init # "none"
    /\ copier = "done" => init = "dead" /\ shown = written
    /\ at \in {"ready", "wait"} /\ setting.terminal => host = "raw"
    /\ written > 0 => \/ host = "raw" \/ at \in {"killed", "sigpipe"}
                      \/ copier \in {"done", "broken"} \/ closeTimer = "fired"

TInv == TerminalStates /\ OutputStates

\* The limits on their way from the command line to the cgroup.
LInv ==
    /\ stage \in {"parse", "box", "create"}
    /\ setting \in Settings
    /\ stage # "parse" => limits = apply(setting.flags, setting.file) /\ check(limits)
    /\ at \in {"created", "caught"} =>
          stage = "create" /\ \E scope \in BOOLEAN : cgroup = cgroupConfig(limits, scope)
    /\ at \in {"started", "forwarding", "ready"} \/ ran =>
          /\ stage = "create" /\ \E scope \in BOOLEAN : cgroup = cgroupConfig(limits, scope)
          /\ cgroup.systemd \/ (cgroup.memory = 0 /\ cgroup.pids = 0 /\ cgroup.quota = 0)
=============================================================================
