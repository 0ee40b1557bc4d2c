# Verification of curimata in TLA+

curimata runs a command, usually a coding agent, in a rootless container that
reaches the internet only through its own proxies.  This directory holds TLA+
models of the program, the TLC runs that check them and TLAPS proofs about
them.  Line numbers refer to the files in `src/`; `PROJECT.json` names for every
definition the lines it stands for.

## The system

| Component | Source | State it keeps | Operations | Meets |
|---|---|---|---|---|
| run | `main.go` | the steps of one container's life, as a stack of defers | parse, lock, prepare, create, start, exec, wait, destroy | every other part |
| box lock | `boxlock.go` | one flock per name, dropped by the kernel with the process | `lockBox`, close | run, rm |
| boxes | `box.go` | `boxes/<name>/rootfs`, `image`; the libcontainer state directory of the name | `prepareBox`, `installBox`, `removeBoxes`, `clearStoppedContainer` | lock, image cache, libcontainer, removal helper |
| scopes, limits | `cgroup.go` | a systemd scope per container | `stopLeftoverScope`, `check` | libcontainer, systemd |
| removal helper | `removetree.go` | a child in a user namespace | go-ahead pipe, delete, exit | rm, image cache |
| image cache | `image.go` | `rootfs`, `rootfs.tmp`, `digest` per reference, without a lock | `pullRootfs`, `untar` | registry, boxes |
| signals | `signals.go` | a channel of 16 signals, a kill timer | `catchSignals`, `forwardTo`, `stop` | run, the container |
| network helper | `netns.go` | a child that owns the namespaces, the listeners | `startNetnsHolder`, `stop` | run, container, proxies |
| proxies | `netguard.go` | sessions with deadlines, the allowlist, the log | SOCKS, CONNECT, plain HTTP, `splice` | container, the internet |
| policy | `policy.go` | none | `loadPolicy`, `apply` | run, proxies, limits |
| terminal | `terminal.go` | console and its copy loops | `attach`, `resize`, `close` | run |
| directories, configuration | `dirs.go`, `container.go` | none | path and configuration computation | all |

The hard behaviour is not inside one process. It lies between processes that
share nothing but files, a flock and systemd: a curimata can be killed between
any two steps, its container and its helper are processes of their own that end
later, and the next run or rm of the name has to work out from the files what
is left. Inside one process the proxies, the copy of the output and the signal
forwarder run concurrently with the start and the end of the container, and
the peers of a proxy send, stop and vanish when they like.

What makes each part correct:

- run, lock, boxes: one command per name; nothing that lives is removed or
  started over; what a killed process left is cleared completely or not at
  all; a box has the image it is asked for; every process ends.
- limits: a command never runs with less than the limits that were asked for,
  whatever happens between their check and their use.
- image cache: a pull returns one whole image.
- image pull: the tree is what the layers mean one on top of the other; other
  archives than the named ones are refused and intact layers are not; an expired
  token stops no pull.
- signals: a stop signal ends the container, within the grace period or at
  once the second time; the exit code says how it ended.
- terminal: it is not left raw, and the last output is not lost.
- network helper: run and helper never wait for each other; the helper ends
  with its run.
- proxies: nothing is dialled that the allowlist does not permit, and what it
  permits is not refused; streams, ends of streams and answers keep their
  order; no wait that should end lasts, and no tunnel ends that should last.

## Modules

| Module | Models | Extends |
|---|---|---|
| `BoxService` | what one box name promises, abstractly | |
| `BoxLifecycle` | run, rm, lock, state directories, scopes, removal helper, kills | |
| `BoxProperties` | the properties of `BoxLifecycle`, its inductive invariants and the refinement of `BoxService` | `BoxLifecycle`, instance of `BoxService` |
| `BoxLifecycle_proofs`, `BoxRemoval_proofs` | TLAPS proofs | `BoxProperties` |
| `ImageCache` | the cache of one image reference under several pulls, and the copy into a box | |
| `ImageCache_proofs` | TLAPS proofs | `ImageCache` |
| `Layer` | `untar`, one archive entry at a time, and what a layer means | |
| `ImagePull` | one pull: tokens, manifests, layers, digests | `Layer` |
| `ImagePull_proofs` | TLAPS proofs | `ImagePull` |
| `RunSignals` | the signals of one run against the start and end of its container | |
| `Limits` | the limits of a run: flags, policy file, checks, conversion | |
| `RunSession` | `RunSignals` composed with limits, proxies and terminal | `RunSignals`, `Limits` |
| `RunSession_proofs` | TLAPS proofs, about `RunSignals` too | `RunSession` |
| `NetnsHolder` | the handshake with the network helper, and its end | |
| `NetnsHolder_proofs` | TLAPS proofs | `NetnsHolder` |
| `Allowlist` | parsing of rules, matching of targets, and what a rule means | |
| `ProxySession` | one connection to a proxy and its connection to a server | `Allowlist` |
| `Netguard` | `ProxySession` composed with listeners, serve loops and close | `ProxySession` |
| `Netguard_proofs` | TLAPS proofs | `Netguard` |
| `NetguardAnswers_proofs` | TLAPS proofs about what a client is told | `Netguard_proofs` |
| `MC*` | model values and input sets for TLC | the module they are named after |

### BoxLifecycle

A process `p` is one call of `curimata run` or `curimata rm`; its slot is used
again when the process, its container and its helper are gone. `job[p]` is the
command line and `pc[p]` the next step. The state of the host is the flock of
every name (`lock`), the libcontainer state directory (`state`), the container
init of every process (`ctr`), its removal helper (`helper`) and the box
directory (`dir`, `rootfs`, `record`, `cut`). `cut` marks a box that a removal
has begun to delete. A state directory is absent, bare (without `state.json`),
torn (a `state.json` that does not decode) or saved with the init it records.
The scope of a name is the set of its container processes that were put into
one; systemd drops an empty scope.

The actions follow the code: `LockBox`, `PrepareBox`, `CopyTree`,
`RecordImage`, `InstallBox`, `CreateContainer`, `SpawnInit` to `SaveState` (the
parts of `Container.Start`), `Exec`, `WaitReturns`, `DestroyScope`,
`DestroyState` for a run; `ClearStoppedContainer`, `StopLeftoverScope`,
`DestroyStopped`, `EraseState` for the clearing that run and rm share;
`RmNext`, `RemoveBox`, `RemoveTree`, `ReleaseHelper`, `WaitHelper` for rm.
`Fail` is every error return that has only the lock to give back. `Kill` can
strike between any two of them. Where libcontainer or the kernel acts the
definition is marked external in `PROJECT.json`; a pull is a step that succeeds
or fails here and is opened up in `ImageCache` and `ImagePull`.

Left out: a pull for a box that exists (it does not touch the box), image and
name validation, messages. Two boxes on one rootfs directory are outside the
promise (README.md of the program says they share it).

### ImageCache

A tree maps each layer to the digest whose files are there, so a half-written,
half-removed or mixed tree is visible. Removal and copy go layer by layer, and
several processes work on the same paths. `Faults` turns on kills and failing
I/O at any step. `cut` remembers that a pull ended between the removal of the
old rootfs and the new stamp, which is the one thing the stamp does not tell (see
the findings); the next pull that writes its stamp clears it. A pull is one
step after the other, so that it ends is not stated.

### Layer and ImagePull

`Layer` has the operations of the file system that `untar` uses, as functions
from a tree to the set of trees they can leave, empty for an error: `RemoveAll`,
`clearDir`, `MkdirAll`, `Place`, and on top of them `Link`, `Make`, `Unpacked`
(one entry) and `Chmodded` (the directory modes at the end). A path is a
sequence of names of any length. `Hop`, `Follow` and `joinInside` are SecureJoin,
link by link; `MaxLinks` is the number of links that it follows before it gives
up. `Clearable` is what an unprivileged `os.RemoveAll` can remove: no read-only
directory that holds anything, at the path or below it. Modes are set by the
kernel, which follows the links that later entries have put in the place of
parents, and takes a link with a slash out of the tree (`Inside`).

Beside these stands the reference definition: `Overlay` says without any order
of steps what a layer means on top of a lower tree. `Skeleton` has the links that
its names are resolved by, `Kept` what it does not hide of the lower tree,
`Upper` the tree without its hard links, which are resolved in that one.
`WellFormed` says which layers have one meaning at all: a path is added once,
what is below a path comes after it, no name leads in a loop or is changed after
it has been followed, and a hard link comes after its file. The meaning is
defined for paths of at most two names and links that lead to names at the top
(`TwoNames`, a part of `WellFormed`); that is enough for a link inside the way
of an entry, a chain of links, a loop, a directory in the place of a link and a
link in the place of a directory. `Blocked` names the layers the code refuses
although they have a meaning. The operations of `untar` know no such bound.

`ImagePull` has the state of `registryClient` and of one extraction. `Request`,
`Authenticate` and `RequestAgain` are the parts of `get`; `ReadManifest` chooses
the manifest of an index; `UntarEntry`, `UntarBroken`, `ApplyModes`,
`CheckDigest` and `NextLayer` are the parts of `extractLayer`. The registry can
let a token expire at any moment (`Expire`) and every step can fail (`Fault`).
For each layer there is the blob that the manifest names by its digest and the
one that the registry serves. A blob is an archive (its entries, and its `form`
for all other bytes) and the bytes behind its end (`tail`). `CheckDigest` hashes
the archive and as much of the tail as gzip and tar happened to read, which is
any part of it, because the rest is drained past the hasher
(image.go:413-416), and compares that with what the manifest names.

### RunSignals and RunSession

`at` is the next step of the main goroutine in `startAgentEnvironment`, from
`createContainer` to the deferred `container.Destroy`; every error return leads
to the defers. `received` is the channel, `stopRequested` and `killTimer` are
the local variables of the forwarder goroutine, whose `select` takes any case
that is ready: `Forward`, `ForwardTimer`, `ForwardDone`. `init` is the
container's init: it waits, is released by `Exec`, and can exit at any time with
any code, die of any signal in `Deaths` (its own fault, the kernel's memory
killer, one that was passed on), or never end. `death` has its wait status and,
as a history, whether it was curimata that killed it. `Deadly` are
the signals that end a Go program which does not catch them; SIGUSR1 and SIGUSR2
do not. SIGPIPE is not among the caught signals: it ends a Go program that writes
to a stdout or stderr nobody reads any more (`BreakPipe`). A killed run stays as
it is here; what follows is in `BoxLifecycle`. `accepted` and `passed` are
histories: what entered the channel, and what the forwarder sent for it.
`Destroy` may fail to remove the state directory (`stateDir` is then `left`):
`main.go:177` does not look at its error.

`RunSession` extends it to one whole run. What `RunSignals` calls `SetUp` is
opened up into `OpenNetwork` and `Attach`, its begin of the cleanup into
`StartCloseTimer`, `CloseTerminal`, `CloseProxies` and `GiveSignalsBack`; before
`createContainer` stand `ParseRunArgs` and `ResolveRootfs` with the limits. The
output goroutine (`CopyOutput`, `CopyEnds`), the screen (`ScreenStops`), the
timer of `terminal.close` (`CloseTimerFires`) and the systemd session
(`SessionChanges`) act at any time. Only stdin must be a terminal
(terminal.go:35), so stdout and stderr can be a pipe (`setting.pipe`) whose
reader goes; a write into it, by the copy of the output, the log of the
forwarder or that of a proxy, is `WriteIntoPipe`. `CloseTerminal` may find that
`Reset` fails (`host` is then `stuck`). Each of its steps is a step of `RunSignals`
or leaves its variables alone; `RunSession_proofs` proves it.

`Limits` computes on integers of a fixed width: `MaxInt` is the largest int64,
and a product wraps around as in Go. CPU limits are counted in tenths of a
microsecond of quota, so that the truncation shows.

### NetnsHolder

The run and its helper share a pipe and a socket; the state is who still has
which end open, because an end of file is how each side learns of the other's
death. `at` is the step of the run (`startNetnsHolder`, then `stop`), `helper`
the step of the helper (`runNetnsHolderStage1`, the exec, `runNetnsHolder`).
Every step can fail; the run can be killed (`RunKilled`) and the helper, which
is in the run's process group, too (`HelperKilled`).

### Allowlist, ProxySession and Netguard

A host is the sequence of its labels, so case, the trailing dot, wildcards and
the brackets of IPv6 are visible where they matter. A text has a port, no colon
(`NoPort`) or a colon with nothing behind it (`EmptyPort`): `Splits` says when
`splitHostPort` takes it apart, and `targetOf` keeps the colon of one that it
does not (`Whole`). `loadAllowlist` and `permits` translate the code; `Means` and
`Allowed` say on their own what the text of a rule permits.

In `ProxySession` a peer sends items: a greeting, a request with its flags, a
body, a response, a piece of a stream. An item lies in the socket, then in the
`bufio.Reader` of the proxy, then is used, and one read takes any number of
them, which is how bytes of a tunnel get into the reader of the negotiation.
The handler is one action per step that can block: `ReadGreeting`,
`ReadSocksRequest`, `ReadRequest`, `Forward`, `Dial`, `ReplyOK`, `Proceed`,
`SendRequest`, `RelayResponse`, the `Drain` steps and the two directions of
`splice`, which run concurrently (`CopyUp`, `CopyDown`, `UpEnds`, `DownEnds`).
Deadlines are counted in ticks and only ever run while they are set; a dial has
one of its own, and ends by it (`DialTimesOut`) if nothing else ends it. Peers
may send, half-close, vanish, stay silent or stop reading at any moment. A write
to a peer that has stopped reading waits (`Takes`), until its deadline where
there is one; in a tunnel there is none.

`Netguard` adds `LoadAllowlist`, `StartNetguard`, the two serve loops and
`close`. The sessions share nothing but the allowlist, which does not change
once it is parsed, so one client shows what can happen to each.

## Runs

| Run | Instance | Shows |
|---|---|---|
| `box_shared` | 2 processes, 1 name, 2 images, session, no foreign files | the safety properties and the refinement |
| `box_helper` | 2 processes, 1 name, 1 image, with and without a session, foreign files | every process ends |
| `box_lost_session` | as shared, with and without a session | finding: the scope is lost |
| `box_killed_rm` | foreign files | finding: the helper outlives the lock |
| `cache` | 1 process, 2 digests, 3 layers, faults | pulls return a whole image unless a removal was cut short; no mixtures |
| `cache_half_removed` | 1 process, faults | finding: a partial rootfs is trusted |
| `cache_race` | 2 processes, 1 digest | finding: a partial rootfs is installed |
| `layers` | 7718 images of up to three layers | the tree is the image; only the named archives are accepted, intact layers are not refused; tokens are renewed; a pull ends |
| `run_session` | 3 signals of 2 kinds, channel of 2, exit codes 0 and 2, death by signal 11, 11 settings | signals, grace period, exit code, clean end, terminal, output, limits |
| `signals_teardown` | the same signals | finding: the teardown can be cut short by a signal |
| `netns_handshake` | 3 listeners | the handshake ends, listeners and helper belong together, the helper ends with its run |
| `proxies` | 6 configurations, 17 clients of both proxies, 1 failed accept | the eleven properties of `Netguard` |

Bounds. One name is enough for what the lock protects, since names share no
state, and the proofs hold for any number of names; the loop of rm over several
names is in the model and in the proofs. Two processes give every pair of a dead
and a live user of a name, and because slots are used again the history of a
name is not bounded. Two images give a mismatch. Two digests and three layers
give a mixture and a tree that is neither empty nor whole. Three signals fill a
channel of two and give a first and a second stop signal with another kind
around them; the proofs cover every number and every capacity. In `run_session`
a MiB is 4 bytes and an int64 ends at 31, so that 7 MiB are the most that fit,
8 overflow and 16 wrap around to 0, no limit; the settings take a limit from the
flags, the file and both, on each side of every boundary. One setting has a
terminal on stdin and a pipe on stdout and stderr, which is the one with the
most to go wrong. One piece of output is
lost or shown, and the proof covers any amount. Three listeners give none, some
and all of them received; the proof covers every number. The images of `layers`
take every layer of at most two entries from twenty-four between a bottom layer
with a read-only directory, links, a chain of links or hard links and a top
layer that writes through them: pairs are what it takes for an entry to meet
what another has left or hidden. Two links are followed (`MaxLinks`), so that
three names make a chain that is followed to its end and loops that are not; the
proofs cover every number. Pairs of entries with paths of three names, links
below the top and links with a slash over bottom layers of that kind are for
`TypeOK`, since the meaning is not defined for them. Every blob of a small set
is served for every other one, with the same and with other entries, bytes and
tails. In `proxies` the deadline of a negotiation and of a dial is 1 tick and
the idle deadline 2: a dial can begin before or after a tick of the
negotiation's, so either can be the first to run out. The failed accept is one
of the SOCKS listener; the loops of both are the same. The configurations take a
name, a wildcard, an IPv6 address, a refused port, any port and nothing; the
clients take every kind of request, in sequences that use a connection again for
the same and for another server.

Fairness. `BoxLifecycle` assumes weak fairness of each process's own next step
and of each helper's: the kernel schedules live processes. No fairness is
assumed of kills, of containers (a command may run for ever, so liveness stops
at `wait`) or of new command lines. `RunSignals` and `RunSession` assume it of
the main goroutine, of the forwarder and of the two timers, `NetnsHolder` of the
run and of the helper, `ImagePull` of the pull, `Netguard` of its goroutines
(each handler, each direction of a tunnel, the serve loops, close) and of the
clock. `ImageCache` states no liveness; in `cache_race` its fairness only says
that the race needs neither pull to stop. A step that writes is not enabled
while its peer does not read, and a direction of a tunnel is given no fairness
while what it has to write is held up like that (`Stuck`). The step in which the
forwarder writes a line of its log is fair, also when it ends curimata because
nobody reads that log. Nothing is assumed of containers, clients, servers (not
even that they read), registries, the screen, of whoever sends signals, that a
dial returns before its deadline, or that a run finishes. The signals sent are
bounded, so the random choice of `select` cannot starve the timer.

`CHECK_DEADLOCK FALSE` stands where the program ends by itself: a run, its
handshake, its proxies or a pull is over.

## Proofs

`BoxLifecycle_proofs` proves, for any sets of processes, names and images,
`TypeCorrect`, `LocksAreInUse`, `OneCommand` and `LiveState`. The only
assumption is `ConstantsOK`. `OneCommandPerName` is not inductive: a second
command could start while the first one's state is unknown. The inductive
invariant `IInv` adds that a process that has a lock, a container or a helper
has a name (`Named`), that a lock is held exactly by the process that works on
its name (`LockIsInUse`), that a running command is recorded in the state of
its name (`RunningIsSaved`), and that no command runs under a name whose state
a process is about to write or remove (`Quiet`). One lemma per conjunct has one
step per action; the theorem then follows because one state records one init.

`BoxRemoval_proofs` goes on from there. `NoRemoval` needs that an init which
waits for Exec is recorded like a running command (`CreatedIsSaved`), and that
behind a clear there is no state directory (`ClearedIsAbsent`); the two cannot
be true of one name. `NoLostScope`, `Cleared` and `NothingLeft` have the premise
that every process reaches a session (`Sessions \subseteq {TRUE}`), without
which they are false: `box_lost_session` is the counterexample. Their invariant
`SInv` says for each step which processes a scope can hold (`ScopeOnTheWay`).
`ChosenImage` and `Refines` have the premise that no box holds files of
subordinate IDs (`~ForeignFiles`), without which a helper outlives the lock:
`box_killed_rm` is the counterexample. `Refines` shows that every step of the
lifecycle is one step of `BoxService` or a stutter, with `BoxesOK` about the two
values that stand for no box and for a damaged one.

`RunSession_proofs` proves about `RunSignals`, from `ConstantsOK`, `InOrder`,
`Grace`, `Clean`, `ExitCode` and `TypeCorrect`, for any set of signals that the
command can die of and with a `Destroy` that can fail. `PassedOn` says how the
histories and the channel fit together, `Latch` ties the forwarder's variables
to the signals it has handled, `Phases` ties the container and the exit code to
the step of the main goroutine. `GraceRespected` needs all three: a kill is
excused by a prefix of the handled signals, and an excuse never goes away
(`ExcusedStays`). Then it proves that `RunSession` implements `RunSignals`
(`ImplementsSignals`), so that what is proved there is true here
(`SessionClean`). `TInv` ties the mode of the terminal, the copy of the output,
its timer and the pipe to the step of the run, for `Restored` and `Shown`; `LInv` follows
the limits from the command line to the cgroup, for `InForce`. The arithmetic
rests on `LimitsOK` and `SettingsOK`.

`NetnsHolder_proofs` proves `HeldLive`, `Gone`, `Mapped` and `TypeCorrect` from
`NAddrsOK`. `HeldIsLive` is not inductive: the helper could have sent everything
and left. `Handshake` adds that a helper that has sent everything stays while
the run's end of the pipe is open, when that is, and that the go-ahead comes
after the maps.

`Netguard_proofs` proves `ReachesOnlyAllowed`, `LeavesNothingOpen`,
`ClosesQuietly` and `TunnelsLastForEver` for any policies, clients, servers and
deadlines. `PermitsMeans` is the lemma about the allowlist: what `permits` lets
through, `Allowed` allows. The invariant `GInv` says that the rules are the
parsed ones (`Parsed`), that a dialled and a used connection have a permitted
target (`Permitted`), which steps have a connection (`Connected`), where no
deadline runs (`NoDeadline`) and what is open before close (`Open`).

`EndsAfterAll` and `NeverWaitForEachOther` are about sequences. Their invariant
`Shape` gives the two connections their types and says for each step who can
still read or write (`Aside` says what holds in a tunnel, where one peer may
have gone). `PInv` follows the script of a client through the proxy: what it
has not sent, what lies in the socket and in the reader are together the rest
of the script after the request at hand (`Kinds`, `Placed`), what a server has
of it begins behind that request and its body (`Delivered`), and a client that
still holds a body back has not been told to continue (`Continued`).

`NetguardAnswers_proofs` goes on from there. `Served` says for each step what a
server can have under way: nothing, interim responses, those with the final one
behind them, or pieces of a stream. Every step then tells the client nothing, a
note, one final answer or the next piece of a stream (`Says`: `Silence`, `Note`,
`Answer`, `Stream`), and from that follow `AnswersComeInOrder` by the number of
answers so far (`Counted`) and `StreamsArriveInOrder` by the place of the first
piece (`Told`). `RefusesOnlyRightly` is the converse of `PermitsMeans`
(`AllowedPermits`): a denial is about the request at hand (`Denial`), and what
`loadAllowlist` makes of the rules keeps every one of them (`Loaded`). The
assumptions are `LowerCaseOK` (what is in lower case stays, and no label
vanishes) and `ScriptsOK`, which lets a client send anything in any order: its
requests are numbered one by one, they name some host, and only a body whose
request announced `Expect: 100-continue` is held back.

`ImagePull_proofs` proves `Undamaged` from `CheckedSoFar` (of the layers before
the one at hand the named archives were unpacked, and nothing is put in their
place), `Renewed` from `NewToken`, and `TypeCorrect`, whose part about the tree
(`TreeOK`) is the one that could fail: every name lies in a directory, whatever
entries replace, remove or link, in any number. It needs that links lead to
paths (`FollowIsPath`, hop by hop) and one lemma per operation of the file
system (`PutKeepsTree` to `UnpackedKeepsTree`). `Unpacking` adds that the pull
works on a layer and an entry that there are. `ImagesOK` is the assumption on
images: lists of layers, for each of them a named and a served blob, of entries
with paths of any length and links to paths of any length. Only a directory, or
an opaque marker, may be about the directory itself; an entry of another kind
there would have `untar` put a file or a link in the place of `rootfs.tmp`.
`MaxLinksOK` is the assumption on links. These three theorems hold for all of
that.

`ImageIsUnpacked` proves `TreeIsImage`: the loop of `untar`, step by step, gives
what `Overlay` says of the layer as a whole. The invariant `Imaging` has two
parts for the layer at hand. `Stage` says what the tree is after n entries:
which paths there are (`Added` by them, `Opened` for them, `Staying` from below)
and what each one is, a directory with the mode 0755 until the modes are set.
`ModesOf` says that the modes to apply are those of the directories so far. The
argument runs along `StageStart`, `StageStep` and `LayerDone`. `StageStep` needs
that the entry is resolved in the half-made tree as it is in the end
(`LinksAreThere`, `Resolved`), and that nothing it hides has been put there by
its own layer (`NotBelow`): both rest on `WellFormed`. `LayerDone` compares the
tree after the last entry with `Overlay`, path by path (`UpperIs`, `OverlayIs`).
`IntactImageIsExtracted` proves `IntactIsExtracted` from the same invariant:
`NeverStuck` shows that in such a tree no entry of a layer that is not `Blocked`
can fail, one lemma per operation. `Imaging` and the invariants beside it were
checked by TLC on the images of `layers` before they were proved. These two
theorems say nothing about a layer that is not `WellFormed`, so nothing about
layers with paths of more than two names or with links below the top: what such
layers mean is not defined here, and for them only `TypeCorrect` and `Undamaged`
hold. Any number of layers and entries, chains and loops of links and any
`MaxLinks` are covered. The induction over the entries is over the steps of the
pull, which the prover can do.

`ImageCache_proofs` proves `OwnInvariant` for any number of pulls at once.
`Unmixed`, `ReturnedWhole` and `Boxed` have the premise that there is one
process, whose pulls follow each other with any kills and faults between them;
`cache_race` shows that they are false for two. Their invariant `CInv` says what
each step tells of the three trees and of the stamp.

Every invariant and every action property of the passing runs is proved, some
under the premises named above. Model-checked only are the liveness properties,
which are out of the prover's reach, as is `ENABLED`.

## Where the code and its comments differ

Each of these has a run:

- `box_lost_session`: `stopLeftoverScope` without a session (`cgroup.go:135`).
- `box_killed_rm`: the removal helper outlives the lock (`removetree.go:53`).
- `cache_half_removed`, `cache_race`: the image cache (`image.go:99`, `:81`).
- `signals_teardown`: `signals.stop` runs before `container.Destroy`
  (`main.go:177-182`). The same gap exists between `createContainer` and
  `catchSignals` (`main.go:173-181`, against `signals.go:48-50`).

These are stated in a property as an exception, or only noted here:

- `image.go:412-416`: the comment says that trailing bytes are drained "so that
  the digest covers the whole blob", but they are drained from the body itself,
  past the hasher. So an intact layer can be refused (exception of
  `IntactIsExtracted`), and bytes appended behind an intact archive are accepted
  (`DamagedIsRefused` promises the archive and the named bytes behind it only).
- `image.go:531-540`: the mode of a directory is set through a link that a later
  entry has put in the place of its parent; such a layer has no single meaning
  and `TreeIsImage` leaves it out.
- `image.go:432`: a later layer cannot change a directory that a lower one made
  read-only, so such an image is refused (the same exception, `Blocked`).
- `netguard.go:666-669`: an IPv6 target without a port keeps its brackets and
  matches no rule, a target like `host:` keeps its colon and matches none either,
  and of two trailing dots `targetOf` and `permits` take both away, but a rule
  keeps one (the three exceptions of `RefusedRightly`).
- `netguard.go:304-305`: the copies of a tunnel have no deadline, so one that
  writes to a peer that does not read waits for ever and the end behind it is
  not passed on (exception of `EndPassedOn`).
- `main.go:177`: an error of `container.Destroy` is dropped, and the state
  directory stays until the next run or rm of the name (exception of `CleanEnd`).
- `terminal.go:126`: an error of `Reset` is dropped, and the terminal stays raw
  (exception of `TerminalRestored`).
- `terminal.go:35`, `:106`: only stdin is checked to be a terminal. When stdout is
  a pipe whose reader has gone, SIGPIPE ends curimata at the next write, with the
  terminal raw and without cleanup (exception of `TerminalRestored`; the same
  state is left as by any kill).
- `image.go:464`: an entry whose name is just `.wh.` removes the directory it is
  in, at the top the tree itself. So does any entry but a directory or an opaque
  marker that is about the directory itself, and it takes its place (both are
  excluded by `EntryOK`).
- `netguard.go:681`, `:690`: the deadline of a dial is as long as the one of the
  client, so the answer to a dial that times out cannot be written any more.
- `netguard.go:609`: nothing ends the wait for a server that accepts a request
  and does not answer, also after the client has left.
- `signals.go:50-54`: before `forwardTo` the channel drops what exceeds 16
  signals.
- `terminal.go:83`: a change of the window size between the first `resize` and
  the registration of its signal is missed until the next one.
- `boxlock.go` and `dirs.go:71`: the directory of the locks depends on the
  environment of the process, so two curimatas with different environments do
  not exclude each other. The models have one such directory.

## Not modelled

- The parsing of flags, of JSON (policy, manifests, records), of image
  references and of the authentication challenge; `looksLikeRootfs`,
  `defaultShell`: text without state.
- `container.go`: a constant configuration record, and the parsing of
  `/etc/subuid`. Seccomp, capabilities and mounts are libcontainer's and the
  kernel's.
- `dirs.go`: paths computed from the environment.
- `terminal.go`: input and the window size, which are copies without a decision.
- `copyTree` is a copy that another pull can disturb (`ImageCache`); its hard
  links and modes are not modelled.
- `.github/`: build configuration.

## Plan

1. done: the modules above, and the proofs of every safety property.
2. next: the premises that are stronger than they must be, first of all
   `~ForeignFiles` in `ChosenImage` and `Refines`, which only has to exclude a
   kill while a helper deletes.
3. next: the meaning of a layer (`Overlay`) for paths of any depth and links
   below the top, where `Skeleton` has to resolve links by links.
4. open: several clients of the proxies at once would only show what the
   argument about the allowlist says; a model of `copyTree` with hard links.
