---------------------------- MODULE BoxLifecycle ----------------------------
(***************************************************************************)
(* The life of boxes and of their containers under concurrent "curimata    *)
(* run" and "curimata rm" processes (main.go, box.go, boxlock.go,          *)
(* cgroup.go, removetree.go).                                              *)
(*                                                                         *)
(* Every process works on one box name at a time under the flock of that   *)
(* name.  A run prepares the box, registers a libcontainer container,      *)
(* starts it, waits for its command and destroys the container state.  An  *)
(* rm clears what a killed run left and deletes the box directory.  A      *)
(* process can be killed between any two steps: the kernel then drops its  *)
(* lock at once, while its container and its user-namespace helper are     *)
(* processes of their own that end later.                                  *)
(***************************************************************************)
CONSTANTS Procs,        \* curimata processes; a slot is used again when free
          Names,        \* box names
          Images,       \* image references
          Sessions,     \* can a process reach a systemd user session?
          ForeignFiles, \* may a box hold files of subordinate IDs?
          None          \* no process, no image, no name

ASSUME ConstantsOK ==
    /\ None \notin Procs \cup Names \cup Images
    /\ Sessions \subseteq BOOLEAN
    /\ ForeignFiles \in BOOLEAN

VARIABLES
    pc,      \* pc[p]: the step that process p takes next
    job,     \* job[p]: its command line, and what it learned on the way
    lock,    \* lock[n]: the holder of the flock of name n
    state,   \* state[n]: the libcontainer state directory of n
    ctr,     \* ctr[p]: the container init process that p spawned
    helper,  \* helper[p]: the user-namespace helper that p spawned
    dir,     \* the names whose box directory exists
    rootfs,  \* rootfs[n]: the image whose files the box holds, or None
    cut,     \* the names whose box has lost files to a removal
    record   \* record[n]: the content of the box's image file, or None

vars == <<pc, job, lock, state, ctr, helper, dir, rootfs, cut, record>>
boxVars == <<dir, rootfs, cut, record>>

-----------------------------------------------------------------------------
(* State directories: absent, without a usable state.json, or saved.       *)

StateDir == [kind : {"absent", "bare", "torn", "saved"},
             init : Procs \cup {None}, scoped : BOOLEAN]
StateOf(kind) == [kind |-> kind, init |-> None, scoped |-> FALSE]
Saved(p) == [kind |-> "saved", init |-> p, scoped |-> job[p].scoped]

(* Command lines.  A scoped job gets a systemd scope: -no-systemd was not  *)
(* given and there is a session.                                           *)

Job == [kind : {"none", "run", "rm"}, name : Names \cup {None},
        image : Images \cup {None}, chosen : BOOLEAN, scoped : BOOLEAN,
        session : BOOLEAN, todo : SUBSET Names, found : BOOLEAN]

NoJob == [kind |-> "none", name |-> None, image |-> None, chosen |-> FALSE,
          scoped |-> FALSE, session |-> FALSE, todo |-> {}, found |-> FALSE]

\* A run with image None uses a rootfs directory given on the command line.
RunJobs ==
    {j \in [kind : {"run"}, name : Names, image : Images \cup {None},
            chosen : BOOLEAN, scoped : BOOLEAN, session : Sessions,
            todo : {{}}, found : {FALSE}] :
        /\ j.scoped => j.session
        /\ j.chosen => j.image # None}

RmJobs == [kind : {"rm"}, name : {None}, image : {None}, chosen : {FALSE},
           scoped : {FALSE}, session : Sessions,
           todo : (SUBSET Names) \ {{}}, found : {FALSE}]

ClearSteps == {"clear", "stopScope", "destroy", "erase"}
Holding == {"prepare", "copy", "record", "rename", "create", "recreate",
            "start", "spawned", "saving", "started", "wait", "destroyScope",
            "destroyState", "rmBox", "rmTree", "rmHelper", "rmDone", "unlock"}
           \cup ClearSteps
Steps == Holding \cup {"idle", "lock", "rmNext", "exited"}

NameOf(p) == job[p].name

\* The container whose init process the state of n records still lives.
InitAlive(n) ==
    LET p == state[n].init
    IN  p # None /\ ctr[p] # "none" /\ NameOf(p) = n

\* The processes in the systemd scope of n.  systemd drops an empty scope.
Scope(n) == {p \in Procs : ctr[p] # "none" /\ job[p].scoped /\ NameOf(p) = n}

Goto(p, step) == pc' = [pc EXCEPT ![p] = step]
SetState(n, s) == state' = [state EXCEPT ![n] = s]
SetCtr(p, c) == ctr' = [ctr EXCEPT ![p] = c]

TypeOK ==
    /\ pc \in [Procs -> Steps]
    /\ job \in [Procs -> Job]
    /\ lock \in [Names -> Procs \cup {None}]
    /\ state \in [Names -> StateDir]
    /\ ctr \in [Procs -> {"none", "starting", "created", "running", "dying"}]
    /\ helper \in [Procs -> {"none", "waiting", "removing", "done", "failed"}]
    /\ dir \subseteq Names
    /\ rootfs \in [Names -> Images \cup {None}]
    /\ cut \subseteq Names
    /\ record \in [Names -> Images \cup {None}]

Init ==
    /\ pc = [p \in Procs |-> "idle"]
    /\ job = [p \in Procs |-> NoJob]
    /\ lock = [n \in Names |-> None]
    /\ state = [n \in Names |-> StateOf("absent")]
    /\ ctr = [p \in Procs |-> "none"]
    /\ helper = [p \in Procs |-> "none"]
    /\ dir = {}
    /\ rootfs = [n \in Names |-> None]
    /\ cut = {}
    /\ record = [n \in Names |-> None]

-----------------------------------------------------------------------------
(* Starting, locking, failing, ending                                      *)

Begin(p) ==
    /\ pc[p] = "idle"
    /\ \/ \E j \in RunJobs : job' = [job EXCEPT ![p] = j] /\ Goto(p, "lock")
       \/ \E j \in RmJobs : job' = [job EXCEPT ![p] = j] /\ Goto(p, "rmNext")
    /\ UNCHANGED <<lock, state, ctr, helper, boxVars>>

\* Mutants: the flock is not exclusive; rm takes no lock; rm does not look
\* for a container first.
LockBoxShared(p) ==
    /\ pc[p] = "lock"
    /\ lock' = [lock EXCEPT ![NameOf(p)] = p]
    /\ Goto(p, IF job[p].kind = "rm" THEN "clear"
               ELSE IF job[p].image = None THEN "create" ELSE "prepare")
    /\ UNCHANGED <<job, state, ctr, helper, boxVars>>

LockBoxOnlyRun(p) ==
    /\ pc[p] = "lock"
    /\ lock[NameOf(p)] = None
    /\ IF job[p].kind = "rm"
       THEN Goto(p, "clear") /\ UNCHANGED lock
       ELSE /\ lock' = [lock EXCEPT ![NameOf(p)] = p]
            /\ Goto(p, IF job[p].image = None THEN "create" ELSE "prepare")
    /\ UNCHANGED <<job, state, ctr, helper, boxVars>>

LockBoxNoClear(p) ==
    /\ pc[p] = "lock"
    /\ lock[NameOf(p)] = None
    /\ lock' = [lock EXCEPT ![NameOf(p)] = p]
    /\ Goto(p, IF job[p].kind = "rm" THEN "rmBox"
               ELSE IF job[p].image = None THEN "create" ELSE "prepare")
    /\ UNCHANGED <<job, state, ctr, helper, boxVars>>

LockBox(p) ==
    /\ pc[p] = "lock"
    /\ IF lock[NameOf(p)] = None
       THEN /\ lock' = [lock EXCEPT ![NameOf(p)] = p]
            /\ Goto(p, IF job[p].kind = "rm" THEN "clear"
                       ELSE IF job[p].image = None THEN "create"
                       ELSE "prepare")
       ELSE Goto(p, "exited") /\ UNCHANGED lock
    /\ UNCHANGED <<job, state, ctr, helper, boxVars>>

\* An error return: only the lock is left to give back.
Fail(p) ==
    /\ pc[p] \in {"prepare", "copy", "rename", "create", "recreate", "rmTree"}
                \cup ClearSteps
    /\ Goto(p, "unlock")
    /\ UNCHANGED <<job, lock, state, ctr, helper, boxVars>>

Unlock(p) ==
    /\ pc[p] \in {"unlock", "rmDone"}
    /\ lock' = [lock EXCEPT ![NameOf(p)] = None]
    /\ job' = [job EXCEPT ![p].found = FALSE]
    /\ Goto(p, IF pc[p] = "rmDone" THEN "rmNext" ELSE "exited")
    /\ UNCHANGED <<state, ctr, helper, boxVars>>

\* SIGKILL, or a signal that curimata does not catch yet.
Kill(p) ==
    /\ pc[p] \notin {"idle", "exited"}
    /\ lock' = [n \in Names |-> IF lock[n] = p THEN None ELSE lock[n]]
    /\ Goto(p, "exited")
    /\ UNCHANGED <<job, state, ctr, helper, boxVars>>

\* Nothing of the process is left: its slot can serve a new process.
Reap(p) ==
    /\ pc[p] = "exited"
    /\ ctr[p] = "none"
    /\ helper[p] \in {"none", "done", "failed"}
    /\ Goto(p, "idle")
    /\ job' = [job EXCEPT ![p] = NoJob]
    /\ helper' = [helper EXCEPT ![p] = "none"]
    /\ UNCHANGED <<lock, state, ctr, boxVars>>

-----------------------------------------------------------------------------
(* run: the box                                                            *)

\* Mutant: a box that exists is used whatever image the user chose.
PrepareBoxUnchecked(p) ==
    LET n == NameOf(p) IN
    /\ pc[p] = "prepare"
    /\ IF rootfs[n] # None
       THEN Goto(p, "create") /\ UNCHANGED dir
       ELSE Goto(p, "copy") /\ dir' = dir \cup {n}
    /\ UNCHANGED <<job, lock, state, ctr, helper, rootfs, cut, record>>

\* prepareBox up to the copy.  A box that exists is used again, unless the
\* user chose an image that its record does not name.
PrepareBox(p) ==
    LET n == NameOf(p) IN
    /\ pc[p] = "prepare"
    /\ \/ /\ rootfs[n] # None
          /\ job[p].chosen => record[n] = job[p].image
          /\ Goto(p, "create")
          /\ UNCHANGED dir
       \/ /\ rootfs[n] = None
          /\ dir' = dir \cup {n}
          /\ Goto(p, "copy")
    /\ UNCHANGED <<job, lock, state, ctr, helper, rootfs, cut, record>>

CopyTree(p) ==
    /\ pc[p] = "copy"
    /\ NameOf(p) \in dir
    /\ Goto(p, "record")
    /\ UNCHANGED <<job, lock, state, ctr, helper, boxVars>>

\* WriteFile truncates first, so a failed write may leave an empty record.
RecordImage(p) ==
    LET n == NameOf(p) IN
    /\ pc[p] = "record"
    /\ \/ /\ n \in dir
          /\ record' = [record EXCEPT ![n] = job[p].image]
          /\ Goto(p, "rename")
       \/ /\ record' \in {record, [record EXCEPT ![n] = None]}
          /\ Goto(p, "unlock")
    /\ UNCHANGED <<job, lock, state, ctr, helper, dir, rootfs, cut>>

\* The helper of a killed rm can still be deleting below the box directory.
HelperIn(n) == \E q \in Procs : helper[q] = "removing" /\ NameOf(q) = n

InstallBox(p) ==
    LET n == NameOf(p) IN
    /\ pc[p] = "rename"
    /\ n \in dir /\ rootfs[n] = None
    /\ rootfs' = [rootfs EXCEPT ![n] = job[p].image]
    /\ \/ UNCHANGED cut
       \/ HelperIn(n) /\ cut' = cut \cup {n}
    /\ Goto(p, "create")
    /\ UNCHANGED <<job, lock, state, ctr, helper, dir, record>>

-----------------------------------------------------------------------------
(* run: the container                                                      *)

\* libcontainer.Create refuses a state directory that exists and a scope
\* that still holds processes.  After ErrExist createContainer clears the
\* leftover and calls Create a second time.
CreateContainer(p) ==
    LET n == NameOf(p) IN
    /\ pc[p] \in {"create", "recreate"}
    /\ \/ /\ state[n].kind = "absent"
          /\ job[p].scoped => Scope(n) = {}
          /\ SetState(n, StateOf("bare"))
          /\ Goto(p, "start")
       \/ /\ pc[p] = "create"
          /\ state[n].kind # "absent"
          /\ Goto(p, "clear")
          /\ UNCHANGED state
    /\ UNCHANGED <<job, lock, ctr, helper, boxVars>>

\* container.Start spawns the init process, puts it into the scope, writes
\* state.json and leaves the init waiting for Exec.
SpawnInit(p) ==
    /\ pc[p] = "start"
    /\ SetCtr(p, "starting")
    /\ Goto(p, "spawned")
    /\ UNCHANGED <<job, lock, state, helper, boxVars>>

WriteState(p) ==
    /\ pc[p] = "spawned"
    /\ SetState(NameOf(p), StateOf("torn"))
    /\ Goto(p, "saving")
    /\ UNCHANGED <<job, lock, ctr, helper, boxVars>>

SaveState(p) ==
    /\ pc[p] = "saving"
    /\ SetState(NameOf(p), Saved(p))
    /\ SetCtr(p, "created")
    /\ Goto(p, "started")
    /\ UNCHANGED <<job, lock, helper, boxVars>>

\* newTerminal or Start fails.  Start kills and reaps the init it spawned.
StartFails(p) ==
    /\ pc[p] \in {"start", "spawned", "saving"}
    /\ SetCtr(p, "none")
    /\ Goto(p, "destroyScope")
    /\ UNCHANGED <<job, lock, state, helper, boxVars>>

\* container.Exec releases the init, which becomes the command.
Exec(p) ==
    /\ pc[p] = "started"
    /\ ctr[p] = "created"
    /\ SetCtr(p, "running")
    /\ Goto(p, "wait")
    /\ UNCHANGED <<job, lock, state, helper, boxVars>>

\* openNetlog, attach or Exec fails.
SetupFails(p) ==
    /\ pc[p] = "started"
    /\ Goto(p, "destroyScope")
    /\ UNCHANGED <<job, lock, state, ctr, helper, boxVars>>

WaitReturns(p) ==
    /\ pc[p] = "wait"
    /\ ctr[p] = "none"
    /\ Goto(p, "destroyScope")
    /\ UNCHANGED <<job, lock, state, ctr, helper, boxVars>>

\* The deferred container.Destroy: SIGKILL for an init that still waits,
\* then the scope, then the state directory.  If the scope cannot be
\* stopped, the state stays.  Without a scope nobody waits for the init.
DestroyScope(p) ==
    LET killed(c) == IF ctr[p] = "created" THEN c ELSE ctr[p] IN
    /\ pc[p] = "destroyScope"
    /\ \/ /\ SetCtr(p, killed(IF job[p].scoped THEN "none" ELSE "dying"))
          /\ Goto(p, "destroyState")
       \/ /\ job[p].scoped
          /\ SetCtr(p, killed("dying"))
          /\ Goto(p, "unlock")
    /\ UNCHANGED <<job, lock, state, helper, boxVars>>

\* os.RemoveAll of a state directory takes state.json first.
RemoveState(n) ==
    SetState(n, StateOf(IF state[n].kind = "bare" THEN "absent" ELSE "bare"))

DestroyState(p) ==
    LET n == NameOf(p) IN
    /\ pc[p] = "destroyState"
    /\ \/ /\ RemoveState(n)
          /\ Goto(p, IF state[n].kind = "bare" THEN "unlock" ELSE "destroyState")
       \/ Goto(p, "unlock") /\ UNCHANGED state
    /\ UNCHANGED <<job, lock, ctr, helper, boxVars>>

-----------------------------------------------------------------------------
(* run and rm: clearing what a killed run left                             *)

AfterClear(p) == IF job[p].kind = "rm" THEN "rmBox" ELSE "recreate"

\* Mutant: the status of the container is not checked.
ClearAnyContainer(p) ==
    LET n == NameOf(p) IN
    /\ pc[p] = "clear"
    /\ \/ state[n].kind = "absent" /\ Goto(p, AfterClear(p))
       \/ state[n].kind \in {"bare", "torn"} /\ Goto(p, "stopScope")
       \/ state[n].kind = "saved" /\ Goto(p, "destroy")
    /\ UNCHANGED <<job, lock, state, ctr, helper, boxVars>>

\* A container that is not stopped is refused, and so is state that cannot
\* be read or checked: Fail.
ClearStoppedContainer(p) ==
    LET n == NameOf(p) IN
    /\ pc[p] = "clear"
    /\ \/ state[n].kind = "absent" /\ Goto(p, AfterClear(p))
       \/ state[n].kind \in {"bare", "torn"} /\ Goto(p, "stopScope")
       \/ state[n].kind = "saved" /\ ~InitAlive(n) /\ Goto(p, "destroy")
    /\ UNCHANGED <<job, lock, state, ctr, helper, boxVars>>

KillScope(n) == ctr' = [q \in Procs |-> IF q \in Scope(n) THEN "none" ELSE ctr[q]]

\* Mutant: lost state is removed without its scope.
LeaveLeftoverScope(p) ==
    /\ pc[p] = "stopScope"
    /\ Goto(p, "erase")
    /\ UNCHANGED <<job, lock, state, ctr, helper, boxVars>>

\* Without a session the scope is out of reach, and that is not an error.
StopLeftoverScope(p) ==
    /\ pc[p] = "stopScope"
    /\ IF job[p].session THEN KillScope(NameOf(p)) ELSE UNCHANGED ctr
    /\ Goto(p, "erase")
    /\ UNCHANGED <<job, lock, state, helper, boxVars>>

\* container.Destroy of a stopped container needs the session of its scope.
DestroyStopped(p) ==
    LET n == NameOf(p) IN
    /\ pc[p] = "destroy"
    /\ IF state[n].scoped
       THEN job[p].session /\ KillScope(n)
       ELSE UNCHANGED ctr
    /\ Goto(p, "erase")
    /\ UNCHANGED <<job, lock, state, helper, boxVars>>

\* Mutant: only state.json is removed, not its directory.
EraseStateFile(p) ==
    /\ pc[p] = "erase"
    /\ SetState(NameOf(p), StateOf("bare"))
    /\ job' = [job EXCEPT ![p].found = TRUE]
    /\ Goto(p, AfterClear(p))
    /\ UNCHANGED <<lock, ctr, helper, boxVars>>

EraseState(p) ==
    LET n == NameOf(p) IN
    /\ pc[p] = "erase"
    /\ RemoveState(n)
    /\ IF state[n].kind = "bare"
       THEN /\ job' = [job EXCEPT ![p].found = TRUE]
            /\ Goto(p, AfterClear(p))
       ELSE UNCHANGED <<pc, job>>
    /\ UNCHANGED <<lock, ctr, helper, boxVars>>

-----------------------------------------------------------------------------
(* rm: deleting boxes                                                      *)

RmNext(p) ==
    /\ pc[p] = "rmNext"
    /\ \/ job[p].todo = {} /\ Goto(p, "exited") /\ UNCHANGED job
       \/ \E n \in job[p].todo :
             /\ job' = [job EXCEPT ![p].name = n, ![p].todo = @ \ {n}]
             /\ Goto(p, "lock")
    /\ UNCHANGED <<lock, state, ctr, helper, boxVars>>

\* Mutant: rm is done once it has cleared the state of a container.
RemoveStateOrBox(p) ==
    /\ pc[p] = "rmBox"
    /\ Goto(p, IF job[p].found THEN "rmDone"
               ELSE IF NameOf(p) \in dir THEN "rmTree" ELSE "unlock")
    /\ UNCHANGED <<job, lock, state, ctr, helper, boxVars>>

RemoveBox(p) ==
    /\ pc[p] = "rmBox"
    /\ Goto(p, IF NameOf(p) \in dir THEN "rmTree"
               ELSE IF job[p].found THEN "rmDone" ELSE "unlock")
    /\ UNCHANGED <<job, lock, state, ctr, helper, boxVars>>

\* RemoveAll deletes the entries of the box directory in any order, the
\* files of the rootfs one by one, and the directory last.
DeleteEntry(n) ==
    /\ \/ /\ record[n] # None
          /\ record' = [record EXCEPT ![n] = None]
          /\ UNCHANGED <<rootfs, cut>>
       \/ /\ rootfs[n] # None /\ n \notin cut
          /\ cut' = cut \cup {n}
          /\ UNCHANGED <<rootfs, record>>
       \/ /\ n \in cut
          /\ rootfs' = [rootfs EXCEPT ![n] = None]
          /\ cut' = cut \ {n}
          /\ UNCHANGED record
    /\ UNCHANGED dir

DeleteDirectory(n) ==
    /\ record[n] = None /\ rootfs[n] = None
    /\ dir' = dir \ {n}
    /\ UNCHANGED <<rootfs, cut, record>>

RemoveTree(p) ==
    LET n == NameOf(p) IN
    /\ pc[p] = "rmTree"
    /\ \/ DeleteEntry(n) /\ UNCHANGED <<pc, helper>>
       \/ DeleteDirectory(n) /\ Goto(p, "rmDone") /\ UNCHANGED helper
       \/ /\ ForeignFiles /\ rootfs[n] # None
          /\ helper' = [helper EXCEPT ![p] = "waiting"]
          /\ Goto(p, "rmHelper")
          /\ UNCHANGED boxVars
    /\ UNCHANGED <<job, lock, state, ctr>>

\* The parent writes the ID maps and the go-ahead, or kills the helper.
ReleaseHelper(p) ==
    /\ pc[p] = "rmHelper"
    /\ helper[p] = "waiting"
    /\ \/ helper' = [helper EXCEPT ![p] = "removing"] /\ UNCHANGED pc
       \/ helper' = [helper EXCEPT ![p] = "none"] /\ Goto(p, "unlock")
    /\ UNCHANGED <<job, lock, state, ctr, boxVars>>

\* Mutant: rm waits for the success of its helper, not for its end.
WaitHelperSucceeded(p) ==
    /\ pc[p] = "rmHelper"
    /\ helper[p] = "done"
    /\ helper' = [helper EXCEPT ![p] = "none"]
    /\ Goto(p, "rmDone")
    /\ UNCHANGED <<job, lock, state, ctr, boxVars>>

WaitHelper(p) ==
    /\ pc[p] = "rmHelper"
    /\ helper[p] \in {"done", "failed"}
    /\ helper' = [helper EXCEPT ![p] = "none"]
    /\ Goto(p, IF helper[p] = "done" THEN "rmDone" ELSE "unlock")
    /\ UNCHANGED <<job, lock, state, ctr, boxVars>>

\* A helper without a parent sees the end of its pipe, but only before the
\* go-ahead.  Afterwards it deletes until it is done.
HelperStep(p) ==
    LET n == NameOf(p) IN
    /\ \/ /\ helper[p] = "waiting" /\ pc[p] = "exited"
          /\ helper' = [helper EXCEPT ![p] = "failed"]
          /\ UNCHANGED boxVars
       \/ helper[p] = "removing" /\ DeleteEntry(n) /\ UNCHANGED helper
       \/ /\ helper[p] = "removing"
          /\ \/ DeleteDirectory(n) /\ helper' = [helper EXCEPT ![p] = "done"]
             \/ helper' = [helper EXCEPT ![p] = "failed"] /\ UNCHANGED boxVars
    /\ UNCHANGED <<pc, job, lock, state, ctr>>

-----------------------------------------------------------------------------
(* A container ends: its command exits, a forwarded signal kills it, or    *)
(* the kernel does after its curimata died (PR_SET_PDEATHSIG).             *)

ContainerEnds(p) ==
    /\ \/ ctr[p] \in {"created", "running", "dying"}
       \/ ctr[p] = "starting" /\ pc[p] = "exited"
    /\ SetCtr(p, "none")
    /\ UNCHANGED <<pc, job, lock, state, helper, boxVars>>

RunStep(p) ==
    \/ PrepareBox(p) \/ CopyTree(p) \/ RecordImage(p) \/ InstallBox(p)
    \/ CreateContainer(p) \/ SpawnInit(p) \/ WriteState(p) \/ SaveState(p)
    \/ StartFails(p) \/ Exec(p) \/ SetupFails(p) \/ WaitReturns(p)
    \/ DestroyScope(p) \/ DestroyState(p)

ClearStep(p) ==
    \/ ClearStoppedContainer(p) \/ StopLeftoverScope(p)
    \/ DestroyStopped(p) \/ EraseState(p)

RmStep(p) ==
    \/ RmNext(p) \/ RemoveBox(p) \/ RemoveTree(p)
    \/ ReleaseHelper(p) \/ WaitHelper(p)

\* What process p does by itself once it has begun.
ProcStep(p) ==
    \/ LockBox(p) \/ Fail(p) \/ Unlock(p)
    \/ RunStep(p) \/ ClearStep(p) \/ RmStep(p)

Next ==
    \E p \in Procs :
        \/ Begin(p) \/ ProcStep(p) \/ Kill(p) \/ Reap(p)
        \/ HelperStep(p) \/ ContainerEnds(p)

Spec == Init /\ [][Next]_vars

\* The scheduler runs every live process; a command may run for ever.
Fairness == \A p \in Procs : WF_vars(ProcStep(p)) /\ WF_vars(HelperStep(p))

FairSpec == Spec /\ Fairness
=============================================================================
