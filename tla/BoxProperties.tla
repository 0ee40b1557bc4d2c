--------------------------- MODULE BoxProperties ---------------------------
(***************************************************************************)
(* What the lifecycle of boxes and containers must guarantee, and the      *)
(* refinement of BoxService.                                               *)
(***************************************************************************)
EXTENDS BoxLifecycle

CONSTANTS Absent,  \* BoxService: there is no box
          Damaged  \* BoxService: a box that has lost files

ASSUME BoxesOK == Absent # Damaged /\ Absent \notin Images

\* The command of p runs under name n.
RunsUnder(p, n) == ctr[p] = "running" /\ NameOf(p) = n

\* Two commands never run under one name, not even when the curimata of the
\* first was killed and its container has not ended yet (boxlock.go:12-14).
OneCommandPerName ==
    \A p, q \in Procs :
        ctr[p] = "running" /\ ctr[q] = "running" /\ NameOf(p) = NameOf(q) => p = q

\* rm, and the helper of an rm that still waits for it, never delete below a
\* box whose command runs or is about to be released (box.go:136-137).
NoRemovalUnderContainer ==
    \A p, q \in Procs :
        pc[p] \in {"rmTree", "rmHelper"} /\ NameOf(q) = NameOf(p)
            => ctr[q] \notin {"created", "running"}

\* As long as a curimata lives between Start and Destroy, the state directory
\* of its name records its own container: nobody cleared or replaced it.
LiveStateIsOwn ==
    \A p \in Procs :
        pc[p] \in {"started", "wait"} =>
            /\ state[NameOf(p)] = Saved(p)
            /\ lock[NameOf(p)] = p

\* A command that asked for an image runs in a box made from that image, and
\* the record of a box never names another image (box.go:51-57, 119-121).
ChosenImageRuns ==
    /\ \A p \in Procs :
         ctr[p] = "running" /\ job[p].chosen
             => rootfs[NameOf(p)] = job[p].image
    /\ \A n \in Names :
         rootfs[n] # None /\ record[n] # None => record[n] = rootfs[n]

\* A scope that still holds processes always has a state directory, so the
\* next run or rm of the name finds it and stops it (box.go:254-255).
ScopeHasState ==
    \A n \in Names : Scope(n) # {} => state[n].kind # "absent"

\* After a successful clear nothing of the old container is in the way of
\* the second Create (main.go:387-392).
ClearedForCreate ==
    \A p \in Procs :
        pc[p] = "recreate" =>
            state[NameOf(p)].kind = "absent" /\ Scope(NameOf(p)) = {}

\* rm goes on to the next name only when box, state and scope are gone.
RmLeavesNothing ==
    \A p \in Procs :
        pc[p] = "rmDone" =>
            /\ NameOf(p) \notin dir
            /\ state[NameOf(p)].kind = "absent"
            /\ Scope(NameOf(p)) = {}

\* A process that does not wait for a command ends: no step of start, cleanup
\* or removal, nor the handshake with the helper, can wait for ever.
EveryProcessEnds ==
    \A p \in Procs :
        pc[p] \notin {"idle", "wait"} ~> pc[p] \in {"idle", "wait", "exited"}

\* A lock is held by the process that works on its name at this moment: an
\* error return, a killed process or an rm of several names never leaves a
\* name locked (boxlock.go:16-20, box.go:152-158, main.go:158-160).
LockIsInUse ==
    \A n \in Names : \A p \in Procs :
        lock[n] = p <=> pc[p] \in Holding /\ NameOf(p) = n

\* No command runs in a box while a curimata, or the helper that a curimata
\* started for it, removes that box (boxlock.go:12-14).
NeverStartAndRemove ==
    \A p, q \in Procs :
        helper[p] = "removing" /\ NameOf(q) = NameOf(p) /\ job[q].image # None
            => ctr[q] # "running"

-----------------------------------------------------------------------------
(* The strengthening of OneCommandPerName and LiveStateIsOwn that every    *)
(* step preserves (see BoxLifecycle_proofs).                               *)

\* A process works on a name, and so does whatever it has spawned.
Named ==
    \A p \in Procs :
        /\ pc[p] \in Holding \cup {"lock"} \/ helper[p] # "none" \/ ctr[p] # "none"
             => NameOf(p) \in Names
        /\ pc[p] = "idle" => ctr[p] = "none" /\ helper[p] = "none"

\* A running command is recorded in the state of its name, and its curimata
\* waits for it or is dead.
RunningIsSaved ==
    \A p \in Procs :
        /\ pc[p] \in {"started", "wait"} => state[NameOf(p)] = Saved(p)
        /\ ctr[p] = "running" =>
              pc[p] \in {"wait", "exited"} /\ state[NameOf(p)] = Saved(p)

\* No command runs under a name whose state a process is about to write or
\* to remove.
QuietSteps == {"start", "spawned", "saving", "destroyScope", "destroyState",
               "stopScope", "destroy", "erase"}
Quiet ==
    \A p, q \in Procs :
        pc[p] \in QuietSteps /\ ctr[q] = "running" => NameOf(q) # NameOf(p)

IInv == TypeOK /\ Named /\ LockIsInUse /\ RunningIsSaved /\ Quiet

-----------------------------------------------------------------------------
(* The strengthening of NoRemovalUnderContainer (see BoxRemoval_proofs).   *)

\* An init process that waits for Exec is recorded like a running command,
\* and only its own curimata can be about to end it.
CreatedIsSaved ==
    /\ \A p \in Procs :
         ctr[p] = "created" =>
            /\ pc[p] \in {"started", "destroyScope", "exited"}
            /\ state[NameOf(p)] = Saved(p)
    /\ \A p, q \in Procs :
         pc[p] \in QuietSteps /\ ctr[q] = "created" /\ NameOf(q) = NameOf(p)
            => q = p /\ pc[p] = "destroyScope"

\* Behind a successful clear there is no state directory; behind a
\* successful removal there is no box directory either.
ClearedIsAbsent ==
    \A p \in Procs :
        /\ pc[p] \in {"recreate", "rmBox", "rmTree", "rmHelper", "rmDone"}
              => state[NameOf(p)].kind = "absent"
        /\ pc[p] = "rmDone" \/ (pc[p] = "rmHelper" /\ helper[p] = "done")
              => NameOf(p) \notin dir

RInv == IInv /\ CreatedIsSaved /\ ClearedIsAbsent

(* The strengthening of ScopeHasState, ClearedForCreate and                *)
(* RmLeavesNothing, where every process reaches a session.                 *)

\* An rm has no scope.
RmOnly ==
    \A p \in Procs :
        /\ pc[p] # "idle" => job[p].session
        /\ job[p].kind = "rm" => ~job[p].scoped
        /\ pc[p] \in {"rmNext", "rmBox", "rmTree", "rmHelper", "rmDone"}
              => job[p].kind = "rm"

\* What a process on its way through Start, Destroy or a clear can rely on.
ScopeWayOf(p) ==
    LET n == NameOf(p) IN
    /\ pc[p] \in {"spawned", "saving", "started", "wait", "destroyScope"}
          => Scope(n) \subseteq {p}
    /\ pc[p] \in {"start", "destroyState", "erase"} => Scope(n) = {}
    /\ pc[p] \in {"start", "spawned"} => state[n].kind = "bare"
    /\ pc[p] = "saving" => state[n].kind = "torn"
    /\ pc[p] \in {"started", "destroyScope"} => ctr[p] \in {"none", "created"}
    /\ pc[p] = "destroy" => state[n].kind = "saved"

ScopeOnTheWay == \A p \in Procs : ScopeWayOf(p)

UnscopedIsEmpty ==
    \A n \in Names :
        state[n].kind = "saved" /\ ~state[n].scoped => Scope(n) = {}

SInv == RInv /\ RmOnly /\ ScopeOnTheWay /\ UnscopedIsEmpty /\ ScopeHasState

(* The strengthening of ChosenImageRuns, where no helper is ever needed.   *)

\* Between prepareBox and Exec, p relies on the box that it has found or made.
UsesBox(p) ==
    pc[p] \in {"create", "recreate", "start", "spawned", "saving"} \cup ClearSteps

ImageOnTheWay ==
    \A p \in Procs :
        LET n == NameOf(p) IN
        /\ helper[p] = "none"
        /\ job[p].kind = "rm" => ~job[p].chosen
        /\ job[p].chosen => job[p].image # None
        /\ pc[p] \in {"rmNext", "rmBox", "rmTree", "rmHelper", "rmDone"}
              => job[p].kind = "rm"
        /\ pc[p] \in {"prepare", "copy", "record", "rename"} => job[p].image # None
        /\ pc[p] \in {"copy", "record", "rename"} => rootfs[n] = None
        /\ pc[p] = "rename" => record[n] = job[p].image
        /\ job[p].chosen /\ (UsesBox(p) \/ ctr[p] \in {"created", "running"})
              => rootfs[n] = job[p].image

BoxAgrees ==
    \A n \in Names :
        /\ rootfs[n] # None /\ record[n] # None => record[n] = rootfs[n]
        /\ n \in cut => rootfs[n] # None

MInv == RInv /\ ImageOnTheWay /\ BoxAgrees

-----------------------------------------------------------------------------
(* Refinement                                                              *)

BoxOf(n) == IF rootfs[n] = None THEN Absent
            ELSE IF n \in cut THEN Damaged ELSE rootfs[n]

\* The lifecycle implements the abstract service of one name.
BoxServiceOf == INSTANCE BoxService WITH
    user <- lock,
    commands <- [n \in Names |-> {p \in Procs : RunsUnder(p, n)}],
    box <- [n \in Names |-> BoxOf(n)]

ImplementsService == BoxServiceOf!Service
=============================================================================
