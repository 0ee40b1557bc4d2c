------------------------- MODULE BoxRemoval_proofs -------------------------
(***************************************************************************)
(* What a removal can meet, what a killed run leaves behind for the next   *)
(* one, which image a command runs in, and the refinement of BoxService.   *)
(* Each rests on the invariants that BoxLifecycle_proofs establishes.      *)
(***************************************************************************)
EXTENDS BoxLifecycle_proofs

\* No step changes what the command line of a process asks for.
LEMMA JobRest ==
    ASSUME TypeOK, NEW p \in Procs, Unlock(p) \/ EraseState(p) \/ RmNext(p)
    PROVE  \A q \in Procs :
              /\ job'[q].kind = job[q].kind
              /\ job'[q].image = job[q].image
              /\ job'[q].chosen = job[q].chosen
              /\ job'[q].scoped = job[q].scoped
              /\ job'[q].session = job[q].session
<1> DEFINE Rest(j) == <<j.kind, j.image, j.chosen, j.scoped, j.session>>
<1>1. ASSUME NEW b \in BOOLEAN, job' = [job EXCEPT ![p].found = b]
      PROVE  \A q \in Procs : Rest(job'[q]) = Rest(job[q])
  <2>1. job' = [job EXCEPT ![p] = [job[p] EXCEPT !.found = b]]
    BY <1>1
  <2>2. Rest([job[p] EXCEPT !.found = b]) = Rest(job[p])
    BY DEF TypeOK, Job
  <2> QED
    BY <2>1, <2>2 DEF TypeOK
<1>2. ASSUME NEW n \in job[p].todo,
             job' = [job EXCEPT ![p].name = n, ![p].todo = @ \ {n}]
      PROVE  \A q \in Procs : Rest(job'[q]) = Rest(job[q])
  <2>1. job' = [job EXCEPT ![p] =
                 [job[p] EXCEPT !.name = n, !.todo = job[p].todo \ {n}]]
    BY <1>2
  <2>2. Rest([job[p] EXCEPT !.name = n, !.todo = job[p].todo \ {n}]) = Rest(job[p])
    BY DEF TypeOK, Job
  <2> QED
    BY <2>1, <2>2 DEF TypeOK
<1>3. \A q \in Procs : Rest(job'[q]) = Rest(job[q])
  BY <1>1, <1>2 DEF Unlock, EraseState, RmNext
<1> QED
  BY <1>3

LEMMA BeginRest ==
    ASSUME TypeOK, NEW p \in Procs, Begin(p)
    PROVE  /\ \A q \in Procs \ {p} : pc'[q] = pc[q] /\ job'[q] = job[q]
           /\ job'[p].session \in Sessions
           /\ job'[p].chosen => job'[p].image # None
           /\ \/ pc'[p] = "lock" /\ job'[p].kind = "run"
              \/ /\ pc'[p] = "rmNext" /\ job'[p].kind = "rm"
                 /\ ~job'[p].scoped /\ ~job'[p].chosen
  BY DEF Begin, RunJobs, RmJobs, TypeOK, Goto

LEMMA SavedKept ==
    ASSUME TypeOK, NEW p \in Procs, Unlock(p) \/ EraseState(p)
    PROVE  \A q \in Procs : NameOf(q)' = NameOf(q) /\ Saved(q)' = Saved(q)
  BY JobKept DEF NameOf, Saved

LEMMA CreatedStep ==
    ASSUME RInv, [Next]_vars
    PROVE  CreatedIsSaved'
<1> USE ConstantsOK DEF RInv, IInv, TypeOK, Named, LockIsInUse, boxVars, Goto, NameOf, Steps, Holding, ClearSteps, CreatedIsSaved, QuietSteps, RunningIsSaved
<1>1. ASSUME NEW p \in Procs, Begin(p) PROVE CreatedIsSaved'
  BY <1>1, BeginJob DEF Begin, Saved
<1>2. ASSUME NEW p \in Procs, LockBox(p) PROVE CreatedIsSaved'
  BY <1>2 DEF LockBox, Saved
<1>3. ASSUME NEW p \in Procs, Fail(p) PROVE CreatedIsSaved'
  BY <1>3 DEF Fail, Saved
<1>4. ASSUME NEW p \in Procs, Unlock(p) PROVE CreatedIsSaved'
  BY <1>4, JobKept DEF Unlock, Saved
<1>5. ASSUME NEW p \in Procs, Kill(p) PROVE CreatedIsSaved'
  BY <1>5 DEF Kill, Saved
<1>6. ASSUME NEW p \in Procs, Reap(p) PROVE CreatedIsSaved'
  <2>1. \A q \in Procs \ {p} : pc'[q] = pc[q] /\ job'[q] = job[q]
    BY <1>6 DEF Reap
  <2>2. pc'[p] = "idle" /\ ctr'[p] = "none" /\ state' = state /\ ctr' = ctr
    BY <1>6 DEF Reap
  <2> QED
    BY <2>1, <2>2 DEF Saved
<1>7. ASSUME NEW p \in Procs, PrepareBox(p) PROVE CreatedIsSaved'
  BY <1>7 DEF PrepareBox, Saved
<1>8. ASSUME NEW p \in Procs, CopyTree(p) PROVE CreatedIsSaved'
  BY <1>8 DEF CopyTree, Saved
<1>9. ASSUME NEW p \in Procs, RecordImage(p) PROVE CreatedIsSaved'
  BY <1>9 DEF RecordImage, Saved
<1>10. ASSUME NEW p \in Procs, InstallBox(p) PROVE CreatedIsSaved'
  BY <1>10 DEF InstallBox, Saved
<1>11. ASSUME NEW p \in Procs, CreateContainer(p) PROVE CreatedIsSaved'
  <2>1. \A n \in Names : n # NameOf(p) => state'[n] = state[n]
    BY <1>11 DEF CreateContainer, SetState
  <2>2. state[NameOf(p)].kind = "absent" =>
          \A q \in Procs : ctr[q] = "created" => NameOf(q) # NameOf(p)
    BY SavedBy
  <2>3. state[NameOf(p)].kind = "absent" \/ state' = state
    BY <1>11 DEF CreateContainer
  <2>4. /\ pc[p] \in {"create", "recreate"} /\ ctr' = ctr /\ job' = job
        /\ pc' = [pc EXCEPT ![p] = "start"] \/ pc' = [pc EXCEPT ![p] = "clear"]
        /\ state[NameOf(p)].kind # "absent" => pc' = [pc EXCEPT ![p] = "clear"]
    BY <1>11 DEF CreateContainer
  <2> QED
    BY <2>1, <2>2, <2>3, <2>4 DEF Saved
<1>12. ASSUME NEW p \in Procs, SpawnInit(p) PROVE CreatedIsSaved'
  BY <1>12 DEF SpawnInit, SetCtr, Saved
<1>13. ASSUME NEW p \in Procs, WriteState(p) PROVE CreatedIsSaved'
  <2>1. \A n \in Names : n # NameOf(p) => state'[n] = state[n]
    BY <1>13 DEF WriteState, SetState
  <2>2. \A q \in Procs : ctr[q] = "created" => NameOf(q) # NameOf(p)
    BY <1>13 DEF WriteState
  <2> QED
    BY <1>13, <2>1, <2>2 DEF WriteState, Saved
<1>14. ASSUME NEW p \in Procs, SaveState(p) PROVE CreatedIsSaved'
  BY <1>14, SavedBy DEF SaveState, SetState, SetCtr, Saved
<1>15. ASSUME NEW p \in Procs, StartFails(p) PROVE CreatedIsSaved'
  BY <1>15, SavedBy DEF StartFails, SetCtr, Saved
<1>16. ASSUME NEW p \in Procs, Exec(p) PROVE CreatedIsSaved'
  BY <1>16 DEF Exec, SetCtr, Saved
<1>17. ASSUME NEW p \in Procs, SetupFails(p) PROVE CreatedIsSaved'
  <2>1. \A q \in Procs : ctr[q] = "created" /\ NameOf(q) = NameOf(p) => q = p
    BY <1>17, SavedBy DEF SetupFails
  <2> QED
    BY <1>17, <2>1 DEF SetupFails, Saved
<1>18. ASSUME NEW p \in Procs, WaitReturns(p) PROVE CreatedIsSaved'
  <2>1. \A q \in Procs : ctr[q] = "created" => NameOf(q) # NameOf(p)
    BY <1>18, SavedBy DEF WaitReturns
  <2> QED
    BY <1>18, <2>1 DEF WaitReturns, Saved
<1>19. ASSUME NEW p \in Procs, DestroyScope(p) PROVE CreatedIsSaved'
  BY <1>19 DEF DestroyScope, SetCtr, Saved
<1>20. ASSUME NEW p \in Procs, DestroyState(p) PROVE CreatedIsSaved'
  <2>1. \A n \in Names : n # NameOf(p) => state'[n] = state[n]
    BY <1>20 DEF DestroyState, SetState, RemoveState
  <2>2. \A q \in Procs : ctr[q] = "created" => NameOf(q) # NameOf(p)
    BY <1>20 DEF DestroyState
  <2> QED
    BY <1>20, <2>1, <2>2 DEF DestroyState, Saved
<1>21. ASSUME NEW p \in Procs, ClearStoppedContainer(p) PROVE CreatedIsSaved'
  <2>1. pc'[p] # "rmBox" /\ pc'[p] # "recreate" =>
          \A q \in Procs : ctr[q] = "created" => NameOf(q) # NameOf(p)
    BY <1>21, SavedBy DEF ClearStoppedContainer, InitAlive
  <2> QED
    BY <1>21, <2>1 DEF ClearStoppedContainer, AfterClear, Saved
<1>22. ASSUME NEW p \in Procs, StopLeftoverScope(p) PROVE CreatedIsSaved'
  BY <1>22 DEF StopLeftoverScope, KillScope, Saved
<1>23. ASSUME NEW p \in Procs, DestroyStopped(p) PROVE CreatedIsSaved'
  BY <1>23 DEF DestroyStopped, KillScope, Saved
<1>24. ASSUME NEW p \in Procs, EraseState(p) PROVE CreatedIsSaved'
  <2>1. \A n \in Names : n # NameOf(p) => state'[n] = state[n]
    BY <1>24 DEF EraseState, RemoveState, SetState
  <2>2. \A q \in Procs : ctr[q] = "created" => NameOf(q) # NameOf(p)
    BY <1>24 DEF EraseState
  <2>3. \A q \in Procs : NameOf(q)' = NameOf(q) /\ Saved(q)' = Saved(q)
    BY <1>24, SavedKept
  <2> QED
    BY <1>24, <2>1, <2>2, <2>3 DEF EraseState, AfterClear
<1>25. ASSUME NEW p \in Procs, RmNext(p) PROVE CreatedIsSaved'
  <2>1. \A q \in Procs \ {p} :
          pc'[q] = pc[q] /\ NameOf(q)' = NameOf(q) /\ Saved(q)' = Saved(q)
    BY <1>25, RmNextJob DEF Saved
  <2>2. pc[p] = "rmNext" /\ pc'[p] \in {"exited", "lock"} /\ state' = state /\ ctr' = ctr
    BY <1>25, RmNextJob
  <2> QED
    BY <2>1, <2>2
<1>26. ASSUME NEW p \in Procs, RemoveBox(p) PROVE CreatedIsSaved'
  BY <1>26 DEF RemoveBox, Saved
<1>27. ASSUME NEW p \in Procs, RemoveTree(p) PROVE CreatedIsSaved'
  BY <1>27 DEF RemoveTree, DeleteEntry, DeleteDirectory, Saved
<1>28. ASSUME NEW p \in Procs, ReleaseHelper(p) PROVE CreatedIsSaved'
  BY <1>28 DEF ReleaseHelper, Saved
<1>29. ASSUME NEW p \in Procs, WaitHelper(p) PROVE CreatedIsSaved'
  BY <1>29 DEF WaitHelper, Saved
<1>30. ASSUME NEW p \in Procs, HelperStep(p) PROVE CreatedIsSaved'
  BY <1>30 DEF HelperStep, DeleteEntry, DeleteDirectory, Saved
<1>31. ASSUME NEW p \in Procs, ContainerEnds(p) PROVE CreatedIsSaved'
  BY <1>31 DEF ContainerEnds, SetCtr, Saved
<1>32. CASE UNCHANGED vars
  BY <1>32 DEF vars, boxVars, Saved
<1> QED
  BY <1>1, <1>2, <1>3, <1>4, <1>5, <1>6, <1>7, <1>8, <1>9, <1>10, <1>11,
     <1>12, <1>13, <1>14, <1>15, <1>16, <1>17, <1>18, <1>19, <1>20, <1>21,
     <1>22, <1>23, <1>24, <1>25, <1>26, <1>27, <1>28, <1>29, <1>30, <1>31,
     <1>32
  DEF Next, ProcStep, RunStep, ClearStep, RmStep
LEMMA ClearedStep ==
    ASSUME RInv, [Next]_vars
    PROVE  ClearedIsAbsent'
<1> USE ConstantsOK DEF RInv, ClearedIsAbsent, IInv, TypeOK, Named, LockIsInUse, boxVars, Goto, NameOf, Steps, Holding, ClearSteps
<1>1. ASSUME NEW p \in Procs, Begin(p) PROVE ClearedIsAbsent'
  BY <1>1, BeginJob DEF Begin
<1>2. ASSUME NEW p \in Procs, LockBox(p) PROVE ClearedIsAbsent'
  BY <1>2 DEF LockBox
<1>3. ASSUME NEW p \in Procs, Fail(p) PROVE ClearedIsAbsent'
  BY <1>3 DEF Fail
<1>4. ASSUME NEW p \in Procs, Unlock(p) PROVE ClearedIsAbsent'
  BY <1>4, JobKept DEF Unlock
<1>5. ASSUME NEW p \in Procs, Kill(p) PROVE ClearedIsAbsent'
  BY <1>5 DEF Kill
<1>6. ASSUME NEW p \in Procs, Reap(p) PROVE ClearedIsAbsent'
  BY <1>6 DEF Reap
<1>7. ASSUME NEW p \in Procs, PrepareBox(p) PROVE ClearedIsAbsent'
  BY <1>7 DEF PrepareBox
<1>8. ASSUME NEW p \in Procs, CopyTree(p) PROVE ClearedIsAbsent'
  BY <1>8 DEF CopyTree
<1>9. ASSUME NEW p \in Procs, RecordImage(p) PROVE ClearedIsAbsent'
  BY <1>9 DEF RecordImage
<1>10. ASSUME NEW p \in Procs, InstallBox(p) PROVE ClearedIsAbsent'
  BY <1>10 DEF InstallBox
<1>11. ASSUME NEW p \in Procs, CreateContainer(p) PROVE ClearedIsAbsent'
  BY <1>11, SavedBy DEF CreateContainer, SetState, StateOf
<1>12. ASSUME NEW p \in Procs, SpawnInit(p) PROVE ClearedIsAbsent'
  BY <1>12 DEF SpawnInit, SetCtr
<1>13. ASSUME NEW p \in Procs, WriteState(p) PROVE ClearedIsAbsent'
  BY <1>13 DEF WriteState, SetState, StateOf
<1>14. ASSUME NEW p \in Procs, SaveState(p) PROVE ClearedIsAbsent'
  BY <1>14 DEF SaveState, SetState, SetCtr
<1>15. ASSUME NEW p \in Procs, StartFails(p) PROVE ClearedIsAbsent'
  BY <1>15 DEF StartFails, SetCtr
<1>16. ASSUME NEW p \in Procs, Exec(p) PROVE ClearedIsAbsent'
  BY <1>16 DEF Exec, SetCtr
<1>17. ASSUME NEW p \in Procs, SetupFails(p) PROVE ClearedIsAbsent'
  BY <1>17 DEF SetupFails
<1>18. ASSUME NEW p \in Procs, WaitReturns(p) PROVE ClearedIsAbsent'
  BY <1>18 DEF WaitReturns
<1>19. ASSUME NEW p \in Procs, DestroyScope(p) PROVE ClearedIsAbsent'
  BY <1>19 DEF DestroyScope, SetCtr
<1>20. ASSUME NEW p \in Procs, DestroyState(p) PROVE ClearedIsAbsent'
  BY <1>20, SavedBy DEF DestroyState, RemoveState, SetState, StateOf
<1>21. ASSUME NEW p \in Procs, ClearStoppedContainer(p) PROVE ClearedIsAbsent'
  BY <1>21 DEF ClearStoppedContainer, AfterClear
<1>22. ASSUME NEW p \in Procs, StopLeftoverScope(p) PROVE ClearedIsAbsent'
  BY <1>22 DEF StopLeftoverScope, KillScope
<1>23. ASSUME NEW p \in Procs, DestroyStopped(p) PROVE ClearedIsAbsent'
  BY <1>23 DEF DestroyStopped, KillScope
<1>24. ASSUME NEW p \in Procs, EraseState(p) PROVE ClearedIsAbsent'
  <2>1. \A q \in Procs : NameOf(q)' = NameOf(q)
    BY <1>24, JobKept
  <2>2. \A n \in Names : n # NameOf(p) => state'[n] = state[n]
    BY <1>24 DEF EraseState, RemoveState, SetState
  <2>3. pc'[p] # "erase" => state'[NameOf(p)].kind = "absent"
    BY <1>24, SavedBy DEF EraseState, RemoveState, SetState
  <2> QED
    BY <1>24, <2>1, <2>2, <2>3 DEF EraseState, AfterClear
<1>25. ASSUME NEW p \in Procs, RmNext(p) PROVE ClearedIsAbsent'
  BY <1>25, RmNextJob
<1>26. ASSUME NEW p \in Procs, RemoveBox(p) PROVE ClearedIsAbsent'
  BY <1>26 DEF RemoveBox
<1>27. ASSUME NEW p \in Procs, RemoveTree(p) PROVE ClearedIsAbsent'
  BY <1>27 DEF RemoveTree, DeleteEntry, DeleteDirectory
<1>28. ASSUME NEW p \in Procs, ReleaseHelper(p) PROVE ClearedIsAbsent'
  BY <1>28 DEF ReleaseHelper
<1>29. ASSUME NEW p \in Procs, WaitHelper(p) PROVE ClearedIsAbsent'
  BY <1>29 DEF WaitHelper
<1>30. ASSUME NEW p \in Procs, HelperStep(p) PROVE ClearedIsAbsent'
  BY <1>30 DEF HelperStep, DeleteEntry, DeleteDirectory
<1>31. ASSUME NEW p \in Procs, ContainerEnds(p) PROVE ClearedIsAbsent'
  BY <1>31 DEF ContainerEnds, SetCtr
<1>32. CASE UNCHANGED vars
  BY <1>32 DEF vars, boxVars
<1> QED
  BY <1>1, <1>2, <1>3, <1>4, <1>5, <1>6, <1>7, <1>8, <1>9, <1>10, <1>11,
     <1>12, <1>13, <1>14, <1>15, <1>16, <1>17, <1>18, <1>19, <1>20, <1>21,
     <1>22, <1>23, <1>24, <1>25, <1>26, <1>27, <1>28, <1>29, <1>30, <1>31,
     <1>32
  DEF Next, ProcStep, RunStep, ClearStep, RmStep

LEMMA RInvariance == Spec => []RInv
<1>1. Init => CreatedIsSaved /\ ClearedIsAbsent
  BY DEF Init, CreatedIsSaved, ClearedIsAbsent, QuietSteps
<1>2. RInv /\ [Next]_vars => CreatedIsSaved' /\ ClearedIsAbsent'
  BY CreatedStep, ClearedStep
<1>3. Init /\ IInv => RInv
  BY <1>1 DEF RInv
<1>4. RInv /\ [Next]_vars /\ IInv' => RInv'
  BY <1>2 DEF RInv
<1> QED
  BY <1>3, <1>4, Invariance, PTL DEF Spec

LEMMA RemovalMeetsNoCommand == RInv => NoRemovalUnderContainer
<1> SUFFICES ASSUME RInv, NEW p \in Procs, NEW q \in Procs,
                    pc[p] \in {"rmTree", "rmHelper"}, NameOf(q) = NameOf(p)
             PROVE  ctr[q] \notin {"created", "running"}
  BY DEF NoRemovalUnderContainer
<1>1. state[NameOf(p)].kind = "absent"
  BY DEF RInv, ClearedIsAbsent
<1>2. ctr[q] \in {"created", "running"} => state[NameOf(q)] = Saved(q)
  BY DEF RInv, IInv, RunningIsSaved, CreatedIsSaved
<1> QED
  BY <1>1, <1>2, SavedBy

\* Whatever was killed before: rm and its helper never delete below a box
\* whose command runs or is about to be released.
THEOREM NoRemoval == Spec => []NoRemovalUnderContainer
  BY RemovalMeetsNoCommand, RInvariance, PTL

LEMMA RmOnlyStep ==
    ASSUME RInv, RmOnly, Sessions \subseteq {TRUE}, [Next]_vars
    PROVE  RmOnly'
<1> USE DEF RInv, IInv, RmOnly, TypeOK, boxVars, Goto, NameOf, Steps, Holding, ClearSteps
<1>1. ASSUME NEW p \in Procs, Begin(p) PROVE RmOnly'
  <2>1. job'[p].session
    BY <1>1, BeginRest
  <2>2. /\ pc'[p] \notin {"rmBox", "rmTree", "rmHelper", "rmDone"}
        /\ pc'[p] = "rmNext" => job'[p].kind = "rm"
        /\ job'[p].kind = "rm" => ~job'[p].scoped
    BY <1>1, BeginRest
  <2>3. \A q \in Procs \ {p} : pc'[q] = pc[q] /\ job'[q] = job[q]
    BY <1>1, BeginRest
  <2> QED
    BY <2>1, <2>2, <2>3
<1>2. ASSUME NEW p \in Procs, LockBox(p) PROVE RmOnly'
  BY <1>2 DEF LockBox
<1>3. ASSUME NEW p \in Procs, Fail(p) PROVE RmOnly'
  BY <1>3 DEF Fail
<1>4. ASSUME NEW p \in Procs, Unlock(p) PROVE RmOnly'
  BY <1>4, JobKept, JobRest DEF Unlock
<1>5. ASSUME NEW p \in Procs, Kill(p) PROVE RmOnly'
  BY <1>5 DEF Kill
<1>6. ASSUME NEW p \in Procs, Reap(p) PROVE RmOnly'
  BY <1>6 DEF Reap, NoJob
<1>7. ASSUME NEW p \in Procs, PrepareBox(p) PROVE RmOnly'
  BY <1>7 DEF PrepareBox
<1>8. ASSUME NEW p \in Procs, CopyTree(p) PROVE RmOnly'
  BY <1>8 DEF CopyTree
<1>9. ASSUME NEW p \in Procs, RecordImage(p) PROVE RmOnly'
  BY <1>9 DEF RecordImage
<1>10. ASSUME NEW p \in Procs, InstallBox(p) PROVE RmOnly'
  BY <1>10 DEF InstallBox
<1>11. ASSUME NEW p \in Procs, CreateContainer(p) PROVE RmOnly'
  BY <1>11 DEF CreateContainer, SetState, StateOf
<1>12. ASSUME NEW p \in Procs, SpawnInit(p) PROVE RmOnly'
  BY <1>12 DEF SpawnInit, SetCtr
<1>13. ASSUME NEW p \in Procs, WriteState(p) PROVE RmOnly'
  BY <1>13 DEF WriteState, SetState, StateOf
<1>14. ASSUME NEW p \in Procs, SaveState(p) PROVE RmOnly'
  BY <1>14 DEF SaveState, SetState, SetCtr
<1>15. ASSUME NEW p \in Procs, StartFails(p) PROVE RmOnly'
  BY <1>15 DEF StartFails, SetCtr
<1>16. ASSUME NEW p \in Procs, Exec(p) PROVE RmOnly'
  BY <1>16 DEF Exec, SetCtr
<1>17. ASSUME NEW p \in Procs, SetupFails(p) PROVE RmOnly'
  BY <1>17 DEF SetupFails
<1>18. ASSUME NEW p \in Procs, WaitReturns(p) PROVE RmOnly'
  BY <1>18 DEF WaitReturns
<1>19. ASSUME NEW p \in Procs, DestroyScope(p) PROVE RmOnly'
  BY <1>19 DEF DestroyScope, SetCtr
<1>20. ASSUME NEW p \in Procs, DestroyState(p) PROVE RmOnly'
  BY <1>20 DEF DestroyState, RemoveState, SetState, StateOf
<1>21. ASSUME NEW p \in Procs, ClearStoppedContainer(p) PROVE RmOnly'
  BY <1>21 DEF ClearStoppedContainer, AfterClear
<1>22. ASSUME NEW p \in Procs, StopLeftoverScope(p) PROVE RmOnly'
  BY <1>22 DEF StopLeftoverScope, KillScope
<1>23. ASSUME NEW p \in Procs, DestroyStopped(p) PROVE RmOnly'
  BY <1>23 DEF DestroyStopped, KillScope
<1>24. ASSUME NEW p \in Procs, EraseState(p) PROVE RmOnly'
  BY <1>24, JobKept, JobRest DEF EraseState, AfterClear
<1>25. ASSUME NEW p \in Procs, RmNext(p) PROVE RmOnly'
  BY <1>25, RmNextJob, JobRest
<1>26. ASSUME NEW p \in Procs, RemoveBox(p) PROVE RmOnly'
  BY <1>26 DEF RemoveBox
<1>27. ASSUME NEW p \in Procs, RemoveTree(p) PROVE RmOnly'
  BY <1>27 DEF RemoveTree, DeleteEntry, DeleteDirectory
<1>28. ASSUME NEW p \in Procs, ReleaseHelper(p) PROVE RmOnly'
  BY <1>28 DEF ReleaseHelper
<1>29. ASSUME NEW p \in Procs, WaitHelper(p) PROVE RmOnly'
  BY <1>29 DEF WaitHelper
<1>30. ASSUME NEW p \in Procs, HelperStep(p) PROVE RmOnly'
  BY <1>30 DEF HelperStep, DeleteEntry, DeleteDirectory
<1>31. ASSUME NEW p \in Procs, ContainerEnds(p) PROVE RmOnly'
  BY <1>31 DEF ContainerEnds, SetCtr
<1>32. CASE UNCHANGED vars
  BY <1>32 DEF vars, boxVars
<1> QED
  BY <1>1, <1>2, <1>3, <1>4, <1>5, <1>6, <1>7, <1>8, <1>9, <1>10, <1>11,
     <1>12, <1>13, <1>14, <1>15, <1>16, <1>17, <1>18, <1>19, <1>20, <1>21,
     <1>22, <1>23, <1>24, <1>25, <1>26, <1>27, <1>28, <1>29, <1>30, <1>31,
     <1>32
  DEF Next, ProcStep, RunStep, ClearStep, RmStep

LEMMA WayStep ==
    ASSUME SInv, [Next]_vars
    PROVE  ScopeOnTheWay'
<1> USE ConstantsOK DEF SInv, RInv, IInv, RmOnly, ScopeOnTheWay, ScopeWayOf, UnscopedIsEmpty, ScopeHasState, TypeOK, Named, LockIsInUse, boxVars, Goto, NameOf, Steps, Holding, ClearSteps
<1>1. ASSUME NEW p \in Procs, Begin(p) PROVE ScopeOnTheWay'
  BY <1>1, BeginJob, BeginRest DEF Begin, Scope
<1>2. ASSUME NEW p \in Procs, LockBox(p) PROVE ScopeOnTheWay'
  BY <1>2 DEF LockBox, Scope
<1>3. ASSUME NEW p \in Procs, Fail(p) PROVE ScopeOnTheWay'
  BY <1>3 DEF Fail, Scope
<1>4. ASSUME NEW p \in Procs, Unlock(p) PROVE ScopeOnTheWay'
  BY <1>4, JobKept, JobRest DEF Unlock, Scope
<1>5. ASSUME NEW p \in Procs, Kill(p) PROVE ScopeOnTheWay'
  BY <1>5 DEF Kill, Scope
<1>6. ASSUME NEW p \in Procs, Reap(p) PROVE ScopeOnTheWay'
  BY <1>6 DEF Reap, Scope
<1>7. ASSUME NEW p \in Procs, PrepareBox(p) PROVE ScopeOnTheWay'
  BY <1>7 DEF PrepareBox, Scope
<1>8. ASSUME NEW p \in Procs, CopyTree(p) PROVE ScopeOnTheWay'
  BY <1>8 DEF CopyTree, Scope
<1>9. ASSUME NEW p \in Procs, RecordImage(p) PROVE ScopeOnTheWay'
  BY <1>9 DEF RecordImage, Scope
<1>10. ASSUME NEW p \in Procs, InstallBox(p) PROVE ScopeOnTheWay'
  BY <1>10 DEF InstallBox, Scope
<1>11. ASSUME NEW p \in Procs, CreateContainer(p) PROVE ScopeOnTheWay'
  BY <1>11 DEF CreateContainer, SetState, StateOf, Scope
<1>12. ASSUME NEW p \in Procs, SpawnInit(p) PROVE ScopeOnTheWay'
  BY <1>12 DEF SpawnInit, SetCtr, Scope
<1>13. ASSUME NEW p \in Procs, WriteState(p) PROVE ScopeOnTheWay'
  BY <1>13 DEF WriteState, SetState, StateOf, Scope
<1>14. ASSUME NEW p \in Procs, SaveState(p) PROVE ScopeOnTheWay'
  BY <1>14 DEF SaveState, SetState, SetCtr, Scope
<1>15. ASSUME NEW p \in Procs, StartFails(p) PROVE ScopeOnTheWay'
  BY <1>15 DEF StartFails, SetCtr, Scope
<1>16. ASSUME NEW p \in Procs, Exec(p) PROVE ScopeOnTheWay'
  BY <1>16 DEF Exec, SetCtr, Scope
<1>17. ASSUME NEW p \in Procs, SetupFails(p) PROVE ScopeOnTheWay'
  BY <1>17 DEF SetupFails, Scope
<1>18. ASSUME NEW p \in Procs, WaitReturns(p) PROVE ScopeOnTheWay'
  BY <1>18 DEF WaitReturns, Scope
<1>19. ASSUME NEW p \in Procs, DestroyScope(p) PROVE ScopeOnTheWay'
  BY <1>19 DEF DestroyScope, SetCtr, Scope
<1>20. ASSUME NEW p \in Procs, DestroyState(p) PROVE ScopeOnTheWay'
  BY <1>20 DEF DestroyState, RemoveState, SetState, StateOf, Scope
<1>21. ASSUME NEW p \in Procs, ClearStoppedContainer(p) PROVE ScopeOnTheWay'
  BY <1>21 DEF ClearStoppedContainer, AfterClear, Scope
<1>22. ASSUME NEW p \in Procs, StopLeftoverScope(p) PROVE ScopeOnTheWay'
  BY <1>22 DEF StopLeftoverScope, KillScope, Scope
<1>23. ASSUME NEW p \in Procs, DestroyStopped(p) PROVE ScopeOnTheWay'
  BY <1>23 DEF DestroyStopped, KillScope, Scope
<1>24. ASSUME NEW p \in Procs, EraseState(p) PROVE ScopeOnTheWay'
  <2>1. \A q \in Procs : NameOf(q)' = NameOf(q) /\ job'[q].scoped = job[q].scoped
    BY <1>24, JobKept
  <2>2. \A n \in Names : n # NameOf(p) => state'[n] = state[n]
    BY <1>24 DEF EraseState, RemoveState, SetState
  <2>3. state'[NameOf(p)].kind \in {"absent", "bare"}
    BY <1>24, SavedBy DEF EraseState, RemoveState, SetState
  <2>4. pc'[p] \in {"erase", "rmBox", "recreate"} /\ ctr' = ctr
    BY <1>24 DEF EraseState, AfterClear
  <2>5. \A q \in Procs \ {p} : pc'[q] = pc[q]
    BY <1>24 DEF EraseState
  <2>6. \A n \in Names : Scope(n)' = Scope(n)
    BY <2>1, <2>4 DEF Scope
  <2>7. pc[p] = "erase" /\ Scope(NameOf(p)) = {} /\ NameOf(p) \in Names
    BY <1>24 DEF EraseState
  <2>8. \A q \in Procs \ {p} : NameOf(q) = NameOf(p) => pc[q] \notin Holding
    BY <1>24 DEF EraseState
  <2> SUFFICES ASSUME NEW q \in Procs
               PROVE  ScopeWayOf(q)'
    BY DEF ScopeOnTheWay
  <2>9. NameOf(q)' = NameOf(q) /\ ctr'[q] = ctr[q] /\ Scope(NameOf(q))' = Scope(NameOf(q))
    BY <2>1, <2>4 DEF Scope
  <2>10. CASE q = p
    BY <2>4, <2>6, <2>7, <2>9, <2>10
  <2>11. CASE q # p /\ NameOf(q) = NameOf(p)
    BY <2>5, <2>8, <2>11
  <2>12. CASE NameOf(q) # NameOf(p)
    <3>1. pc'[q] = pc[q] /\ ScopeWayOf(q)
      BY <2>5, <2>12
    <3>2. pc[q] \in Holding => state'[NameOf(q)] = state[NameOf(q)]
      BY <2>2, <2>12
    <3> QED
      BY <2>9, <3>1, <3>2
  <2> QED
    BY <2>10, <2>11, <2>12
<1>25. ASSUME NEW p \in Procs, RmNext(p) PROVE ScopeOnTheWay'
  BY <1>25, RmNextJob, JobRest DEF Scope
<1>26. ASSUME NEW p \in Procs, RemoveBox(p) PROVE ScopeOnTheWay'
  BY <1>26 DEF RemoveBox, Scope
<1>27. ASSUME NEW p \in Procs, RemoveTree(p) PROVE ScopeOnTheWay'
  BY <1>27 DEF RemoveTree, DeleteEntry, DeleteDirectory, Scope
<1>28. ASSUME NEW p \in Procs, ReleaseHelper(p) PROVE ScopeOnTheWay'
  BY <1>28 DEF ReleaseHelper, Scope
<1>29. ASSUME NEW p \in Procs, WaitHelper(p) PROVE ScopeOnTheWay'
  BY <1>29 DEF WaitHelper, Scope
<1>30. ASSUME NEW p \in Procs, HelperStep(p) PROVE ScopeOnTheWay'
  BY <1>30 DEF HelperStep, DeleteEntry, DeleteDirectory, Scope
<1>31. ASSUME NEW p \in Procs, ContainerEnds(p) PROVE ScopeOnTheWay'
  BY <1>31 DEF ContainerEnds, SetCtr, Scope
<1>32. CASE UNCHANGED vars
  BY <1>32 DEF vars, boxVars, Scope
<1> QED
  BY <1>1, <1>2, <1>3, <1>4, <1>5, <1>6, <1>7, <1>8, <1>9, <1>10, <1>11,
     <1>12, <1>13, <1>14, <1>15, <1>16, <1>17, <1>18, <1>19, <1>20, <1>21,
     <1>22, <1>23, <1>24, <1>25, <1>26, <1>27, <1>28, <1>29, <1>30, <1>31,
     <1>32
  DEF Next, ProcStep, RunStep, ClearStep, RmStep

LEMMA UnscopedStep ==
    ASSUME SInv, [Next]_vars
    PROVE  UnscopedIsEmpty'
<1> USE ConstantsOK DEF SInv, RInv, IInv, RmOnly, ScopeOnTheWay, ScopeWayOf, UnscopedIsEmpty, ScopeHasState, TypeOK, Named, LockIsInUse, boxVars, Goto, NameOf, Steps, Holding, ClearSteps
<1>1. ASSUME NEW p \in Procs, Begin(p) PROVE UnscopedIsEmpty'
  BY <1>1, BeginJob, BeginRest DEF Begin, Scope
<1>2. ASSUME NEW p \in Procs, LockBox(p) PROVE UnscopedIsEmpty'
  BY <1>2 DEF LockBox, Scope
<1>3. ASSUME NEW p \in Procs, Fail(p) PROVE UnscopedIsEmpty'
  BY <1>3 DEF Fail, Scope
<1>4. ASSUME NEW p \in Procs, Unlock(p) PROVE UnscopedIsEmpty'
  BY <1>4, JobKept, JobRest DEF Unlock, Scope
<1>5. ASSUME NEW p \in Procs, Kill(p) PROVE UnscopedIsEmpty'
  BY <1>5 DEF Kill, Scope
<1>6. ASSUME NEW p \in Procs, Reap(p) PROVE UnscopedIsEmpty'
  BY <1>6 DEF Reap, Scope
<1>7. ASSUME NEW p \in Procs, PrepareBox(p) PROVE UnscopedIsEmpty'
  BY <1>7 DEF PrepareBox, Scope
<1>8. ASSUME NEW p \in Procs, CopyTree(p) PROVE UnscopedIsEmpty'
  BY <1>8 DEF CopyTree, Scope
<1>9. ASSUME NEW p \in Procs, RecordImage(p) PROVE UnscopedIsEmpty'
  BY <1>9 DEF RecordImage, Scope
<1>10. ASSUME NEW p \in Procs, InstallBox(p) PROVE UnscopedIsEmpty'
  BY <1>10 DEF InstallBox, Scope
<1>11. ASSUME NEW p \in Procs, CreateContainer(p) PROVE UnscopedIsEmpty'
  BY <1>11 DEF CreateContainer, SetState, StateOf, Scope
<1>12. ASSUME NEW p \in Procs, SpawnInit(p) PROVE UnscopedIsEmpty'
  BY <1>12 DEF SpawnInit, SetCtr, Scope
<1>13. ASSUME NEW p \in Procs, WriteState(p) PROVE UnscopedIsEmpty'
  BY <1>13 DEF WriteState, SetState, StateOf, Scope
<1>14. ASSUME NEW p \in Procs, SaveState(p) PROVE UnscopedIsEmpty'
  <2>1. \A n \in Names : n # NameOf(p) => state'[n] = state[n]
    BY <1>14 DEF SaveState, SetState
  <2>2. /\ state'[NameOf(p)].kind = "saved"
        /\ state'[NameOf(p)].scoped = job[p].scoped
    BY <1>14 DEF SaveState, SetState, Saved
  <2>3. \A n \in Names : n # NameOf(p) => Scope(n)' \subseteq Scope(n)
    BY <1>14 DEF SaveState, SetCtr, Scope
  <2>4. /\ Scope(NameOf(p))' \subseteq {p}
        /\ p \in Scope(NameOf(p))' => job[p].scoped
        /\ NameOf(p)' = NameOf(p)
    BY <1>14 DEF SaveState, SetCtr, Scope
  <2> QED
    BY <2>1, <2>2, <2>3, <2>4
<1>15. ASSUME NEW p \in Procs, StartFails(p) PROVE UnscopedIsEmpty'
  BY <1>15 DEF StartFails, SetCtr, Scope
<1>16. ASSUME NEW p \in Procs, Exec(p) PROVE UnscopedIsEmpty'
  BY <1>16 DEF Exec, SetCtr, Scope
<1>17. ASSUME NEW p \in Procs, SetupFails(p) PROVE UnscopedIsEmpty'
  BY <1>17 DEF SetupFails, Scope
<1>18. ASSUME NEW p \in Procs, WaitReturns(p) PROVE UnscopedIsEmpty'
  BY <1>18 DEF WaitReturns, Scope
<1>19. ASSUME NEW p \in Procs, DestroyScope(p) PROVE UnscopedIsEmpty'
  BY <1>19 DEF DestroyScope, SetCtr, Scope
<1>20. ASSUME NEW p \in Procs, DestroyState(p) PROVE UnscopedIsEmpty'
  BY <1>20 DEF DestroyState, RemoveState, SetState, StateOf, Scope
<1>21. ASSUME NEW p \in Procs, ClearStoppedContainer(p) PROVE UnscopedIsEmpty'
  BY <1>21 DEF ClearStoppedContainer, AfterClear, Scope
<1>22. ASSUME NEW p \in Procs, StopLeftoverScope(p) PROVE UnscopedIsEmpty'
  BY <1>22 DEF StopLeftoverScope, KillScope, Scope
<1>23. ASSUME NEW p \in Procs, DestroyStopped(p) PROVE UnscopedIsEmpty'
  BY <1>23 DEF DestroyStopped, KillScope, Scope
<1>24. ASSUME NEW p \in Procs, EraseState(p) PROVE UnscopedIsEmpty'
  <2>1. \A q \in Procs : NameOf(q)' = NameOf(q) /\ job'[q].scoped = job[q].scoped
    BY <1>24, JobKept
  <2>2. \A n \in Names : n # NameOf(p) => state'[n] = state[n]
    BY <1>24 DEF EraseState, RemoveState, SetState
  <2>3. state'[NameOf(p)].kind \in {"absent", "bare"}
    BY <1>24, SavedBy DEF EraseState, RemoveState, SetState
  <2>4. pc'[p] \in {"erase", "rmBox", "recreate"} /\ ctr' = ctr
    BY <1>24 DEF EraseState, AfterClear
  <2>5. \A q \in Procs \ {p} : pc'[q] = pc[q]
    BY <1>24 DEF EraseState
  <2>6. \A n \in Names : Scope(n)' = Scope(n)
    BY <2>1, <2>4 DEF Scope
  <2>7. pc[p] = "erase" /\ Scope(NameOf(p)) = {} /\ NameOf(p) \in Names
    BY <1>24 DEF EraseState
  <2> QED
    BY <2>1, <2>2, <2>3, <2>4, <2>5, <2>6, <2>7
<1>25. ASSUME NEW p \in Procs, RmNext(p) PROVE UnscopedIsEmpty'
  BY <1>25, RmNextJob, JobRest DEF Scope
<1>26. ASSUME NEW p \in Procs, RemoveBox(p) PROVE UnscopedIsEmpty'
  BY <1>26 DEF RemoveBox, Scope
<1>27. ASSUME NEW p \in Procs, RemoveTree(p) PROVE UnscopedIsEmpty'
  BY <1>27 DEF RemoveTree, DeleteEntry, DeleteDirectory, Scope
<1>28. ASSUME NEW p \in Procs, ReleaseHelper(p) PROVE UnscopedIsEmpty'
  BY <1>28 DEF ReleaseHelper, Scope
<1>29. ASSUME NEW p \in Procs, WaitHelper(p) PROVE UnscopedIsEmpty'
  BY <1>29 DEF WaitHelper, Scope
<1>30. ASSUME NEW p \in Procs, HelperStep(p) PROVE UnscopedIsEmpty'
  BY <1>30 DEF HelperStep, DeleteEntry, DeleteDirectory, Scope
<1>31. ASSUME NEW p \in Procs, ContainerEnds(p) PROVE UnscopedIsEmpty'
  BY <1>31 DEF ContainerEnds, SetCtr, Scope
<1>32. CASE UNCHANGED vars
  BY <1>32 DEF vars, boxVars, Scope
<1> QED
  BY <1>1, <1>2, <1>3, <1>4, <1>5, <1>6, <1>7, <1>8, <1>9, <1>10, <1>11,
     <1>12, <1>13, <1>14, <1>15, <1>16, <1>17, <1>18, <1>19, <1>20, <1>21,
     <1>22, <1>23, <1>24, <1>25, <1>26, <1>27, <1>28, <1>29, <1>30, <1>31,
     <1>32
  DEF Next, ProcStep, RunStep, ClearStep, RmStep

LEMMA HasStateStep ==
    ASSUME SInv, [Next]_vars
    PROVE  ScopeHasState'
<1> USE ConstantsOK DEF SInv, RInv, IInv, RmOnly, ScopeOnTheWay, ScopeWayOf, UnscopedIsEmpty, ScopeHasState, TypeOK, Named, LockIsInUse, boxVars, Goto, NameOf, Steps, Holding, ClearSteps
<1>1. ASSUME NEW p \in Procs, Begin(p) PROVE ScopeHasState'
  BY <1>1, BeginJob, BeginRest DEF Begin, Scope
<1>2. ASSUME NEW p \in Procs, LockBox(p) PROVE ScopeHasState'
  BY <1>2 DEF LockBox, Scope
<1>3. ASSUME NEW p \in Procs, Fail(p) PROVE ScopeHasState'
  BY <1>3 DEF Fail, Scope
<1>4. ASSUME NEW p \in Procs, Unlock(p) PROVE ScopeHasState'
  BY <1>4, JobKept, JobRest DEF Unlock, Scope
<1>5. ASSUME NEW p \in Procs, Kill(p) PROVE ScopeHasState'
  BY <1>5 DEF Kill, Scope
<1>6. ASSUME NEW p \in Procs, Reap(p) PROVE ScopeHasState'
  BY <1>6 DEF Reap, Scope
<1>7. ASSUME NEW p \in Procs, PrepareBox(p) PROVE ScopeHasState'
  BY <1>7 DEF PrepareBox, Scope
<1>8. ASSUME NEW p \in Procs, CopyTree(p) PROVE ScopeHasState'
  BY <1>8 DEF CopyTree, Scope
<1>9. ASSUME NEW p \in Procs, RecordImage(p) PROVE ScopeHasState'
  BY <1>9 DEF RecordImage, Scope
<1>10. ASSUME NEW p \in Procs, InstallBox(p) PROVE ScopeHasState'
  BY <1>10 DEF InstallBox, Scope
<1>11. ASSUME NEW p \in Procs, CreateContainer(p) PROVE ScopeHasState'
  BY <1>11 DEF CreateContainer, SetState, StateOf, Scope
<1>12. ASSUME NEW p \in Procs, SpawnInit(p) PROVE ScopeHasState'
  BY <1>12 DEF SpawnInit, SetCtr, Scope
<1>13. ASSUME NEW p \in Procs, WriteState(p) PROVE ScopeHasState'
  BY <1>13 DEF WriteState, SetState, StateOf, Scope
<1>14. ASSUME NEW p \in Procs, SaveState(p) PROVE ScopeHasState'
  <2>1. \A n \in Names : n # NameOf(p) => state'[n] = state[n]
    BY <1>14 DEF SaveState, SetState
  <2>2. /\ state'[NameOf(p)].kind = "saved"
        /\ state'[NameOf(p)].scoped = job[p].scoped
    BY <1>14 DEF SaveState, SetState, Saved
  <2>3. \A n \in Names : n # NameOf(p) => Scope(n)' \subseteq Scope(n)
    BY <1>14 DEF SaveState, SetCtr, Scope
  <2>4. /\ Scope(NameOf(p))' \subseteq {p}
        /\ p \in Scope(NameOf(p))' => job[p].scoped
        /\ NameOf(p)' = NameOf(p)
    BY <1>14 DEF SaveState, SetCtr, Scope
  <2> QED
    BY <2>1, <2>2, <2>3, <2>4
<1>15. ASSUME NEW p \in Procs, StartFails(p) PROVE ScopeHasState'
  BY <1>15 DEF StartFails, SetCtr, Scope
<1>16. ASSUME NEW p \in Procs, Exec(p) PROVE ScopeHasState'
  BY <1>16 DEF Exec, SetCtr, Scope
<1>17. ASSUME NEW p \in Procs, SetupFails(p) PROVE ScopeHasState'
  BY <1>17 DEF SetupFails, Scope
<1>18. ASSUME NEW p \in Procs, WaitReturns(p) PROVE ScopeHasState'
  BY <1>18 DEF WaitReturns, Scope
<1>19. ASSUME NEW p \in Procs, DestroyScope(p) PROVE ScopeHasState'
  BY <1>19 DEF DestroyScope, SetCtr, Scope
<1>20. ASSUME NEW p \in Procs, DestroyState(p) PROVE ScopeHasState'
  BY <1>20 DEF DestroyState, RemoveState, SetState, StateOf, Scope
<1>21. ASSUME NEW p \in Procs, ClearStoppedContainer(p) PROVE ScopeHasState'
  BY <1>21 DEF ClearStoppedContainer, AfterClear, Scope
<1>22. ASSUME NEW p \in Procs, StopLeftoverScope(p) PROVE ScopeHasState'
  BY <1>22 DEF StopLeftoverScope, KillScope, Scope
<1>23. ASSUME NEW p \in Procs, DestroyStopped(p) PROVE ScopeHasState'
  BY <1>23 DEF DestroyStopped, KillScope, Scope
<1>24. ASSUME NEW p \in Procs, EraseState(p) PROVE ScopeHasState'
  <2>1. \A q \in Procs : NameOf(q)' = NameOf(q) /\ job'[q].scoped = job[q].scoped
    BY <1>24, JobKept
  <2>2. \A n \in Names : n # NameOf(p) => state'[n] = state[n]
    BY <1>24 DEF EraseState, RemoveState, SetState
  <2>3. state'[NameOf(p)].kind \in {"absent", "bare"}
    BY <1>24, SavedBy DEF EraseState, RemoveState, SetState
  <2>4. pc'[p] \in {"erase", "rmBox", "recreate"} /\ ctr' = ctr
    BY <1>24 DEF EraseState, AfterClear
  <2>5. \A q \in Procs \ {p} : pc'[q] = pc[q]
    BY <1>24 DEF EraseState
  <2>6. \A n \in Names : Scope(n)' = Scope(n)
    BY <2>1, <2>4 DEF Scope
  <2>7. pc[p] = "erase" /\ Scope(NameOf(p)) = {} /\ NameOf(p) \in Names
    BY <1>24 DEF EraseState
  <2> QED
    BY <2>1, <2>2, <2>3, <2>4, <2>5, <2>6, <2>7
<1>25. ASSUME NEW p \in Procs, RmNext(p) PROVE ScopeHasState'
  BY <1>25, RmNextJob, JobRest DEF Scope
<1>26. ASSUME NEW p \in Procs, RemoveBox(p) PROVE ScopeHasState'
  BY <1>26 DEF RemoveBox, Scope
<1>27. ASSUME NEW p \in Procs, RemoveTree(p) PROVE ScopeHasState'
  BY <1>27 DEF RemoveTree, DeleteEntry, DeleteDirectory, Scope
<1>28. ASSUME NEW p \in Procs, ReleaseHelper(p) PROVE ScopeHasState'
  BY <1>28 DEF ReleaseHelper, Scope
<1>29. ASSUME NEW p \in Procs, WaitHelper(p) PROVE ScopeHasState'
  BY <1>29 DEF WaitHelper, Scope
<1>30. ASSUME NEW p \in Procs, HelperStep(p) PROVE ScopeHasState'
  BY <1>30 DEF HelperStep, DeleteEntry, DeleteDirectory, Scope
<1>31. ASSUME NEW p \in Procs, ContainerEnds(p) PROVE ScopeHasState'
  BY <1>31 DEF ContainerEnds, SetCtr, Scope
<1>32. CASE UNCHANGED vars
  BY <1>32 DEF vars, boxVars, Scope
<1> QED
  BY <1>1, <1>2, <1>3, <1>4, <1>5, <1>6, <1>7, <1>8, <1>9, <1>10, <1>11,
     <1>12, <1>13, <1>14, <1>15, <1>16, <1>17, <1>18, <1>19, <1>20, <1>21,
     <1>22, <1>23, <1>24, <1>25, <1>26, <1>27, <1>28, <1>29, <1>30, <1>31,
     <1>32
  DEF Next, ProcStep, RunStep, ClearStep, RmStep

LEMMA SInvariance == Sessions \subseteq {TRUE} => (Spec => []SInv)
<1> SUFFICES ASSUME Sessions \subseteq {TRUE} PROVE Spec => []SInv
  OBVIOUS
<1> DEFINE Way == RmOnly /\ ScopeOnTheWay /\ UnscopedIsEmpty /\ ScopeHasState
<1>1. Init => Way
  <2> SUFFICES ASSUME Init PROVE Way
    OBVIOUS
  <2>1. \A p \in Procs : pc[p] = "idle" /\ job[p].kind = "none"
    BY DEF Init, NoJob
  <2>2. \A n \in Names : Scope(n) = {} /\ state[n].kind = "absent"
    BY DEF Init, Scope, StateOf
  <2> QED
    BY <2>1, <2>2
    DEF RmOnly, ScopeOnTheWay, ScopeWayOf, UnscopedIsEmpty, ScopeHasState
<1>2. SInv /\ [Next]_vars => Way'
  <2> SUFFICES ASSUME SInv, [Next]_vars PROVE Way'
    OBVIOUS
  <2>1. RmOnly'
    BY RmOnlyStep DEF SInv
  <2>2. ScopeOnTheWay'
    BY WayStep
  <2>3. UnscopedIsEmpty'
    BY UnscopedStep
  <2>4. ScopeHasState'
    BY HasStateStep
  <2> QED
    BY <2>1, <2>2, <2>3, <2>4
<1>3. RInv /\ Way <=> SInv
  BY DEF SInv
<1> HIDE DEF Way
<1> QED
  BY <1>1, <1>2, <1>3, RInvariance, PTL DEF Spec

\* With sessions, a scope that still holds processes always has a state
\* directory, so that the next run or rm of its name stops it.
THEOREM NoLostScope == Sessions \subseteq {TRUE} => (Spec => []ScopeHasState)
<1> SUFFICES ASSUME Sessions \subseteq {TRUE} PROVE Spec => []ScopeHasState
  OBVIOUS
<1>1. Spec => []SInv
  BY SInvariance
<1>2. SInv => ScopeHasState
  BY DEF SInv
<1> QED
  BY <1>1, <1>2, PTL

\* With sessions, nothing is in the way of the Create after a clear.
THEOREM Cleared == Sessions \subseteq {TRUE} => (Spec => []ClearedForCreate)
<1> SUFFICES ASSUME Sessions \subseteq {TRUE} PROVE Spec => []ClearedForCreate
  OBVIOUS
<1>1. Spec => []SInv
  BY SInvariance
<1>2. SInv => ClearedForCreate
  <2> SUFFICES ASSUME SInv, NEW p \in Procs, pc[p] = "recreate"
               PROVE  state[NameOf(p)].kind = "absent" /\ Scope(NameOf(p)) = {}
    BY DEF ClearedForCreate
  <2>1. state[NameOf(p)].kind = "absent"
    BY DEF SInv, RInv, ClearedIsAbsent
  <2>2. NameOf(p) \in Names
    BY DEF SInv, RInv, IInv, Named, Holding
  <2> QED
    BY <2>1, <2>2 DEF SInv, ScopeHasState
<1> QED
  BY <1>1, <1>2, PTL

\* With sessions, an rm that goes on to its next name has left neither box,
\* nor state, nor a process of the container.
THEOREM NothingLeft == Sessions \subseteq {TRUE} => (Spec => []RmLeavesNothing)
<1> SUFFICES ASSUME Sessions \subseteq {TRUE} PROVE Spec => []RmLeavesNothing
  OBVIOUS
<1>1. Spec => []SInv
  BY SInvariance
<1>2. SInv => RmLeavesNothing
  <2> SUFFICES ASSUME SInv, NEW p \in Procs, pc[p] = "rmDone"
               PROVE  /\ NameOf(p) \notin dir
                      /\ state[NameOf(p)].kind = "absent"
                      /\ Scope(NameOf(p)) = {}
    BY DEF RmLeavesNothing
  <2>1. NameOf(p) \notin dir /\ state[NameOf(p)].kind = "absent"
    BY DEF SInv, RInv, ClearedIsAbsent
  <2>2. NameOf(p) \in Names
    BY DEF SInv, RInv, IInv, Named, Holding
  <2> QED
    BY <2>1, <2>2 DEF SInv, ScopeHasState
<1> QED
  BY <1>1, <1>2, PTL


LEMMA ImageStep ==
    ASSUME MInv, ~ForeignFiles, [Next]_vars
    PROVE  ImageOnTheWay'
<1> USE ConstantsOK DEF MInv, RInv, IInv, ImageOnTheWay, UsesBox, BoxAgrees, TypeOK, Named, LockIsInUse, boxVars, Goto, NameOf, Steps, Holding, ClearSteps
<1>1. ASSUME NEW p \in Procs, Begin(p) PROVE ImageOnTheWay'
  BY <1>1, BeginJob, BeginRest DEF Begin
<1>2. ASSUME NEW p \in Procs, LockBox(p) PROVE ImageOnTheWay'
  BY <1>2 DEF LockBox
<1>3. ASSUME NEW p \in Procs, Fail(p) PROVE ImageOnTheWay'
  BY <1>3 DEF Fail
<1>4. ASSUME NEW p \in Procs, Unlock(p) PROVE ImageOnTheWay'
  BY <1>4, JobKept, JobRest DEF Unlock
<1>5. ASSUME NEW p \in Procs, Kill(p) PROVE ImageOnTheWay'
  BY <1>5 DEF Kill
<1>6. ASSUME NEW p \in Procs, Reap(p) PROVE ImageOnTheWay'
  BY <1>6 DEF Reap, NoJob
<1>7. ASSUME NEW p \in Procs, PrepareBox(p) PROVE ImageOnTheWay'
  BY <1>7 DEF PrepareBox
<1>8. ASSUME NEW p \in Procs, CopyTree(p) PROVE ImageOnTheWay'
  BY <1>8 DEF CopyTree
<1>9. ASSUME NEW p \in Procs, RecordImage(p) PROVE ImageOnTheWay'
  BY <1>9 DEF RecordImage
<1>10. ASSUME NEW p \in Procs, InstallBox(p) PROVE ImageOnTheWay'
  BY <1>10 DEF InstallBox
<1>11. ASSUME NEW p \in Procs, CreateContainer(p) PROVE ImageOnTheWay'
  BY <1>11 DEF CreateContainer, SetState, StateOf
<1>12. ASSUME NEW p \in Procs, SpawnInit(p) PROVE ImageOnTheWay'
  BY <1>12 DEF SpawnInit, SetCtr
<1>13. ASSUME NEW p \in Procs, WriteState(p) PROVE ImageOnTheWay'
  BY <1>13 DEF WriteState, SetState, StateOf
<1>14. ASSUME NEW p \in Procs, SaveState(p) PROVE ImageOnTheWay'
  BY <1>14 DEF SaveState, SetState, SetCtr
<1>15. ASSUME NEW p \in Procs, StartFails(p) PROVE ImageOnTheWay'
  BY <1>15 DEF StartFails, SetCtr
<1>16. ASSUME NEW p \in Procs, Exec(p) PROVE ImageOnTheWay'
  BY <1>16 DEF Exec, SetCtr
<1>17. ASSUME NEW p \in Procs, SetupFails(p) PROVE ImageOnTheWay'
  BY <1>17 DEF SetupFails
<1>18. ASSUME NEW p \in Procs, WaitReturns(p) PROVE ImageOnTheWay'
  BY <1>18 DEF WaitReturns
<1>19. ASSUME NEW p \in Procs, DestroyScope(p) PROVE ImageOnTheWay'
  BY <1>19 DEF DestroyScope, SetCtr
<1>20. ASSUME NEW p \in Procs, DestroyState(p) PROVE ImageOnTheWay'
  BY <1>20 DEF DestroyState, RemoveState, SetState, StateOf
<1>21. ASSUME NEW p \in Procs, ClearStoppedContainer(p) PROVE ImageOnTheWay'
  BY <1>21 DEF ClearStoppedContainer, AfterClear
<1>22. ASSUME NEW p \in Procs, StopLeftoverScope(p) PROVE ImageOnTheWay'
  BY <1>22 DEF StopLeftoverScope, KillScope
<1>23. ASSUME NEW p \in Procs, DestroyStopped(p) PROVE ImageOnTheWay'
  BY <1>23 DEF DestroyStopped, KillScope
<1>24. ASSUME NEW p \in Procs, EraseState(p) PROVE ImageOnTheWay'
  BY <1>24, JobKept, JobRest DEF EraseState, AfterClear
<1>25. ASSUME NEW p \in Procs, RmNext(p) PROVE ImageOnTheWay'
  BY <1>25, RmNextJob, JobRest
<1>26. ASSUME NEW p \in Procs, RemoveBox(p) PROVE ImageOnTheWay'
  BY <1>26 DEF RemoveBox
<1>27. ASSUME NEW p \in Procs, RemoveTree(p) PROVE ImageOnTheWay'
  <2>1. \A n \in Names : n # NameOf(p) => rootfs'[n] = rootfs[n] /\ record'[n] = record[n]
    BY <1>27 DEF RemoveTree, DeleteEntry, DeleteDirectory
  <2>2. \A q \in Procs :
           NameOf(q) = NameOf(p) => ctr[q] \notin {"created", "running"}
    BY <1>27, RemovalMeetsNoCommand DEF RemoveTree, NoRemovalUnderContainer
  <2>3. \A q \in Procs \ {p} : NameOf(q) = NameOf(p) => pc[q] \notin Holding
    BY <1>27 DEF RemoveTree
  <2>4. /\ helper' = helper /\ job' = job /\ ctr' = ctr
        /\ pc[p] = "rmTree" /\ pc'[p] \in {"rmTree", "rmDone"}
        /\ \A q \in Procs \ {p} : pc'[q] = pc[q]
    BY <1>27 DEF RemoveTree
  <2> QED
    BY <2>1, <2>2, <2>3, <2>4
<1>28. ASSUME NEW p \in Procs, ReleaseHelper(p) PROVE ImageOnTheWay'
  BY <1>28 DEF ReleaseHelper
<1>29. ASSUME NEW p \in Procs, WaitHelper(p) PROVE ImageOnTheWay'
  BY <1>29 DEF WaitHelper
<1>30. ASSUME NEW p \in Procs, HelperStep(p) PROVE ImageOnTheWay'
  BY <1>30 DEF HelperStep, DeleteEntry, DeleteDirectory
<1>31. ASSUME NEW p \in Procs, ContainerEnds(p) PROVE ImageOnTheWay'
  BY <1>31 DEF ContainerEnds, SetCtr
<1>32. CASE UNCHANGED vars
  BY <1>32 DEF vars, boxVars
<1> QED
  BY <1>1, <1>2, <1>3, <1>4, <1>5, <1>6, <1>7, <1>8, <1>9, <1>10, <1>11,
     <1>12, <1>13, <1>14, <1>15, <1>16, <1>17, <1>18, <1>19, <1>20, <1>21,
     <1>22, <1>23, <1>24, <1>25, <1>26, <1>27, <1>28, <1>29, <1>30, <1>31,
     <1>32
  DEF Next, ProcStep, RunStep, ClearStep, RmStep

LEMMA AgreesStep ==
    ASSUME MInv, ~ForeignFiles, [Next]_vars
    PROVE  BoxAgrees'
<1> USE ConstantsOK DEF MInv, RInv, IInv, ImageOnTheWay, UsesBox, BoxAgrees, TypeOK, Named, LockIsInUse, boxVars, Goto, NameOf, Steps, Holding, ClearSteps
<1>1. ASSUME NEW p \in Procs, Begin(p) PROVE BoxAgrees'
  BY <1>1, BeginJob, BeginRest DEF Begin
<1>2. ASSUME NEW p \in Procs, LockBox(p) PROVE BoxAgrees'
  BY <1>2 DEF LockBox
<1>3. ASSUME NEW p \in Procs, Fail(p) PROVE BoxAgrees'
  BY <1>3 DEF Fail
<1>4. ASSUME NEW p \in Procs, Unlock(p) PROVE BoxAgrees'
  BY <1>4, JobKept, JobRest DEF Unlock
<1>5. ASSUME NEW p \in Procs, Kill(p) PROVE BoxAgrees'
  BY <1>5 DEF Kill
<1>6. ASSUME NEW p \in Procs, Reap(p) PROVE BoxAgrees'
  BY <1>6 DEF Reap, NoJob
<1>7. ASSUME NEW p \in Procs, PrepareBox(p) PROVE BoxAgrees'
  BY <1>7 DEF PrepareBox
<1>8. ASSUME NEW p \in Procs, CopyTree(p) PROVE BoxAgrees'
  BY <1>8 DEF CopyTree
<1>9. ASSUME NEW p \in Procs, RecordImage(p) PROVE BoxAgrees'
  BY <1>9 DEF RecordImage
<1>10. ASSUME NEW p \in Procs, InstallBox(p) PROVE BoxAgrees'
  BY <1>10 DEF InstallBox
<1>11. ASSUME NEW p \in Procs, CreateContainer(p) PROVE BoxAgrees'
  BY <1>11 DEF CreateContainer, SetState, StateOf
<1>12. ASSUME NEW p \in Procs, SpawnInit(p) PROVE BoxAgrees'
  BY <1>12 DEF SpawnInit, SetCtr
<1>13. ASSUME NEW p \in Procs, WriteState(p) PROVE BoxAgrees'
  BY <1>13 DEF WriteState, SetState, StateOf
<1>14. ASSUME NEW p \in Procs, SaveState(p) PROVE BoxAgrees'
  BY <1>14 DEF SaveState, SetState, SetCtr
<1>15. ASSUME NEW p \in Procs, StartFails(p) PROVE BoxAgrees'
  BY <1>15 DEF StartFails, SetCtr
<1>16. ASSUME NEW p \in Procs, Exec(p) PROVE BoxAgrees'
  BY <1>16 DEF Exec, SetCtr
<1>17. ASSUME NEW p \in Procs, SetupFails(p) PROVE BoxAgrees'
  BY <1>17 DEF SetupFails
<1>18. ASSUME NEW p \in Procs, WaitReturns(p) PROVE BoxAgrees'
  BY <1>18 DEF WaitReturns
<1>19. ASSUME NEW p \in Procs, DestroyScope(p) PROVE BoxAgrees'
  BY <1>19 DEF DestroyScope, SetCtr
<1>20. ASSUME NEW p \in Procs, DestroyState(p) PROVE BoxAgrees'
  BY <1>20 DEF DestroyState, RemoveState, SetState, StateOf
<1>21. ASSUME NEW p \in Procs, ClearStoppedContainer(p) PROVE BoxAgrees'
  BY <1>21 DEF ClearStoppedContainer, AfterClear
<1>22. ASSUME NEW p \in Procs, StopLeftoverScope(p) PROVE BoxAgrees'
  BY <1>22 DEF StopLeftoverScope, KillScope
<1>23. ASSUME NEW p \in Procs, DestroyStopped(p) PROVE BoxAgrees'
  BY <1>23 DEF DestroyStopped, KillScope
<1>24. ASSUME NEW p \in Procs, EraseState(p) PROVE BoxAgrees'
  BY <1>24, JobKept, JobRest DEF EraseState, AfterClear
<1>25. ASSUME NEW p \in Procs, RmNext(p) PROVE BoxAgrees'
  BY <1>25, RmNextJob, JobRest
<1>26. ASSUME NEW p \in Procs, RemoveBox(p) PROVE BoxAgrees'
  BY <1>26 DEF RemoveBox
<1>27. ASSUME NEW p \in Procs, RemoveTree(p) PROVE BoxAgrees'
  BY <1>27 DEF RemoveTree, DeleteEntry, DeleteDirectory
<1>28. ASSUME NEW p \in Procs, ReleaseHelper(p) PROVE BoxAgrees'
  BY <1>28 DEF ReleaseHelper
<1>29. ASSUME NEW p \in Procs, WaitHelper(p) PROVE BoxAgrees'
  BY <1>29 DEF WaitHelper
<1>30. ASSUME NEW p \in Procs, HelperStep(p) PROVE BoxAgrees'
  BY <1>30 DEF HelperStep, DeleteEntry, DeleteDirectory
<1>31. ASSUME NEW p \in Procs, ContainerEnds(p) PROVE BoxAgrees'
  BY <1>31 DEF ContainerEnds, SetCtr
<1>32. CASE UNCHANGED vars
  BY <1>32 DEF vars, boxVars
<1> QED
  BY <1>1, <1>2, <1>3, <1>4, <1>5, <1>6, <1>7, <1>8, <1>9, <1>10, <1>11,
     <1>12, <1>13, <1>14, <1>15, <1>16, <1>17, <1>18, <1>19, <1>20, <1>21,
     <1>22, <1>23, <1>24, <1>25, <1>26, <1>27, <1>28, <1>29, <1>30, <1>31,
     <1>32
  DEF Next, ProcStep, RunStep, ClearStep, RmStep

LEMMA MInvariance == ~ForeignFiles => (Spec => []MInv)
<1> SUFFICES ASSUME ~ForeignFiles PROVE Spec => []MInv
  OBVIOUS
<1>1. Init => ImageOnTheWay /\ BoxAgrees
  BY DEF Init, NoJob, ImageOnTheWay, UsesBox, ClearSteps, BoxAgrees
<1>2. MInv /\ [Next]_vars => ImageOnTheWay' /\ BoxAgrees'
  BY ImageStep, AgreesStep
<1> QED
  BY <1>1, <1>2, RInvariance, PTL DEF Spec, MInv

\* Without files of subordinate IDs, a command that asked for an image runs in
\* a box made from it, and a record never names another image.
THEOREM ChosenImage == ~ForeignFiles => (Spec => []ChosenImageRuns)
<1> SUFFICES ASSUME ~ForeignFiles PROVE Spec => []ChosenImageRuns
  OBVIOUS
<1>1. Spec => []MInv
  BY MInvariance
<1>2. MInv => ChosenImageRuns
  BY DEF MInv, ImageOnTheWay, BoxAgrees, ChosenImageRuns
<1> QED
  BY <1>1, <1>2, PTL

-----------------------------------------------------------------------------
(* The refinement of BoxService.  Commands and Boxes are the abstract      *)
(* variables of BoxProperties; user is lock.                               *)

Commands == [n \in Names |-> {p \in Procs : RunsUnder(p, n)}]
Boxes == [n \in Names |-> BoxOf(n)]

LEMMA OnlyAt ==
    ASSUME NEW f, NEW g, NEW n \in Names, NEW b,
           f = [m \in Names |-> f[m]], g = [m \in Names |-> g[m]],
           g[n] = b, \A m \in Names \ {n} : g[m] = f[m]
    PROVE  g = [f EXCEPT ![n] = b]
  OBVIOUS

LEMMA CommandsAt ==
    ASSUME NEW n \in Names, NEW b, Commands'[n] = b,
           \A m \in Names \ {n} : Commands'[m] = Commands[m]
    PROVE  Commands' = [Commands EXCEPT ![n] = b]
<1>1. /\ Commands = [m \in Names |-> Commands[m]]
      /\ Commands' = [m \in Names |-> Commands'[m]]
  BY DEF Commands
<1> QED
  BY <1>1, OnlyAt

LEMMA BoxesAt ==
    ASSUME NEW n \in Names, NEW b, Boxes'[n] = b,
           \A m \in Names \ {n} : Boxes'[m] = Boxes[m]
    PROVE  Boxes' = [Boxes EXCEPT ![n] = b]
<1>1. Boxes = [m \in Names |-> Boxes[m]] /\ Boxes' = [m \in Names |-> Boxes'[m]]
  BY DEF Boxes
<1> QED
  BY <1>1, OnlyAt

\* What none of these steps changes: the service stutters.
LEMMA SameCommands ==
    ASSUME \A q \in Procs :
              /\ ctr'[q] = "running" <=> ctr[q] = "running"
              /\ ctr[q] = "running" => NameOf(q)' = NameOf(q)
    PROVE  Commands' = Commands
  BY DEF Commands, RunsUnder

LEMMA SameBoxes ==
    ASSUME UNCHANGED <<rootfs, cut>>
    PROVE  Boxes' = Boxes
  BY DEF Boxes, BoxOf

\* The steps of the service, in terms of the lifecycle.
LEMMA ServiceSteps ==
    ASSUME TypeOK, NEW n \in Names
    PROVE  /\ \A p \in Procs :
                 /\ lock[n] = None /\ lock' = [lock EXCEPT ![n] = p]
                 /\ Commands' = Commands /\ Boxes' = Boxes
                 => BoxServiceOf!ServiceNext
           /\ /\ lock[n] # None /\ lock' = [lock EXCEPT ![n] = None]
              /\ Commands' = Commands /\ Boxes' = Boxes
              => BoxServiceOf!ServiceNext
           /\ \A i \in Images :
                 /\ lock[n] # None /\ Boxes[n] = Absent
                 /\ Boxes' = [Boxes EXCEPT ![n] = i]
                 /\ lock' = lock /\ Commands' = Commands
                 => BoxServiceOf!ServiceNext
           /\ \A b \in {Damaged, Absent} :
                 /\ lock[n] # None /\ Commands[n] = {} /\ Boxes[n] # Absent
                 /\ Boxes' = [Boxes EXCEPT ![n] = b]
                 /\ lock' = lock /\ Commands' = Commands
                 => BoxServiceOf!ServiceNext
           /\ /\ lock[n] # None /\ Commands[n] = {}
              /\ Commands' = [Commands EXCEPT ![n] = {lock[n]}]
              /\ lock' = lock /\ Boxes' = Boxes
              => BoxServiceOf!ServiceNext
           /\ /\ Commands[n] # {}
              /\ Commands' = [Commands EXCEPT ![n] = {}]
              /\ lock' = lock /\ Boxes' = Boxes
              => BoxServiceOf!ServiceNext
  BY DEF BoxServiceOf!ServiceNext, BoxServiceOf!Take, BoxServiceOf!Leave,
         BoxServiceOf!Install, BoxServiceOf!Damage, BoxServiceOf!Remove,
         BoxServiceOf!StartCommand, BoxServiceOf!EndCommand, Commands, Boxes

LEMMA ServiceStutter ==
    ASSUME lock' = lock, Commands' = Commands, Boxes' = Boxes
    PROVE  UNCHANGED BoxServiceOf!serviceVars
  BY DEF BoxServiceOf!serviceVars, Commands, Boxes

Simulated == BoxServiceOf!ServiceNext \/ UNCHANGED BoxServiceOf!serviceVars

LEMMA ServiceStep ==
    ASSUME MInv, ~ForeignFiles, [Next]_vars
    PROVE  Simulated
<1> USE ConstantsOK DEF MInv, RInv, IInv, ImageOnTheWay, BoxAgrees, TypeOK, Named, LockIsInUse, RunningIsSaved, Quiet, QuietSteps, boxVars, Goto, NameOf, Steps, Holding, ClearSteps
<1>1. ASSUME NEW p \in Procs, Begin(p) PROVE Simulated
  <2>1. /\ \A q \in Procs : ctr'[q] = "running" <=> ctr[q] = "running"
        /\ \A q \in Procs : ctr[q] = "running" => NameOf(q)' = NameOf(q)
    BY <1>1, BeginJob DEF Begin
  <2>2. lock' = lock /\ rootfs' = rootfs /\ cut' = cut
    BY <1>1 DEF Begin
  <2> QED
    BY <2>1, <2>2, SameCommands, SameBoxes, ServiceStutter DEF Simulated
<1>2. ASSUME NEW p \in Procs, LockBox(p) PROVE Simulated
  <2>1. Commands' = Commands /\ Boxes' = Boxes
    BY <1>2, SameCommands, SameBoxes DEF LockBox
  <2>2. CASE lock[NameOf(p)] = None
    BY <1>2, <2>1, <2>2, ServiceSteps DEF LockBox, Simulated
  <2>3. CASE lock[NameOf(p)] # None
    BY <1>2, <2>1, <2>3, ServiceStutter DEF LockBox, Simulated
  <2> QED
    BY <2>2, <2>3
<1>3. ASSUME NEW p \in Procs, Fail(p) PROVE Simulated
  <2>1. /\ \A q \in Procs : ctr'[q] = "running" <=> ctr[q] = "running"
        /\ \A q \in Procs : ctr[q] = "running" => NameOf(q)' = NameOf(q)
    BY <1>3 DEF Fail
  <2>2. lock' = lock /\ rootfs' = rootfs /\ cut' = cut
    BY <1>3 DEF Fail
  <2> QED
    BY <2>1, <2>2, SameCommands, SameBoxes, ServiceStutter DEF Simulated
<1>4. ASSUME NEW p \in Procs, Unlock(p) PROVE Simulated
  <2>1. Commands' = Commands /\ Boxes' = Boxes
    BY <1>4, JobKept, SameCommands, SameBoxes DEF Unlock
  <2>2. PICK n \in Names : n = NameOf(p)
    BY <1>4 DEF Unlock
  <2>3. lock[n] # None /\ lock' = [lock EXCEPT ![n] = None]
    BY <1>4, <2>2 DEF Unlock
  <2> QED
    BY <2>1, <2>3, ServiceSteps DEF Simulated
<1>5. ASSUME NEW p \in Procs, Kill(p) PROVE Simulated
  <2>1. Commands' = Commands /\ Boxes' = Boxes
    BY <1>5, SameCommands, SameBoxes DEF Kill
  <2>2. CASE \E n \in Names : lock[n] = p
    <3>1. PICK n \in Names : lock[n] = p
      BY <2>2
    <3>2. \A m \in Names : lock[m] = p => m = n
      BY <3>1
    <3>3. lock'[n] = None /\ \A m \in Names \ {n} : lock'[m] = lock[m]
      BY <1>5, <3>1, <3>2 DEF Kill
    <3>4. lock = [m \in Names |-> lock[m]] /\ lock' = [m \in Names |-> lock'[m]]
      BY <1>5 DEF Kill
    <3>5. lock' = [lock EXCEPT ![n] = None]
      BY <3>3, <3>4, OnlyAt
    <3>6. lock[n] # None
      BY <3>1
    <3> QED
      BY <2>1, <3>5, <3>6, ServiceSteps DEF Simulated
  <2>3. CASE ~ \E n \in Names : lock[n] = p
    <3>1. lock' = lock
      BY <1>5, <2>3 DEF Kill
    <3> QED
      BY <2>1, <3>1, ServiceStutter DEF Simulated
  <2> QED
    BY <2>2, <2>3
<1>6. ASSUME NEW p \in Procs, Reap(p) PROVE Simulated
  <2>1. /\ \A q \in Procs : ctr'[q] = "running" <=> ctr[q] = "running"
        /\ \A q \in Procs : ctr[q] = "running" => NameOf(q)' = NameOf(q)
    BY <1>6 DEF Reap
  <2>2. lock' = lock /\ rootfs' = rootfs /\ cut' = cut
    BY <1>6 DEF Reap
  <2> QED
    BY <2>1, <2>2, SameCommands, SameBoxes, ServiceStutter DEF Simulated
<1>7. ASSUME NEW p \in Procs, PrepareBox(p) PROVE Simulated
  <2>1. /\ \A q \in Procs : ctr'[q] = "running" <=> ctr[q] = "running"
        /\ \A q \in Procs : ctr[q] = "running" => NameOf(q)' = NameOf(q)
    BY <1>7 DEF PrepareBox
  <2>2. lock' = lock /\ rootfs' = rootfs /\ cut' = cut
    BY <1>7 DEF PrepareBox
  <2> QED
    BY <2>1, <2>2, SameCommands, SameBoxes, ServiceStutter DEF Simulated
<1>8. ASSUME NEW p \in Procs, CopyTree(p) PROVE Simulated
  <2>1. /\ \A q \in Procs : ctr'[q] = "running" <=> ctr[q] = "running"
        /\ \A q \in Procs : ctr[q] = "running" => NameOf(q)' = NameOf(q)
    BY <1>8 DEF CopyTree
  <2>2. lock' = lock /\ rootfs' = rootfs /\ cut' = cut
    BY <1>8 DEF CopyTree
  <2> QED
    BY <2>1, <2>2, SameCommands, SameBoxes, ServiceStutter DEF Simulated
<1>9. ASSUME NEW p \in Procs, RecordImage(p) PROVE Simulated
  <2>1. /\ \A q \in Procs : ctr'[q] = "running" <=> ctr[q] = "running"
        /\ \A q \in Procs : ctr[q] = "running" => NameOf(q)' = NameOf(q)
    BY <1>9 DEF RecordImage
  <2>2. lock' = lock /\ rootfs' = rootfs /\ cut' = cut
    BY <1>9 DEF RecordImage
  <2> QED
    BY <2>1, <2>2, SameCommands, SameBoxes, ServiceStutter DEF Simulated
<1>10. ASSUME NEW p \in Procs, InstallBox(p) PROVE Simulated
  <2>1. Commands' = Commands /\ lock' = lock
    BY <1>10, SameCommands DEF InstallBox
  <2>2. PICK n \in Names : n = NameOf(p)
    BY <1>10 DEF InstallBox
  <2>3. lock[n] # None
    BY <1>10, <2>2 DEF InstallBox
  <2>4. PICK i \in Images : i = job[p].image
    BY <1>10 DEF InstallBox, Job
  <2>5. /\ rootfs[n] = None /\ n \notin cut /\ cut' = cut
        /\ rootfs' = [rootfs EXCEPT ![n] = i]
    BY <1>10, <2>4, <2>2 DEF InstallBox, HelperIn
  <2>6. Boxes[n] = Absent
    BY <2>5 DEF Boxes, BoxOf
  <2>7. Boxes'[n] = i /\ \A m \in Names \ {n} : Boxes'[m] = Boxes[m]
    BY <2>4, <2>5 DEF Boxes, BoxOf
  <2>8. Boxes' = [Boxes EXCEPT ![n] = i]
    BY <2>7, BoxesAt
  <2> QED
    BY <2>1, <2>3, <2>6, <2>8, ServiceSteps DEF Simulated
<1>11. ASSUME NEW p \in Procs, CreateContainer(p) PROVE Simulated
  <2>1. /\ \A q \in Procs : ctr'[q] = "running" <=> ctr[q] = "running"
        /\ \A q \in Procs : ctr[q] = "running" => NameOf(q)' = NameOf(q)
    BY <1>11 DEF CreateContainer, SetState, StateOf
  <2>2. lock' = lock /\ rootfs' = rootfs /\ cut' = cut
    BY <1>11 DEF CreateContainer, SetState, StateOf
  <2> QED
    BY <2>1, <2>2, SameCommands, SameBoxes, ServiceStutter DEF Simulated
<1>12. ASSUME NEW p \in Procs, SpawnInit(p) PROVE Simulated
  <2>1. /\ \A q \in Procs : ctr'[q] = "running" <=> ctr[q] = "running"
        /\ \A q \in Procs : ctr[q] = "running" => NameOf(q)' = NameOf(q)
    BY <1>12 DEF SpawnInit, SetCtr
  <2>2. lock' = lock /\ rootfs' = rootfs /\ cut' = cut
    BY <1>12 DEF SpawnInit, SetCtr
  <2> QED
    BY <2>1, <2>2, SameCommands, SameBoxes, ServiceStutter DEF Simulated
<1>13. ASSUME NEW p \in Procs, WriteState(p) PROVE Simulated
  <2>1. /\ \A q \in Procs : ctr'[q] = "running" <=> ctr[q] = "running"
        /\ \A q \in Procs : ctr[q] = "running" => NameOf(q)' = NameOf(q)
    BY <1>13 DEF WriteState, SetState, StateOf
  <2>2. lock' = lock /\ rootfs' = rootfs /\ cut' = cut
    BY <1>13 DEF WriteState, SetState, StateOf
  <2> QED
    BY <2>1, <2>2, SameCommands, SameBoxes, ServiceStutter DEF Simulated
<1>14. ASSUME NEW p \in Procs, SaveState(p) PROVE Simulated
  <2>1. /\ \A q \in Procs : ctr'[q] = "running" <=> ctr[q] = "running"
        /\ \A q \in Procs : ctr[q] = "running" => NameOf(q)' = NameOf(q)
    BY <1>14 DEF SaveState, SetState, SetCtr
  <2>2. lock' = lock /\ rootfs' = rootfs /\ cut' = cut
    BY <1>14 DEF SaveState, SetState, SetCtr
  <2> QED
    BY <2>1, <2>2, SameCommands, SameBoxes, ServiceStutter DEF Simulated
<1>15. ASSUME NEW p \in Procs, StartFails(p) PROVE Simulated
  <2>1. /\ \A q \in Procs : ctr'[q] = "running" <=> ctr[q] = "running"
        /\ \A q \in Procs : ctr[q] = "running" => NameOf(q)' = NameOf(q)
    BY <1>15 DEF StartFails, SetCtr
  <2>2. lock' = lock /\ rootfs' = rootfs /\ cut' = cut
    BY <1>15 DEF StartFails, SetCtr
  <2> QED
    BY <2>1, <2>2, SameCommands, SameBoxes, ServiceStutter DEF Simulated
<1>16. ASSUME NEW p \in Procs, Exec(p) PROVE Simulated
  <2>1. Boxes' = Boxes /\ lock' = lock
    BY <1>16, SameBoxes DEF Exec
  <2>2. PICK n \in Names : n = NameOf(p)
    BY <1>16 DEF Exec
  <2>3. lock[n] = p /\ p # None
    BY <1>16, <2>2 DEF Exec
  <2>4. \A q \in Procs : ctr[q] = "running" => NameOf(q) # n
    BY <1>16, <2>2, SavedBy DEF Exec
  <2>5. Commands[n] = {}
    BY <2>4 DEF Commands, RunsUnder
  <2>6. /\ job' = job /\ ctr'[p] = "running"
        /\ \A q \in Procs \ {p} : ctr'[q] = ctr[q]
        /\ ctr[p] # "running"
    BY <1>16 DEF Exec, SetCtr
  <2>7. Commands' = [Commands EXCEPT ![n] = {lock[n]}]
    <3>1. \A m \in Names : Commands'[m] = {q \in Procs : RunsUnder(q, m)'}
      BY DEF Commands
    <3>2. \A m \in Names \ {n} : \A q \in Procs : RunsUnder(q, m)' <=> RunsUnder(q, m)
      BY <2>2, <2>6 DEF RunsUnder
    <3>3. \A q \in Procs : RunsUnder(q, n)' <=> q = p
      BY <2>2, <2>4, <2>6 DEF RunsUnder
    <3>4. \A m \in Names \ {n} : Commands'[m] = Commands[m]
      BY <3>1, <3>2 DEF Commands
    <3>5. Commands'[n] = {p}
      BY <3>1, <3>3
    <3> QED
      BY <2>3, <3>4, <3>5, CommandsAt
  <2> QED
    BY <2>1, <2>3, <2>5, <2>7, ServiceSteps DEF Simulated
<1>17. ASSUME NEW p \in Procs, SetupFails(p) PROVE Simulated
  <2>1. /\ \A q \in Procs : ctr'[q] = "running" <=> ctr[q] = "running"
        /\ \A q \in Procs : ctr[q] = "running" => NameOf(q)' = NameOf(q)
    BY <1>17 DEF SetupFails
  <2>2. lock' = lock /\ rootfs' = rootfs /\ cut' = cut
    BY <1>17 DEF SetupFails
  <2> QED
    BY <2>1, <2>2, SameCommands, SameBoxes, ServiceStutter DEF Simulated
<1>18. ASSUME NEW p \in Procs, WaitReturns(p) PROVE Simulated
  <2>1. /\ \A q \in Procs : ctr'[q] = "running" <=> ctr[q] = "running"
        /\ \A q \in Procs : ctr[q] = "running" => NameOf(q)' = NameOf(q)
    BY <1>18 DEF WaitReturns
  <2>2. lock' = lock /\ rootfs' = rootfs /\ cut' = cut
    BY <1>18 DEF WaitReturns
  <2> QED
    BY <2>1, <2>2, SameCommands, SameBoxes, ServiceStutter DEF Simulated
<1>19. ASSUME NEW p \in Procs, DestroyScope(p) PROVE Simulated
  <2>1. /\ \A q \in Procs : ctr'[q] = "running" <=> ctr[q] = "running"
        /\ \A q \in Procs : ctr[q] = "running" => NameOf(q)' = NameOf(q)
    BY <1>19 DEF DestroyScope, SetCtr
  <2>2. lock' = lock /\ rootfs' = rootfs /\ cut' = cut
    BY <1>19 DEF DestroyScope, SetCtr
  <2> QED
    BY <2>1, <2>2, SameCommands, SameBoxes, ServiceStutter DEF Simulated
<1>20. ASSUME NEW p \in Procs, DestroyState(p) PROVE Simulated
  <2>1. /\ \A q \in Procs : ctr'[q] = "running" <=> ctr[q] = "running"
        /\ \A q \in Procs : ctr[q] = "running" => NameOf(q)' = NameOf(q)
    BY <1>20 DEF DestroyState, RemoveState, SetState, StateOf
  <2>2. lock' = lock /\ rootfs' = rootfs /\ cut' = cut
    BY <1>20 DEF DestroyState, RemoveState, SetState, StateOf
  <2> QED
    BY <2>1, <2>2, SameCommands, SameBoxes, ServiceStutter DEF Simulated
<1>21. ASSUME NEW p \in Procs, ClearStoppedContainer(p) PROVE Simulated
  <2>1. /\ \A q \in Procs : ctr'[q] = "running" <=> ctr[q] = "running"
        /\ \A q \in Procs : ctr[q] = "running" => NameOf(q)' = NameOf(q)
    BY <1>21 DEF ClearStoppedContainer, AfterClear
  <2>2. lock' = lock /\ rootfs' = rootfs /\ cut' = cut
    BY <1>21 DEF ClearStoppedContainer, AfterClear
  <2> QED
    BY <2>1, <2>2, SameCommands, SameBoxes, ServiceStutter DEF Simulated
<1>22. ASSUME NEW p \in Procs, StopLeftoverScope(p) PROVE Simulated
  <2>1. /\ \A q \in Procs : ctr'[q] = "running" <=> ctr[q] = "running"
        /\ \A q \in Procs : ctr[q] = "running" => NameOf(q)' = NameOf(q)
    BY <1>22 DEF StopLeftoverScope, KillScope, Scope
  <2>2. lock' = lock /\ rootfs' = rootfs /\ cut' = cut
    BY <1>22 DEF StopLeftoverScope, KillScope
  <2> QED
    BY <2>1, <2>2, SameCommands, SameBoxes, ServiceStutter DEF Simulated
<1>23. ASSUME NEW p \in Procs, DestroyStopped(p) PROVE Simulated
  <2>1. /\ \A q \in Procs : ctr'[q] = "running" <=> ctr[q] = "running"
        /\ \A q \in Procs : ctr[q] = "running" => NameOf(q)' = NameOf(q)
    BY <1>23 DEF DestroyStopped, KillScope, Scope
  <2>2. lock' = lock /\ rootfs' = rootfs /\ cut' = cut
    BY <1>23 DEF DestroyStopped, KillScope
  <2> QED
    BY <2>1, <2>2, SameCommands, SameBoxes, ServiceStutter DEF Simulated
<1>24. ASSUME NEW p \in Procs, EraseState(p) PROVE Simulated
  <2>1. /\ \A q \in Procs : ctr'[q] = "running" <=> ctr[q] = "running"
        /\ \A q \in Procs : ctr[q] = "running" => NameOf(q)' = NameOf(q)
    BY <1>24, JobKept DEF EraseState, AfterClear
  <2>2. lock' = lock /\ rootfs' = rootfs /\ cut' = cut
    BY <1>24 DEF EraseState, AfterClear
  <2> QED
    BY <2>1, <2>2, SameCommands, SameBoxes, ServiceStutter DEF Simulated
<1>25. ASSUME NEW p \in Procs, RmNext(p) PROVE Simulated
  <2>1. /\ \A q \in Procs : ctr'[q] = "running" <=> ctr[q] = "running"
        /\ \A q \in Procs : ctr[q] = "running" => NameOf(q)' = NameOf(q)
    BY <1>25, RmNextJob
  <2>2. lock' = lock /\ rootfs' = rootfs /\ cut' = cut
    BY <1>25 DEF RmNext
  <2> QED
    BY <2>1, <2>2, SameCommands, SameBoxes, ServiceStutter DEF Simulated
<1>26. ASSUME NEW p \in Procs, RemoveBox(p) PROVE Simulated
  <2>1. /\ \A q \in Procs : ctr'[q] = "running" <=> ctr[q] = "running"
        /\ \A q \in Procs : ctr[q] = "running" => NameOf(q)' = NameOf(q)
    BY <1>26 DEF RemoveBox
  <2>2. lock' = lock /\ rootfs' = rootfs /\ cut' = cut
    BY <1>26 DEF RemoveBox
  <2> QED
    BY <2>1, <2>2, SameCommands, SameBoxes, ServiceStutter DEF Simulated
<1>27. ASSUME NEW p \in Procs, RemoveTree(p) PROVE Simulated
  <2>1. Commands' = Commands /\ lock' = lock
    BY <1>27, SameCommands DEF RemoveTree
  <2>2. PICK n \in Names : n = NameOf(p)
    BY <1>27 DEF RemoveTree
  <2>3. lock[n] # None /\ Commands[n] = {}
    BY <1>27, <2>2, RemovalMeetsNoCommand
    DEF RemoveTree, NoRemovalUnderContainer, Commands, RunsUnder
  <2>4. \/ rootfs' = rootfs /\ cut' = cut
        \/ rootfs[n] # None /\ n \notin cut /\ rootfs' = rootfs /\ cut' = cut \cup {n}
        \/ n \in cut /\ rootfs' = [rootfs EXCEPT ![n] = None] /\ cut' = cut \ {n}
    BY <1>27, <2>2 DEF RemoveTree, DeleteEntry, DeleteDirectory
  <2>5. CASE rootfs' = rootfs /\ cut' = cut
    BY <2>1, <2>5, SameBoxes, ServiceStutter DEF Simulated
  <2>6. CASE rootfs[n] # None /\ n \notin cut /\ rootfs' = rootfs /\ cut' = cut \cup {n}
    <3>1. Boxes[n] # Absent
      BY <2>6, BoxesOK DEF Boxes, BoxOf
    <3>2. Boxes'[n] = Damaged /\ \A m \in Names \ {n} : Boxes'[m] = Boxes[m]
      BY <2>6 DEF Boxes, BoxOf
    <3>3. Boxes' = [Boxes EXCEPT ![n] = Damaged]
      BY <3>2, BoxesAt
    <3> QED
      BY <2>1, <2>3, <3>1, <3>3, ServiceSteps DEF Simulated
  <2>7. CASE n \in cut /\ rootfs' = [rootfs EXCEPT ![n] = None] /\ cut' = cut \ {n}
    <3>1. Boxes[n] # Absent
      BY <2>7, BoxesOK DEF Boxes, BoxOf
    <3>2. Boxes'[n] = Absent /\ \A m \in Names \ {n} : Boxes'[m] = Boxes[m]
      BY <2>7 DEF Boxes, BoxOf
    <3>3. Boxes' = [Boxes EXCEPT ![n] = Absent]
      BY <3>2, BoxesAt
    <3> QED
      BY <2>1, <2>3, <3>1, <3>3, ServiceSteps DEF Simulated
  <2> QED
    BY <2>4, <2>5, <2>6, <2>7
<1>28. ASSUME NEW p \in Procs, ReleaseHelper(p) PROVE Simulated
  <2>1. /\ \A q \in Procs : ctr'[q] = "running" <=> ctr[q] = "running"
        /\ \A q \in Procs : ctr[q] = "running" => NameOf(q)' = NameOf(q)
    BY <1>28 DEF ReleaseHelper
  <2>2. lock' = lock /\ rootfs' = rootfs /\ cut' = cut
    BY <1>28 DEF ReleaseHelper
  <2> QED
    BY <2>1, <2>2, SameCommands, SameBoxes, ServiceStutter DEF Simulated
<1>29. ASSUME NEW p \in Procs, WaitHelper(p) PROVE Simulated
  <2>1. /\ \A q \in Procs : ctr'[q] = "running" <=> ctr[q] = "running"
        /\ \A q \in Procs : ctr[q] = "running" => NameOf(q)' = NameOf(q)
    BY <1>29 DEF WaitHelper
  <2>2. lock' = lock /\ rootfs' = rootfs /\ cut' = cut
    BY <1>29 DEF WaitHelper
  <2> QED
    BY <2>1, <2>2, SameCommands, SameBoxes, ServiceStutter DEF Simulated
<1>30. ASSUME NEW p \in Procs, HelperStep(p) PROVE Simulated
  BY <1>30 DEF HelperStep
<1>31. ASSUME NEW p \in Procs, ContainerEnds(p) PROVE Simulated
  <2>1. Boxes' = Boxes /\ lock' = lock
    BY <1>31, SameBoxes DEF ContainerEnds
  <2>2. /\ job' = job /\ ctr'[p] = "none"
        /\ \A q \in Procs \ {p} : ctr'[q] = ctr[q]
    BY <1>31 DEF ContainerEnds, SetCtr
  <2>3. CASE ctr[p] # "running"
    BY <2>1, <2>2, <2>3, SameCommands, ServiceStutter DEF Simulated
  <2>4. CASE ctr[p] = "running"
    <3>1. PICK n \in Names : n = NameOf(p)
      BY <2>4
    <3>2. \A q \in Procs : ctr[q] = "running" /\ NameOf(q) = n => q = p
      BY <2>4, <3>1, SavedBy
    <3>3. Commands[n] # {}
      BY <2>4, <3>1 DEF Commands, RunsUnder
    <3>4. Commands' = [Commands EXCEPT ![n] = {}]
      <4>1. \A m \in Names \ {n} : \A q \in Procs : RunsUnder(q, m)' <=> RunsUnder(q, m)
        BY <2>2, <3>1 DEF RunsUnder
      <4>2. \A q \in Procs : ~RunsUnder(q, n)'
        BY <2>2, <3>2 DEF RunsUnder
      <4>3. \A m \in Names : Commands'[m] = {q \in Procs : RunsUnder(q, m)'}
        BY DEF Commands
      <4>4. \A m \in Names \ {n} : Commands'[m] = Commands[m]
        BY <4>1, <4>3 DEF Commands
      <4>5. Commands'[n] = {}
        BY <4>2, <4>3
      <4> QED
        BY <4>4, <4>5, CommandsAt
    <3> QED
      BY <2>1, <3>3, <3>4, ServiceSteps DEF Simulated
  <2> QED
    BY <2>3, <2>4
<1>32. CASE UNCHANGED vars
  <2>1. Commands' = Commands /\ Boxes' = Boxes /\ lock' = lock
    BY <1>32, SameCommands, SameBoxes DEF vars, boxVars
  <2> QED
    BY <2>1, ServiceStutter DEF Simulated
<1> QED
  BY <1>1, <1>2, <1>3, <1>4, <1>5, <1>6, <1>7, <1>8, <1>9, <1>10, <1>11,
     <1>12, <1>13, <1>14, <1>15, <1>16, <1>17, <1>18, <1>19, <1>20, <1>21,
     <1>22, <1>23, <1>24, <1>25, <1>26, <1>27, <1>28, <1>29, <1>30, <1>31,
     <1>32
  DEF Next, ProcStep, RunStep, ClearStep, RmStep

\* Without files of subordinate IDs the lifecycle keeps the promise of
\* BoxService, for any processes, names and images.
THEOREM Refines == ~ForeignFiles => (Spec => ImplementsService)
<1> SUFFICES ASSUME ~ForeignFiles PROVE Spec => ImplementsService
  OBVIOUS
<1>1. Spec => []MInv
  BY MInvariance
<1>2. Init => BoxServiceOf!ServiceInit
  BY DEF Init, BoxServiceOf!ServiceInit, RunsUnder, BoxOf
<1>3. MInv /\ [Next]_vars =>
        [BoxServiceOf!ServiceNext]_(BoxServiceOf!serviceVars)
  BY ServiceStep DEF Simulated
<1> QED
  BY <1>1, <1>2, <1>3, PTL DEF Spec, ImplementsService, BoxServiceOf!Service
=============================================================================
