------------------------ MODULE BoxLifecycle_proofs ------------------------
EXTENDS BoxProperties, TLAPS

LEMMA JobTypes ==
    /\ NoJob \in Job
    /\ RunJobs \subseteq Job
    /\ RmJobs \subseteq Job
    /\ \A j \in Job : \A b \in BOOLEAN : [j EXCEPT !.found = b] \in Job
    /\ \A j \in Job : \A n \in Names :
          [j EXCEPT !.name = n, !.todo = j.todo \ {n}] \in Job
<1>1. NoJob \in Job
  BY DEF NoJob, Job
<1>2. RunJobs \subseteq Job
  BY ConstantsOK DEF RunJobs, Job
<1>3. RmJobs \subseteq Job
  BY ConstantsOK DEF RmJobs, Job
<1>4. ASSUME NEW j \in Job, NEW b \in BOOLEAN PROVE [j EXCEPT !.found = b] \in Job
  BY DEF Job
<1>5. ASSUME NEW j \in Job, NEW n \in Names
      PROVE  [j EXCEPT !.name = n, !.todo = j.todo \ {n}] \in Job
  BY DEF Job
<1> QED
  BY <1>1, <1>2, <1>3, <1>4, <1>5

LEMMA StateTypes ==
    /\ \A k \in {"absent", "bare", "torn", "saved"} : StateOf(k) \in StateDir
    /\ \A p \in Procs : job[p] \in Job => Saved(p) \in StateDir
  BY DEF StateOf, StateDir, Saved, Job

LEMMA TypingStep ==
    ASSUME TypeOK, Named, [Next]_vars
    PROVE  TypeOK'
<1> USE ConstantsOK DEF TypeOK, Named, boxVars, Goto, NameOf, Steps, Holding, ClearSteps
<1>1. ASSUME NEW p \in Procs, Begin(p) PROVE TypeOK'
  BY <1>1, JobTypes DEF Begin
<1>2. ASSUME NEW p \in Procs, LockBox(p) PROVE TypeOK'
  <2> DEFINE s == IF job[p].kind = "rm" THEN "clear"
                  ELSE IF job[p].image = None THEN "create" ELSE "prepare"
  <2>1. CASE lock[NameOf(p)] = None
    <3>1. s \in Steps
      OBVIOUS
    <3>2. pc' = [pc EXCEPT ![p] = s]
      BY <1>2, <2>1 DEF LockBox
    <3> HIDE DEF s
    <3> QED
      BY <1>2, <2>1, <3>1, <3>2 DEF LockBox
  <2>2. CASE lock[NameOf(p)] # None
    BY <1>2, <2>2 DEF LockBox
  <2> QED
    BY <2>1, <2>2
<1>3. ASSUME NEW p \in Procs, Fail(p) PROVE TypeOK'
  BY <1>3 DEF Fail
<1>4. ASSUME NEW p \in Procs, Unlock(p) PROVE TypeOK'
  <2>1. job' \in [Procs -> Job]
    BY <1>4, JobTypes DEF Unlock
  <2>2. pc' \in [Procs -> Steps]
    BY <1>4 DEF Unlock
  <2> QED
    BY <1>4, <2>1, <2>2 DEF Unlock
<1>5. ASSUME NEW p \in Procs, Kill(p) PROVE TypeOK'
  BY <1>5 DEF Kill
<1>6. ASSUME NEW p \in Procs, Reap(p) PROVE TypeOK'
  BY <1>6, JobTypes DEF Reap
<1>7. ASSUME NEW p \in Procs, PrepareBox(p) PROVE TypeOK'
  BY <1>7 DEF PrepareBox
<1>8. ASSUME NEW p \in Procs, CopyTree(p) PROVE TypeOK'
  BY <1>8 DEF CopyTree
<1>9. ASSUME NEW p \in Procs, RecordImage(p) PROVE TypeOK'
  BY <1>9 DEF RecordImage, Job
<1>10. ASSUME NEW p \in Procs, InstallBox(p) PROVE TypeOK'
  BY <1>10 DEF InstallBox, Job
<1>11. ASSUME NEW p \in Procs, CreateContainer(p) PROVE TypeOK'
  BY <1>11, StateTypes DEF CreateContainer, SetState
<1>12. ASSUME NEW p \in Procs, SpawnInit(p) PROVE TypeOK'
  BY <1>12 DEF SpawnInit, SetCtr
<1>13. ASSUME NEW p \in Procs, WriteState(p) PROVE TypeOK'
  BY <1>13, StateTypes DEF WriteState, SetState
<1>14. ASSUME NEW p \in Procs, SaveState(p) PROVE TypeOK'
  BY <1>14, StateTypes DEF SaveState, SetState, SetCtr
<1>15. ASSUME NEW p \in Procs, StartFails(p) PROVE TypeOK'
  BY <1>15 DEF StartFails, SetCtr
<1>16. ASSUME NEW p \in Procs, Exec(p) PROVE TypeOK'
  BY <1>16 DEF Exec, SetCtr
<1>17. ASSUME NEW p \in Procs, SetupFails(p) PROVE TypeOK'
  BY <1>17 DEF SetupFails
<1>18. ASSUME NEW p \in Procs, WaitReturns(p) PROVE TypeOK'
  BY <1>18 DEF WaitReturns
<1>19. ASSUME NEW p \in Procs, DestroyScope(p) PROVE TypeOK'
  BY <1>19 DEF DestroyScope, SetCtr
<1>20. ASSUME NEW p \in Procs, DestroyState(p) PROVE TypeOK'
  BY <1>20, StateTypes DEF DestroyState, RemoveState, SetState
<1>21. ASSUME NEW p \in Procs, ClearStoppedContainer(p) PROVE TypeOK'
  BY <1>21 DEF ClearStoppedContainer, AfterClear
<1>22. ASSUME NEW p \in Procs, StopLeftoverScope(p) PROVE TypeOK'
  BY <1>22 DEF StopLeftoverScope, KillScope
<1>23. ASSUME NEW p \in Procs, DestroyStopped(p) PROVE TypeOK'
  BY <1>23 DEF DestroyStopped, KillScope
<1>24. ASSUME NEW p \in Procs, EraseState(p) PROVE TypeOK'
  <2>1. job' \in [Procs -> Job]
    <3>1. CASE state[NameOf(p)].kind = "bare"
      <4>1. job' = [job EXCEPT ![p] = [job[p] EXCEPT !.found = TRUE]]
        BY <1>24, <3>1 DEF EraseState
      <4> QED
        BY <4>1, JobTypes
    <3>2. CASE state[NameOf(p)].kind # "bare"
      BY <1>24, <3>2 DEF EraseState
    <3> QED
      BY <3>1, <3>2
  <2>2. pc' \in [Procs -> Steps]
    BY <1>24 DEF EraseState, AfterClear
  <2>3. state' \in [Names -> StateDir]
    BY <1>24, StateTypes DEF EraseState, RemoveState, SetState
  <2> QED
    BY <1>24, <2>1, <2>2, <2>3 DEF EraseState
<1>25. ASSUME NEW p \in Procs, RmNext(p) PROVE TypeOK'
  <2>1. job' \in [Procs -> Job]
    <3>1. CASE job' = job
      BY <3>1
    <3>2. ASSUME NEW n \in job[p].todo,
                 job' = [job EXCEPT ![p].name = n, ![p].todo = @ \ {n}]
          PROVE  job' \in [Procs -> Job]
      <4>1. n \in Names
        BY DEF Job
      <4>2. job' = [job EXCEPT ![p] =
                     [job[p] EXCEPT !.name = n, !.todo = job[p].todo \ {n}]]
        BY <3>2
      <4> QED
        BY <4>1, <4>2, JobTypes
    <3> QED
      BY <1>25, <3>1, <3>2 DEF RmNext
  <2>2. pc' \in [Procs -> Steps]
    BY <1>25 DEF RmNext
  <2> QED
    BY <1>25, <2>1, <2>2 DEF RmNext
<1>26. ASSUME NEW p \in Procs, RemoveBox(p) PROVE TypeOK'
  BY <1>26 DEF RemoveBox
<1>27. ASSUME NEW p \in Procs, RemoveTree(p) PROVE TypeOK'
  BY <1>27 DEF RemoveTree, DeleteEntry, DeleteDirectory
<1>28. ASSUME NEW p \in Procs, ReleaseHelper(p) PROVE TypeOK'
  BY <1>28 DEF ReleaseHelper
<1>29. ASSUME NEW p \in Procs, WaitHelper(p) PROVE TypeOK'
  BY <1>29 DEF WaitHelper
<1>30. ASSUME NEW p \in Procs, HelperStep(p) PROVE TypeOK'
  BY <1>30 DEF HelperStep, DeleteEntry, DeleteDirectory
<1>31. ASSUME NEW p \in Procs, ContainerEnds(p) PROVE TypeOK'
  BY <1>31 DEF ContainerEnds, SetCtr
<1>32. CASE UNCHANGED vars
  BY <1>32 DEF vars, boxVars
<1> QED
  BY <1>1, <1>2, <1>3, <1>4, <1>5, <1>6, <1>7, <1>8, <1>9, <1>10, <1>11,
     <1>12, <1>13, <1>14, <1>15, <1>16, <1>17, <1>18, <1>19, <1>20, <1>21,
     <1>22, <1>23, <1>24, <1>25, <1>26, <1>27, <1>28, <1>29, <1>30, <1>31,
     <1>32
  DEF Next, ProcStep, RunStep, ClearStep, RmStep

\* Only Begin, Reap and RmNext change the name a process works on.
LEMMA JobKept ==
    ASSUME TypeOK, NEW p \in Procs, Unlock(p) \/ EraseState(p)
    PROVE  \A q \in Procs : /\ job'[q].name = job[q].name
                            /\ job'[q].scoped = job[q].scoped
<1>1. ASSUME NEW b \in BOOLEAN, job' = [job EXCEPT ![p].found = b]
      PROVE  \A q \in Procs : /\ job'[q].name = job[q].name
                              /\ job'[q].scoped = job[q].scoped
  <2>1. job' = [job EXCEPT ![p] = [job[p] EXCEPT !.found = b]]
    BY <1>1
  <2>2. /\ [job[p] EXCEPT !.found = b].name = job[p].name
        /\ [job[p] EXCEPT !.found = b].scoped = job[p].scoped
    BY DEF TypeOK, Job
  <2> QED
    BY <2>1, <2>2 DEF TypeOK
<1> QED
  BY <1>1 DEF Unlock, EraseState

LEMMA RmNextJob ==
    ASSUME TypeOK, NEW p \in Procs, RmNext(p)
    PROVE  /\ pc[p] = "rmNext" /\ UNCHANGED <<lock, state, ctr, helper, boxVars>>
           /\ \A q \in Procs \ {p} : pc'[q] = pc[q] /\ job'[q] = job[q]
           /\ \/ pc'[p] = "exited" /\ job' = job
              \/ pc'[p] = "lock" /\ job'[p].name \in Names
<1> DEFINE kept == /\ pc[p] = "rmNext"
                   /\ UNCHANGED <<lock, state, ctr, helper, boxVars>>
<1>0. kept
  BY DEF RmNext
<1> HIDE DEF kept
<1>1. CASE job' = job /\ Goto(p, "exited")
  <2>1. pc'[p] = "exited" /\ \A q \in Procs \ {p} : pc'[q] = pc[q]
    BY <1>1 DEF TypeOK, Goto
  <2> QED
    BY <1>0, <1>1, <2>1 DEF kept
<1>2. ASSUME NEW n \in job[p].todo, Goto(p, "lock"),
             job' = [job EXCEPT ![p].name = n, ![p].todo = @ \ {n}]
      PROVE  /\ \A q \in Procs \ {p} : pc'[q] = pc[q] /\ job'[q] = job[q]
             /\ pc'[p] = "lock" /\ job'[p].name \in Names
  <2>1. job' = [job EXCEPT ![p] =
                 [job[p] EXCEPT !.name = n, !.todo = job[p].todo \ {n}]]
    BY <1>2
  <2>2. /\ n \in Names
        /\ [job[p] EXCEPT !.name = n, !.todo = job[p].todo \ {n}].name = n
    BY DEF TypeOK, Job
  <2> QED
    BY <1>2, <2>1, <2>2 DEF TypeOK, Goto
<1> QED
  BY <1>0, <1>1, <1>2 DEF RmNext, kept

LEMMA BeginJob ==
    ASSUME TypeOK, NEW p \in Procs, Begin(p)
    PROVE  /\ \A q \in Procs \ {p} : job'[q] = job[q]
           /\ \/ pc'[p] = "lock" /\ job'[p].name \in Names
              \/ pc'[p] = "rmNext"
  BY DEF Begin, RunJobs, TypeOK, Goto

LEMMA NamedStep ==
    ASSUME TypeOK, Named, [Next]_vars
    PROVE  Named'
<1> USE ConstantsOK DEF TypeOK, Named, boxVars, Goto, NameOf, Steps, Holding, ClearSteps
<1>1. ASSUME NEW p \in Procs, Begin(p) PROVE Named'
  BY <1>1, BeginJob DEF Begin
<1>2. ASSUME NEW p \in Procs, LockBox(p) PROVE Named'
  BY <1>2 DEF LockBox
<1>3. ASSUME NEW p \in Procs, Fail(p) PROVE Named'
  BY <1>3 DEF Fail
<1>4. ASSUME NEW p \in Procs, Unlock(p) PROVE Named'
  BY <1>4 DEF Unlock
<1>5. ASSUME NEW p \in Procs, Kill(p) PROVE Named'
  BY <1>5 DEF Kill
<1>6. ASSUME NEW p \in Procs, Reap(p) PROVE Named'
  BY <1>6 DEF Reap, NoJob
<1>7. ASSUME NEW p \in Procs, PrepareBox(p) PROVE Named'
  BY <1>7 DEF PrepareBox
<1>8. ASSUME NEW p \in Procs, CopyTree(p) PROVE Named'
  BY <1>8 DEF CopyTree
<1>9. ASSUME NEW p \in Procs, RecordImage(p) PROVE Named'
  BY <1>9 DEF RecordImage
<1>10. ASSUME NEW p \in Procs, InstallBox(p) PROVE Named'
  BY <1>10 DEF InstallBox
<1>11. ASSUME NEW p \in Procs, CreateContainer(p) PROVE Named'
  BY <1>11 DEF CreateContainer, SetState, StateOf
<1>12. ASSUME NEW p \in Procs, SpawnInit(p) PROVE Named'
  BY <1>12 DEF SpawnInit, SetCtr
<1>13. ASSUME NEW p \in Procs, WriteState(p) PROVE Named'
  BY <1>13 DEF WriteState, SetState, StateOf
<1>14. ASSUME NEW p \in Procs, SaveState(p) PROVE Named'
  BY <1>14 DEF SaveState, SetState, SetCtr
<1>15. ASSUME NEW p \in Procs, StartFails(p) PROVE Named'
  BY <1>15 DEF StartFails, SetCtr
<1>16. ASSUME NEW p \in Procs, Exec(p) PROVE Named'
  BY <1>16 DEF Exec, SetCtr
<1>17. ASSUME NEW p \in Procs, SetupFails(p) PROVE Named'
  BY <1>17 DEF SetupFails
<1>18. ASSUME NEW p \in Procs, WaitReturns(p) PROVE Named'
  BY <1>18 DEF WaitReturns
<1>19. ASSUME NEW p \in Procs, DestroyScope(p) PROVE Named'
  BY <1>19 DEF DestroyScope, SetCtr
<1>20. ASSUME NEW p \in Procs, DestroyState(p) PROVE Named'
  BY <1>20 DEF DestroyState, RemoveState, SetState, StateOf
<1>21. ASSUME NEW p \in Procs, ClearStoppedContainer(p) PROVE Named'
  BY <1>21 DEF ClearStoppedContainer, AfterClear
<1>22. ASSUME NEW p \in Procs, StopLeftoverScope(p) PROVE Named'
  BY <1>22 DEF StopLeftoverScope, KillScope
<1>23. ASSUME NEW p \in Procs, DestroyStopped(p) PROVE Named'
  BY <1>23 DEF DestroyStopped, KillScope
<1>24. ASSUME NEW p \in Procs, EraseState(p) PROVE Named'
  BY <1>24, JobKept DEF EraseState, AfterClear
<1>25. ASSUME NEW p \in Procs, RmNext(p) PROVE Named'
  BY <1>25, RmNextJob
<1>26. ASSUME NEW p \in Procs, RemoveBox(p) PROVE Named'
  BY <1>26 DEF RemoveBox
<1>27. ASSUME NEW p \in Procs, RemoveTree(p) PROVE Named'
  BY <1>27 DEF RemoveTree, DeleteEntry, DeleteDirectory
<1>28. ASSUME NEW p \in Procs, ReleaseHelper(p) PROVE Named'
  BY <1>28 DEF ReleaseHelper
<1>29. ASSUME NEW p \in Procs, WaitHelper(p) PROVE Named'
  BY <1>29 DEF WaitHelper
<1>30. ASSUME NEW p \in Procs, HelperStep(p) PROVE Named'
  BY <1>30 DEF HelperStep, DeleteEntry, DeleteDirectory
<1>31. ASSUME NEW p \in Procs, ContainerEnds(p) PROVE Named'
  BY <1>31 DEF ContainerEnds, SetCtr
<1>32. CASE UNCHANGED vars
  BY <1>32 DEF vars, boxVars
<1> QED
  BY <1>1, <1>2, <1>3, <1>4, <1>5, <1>6, <1>7, <1>8, <1>9, <1>10, <1>11,
     <1>12, <1>13, <1>14, <1>15, <1>16, <1>17, <1>18, <1>19, <1>20, <1>21,
     <1>22, <1>23, <1>24, <1>25, <1>26, <1>27, <1>28, <1>29, <1>30, <1>31,
     <1>32
  DEF Next, ProcStep, RunStep, ClearStep, RmStep

LEMMA LockStep ==
    ASSUME TypeOK, Named, LockIsInUse, [Next]_vars
    PROVE  LockIsInUse'
<1> USE ConstantsOK DEF TypeOK, Named, LockIsInUse, boxVars, Goto, NameOf, Steps, Holding, ClearSteps
<1>1. ASSUME NEW p \in Procs, Begin(p) PROVE LockIsInUse'
  BY <1>1, BeginJob DEF Begin
<1>2. ASSUME NEW p \in Procs, LockBox(p) PROVE LockIsInUse'
  BY <1>2 DEF LockBox
<1>3. ASSUME NEW p \in Procs, Fail(p) PROVE LockIsInUse'
  BY <1>3 DEF Fail
<1>4. ASSUME NEW p \in Procs, Unlock(p) PROVE LockIsInUse'
  BY <1>4, JobKept DEF Unlock
<1>5. ASSUME NEW p \in Procs, Kill(p) PROVE LockIsInUse'
  BY <1>5 DEF Kill
<1>6. ASSUME NEW p \in Procs, Reap(p) PROVE LockIsInUse'
  BY <1>6 DEF Reap, NoJob
<1>7. ASSUME NEW p \in Procs, PrepareBox(p) PROVE LockIsInUse'
  BY <1>7 DEF PrepareBox
<1>8. ASSUME NEW p \in Procs, CopyTree(p) PROVE LockIsInUse'
  BY <1>8 DEF CopyTree
<1>9. ASSUME NEW p \in Procs, RecordImage(p) PROVE LockIsInUse'
  BY <1>9 DEF RecordImage
<1>10. ASSUME NEW p \in Procs, InstallBox(p) PROVE LockIsInUse'
  BY <1>10 DEF InstallBox
<1>11. ASSUME NEW p \in Procs, CreateContainer(p) PROVE LockIsInUse'
  BY <1>11 DEF CreateContainer, SetState, StateOf
<1>12. ASSUME NEW p \in Procs, SpawnInit(p) PROVE LockIsInUse'
  BY <1>12 DEF SpawnInit, SetCtr
<1>13. ASSUME NEW p \in Procs, WriteState(p) PROVE LockIsInUse'
  BY <1>13 DEF WriteState, SetState, StateOf
<1>14. ASSUME NEW p \in Procs, SaveState(p) PROVE LockIsInUse'
  BY <1>14 DEF SaveState, SetState, SetCtr
<1>15. ASSUME NEW p \in Procs, StartFails(p) PROVE LockIsInUse'
  BY <1>15 DEF StartFails, SetCtr
<1>16. ASSUME NEW p \in Procs, Exec(p) PROVE LockIsInUse'
  BY <1>16 DEF Exec, SetCtr
<1>17. ASSUME NEW p \in Procs, SetupFails(p) PROVE LockIsInUse'
  BY <1>17 DEF SetupFails
<1>18. ASSUME NEW p \in Procs, WaitReturns(p) PROVE LockIsInUse'
  BY <1>18 DEF WaitReturns
<1>19. ASSUME NEW p \in Procs, DestroyScope(p) PROVE LockIsInUse'
  BY <1>19 DEF DestroyScope, SetCtr
<1>20. ASSUME NEW p \in Procs, DestroyState(p) PROVE LockIsInUse'
  BY <1>20 DEF DestroyState, RemoveState, SetState, StateOf
<1>21. ASSUME NEW p \in Procs, ClearStoppedContainer(p) PROVE LockIsInUse'
  BY <1>21 DEF ClearStoppedContainer, AfterClear
<1>22. ASSUME NEW p \in Procs, StopLeftoverScope(p) PROVE LockIsInUse'
  BY <1>22 DEF StopLeftoverScope, KillScope
<1>23. ASSUME NEW p \in Procs, DestroyStopped(p) PROVE LockIsInUse'
  BY <1>23 DEF DestroyStopped, KillScope
<1>24. ASSUME NEW p \in Procs, EraseState(p) PROVE LockIsInUse'
  BY <1>24, JobKept DEF EraseState, AfterClear
<1>25. ASSUME NEW p \in Procs, RmNext(p) PROVE LockIsInUse'
  BY <1>25, RmNextJob
<1>26. ASSUME NEW p \in Procs, RemoveBox(p) PROVE LockIsInUse'
  BY <1>26 DEF RemoveBox
<1>27. ASSUME NEW p \in Procs, RemoveTree(p) PROVE LockIsInUse'
  BY <1>27 DEF RemoveTree, DeleteEntry, DeleteDirectory
<1>28. ASSUME NEW p \in Procs, ReleaseHelper(p) PROVE LockIsInUse'
  BY <1>28 DEF ReleaseHelper
<1>29. ASSUME NEW p \in Procs, WaitHelper(p) PROVE LockIsInUse'
  BY <1>29 DEF WaitHelper
<1>30. ASSUME NEW p \in Procs, HelperStep(p) PROVE LockIsInUse'
  BY <1>30 DEF HelperStep, DeleteEntry, DeleteDirectory
<1>31. ASSUME NEW p \in Procs, ContainerEnds(p) PROVE LockIsInUse'
  BY <1>31 DEF ContainerEnds, SetCtr
<1>32. CASE UNCHANGED vars
  BY <1>32 DEF vars, boxVars
<1> QED
  BY <1>1, <1>2, <1>3, <1>4, <1>5, <1>6, <1>7, <1>8, <1>9, <1>10, <1>11,
     <1>12, <1>13, <1>14, <1>15, <1>16, <1>17, <1>18, <1>19, <1>20, <1>21,
     <1>22, <1>23, <1>24, <1>25, <1>26, <1>27, <1>28, <1>29, <1>30, <1>31,
     <1>32
  DEF Next, ProcStep, RunStep, ClearStep, RmStep

\* The state of a name records one container only.
LEMMA SavedBy ==
    /\ \A p \in Procs : Saved(p).kind = "saved" /\ Saved(p).init = p
    /\ \A p, q \in Procs : Saved(p) = Saved(q) => p = q
    /\ \A k : StateOf(k).kind = k
  BY DEF Saved, StateOf


LEMMA RunningStep ==
    ASSUME TypeOK, Named, LockIsInUse, RunningIsSaved, Quiet, [Next]_vars
    PROVE  RunningIsSaved'
<1> USE ConstantsOK DEF TypeOK, Named, LockIsInUse, RunningIsSaved, boxVars, Goto, NameOf, Steps, Holding, ClearSteps
<1>1. ASSUME NEW p \in Procs, Begin(p) PROVE RunningIsSaved'
  BY <1>1, BeginJob DEF Begin, Saved
<1>2. ASSUME NEW p \in Procs, LockBox(p) PROVE RunningIsSaved'
  BY <1>2 DEF LockBox, Saved
<1>3. ASSUME NEW p \in Procs, Fail(p) PROVE RunningIsSaved'
  BY <1>3 DEF Fail, Saved
<1>4. ASSUME NEW p \in Procs, Unlock(p) PROVE RunningIsSaved'
  BY <1>4, JobKept DEF Unlock, Saved
<1>5. ASSUME NEW p \in Procs, Kill(p) PROVE RunningIsSaved'
  BY <1>5 DEF Kill, Saved
<1>6. ASSUME NEW p \in Procs, Reap(p) PROVE RunningIsSaved'
  <2>1. \A q \in Procs \ {p} : pc'[q] = pc[q] /\ job'[q] = job[q]
    BY <1>6 DEF Reap
  <2>2. pc'[p] = "idle" /\ ctr'[p] = "none" /\ state' = state /\ ctr' = ctr
    BY <1>6 DEF Reap
  <2> QED
    BY <2>1, <2>2 DEF Saved
<1>7. ASSUME NEW p \in Procs, PrepareBox(p) PROVE RunningIsSaved'
  BY <1>7 DEF PrepareBox, Saved
<1>8. ASSUME NEW p \in Procs, CopyTree(p) PROVE RunningIsSaved'
  BY <1>8 DEF CopyTree, Saved
<1>9. ASSUME NEW p \in Procs, RecordImage(p) PROVE RunningIsSaved'
  BY <1>9 DEF RecordImage, Saved
<1>10. ASSUME NEW p \in Procs, InstallBox(p) PROVE RunningIsSaved'
  BY <1>10 DEF InstallBox, Saved
<1>11. ASSUME NEW p \in Procs, CreateContainer(p) PROVE RunningIsSaved'
  BY <1>11 DEF CreateContainer, SetState, StateOf, Saved
<1>12. ASSUME NEW p \in Procs, SpawnInit(p) PROVE RunningIsSaved'
  BY <1>12 DEF SpawnInit, SetCtr, Saved
<1>13. ASSUME NEW p \in Procs, WriteState(p) PROVE RunningIsSaved'
  <2>1. \A n \in Names : n # NameOf(p) => state'[n] = state[n]
    BY <1>13 DEF WriteState, SetState
  <2>2. \A q \in Procs : ctr[q] = "running" => NameOf(q) # NameOf(p)
    BY <1>13 DEF WriteState, Quiet, QuietSteps
  <2> QED
    BY <1>13, <2>1, <2>2 DEF WriteState, Saved
<1>14. ASSUME NEW p \in Procs, SaveState(p) PROVE RunningIsSaved'
  <2>1. \A n \in Names : n # NameOf(p) => state'[n] = state[n]
    BY <1>14 DEF SaveState, SetState
  <2>2. \A q \in Procs : ctr[q] = "running" => NameOf(q) # NameOf(p)
    BY <1>14 DEF SaveState, Quiet, QuietSteps
  <2>3. state'[NameOf(p)] = Saved(p)
    BY <1>14 DEF SaveState, SetState
  <2> QED
    BY <1>14, <2>1, <2>2, <2>3 DEF SaveState, SetCtr, Saved
<1>15. ASSUME NEW p \in Procs, StartFails(p) PROVE RunningIsSaved'
  BY <1>15 DEF StartFails, SetCtr, Saved
<1>16. ASSUME NEW p \in Procs, Exec(p) PROVE RunningIsSaved'
  BY <1>16 DEF Exec, SetCtr, Saved
<1>17. ASSUME NEW p \in Procs, SetupFails(p) PROVE RunningIsSaved'
  BY <1>17 DEF SetupFails, Saved
<1>18. ASSUME NEW p \in Procs, WaitReturns(p) PROVE RunningIsSaved'
  BY <1>18 DEF WaitReturns, Saved
<1>19. ASSUME NEW p \in Procs, DestroyScope(p) PROVE RunningIsSaved'
  BY <1>19 DEF DestroyScope, SetCtr, Saved
<1>20. ASSUME NEW p \in Procs, DestroyState(p) PROVE RunningIsSaved'
  <2>1. \A n \in Names : n # NameOf(p) => state'[n] = state[n]
    BY <1>20 DEF DestroyState, RemoveState, SetState
  <2>2. \A q \in Procs : ctr[q] = "running" => NameOf(q) # NameOf(p)
    BY <1>20 DEF DestroyState, Quiet, QuietSteps
  <2> QED
    BY <1>20, <2>1, <2>2 DEF DestroyState, Saved
<1>21. ASSUME NEW p \in Procs, ClearStoppedContainer(p) PROVE RunningIsSaved'
  BY <1>21 DEF ClearStoppedContainer, AfterClear, Saved
<1>22. ASSUME NEW p \in Procs, StopLeftoverScope(p) PROVE RunningIsSaved'
  BY <1>22 DEF StopLeftoverScope, KillScope, Saved
<1>23. ASSUME NEW p \in Procs, DestroyStopped(p) PROVE RunningIsSaved'
  BY <1>23 DEF DestroyStopped, KillScope, Saved
<1>24. ASSUME NEW p \in Procs, EraseState(p) PROVE RunningIsSaved'
  <2>1. \A q \in Procs : NameOf(q)' = NameOf(q) /\ Saved(q)' = Saved(q)
    BY <1>24, JobKept DEF Saved
  <2>2. \A n \in Names : n # NameOf(p) => state'[n] = state[n]
    BY <1>24 DEF EraseState, RemoveState, SetState
  <2>3. \A q \in Procs : ctr[q] = "running" => NameOf(q) # NameOf(p)
    BY <1>24 DEF EraseState, Quiet, QuietSteps
  <2> QED
    BY <1>24, <2>1, <2>2, <2>3 DEF EraseState, AfterClear
<1>25. ASSUME NEW p \in Procs, RmNext(p) PROVE RunningIsSaved'
  <2>1. \A q \in Procs \ {p} :
          pc'[q] = pc[q] /\ NameOf(q)' = NameOf(q) /\ Saved(q)' = Saved(q)
    BY <1>25, RmNextJob DEF Saved
  <2>2. pc[p] = "rmNext" /\ pc'[p] \in {"exited", "lock"}
    BY <1>25, RmNextJob
  <2>3. state' = state /\ ctr' = ctr
    BY <1>25, RmNextJob
  <2> QED
    BY <2>1, <2>2, <2>3
<1>26. ASSUME NEW p \in Procs, RemoveBox(p) PROVE RunningIsSaved'
  BY <1>26 DEF RemoveBox, Saved
<1>27. ASSUME NEW p \in Procs, RemoveTree(p) PROVE RunningIsSaved'
  BY <1>27 DEF RemoveTree, DeleteEntry, DeleteDirectory, Saved
<1>28. ASSUME NEW p \in Procs, ReleaseHelper(p) PROVE RunningIsSaved'
  BY <1>28 DEF ReleaseHelper, Saved
<1>29. ASSUME NEW p \in Procs, WaitHelper(p) PROVE RunningIsSaved'
  BY <1>29 DEF WaitHelper, Saved
<1>30. ASSUME NEW p \in Procs, HelperStep(p) PROVE RunningIsSaved'
  BY <1>30 DEF HelperStep, DeleteEntry, DeleteDirectory, Saved
<1>31. ASSUME NEW p \in Procs, ContainerEnds(p) PROVE RunningIsSaved'
  BY <1>31 DEF ContainerEnds, SetCtr, Saved
<1>32. CASE UNCHANGED vars
  BY <1>32 DEF vars, boxVars, Saved
<1> QED
  BY <1>1, <1>2, <1>3, <1>4, <1>5, <1>6, <1>7, <1>8, <1>9, <1>10, <1>11,
     <1>12, <1>13, <1>14, <1>15, <1>16, <1>17, <1>18, <1>19, <1>20, <1>21,
     <1>22, <1>23, <1>24, <1>25, <1>26, <1>27, <1>28, <1>29, <1>30, <1>31,
     <1>32
  DEF Next, ProcStep, RunStep, ClearStep, RmStep

LEMMA QuietStep ==
    ASSUME TypeOK, Named, LockIsInUse, RunningIsSaved, Quiet, [Next]_vars
    PROVE  Quiet'
<1> USE ConstantsOK DEF TypeOK, Named, LockIsInUse, RunningIsSaved, Quiet, QuietSteps, boxVars, Goto, NameOf, Steps, Holding, ClearSteps
<1>1. ASSUME NEW p \in Procs, Begin(p) PROVE Quiet'
  BY <1>1, BeginJob DEF Begin
<1>2. ASSUME NEW p \in Procs, LockBox(p) PROVE Quiet'
  BY <1>2 DEF LockBox
<1>3. ASSUME NEW p \in Procs, Fail(p) PROVE Quiet'
  BY <1>3 DEF Fail
<1>4. ASSUME NEW p \in Procs, Unlock(p) PROVE Quiet'
  BY <1>4, JobKept DEF Unlock
<1>5. ASSUME NEW p \in Procs, Kill(p) PROVE Quiet'
  BY <1>5 DEF Kill
<1>6. ASSUME NEW p \in Procs, Reap(p) PROVE Quiet'
  BY <1>6 DEF Reap, NoJob
<1>7. ASSUME NEW p \in Procs, PrepareBox(p) PROVE Quiet'
  BY <1>7 DEF PrepareBox
<1>8. ASSUME NEW p \in Procs, CopyTree(p) PROVE Quiet'
  BY <1>8 DEF CopyTree
<1>9. ASSUME NEW p \in Procs, RecordImage(p) PROVE Quiet'
  BY <1>9 DEF RecordImage
<1>10. ASSUME NEW p \in Procs, InstallBox(p) PROVE Quiet'
  BY <1>10 DEF InstallBox
<1>11. ASSUME NEW p \in Procs, CreateContainer(p) PROVE Quiet'
  BY <1>11, SavedBy DEF CreateContainer, SetState
<1>12. ASSUME NEW p \in Procs, SpawnInit(p) PROVE Quiet'
  BY <1>12 DEF SpawnInit, SetCtr
<1>13. ASSUME NEW p \in Procs, WriteState(p) PROVE Quiet'
  BY <1>13 DEF WriteState, SetState, StateOf
<1>14. ASSUME NEW p \in Procs, SaveState(p) PROVE Quiet'
  BY <1>14 DEF SaveState, SetState, SetCtr
<1>15. ASSUME NEW p \in Procs, StartFails(p) PROVE Quiet'
  BY <1>15 DEF StartFails, SetCtr
<1>16. ASSUME NEW p \in Procs, Exec(p) PROVE Quiet'
  BY <1>16 DEF Exec, SetCtr
<1>17. ASSUME NEW p \in Procs, SetupFails(p) PROVE Quiet'
  <2>1. \A q \in Procs : ctr[q] = "running" => NameOf(q) # NameOf(p)
    BY <1>17, SavedBy DEF SetupFails
  <2> QED
    BY <1>17, <2>1 DEF SetupFails
<1>18. ASSUME NEW p \in Procs, WaitReturns(p) PROVE Quiet'
  <2>1. \A q \in Procs : ctr[q] = "running" => NameOf(q) # NameOf(p)
    BY <1>18, SavedBy DEF WaitReturns
  <2> QED
    BY <1>18, <2>1 DEF WaitReturns
<1>19. ASSUME NEW p \in Procs, DestroyScope(p) PROVE Quiet'
  BY <1>19 DEF DestroyScope, SetCtr
<1>20. ASSUME NEW p \in Procs, DestroyState(p) PROVE Quiet'
  BY <1>20 DEF DestroyState, RemoveState, SetState, StateOf
<1>21. ASSUME NEW p \in Procs, ClearStoppedContainer(p) PROVE Quiet'
  BY <1>21, SavedBy DEF ClearStoppedContainer, AfterClear, InitAlive
<1>22. ASSUME NEW p \in Procs, StopLeftoverScope(p) PROVE Quiet'
  BY <1>22 DEF StopLeftoverScope, KillScope
<1>23. ASSUME NEW p \in Procs, DestroyStopped(p) PROVE Quiet'
  BY <1>23 DEF DestroyStopped, KillScope
<1>24. ASSUME NEW p \in Procs, EraseState(p) PROVE Quiet'
  BY <1>24, JobKept DEF EraseState, AfterClear
<1>25. ASSUME NEW p \in Procs, RmNext(p) PROVE Quiet'
  BY <1>25, RmNextJob
<1>26. ASSUME NEW p \in Procs, RemoveBox(p) PROVE Quiet'
  BY <1>26 DEF RemoveBox
<1>27. ASSUME NEW p \in Procs, RemoveTree(p) PROVE Quiet'
  BY <1>27 DEF RemoveTree, DeleteEntry, DeleteDirectory
<1>28. ASSUME NEW p \in Procs, ReleaseHelper(p) PROVE Quiet'
  BY <1>28 DEF ReleaseHelper
<1>29. ASSUME NEW p \in Procs, WaitHelper(p) PROVE Quiet'
  BY <1>29 DEF WaitHelper
<1>30. ASSUME NEW p \in Procs, HelperStep(p) PROVE Quiet'
  BY <1>30 DEF HelperStep, DeleteEntry, DeleteDirectory
<1>31. ASSUME NEW p \in Procs, ContainerEnds(p) PROVE Quiet'
  BY <1>31 DEF ContainerEnds, SetCtr
<1>32. CASE UNCHANGED vars
  BY <1>32 DEF vars, boxVars
<1> QED
  BY <1>1, <1>2, <1>3, <1>4, <1>5, <1>6, <1>7, <1>8, <1>9, <1>10, <1>11,
     <1>12, <1>13, <1>14, <1>15, <1>16, <1>17, <1>18, <1>19, <1>20, <1>21,
     <1>22, <1>23, <1>24, <1>25, <1>26, <1>27, <1>28, <1>29, <1>30, <1>31,
     <1>32
  DEF Next, ProcStep, RunStep, ClearStep, RmStep

-----------------------------------------------------------------------------
THEOREM Invariance == Spec => []IInv
<1>1. Init => IInv
  <2> SUFFICES ASSUME Init PROVE IInv
    OBVIOUS
  <2> USE DEF Init
  <2>1. TypeOK
    BY JobTypes, StateTypes DEF TypeOK, Steps
  <2>2. Named
    BY DEF Named, Holding, ClearSteps
  <2>3. LockIsInUse
    BY ConstantsOK DEF LockIsInUse, Holding, ClearSteps
  <2>4. RunningIsSaved /\ Quiet
    BY DEF RunningIsSaved, Quiet, QuietSteps
  <2> QED
    BY <2>1, <2>2, <2>3, <2>4 DEF IInv
<1>2. IInv /\ [Next]_vars => IInv'
  BY TypingStep, NamedStep, LockStep, RunningStep, QuietStep DEF IInv
<1> QED
  BY <1>1, <1>2, PTL DEF Spec

\* Every variable keeps its type.
THEOREM TypeCorrect == Spec => []TypeOK
<1>1. IInv => TypeOK
  BY DEF IInv
<1> QED
  BY <1>1, Invariance, PTL

\* A lock is held exactly by the process that works on its name, so two
\* processes never work on one name.
THEOREM LocksAreInUse == Spec => []LockIsInUse
<1>1. IInv => LockIsInUse
  BY DEF IInv
<1> QED
  BY <1>1, Invariance, PTL

\* Two commands never run under one name, also when the curimata of the first
\* was killed before its container ended.
THEOREM OneCommand == Spec => []OneCommandPerName
<1>1. IInv => OneCommandPerName
  BY SavedBy DEF IInv, RunningIsSaved, OneCommandPerName
<1> QED
  BY <1>1, Invariance, PTL

\* While a curimata sets up, runs and waits for its command, the state of its
\* name is its own, and so is the lock.
THEOREM LiveState == Spec => []LiveStateIsOwn
<1>1. IInv => LiveStateIsOwn
  <2> SUFFICES ASSUME IInv, NEW p \in Procs, pc[p] \in {"started", "wait"}
               PROVE  state[NameOf(p)] = Saved(p) /\ lock[NameOf(p)] = p
    BY DEF LiveStateIsOwn
  <2>1. pc[p] \in Holding
    BY DEF Holding
  <2>2. NameOf(p) \in Names
    BY <2>1 DEF IInv, Named
  <2> QED
    BY <2>1, <2>2 DEF IInv, LockIsInUse, RunningIsSaved
<1> QED
  BY <1>1, Invariance, PTL
=============================================================================
