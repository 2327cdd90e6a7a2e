------------------------- MODULE ImportJobsProofs -------------------------
(***************************************************************************)
(* Proofs about ImportJobs for every number of jobs and workers, every     *)
(* assignment of WORKER_IDs (shared ones included), every lease and        *)
(* back-off, steps that outlive their lease and any number of faults.      *)
(***************************************************************************)
EXTENDS ImportJobs, FiniteSetTheorems, TLAPS

USE DEF Validate, Parse, Clean, Chunk, Embed, Index, Publish, Cleanup,
        Finished, WorkStage, Stage

(* The steps of Next, with the two ways to insert a row taken together. *)
LEMMA StepCases ==
  ASSUME TypeOK, [Next]_vars
  PROVE  \/ \E j \in Job, t \in AllJobTypes, s \in WorkStage : Insert(j, t, s)
         \/ \E j \in Job : CancelRead(j) \/ CancelWaiting(j) \/ CancelRunning(j)
         \/ \E w \in Worker, j \in Job : Claim(w, j)
         \/ \E w \in Worker : BeginStage(w) \/ CancelAtBoundary(w) \/ FindLockLost(w)
         \/ \E w \in Worker : CommitStage(w) \/ Succeed(w)
         \/ \E w \in Worker, r \in BOOLEAN : StageFails(w, r)
         \/ \E w \in Worker : MarkLoad(w) \/ MarkRefused(w) \/ MarkWrite(w)
                                \/ MarkLost(w) \/ Abandon(w)
         \/ Tick
         \/ UNCHANGED vars
<1>1. ASSUME NEW j \in Job, NEW t \in JobTypes, Submit(j, t)
      PROVE  \E s \in WorkStage : t \in AllJobTypes /\ Insert(j, t, s)
  <2>1. FirstStage(t) \in WorkStage  BY DEF FirstStage
  <2>2. t \in AllJobTypes  BY TypesAssumption
  <2> QED  BY <1>1, <2>1, <2>2 DEF Submit
<1>2. ASSUME NEW i \in Job, NEW j \in Job, RetryJob(i, j)
      PROVE  \E t \in AllJobTypes, s \in WorkStage : Insert(j, t, s)
  <2>1. jobType[i] \in AllJobTypes  BY DEF TypeOK
  <2>2. RetryStage(jobType[i]) \in WorkStage  BY DEF RetryStage
  <2> QED  BY <1>2, <2>1, <2>2 DEF RetryJob
<1>3. CASE ApiStep
  BY <1>1, <1>2, <1>3 DEF ApiStep, CancelWrite
<1>4. CASE \E w \in Worker : WorkerStep(w)
  BY <1>4 DEF WorkerStep, StageStep
<1>5. CASE Rest
  BY <1>5 DEF Rest
<1> QED  BY <1>3, <1>4, <1>5 DEF Next

(* A worker that is not polling holds a claim on a job. *)
HeldIsJob == \A w \in Worker : pc[w] # "idle" => held[w] \in Job

Typed == TypeOK /\ HeldIsJob

LEMMA InitTyped == Init => Typed
<1> SUFFICES ASSUME Init PROVE Typed  OBVIOUS
<1> QED  BY BoundsAssumption, WorkerAssumption
         DEF Init, TypeOK, HeldIsJob, Typed, Status, Waiting, Terminal,
             AllJobTypes, NoJob

LEMMA ReleaseTyped ==
  ASSUME TypeOK, NEW w \in Worker, Release(w)
  PROVE  /\ pc' \in [Worker -> {"idle", "holding", "inStage", "failing", "marking"}]
         /\ held' \in [Worker -> Job \cup {NoJob}]
         /\ loaded' \in [Worker -> Stage]
         /\ renewed' \in [Worker -> 0..LeaseTicks]
         /\ retryable' \in [Worker -> BOOLEAN]
         /\ seen' \in [Worker -> 0..AttemptCap]
BY BoundsAssumption DEF TypeOK, Release

LEMMA UnlockTyped ==
  ASSUME TypeOK, NEW j \in Job, Unlock(j)
  PROVE  /\ lockedBy' \in [Job -> Id \cup {NoId}]
         /\ lease' \in [Job -> 0..LeaseTicks]
BY BoundsAssumption DEF TypeOK, Unlock

LEMMA StepTyped == Typed /\ [Next]_vars => Typed'
<1> SUFFICES ASSUME Typed, [Next]_vars PROVE Typed'  OBVIOUS
<1> USE BoundsAssumption, WorkerAssumption
<1> USE DEF Typed, TypeOK, HeldIsJob, row, wvars, history
<1>1. ASSUME NEW j \in Job, NEW t \in AllJobTypes, NEW s \in WorkStage,
             Insert(j, t, s)
      PROVE  Typed'
  BY <1>1 DEF Insert, Status, Waiting
<1>2. ASSUME NEW j \in Job, CancelRead(j) PROVE Typed'
  <2>1. <<j, "waiting">> \in Job \X {"waiting", "running"}  OBVIOUS
  <2>2. <<j, "running">> \in Job \X {"waiting", "running"}  OBVIOUS
  <2> QED  BY <1>2, <2>1, <2>2 DEF CancelRead
<1>3. ASSUME NEW j \in Job, CancelRunning(j) PROVE Typed'
  BY <1>3 DEF CancelRunning
<1>4. ASSUME NEW j \in Job, CancelWaiting(j) PROVE Typed'
  BY <1>4, UnlockTyped DEF CancelWaiting, Status, Terminal
<1>5. ASSUME NEW w \in Worker, NEW j \in Job, Claim(w, j) PROVE Typed'
  BY <1>5, BoundsAssumption DEF Claim, CountUp, CountTakeover, TakeoverCap, Status
<1>6. ASSUME NEW w \in Worker, BeginStage(w) PROVE Typed'
  <2>1. held[w] \in Job  BY <1>6 DEF BeginStage
  <2> QED  BY <1>6, <2>1 DEF BeginStage
<1>7. ASSUME NEW w \in Worker, FindLockLost(w) PROVE Typed'
  BY <1>7 DEF FindLockLost
<1>8. ASSUME NEW w \in Worker, CancelAtBoundary(w) PROVE Typed'
  <2>1. held[w] \in Job  BY <1>8 DEF CancelAtBoundary
  <2>2. Release(w) /\ Unlock(held[w])  BY <1>8 DEF CancelAtBoundary
  <2>3. status' \in [Job -> Status]
    BY <1>8, <2>1 DEF CancelAtBoundary, Status, Terminal
  <2>4. HeldIsJob'  BY <2>2 DEF Release
  <2> QED  BY <1>8, <2>1, <2>2, <2>3, <2>4, ReleaseTyped, UnlockTyped
           DEF CancelAtBoundary
<1>9. ASSUME NEW w \in Worker, CommitStage(w) PROVE Typed'
  <2>1. held[w] \in Job  BY <1>9 DEF CommitStage, PerformEffect
  <2>2. loaded[w] \in WorkStage  BY <1>9 DEF CommitStage, PerformEffect
  <2>3. done' \in [Job -> [WorkStage -> Nat]]
    BY <1>9, <2>1, <2>2 DEF CommitStage, PerformEffect
  <2>4. stage' \in [Job -> Stage]  BY <1>9, <2>1, <2>2 DEF CommitStage
  <2> QED  BY <1>9, <2>1, <2>3, <2>4 DEF CommitStage
<1>10. ASSUME NEW w \in Worker, Succeed(w) PROVE Typed'
  <2>1. held[w] \in Job  BY <1>10 DEF Succeed, PerformEffect
  <2>2. loaded[w] \in WorkStage  BY <1>10 DEF Succeed, PerformEffect
  <2>3. done' \in [Job -> [WorkStage -> Nat]]
    BY <1>10, <2>1, <2>2 DEF Succeed, PerformEffect
  <2>4. Release(w) /\ Unlock(held[w])  BY <1>10 DEF Succeed
  <2>5. status' \in [Job -> Status] /\ stage' \in [Job -> Stage]
    BY <1>10, <2>1 DEF Succeed, Status, Terminal
  <2>6. HeldIsJob'  BY <2>4 DEF Release
  <2> QED  BY <1>10, <2>1, <2>3, <2>4, <2>5, <2>6, ReleaseTyped, UnlockTyped
           DEF Succeed
<1>11. ASSUME NEW w \in Worker, NEW r \in BOOLEAN, StageFails(w, r) PROVE Typed'
  BY <1>11 DEF StageFails
<1>12. ASSUME NEW w \in Worker, MarkLoad(w) PROVE Typed'
  <2>1. held[w] \in Job  BY <1>12 DEF MarkLoad
  <2> QED  BY <1>12, <2>1 DEF MarkLoad
<1>13. ASSUME NEW w \in Worker,
              MarkRefused(w) \/ MarkLost(w) \/ Abandon(w)
       PROVE  Typed'
  <2>1. Release(w)  BY <1>13 DEF MarkRefused, MarkLost, Abandon
  <2>2. HeldIsJob'  BY <2>1 DEF Release
  <2> QED  BY <1>13, <2>1, <2>2, ReleaseTyped DEF MarkRefused, MarkLost, Abandon
<1>14. ASSUME NEW w \in Worker, MarkWrite(w) PROVE Typed'
  <2>1. held[w] \in Job  BY <1>14 DEF MarkWrite
  <2>2. Release(w) /\ Unlock(held[w])  BY <1>14 DEF MarkWrite
  <2>3. /\ status' \in [Job -> Status]
        /\ backoff' \in [Job -> 0..BackoffTicks]
    BY <1>14, <2>1 DEF MarkWrite, Status, Waiting, Terminal
  <2>4. HeldIsJob'  BY <2>2 DEF Release
  <2> QED  BY <1>14, <2>1, <2>2, <2>3, <2>4, ReleaseTyped, UnlockTyped
           DEF MarkWrite
<1>15. CASE Tick
  BY <1>15 DEF Tick, Less
<1>16. CASE UNCHANGED vars
  BY <1>16 DEF vars
<1> QED
  BY ONLY StepCases, Typed, [Next]_vars, <1>1, <1>2, <1>3, <1>4, <1>5, <1>6,
     <1>7, <1>8, <1>9, <1>10, <1>11, <1>12, <1>13, <1>14, <1>15, <1>16
     DEF Typed

(* Every reachable state of the job table and the workers is well typed.   *)
THEOREM TypeCorrect == Spec => []TypeOK
<1>1. Spec => []Typed  BY InitTyped, StepTyped, PTL DEF Spec
<1> QED  BY <1>1, PTL DEF Typed

---------------------------------------------------------------------------
(* The row lock.  While a stage transaction is open its worker owns the    *)
(* job, no other process runs it and no cancel request is committed.       *)

RunnerNotCancelled ==
  \A w \in Worker : pc[w] = "inStage" => ~cancelRequested[held[w]]

RunnerInv == StageExclusion /\ RunnerNotCancelled

(* What RunnerInv says of the runner w, in a form that a step keeps as     *)
(* long as it leaves w and its row alone.                                  *)
Runs(w) ==
  /\ Owns(w, held[w]) /\ loaded[w] = stage[held[w]]
  /\ ~cancelRequested[held[w]]
  /\ \A v \in Worker \ {w} : ~(pc[v] = "inStage" /\ held[v] = held[w])

LEMMA InitRunner == Init => RunnerInv
BY DEF Init, RunnerInv, StageExclusion, RunnerNotCancelled

(* A step that opens no stage transaction keeps the runners whose rows it  *)
(* does not write.                                                         *)
LEMMA RunnersKept ==
  ASSUME Typed, RunnerInv,
         \A w \in Worker : pc'[w] = "inStage" =>
           /\ pc[w] = "inStage"
           /\ held'[w] = held[w] /\ loaded'[w] = loaded[w]
           /\ status'[held[w]] = status[held[w]]
           /\ stage'[held[w]] = stage[held[w]]
           /\ lockedBy'[held[w]] = lockedBy[held[w]]
           /\ cancelRequested'[held[w]] = cancelRequested[held[w]]
  PROVE  RunnerInv'
<1> SUFFICES ASSUME NEW w \in Worker, pc'[w] = "inStage"
             PROVE  /\ Owns(w, held[w])' /\ loaded'[w] = stage'[held'[w]]
                    /\ ~cancelRequested'[held'[w]]
                    /\ \A v \in Worker \ {w} :
                         ~(pc'[v] = "inStage" /\ held'[v] = held'[w])
  BY DEF RunnerInv, StageExclusion, RunnerNotCancelled
<1>1. pc[w] = "inStage" /\ Runs(w)
  BY DEF RunnerInv, StageExclusion, RunnerNotCancelled, Runs
<1>2. \A v \in Worker \ {w} : ~(pc'[v] = "inStage" /\ held'[v] = held'[w])
  BY <1>1 DEF Runs
<1> QED  BY <1>1, <1>2 DEF Runs, Owns

LEMMA StepRunner == Typed /\ RunnerInv /\ [Next]_vars => RunnerInv'
<1> SUFFICES ASSUME Typed, RunnerInv, [Next]_vars PROVE RunnerInv'  OBVIOUS
<1> USE DEF row, wvars, history
<1>a. \A w \in Worker : pc[w] = "inStage" => Runs(w) /\ held[w] \in Job
  <2>1. \A w \in Worker : pc[w] = "inStage" => Runs(w)
    BY DEF RunnerInv, StageExclusion, RunnerNotCancelled, Runs
  <2> QED  BY <2>1 DEF Typed, HeldIsJob
<1>b. /\ pc = [w \in Worker |-> pc[w]] /\ held = [w \in Worker |-> held[w]]
      /\ loaded = [w \in Worker |-> loaded[w]]
  BY DEF Typed, TypeOK
<1>1. ASSUME NEW j \in Job, NEW t \in AllJobTypes, NEW s \in WorkStage,
             Insert(j, t, s)
      PROVE  RunnerInv'
  <2>1. \A w \in Worker : pc[w] = "inStage" => held[w] # j
    BY <1>1, <1>a DEF Insert, Runs, Owns
  <2> QED  BY <1>1, <2>1, RunnersKept DEF Insert, Typed, TypeOK
<1>2. ASSUME NEW j \in Job, CancelRead(j) PROVE RunnerInv'
  BY <1>2, RunnersKept DEF CancelRead
<1>3. ASSUME NEW j \in Job, CancelWaiting(j) \/ CancelRunning(j) PROVE RunnerInv'
  <2>1. \A w \in Worker : pc[w] = "inStage" => held[w] # j
    BY <1>3 DEF CancelWaiting, CancelRunning, RowLocked
  <2>2. CASE CancelWaiting(j)
    BY <2>1, <2>2, <1>a, RunnersKept DEF CancelWaiting, Unlock, Typed, TypeOK
  <2>3. CASE CancelRunning(j)
    BY <2>1, <2>3, <1>a, RunnersKept DEF CancelRunning, Typed, TypeOK
  <2> QED  BY <1>3, <2>2, <2>3
<1>4. ASSUME NEW w \in Worker, NEW j \in Job, Claim(w, j) PROVE RunnerInv'
  <2>1. \A v \in Worker : pc[v] = "inStage" => held[v] # j
    BY <1>4 DEF Claim, RowLocked
  <2> QED  BY <1>4, <2>1, <1>b, RunnersKept DEF Claim, Typed, TypeOK
<1>5. ASSUME NEW w \in Worker, BeginStage(w) PROVE RunnerInv'
  <2>1. held' = held /\ UNCHANGED row  BY <1>5 DEF BeginStage
  <2>2. \A v \in Worker : pc[v] = "inStage" => held[v] # held[w]
    BY <1>5 DEF BeginStage, RowLocked
  <2>3. /\ pc' = [pc EXCEPT ![w] = "inStage"]
        /\ loaded' = [loaded EXCEPT ![w] = stage[held[w]]]
    BY <1>5 DEF BeginStage
  <2>4. /\ Owns(w, held[w]) /\ ~cancelRequested[held[w]]
    BY <1>5 DEF BeginStage, StopsAt
  <2>5. ASSUME NEW v \in Worker, pc'[v] = "inStage"
        PROVE  /\ Owns(v, held[v]) /\ loaded'[v] = stage[held[v]]
               /\ ~cancelRequested[held[v]]
               /\ \A u \in Worker \ {v} : ~(pc'[u] = "inStage" /\ held[u] = held[v])
    <3>1. CASE v = w
      BY <2>2, <2>3, <2>4, <3>1 DEF Typed, TypeOK
    <3>2. CASE v # w
      <4>1. pc[v] = "inStage" /\ loaded'[v] = loaded[v]
        BY <2>3, <2>5, <3>2 DEF Typed, TypeOK
      <4>2. Runs(v)  BY <4>1, <1>a
      <4> QED  BY <2>2, <2>3, <4>1, <4>2 DEF Runs, Typed, TypeOK
    <3> QED  BY <3>1, <3>2
  <2> QED
    BY <2>1, <2>5 DEF RunnerInv, StageExclusion, RunnerNotCancelled, Owns
<1>6. ASSUME NEW w \in Worker, CancelAtBoundary(w) \/ MarkWrite(w)
      PROVE  RunnerInv'
  <2>1. \A v \in Worker : pc[v] = "inStage" => held[v] # held[w]
    BY <1>6 DEF CancelAtBoundary, MarkWrite, RowLocked
  <2>2. CASE CancelAtBoundary(w)
    BY <2>1, <2>2, <1>b, RunnersKept
    DEF CancelAtBoundary, Release, Unlock, Typed, TypeOK
  <2>3. CASE MarkWrite(w)
    BY <2>1, <2>3, <1>b, RunnersKept DEF MarkWrite, Release, Unlock, Typed, TypeOK
  <2> QED  BY <1>6, <2>2, <2>3
<1>7. ASSUME NEW w \in Worker, CommitStage(w) \/ Succeed(w) PROVE RunnerInv'
  <2>1. pc[w] = "inStage"  BY <1>7 DEF CommitStage, Succeed, PerformEffect
  <2>2. \A v \in Worker \ {w} : pc[v] = "inStage" => held[v] # held[w]
    BY <2>1, <1>a DEF Runs
  <2>3. CASE CommitStage(w)
    BY <2>2, <2>3, <1>b, RunnersKept DEF CommitStage, Typed, TypeOK
  <2>4. CASE Succeed(w)
    BY <2>2, <2>4, <1>b, RunnersKept DEF Succeed, Release, Unlock, Typed, TypeOK
  <2> QED  BY <1>7, <2>3, <2>4
<1>8. ASSUME NEW w \in Worker, NEW r \in BOOLEAN, StageFails(w, r) PROVE RunnerInv'
  BY <1>8, <1>b, RunnersKept DEF StageFails
<1>9. ASSUME NEW w \in Worker, FindLockLost(w) \/ MarkLoad(w) PROVE RunnerInv'
  BY <1>9, <1>b, RunnersKept DEF FindLockLost, MarkLoad
<1>10. ASSUME NEW w \in Worker, MarkRefused(w) \/ MarkLost(w) \/ Abandon(w)
       PROVE  RunnerInv'
  BY <1>10, <1>b, RunnersKept
  DEF MarkRefused, MarkLost, Abandon, Release, Typed, TypeOK
<1>11. CASE Tick
  BY <1>11, RunnersKept DEF Tick
<1>12. CASE UNCHANGED vars
  BY <1>12, RunnersKept DEF vars
<1> QED
  BY ONLY StepCases, Typed, [Next]_vars, <1>1, <1>2, <1>3, <1>4, <1>5, <1>6,
     <1>7, <1>8, <1>9, <1>10, <1>11, <1>12
     DEF Typed

(* No two processes run a stage of one job at the same time, whatever      *)
(* their ids and however late they are.                                    *)
THEOREM OneRunner == Spec => []StageExclusion
<1>1. Init => Typed /\ RunnerInv  BY InitTyped, InitRunner
<1>2. Typed /\ RunnerInv /\ [Next]_vars => (Typed /\ RunnerInv)'
  BY StepTyped, StepRunner
<1>3. Typed /\ RunnerInv => StageExclusion  BY DEF RunnerInv
<1> QED  BY <1>1, <1>2, <1>3, PTL DEF Spec

---------------------------------------------------------------------------
(* Exactly once.  The strengthening says where a job's stage may be: not   *)
(* before the stage it was queued at, at that stage while the row does not *)
(* exist, and never at the end while the job can still be claimed (a claim *)
(* would set it back to validate).                                         *)

FirstBeforeStage == \A j \in Job : first[j] <= stage[j]
AbsentFresh      == \A j \in Job : status[j] = "absent" => first[j] = stage[j]
LiveUnfinished   ==
  \A j \in Job : status[j] \in Waiting \cup {"running"} => stage[j] # Finished

ProgressInv ==
  EffectsMatchStage /\ FirstBeforeStage /\ AbsentFresh /\ LiveUnfinished

LEMMA InitProgress == Init => ProgressInv
BY DEF Init, ProgressInv, EffectsMatchStage, FirstBeforeStage, AbsentFresh,
       LiveUnfinished, Waiting

(* A step that writes no stage and revives no job keeps ProgressInv. *)
LEMMA ProgressKept ==
  ASSUME Typed, ProgressInv, UNCHANGED <<stage, first, done>>,
         \A j \in Job :
           /\ status'[j] = "absent" => status[j] = "absent"
           /\ status'[j] \in Waiting \cup {"running"}
                => status[j] \in Waiting \cup {"running"}
  PROVE  ProgressInv'
BY DEF ProgressInv, EffectsMatchStage, FirstBeforeStage, AbsentFresh, LiveUnfinished

(* The effect of stage s of job j commits and the stage moves on by one. *)
LEMMA ProgressMoved ==
  ASSUME Typed, ProgressInv, NEW j \in Job, stage[j] # Finished,
         UNCHANGED first,
         stage' = [stage EXCEPT ![j] = stage[j] + 1],
         done' = [done EXCEPT ![j][stage[j]] = @ + 1],
         \A i \in Job \ {j} : status'[i] = status[i],
         \/ status'[j] = "running" /\ stage[j] + 1 # Finished
         \/ status'[j] = "success"
  PROVE  ProgressInv'
<1> USE DEF Typed, TypeOK, ProgressInv
<1>1. \A i \in Job \ {j} : stage'[i] = stage[i] /\ done'[i] = done[i]  OBVIOUS
<1>2. stage[j] \in WorkStage /\ stage'[j] = stage[j] + 1  OBVIOUS
<1>3. done'[j] = [done[j] EXCEPT ![stage[j]] = @ + 1]  OBVIOUS
<1>4. EffectsMatchStage'
  <2> SUFFICES ASSUME NEW i \in Job, NEW s \in WorkStage
               PROVE  done'[i][s] = IF first[i] <= s /\ s < stage'[i] THEN 1 ELSE 0
    BY DEF EffectsMatchStage
  <2>1. CASE i # j
    BY <1>1, <2>1 DEF EffectsMatchStage
  <2>2. CASE i = j /\ s = stage[j]
    <3>1. done[j][s] = 0  BY <2>2 DEF EffectsMatchStage
    <3>2. first[j] <= s  BY <2>2 DEF FirstBeforeStage
    <3>3. done'[j][s] = 1  BY <1>2, <1>3, <2>2, <3>1
    <3> QED  BY <1>2, <2>2, <3>2, <3>3
  <2>3. CASE i = j /\ s # stage[j]
    <3>1. done'[j][s] = done[j][s]  BY <1>3, <2>3
    <3> QED  BY <1>2, <2>3, <3>1 DEF EffectsMatchStage
  <2> QED  BY <2>1, <2>2, <2>3
<1>5. FirstBeforeStage'
  <2> SUFFICES ASSUME NEW i \in Job PROVE first[i] <= stage'[i]
    BY DEF FirstBeforeStage
  <2>1. first[i] \in Nat /\ stage[i] \in Nat /\ first[i] <= stage[i]
    BY DEF FirstBeforeStage
  <2> QED  BY <1>1, <1>2, <2>1
<1>6. AbsentFresh'
  BY <1>1, <1>2 DEF AbsentFresh
<1>7. LiveUnfinished'
  BY <1>1, <1>2 DEF LiveUnfinished, Waiting
<1> QED  BY <1>4, <1>5, <1>6, <1>7

LEMMA StepProgress == Typed /\ RunnerInv /\ ProgressInv /\ [Next]_vars => ProgressInv'
<1> SUFFICES ASSUME Typed, RunnerInv, ProgressInv, [Next]_vars PROVE ProgressInv'
  OBVIOUS
<1> USE DEF row, wvars, history
<1>a. \A w \in Worker : pc[w] # "idle" => held[w] \in Job
  BY DEF Typed, HeldIsJob
<1>1. ASSUME NEW j \in Job, NEW t \in AllJobTypes, NEW s \in WorkStage,
             Insert(j, t, s)
      PROVE  ProgressInv'
  <2> USE DEF Insert, Typed, TypeOK
  <2>1. \A r \in WorkStage : done[j][r] = 0
    <3>1. first[j] = stage[j] /\ stage[j] \in Stage
      BY <1>1 DEF ProgressInv, AbsentFresh
    <3> QED  BY <3>1 DEF ProgressInv, EffectsMatchStage
  <2>2. EffectsMatchStage'
    BY <1>1, <2>1 DEF ProgressInv, EffectsMatchStage
  <2>3. FirstBeforeStage' /\ AbsentFresh' /\ LiveUnfinished'
    BY <1>1 DEF ProgressInv, FirstBeforeStage, AbsentFresh, LiveUnfinished, Waiting
  <2> QED  BY <2>2, <2>3 DEF ProgressInv
<1>2. ASSUME NEW j \in Job, CancelRead(j) \/ CancelRunning(j) PROVE ProgressInv'
  BY <1>2, ProgressKept DEF CancelRead, CancelRunning
<1>3. ASSUME NEW j \in Job, CancelWaiting(j) PROVE ProgressInv'
  BY <1>3, ProgressKept DEF CancelWaiting, Typed, TypeOK, Waiting
<1>4. ASSUME NEW w \in Worker, NEW j \in Job, Claim(w, j) PROVE ProgressInv'
  <2>1. status[j] \in Waiting \cup {"running"}  BY <1>4 DEF Claim, Claimable
  <2>2. stage' = stage
    BY <1>4, <2>1 DEF Claim, ProgressInv, LiveUnfinished, Typed, TypeOK
  <2> QED  BY <1>4, <2>1, <2>2, ProgressKept DEF Claim, Typed, TypeOK, Waiting
<1>5. ASSUME NEW w \in Worker, BeginStage(w) \/ FindLockLost(w) \/ MarkLoad(w)
      PROVE  ProgressInv'
  BY <1>5, ProgressKept DEF BeginStage, FindLockLost, MarkLoad
<1>6. ASSUME NEW w \in Worker, CancelAtBoundary(w) PROVE ProgressInv'
  BY <1>6, <1>a, ProgressKept DEF CancelAtBoundary, Typed, TypeOK, Waiting
<1>7. ASSUME NEW w \in Worker, CommitStage(w) \/ Succeed(w) PROVE ProgressInv'
  <2>1. pc[w] = "inStage"  BY <1>7 DEF CommitStage, Succeed, PerformEffect
  <2>2. held[w] \in Job  BY <1>a, <2>1
  <2>3. Owns(w, held[w]) /\ loaded[w] = stage[held[w]]
    BY <2>1 DEF RunnerInv, StageExclusion
  <2>4. stage[held[w]] # Finished
    BY <2>2, <2>3 DEF ProgressInv, LiveUnfinished, Owns
  <2>5. CASE CommitStage(w)
    <3>1. /\ stage' = [stage EXCEPT ![held[w]] = stage[held[w]] + 1]
          /\ done' = [done EXCEPT ![held[w]][stage[held[w]]] = @ + 1]
          /\ stage[held[w]] + 1 # Finished
          /\ UNCHANGED <<status, first>>
      BY <2>3, <2>5 DEF CommitStage, PerformEffect
    <3> QED  BY <2>2, <2>3, <2>4, <3>1, ProgressMoved DEF Owns
  <2>6. CASE Succeed(w)
    <3>1. /\ stage' = [stage EXCEPT ![held[w]] = stage[held[w]] + 1]
          /\ done' = [done EXCEPT ![held[w]][stage[held[w]]] = @ + 1]
          /\ status' = [status EXCEPT ![held[w]] = "success"]
          /\ UNCHANGED first
      BY <2>3, <2>6 DEF Succeed, PerformEffect
    <3>2. /\ \A i \in Job \ {held[w]} : status'[i] = status[i]
          /\ status'[held[w]] = "success"
      BY <2>2, <3>1 DEF Typed, TypeOK
    <3> QED  BY ONLY <2>2, <2>4, <3>1, <3>2, ProgressMoved, Typed, ProgressInv
  <2> QED  BY <1>7, <2>5, <2>6
<1>8. ASSUME NEW w \in Worker, NEW r \in BOOLEAN, StageFails(w, r) PROVE ProgressInv'
  BY <1>8, ProgressKept DEF StageFails
<1>9. ASSUME NEW w \in Worker, MarkRefused(w) \/ MarkLost(w) \/ Abandon(w)
      PROVE  ProgressInv'
  BY <1>9, ProgressKept DEF MarkRefused, MarkLost, Abandon
<1>10. ASSUME NEW w \in Worker, MarkWrite(w) PROVE ProgressInv'
  <2>1. held[w] \in Job  BY <1>10, <1>a DEF MarkWrite
  <2>2. status[held[w]] = "running"  BY <1>10 DEF MarkWrite, Owns
  <2> QED  BY <1>10, <2>1, <2>2, ProgressKept DEF MarkWrite, Typed, TypeOK, Waiting
<1>11. CASE Tick
  BY <1>11, ProgressKept DEF Tick
<1>12. CASE UNCHANGED vars
  BY <1>12, ProgressKept DEF vars
<1> QED
  BY ONLY StepCases, Typed, [Next]_vars, <1>1, <1>2, <1>3, <1>4, <1>5, <1>6,
     <1>7, <1>8, <1>9, <1>10, <1>11, <1>12
     DEF Typed

IndInv == Typed /\ RunnerInv /\ ProgressInv

LEMMA IndInvHolds == Spec => []IndInv
<1>1. Init => IndInv  BY InitTyped, InitRunner, InitProgress DEF IndInv
<1>2. IndInv /\ [Next]_vars => IndInv'
  BY StepTyped, StepRunner, StepProgress DEF IndInv
<1> QED  BY <1>1, <1>2, PTL DEF Spec

(* Every stage effect of a job commits exactly once and in order, through  *)
(* crashes, takeovers, late workers and automatic retries.                 *)
THEOREM ExactlyOnce == Spec => []EffectsMatchStage
<1>1. IndInv => EffectsMatchStage  BY DEF IndInv, ProgressInv
<1> QED  BY <1>1, IndInvHolds, PTL

(* No stage effect commits after a cancel request: the row lock holds the  *)
(* request back while a stage runs, and no stage starts after it.          *)
THEOREM NoEffectAfterCancel == Spec => CancelHonoured
<1> DEFINE Kept == \A j \in Job : cancelRequested[j] => done'[j] = done[j]
<1>1. ASSUME IndInv, [Next]_vars PROVE Kept
  <2> SUFFICES ASSUME NEW j \in Job, cancelRequested[j] PROVE done'[j] = done[j]
    OBVIOUS
  <2> USE DEF row, wvars, history
  <2>1. ASSUME NEW w \in Worker, PerformEffect(w) PROVE done'[j] = done[j]
    <3>1. pc[w] = "inStage"  BY <2>1 DEF PerformEffect
    <3>2. held[w] # j
      BY <1>1, <2>1, <3>1 DEF IndInv, RunnerInv, RunnerNotCancelled
    <3>3. done' = [done EXCEPT ![held[w]][loaded[w]] = @ + 1]
      BY <2>1 DEF PerformEffect
    <3> QED  BY <1>1, <3>2, <3>3 DEF IndInv, Typed, TypeOK
  <2>2. CASE \E w \in Worker : CommitStage(w) \/ Succeed(w)
    BY <2>1, <2>2 DEF CommitStage, Succeed
  <2>3. CASE ~\E w \in Worker : CommitStage(w) \/ Succeed(w)
    <3>1. TypeOK  BY <1>1 DEF IndInv, Typed
    <3>2. \/ \E i \in Job, t \in AllJobTypes, s \in WorkStage : Insert(i, t, s)
          \/ \E i \in Job : CancelRead(i) \/ CancelWaiting(i) \/ CancelRunning(i)
          \/ \E w \in Worker, i \in Job : Claim(w, i)
          => UNCHANGED done
      BY DEF Insert, CancelRead, CancelWaiting, CancelRunning, Claim
    <3>3. \/ \E w \in Worker : BeginStage(w) \/ CancelAtBoundary(w) \/ FindLockLost(w)
          \/ \E w \in Worker, r \in BOOLEAN : StageFails(w, r)
          \/ \E w \in Worker : MarkLoad(w) \/ MarkRefused(w) \/ MarkWrite(w)
                                 \/ MarkLost(w) \/ Abandon(w)
          => UNCHANGED done
      BY DEF BeginStage, CancelAtBoundary, FindLockLost, StageFails, MarkLoad,
             MarkRefused, MarkWrite, MarkLost, Abandon
    <3>4. Tick \/ UNCHANGED vars => UNCHANGED done  BY DEF Tick, vars
    <3>5. UNCHANGED done
      BY ONLY <1>1, <2>3, <3>1, <3>2, <3>3, <3>4, StepCases
    <3> QED  BY <3>5
  <2> QED  BY <2>2, <2>3
<1>2. IndInv /\ [Next]_vars => [Kept]_vars  BY <1>1
<1> HIDE DEF Kept
<1>3. Spec => [][Kept]_vars  BY <1>2, IndInvHolds, PTL DEF Spec
<1> QED  BY <1>3 DEF CancelHonoured, Kept

---------------------------------------------------------------------------
(* Locks and statuses.                                                     *)

LEMMA InitLock == Init => LockMatchesStatus
BY DEF Init, LockMatchesStatus

(* Row j stops running, or never ran, and is unlocked; no other row moves. *)
LEMMA LockReleased ==
  ASSUME Typed, LockMatchesStatus, NEW j \in Job, Unlock(j),
         status'[j] # "running",
         status'[j] = "success" => stage'[j] = Finished,
         \A i \in Job \ {j} : status'[i] = status[i] /\ stage'[i] = stage[i]
  PROVE  LockMatchesStatus'
BY DEF LockMatchesStatus, Unlock, Typed, TypeOK

LEMMA StepLock == IndInv /\ LockMatchesStatus /\ [Next]_vars => LockMatchesStatus'
<1> SUFFICES ASSUME IndInv, LockMatchesStatus, [Next]_vars
             PROVE  LockMatchesStatus'
  OBVIOUS
<1> USE DEF row, wvars, history
<1>a. Typed /\ TypeOK  BY DEF IndInv, Typed
<1>b. \A w \in Worker : pc[w] # "idle" => held[w] \in Job
  BY <1>a DEF Typed, HeldIsJob
<1>1. ASSUME NEW j \in Job, NEW t \in AllJobTypes, NEW s \in WorkStage,
             Insert(j, t, s)
      PROVE  LockMatchesStatus'
  BY <1>1, <1>a DEF Insert, LockMatchesStatus, TypeOK
<1>2. ASSUME NEW j \in Job, CancelRead(j) \/ CancelRunning(j)
      PROVE  LockMatchesStatus'
  BY <1>2 DEF CancelRead, CancelRunning, LockMatchesStatus
<1>3. ASSUME NEW j \in Job, CancelWaiting(j) PROVE LockMatchesStatus'
  BY <1>3, <1>a, LockReleased DEF CancelWaiting, TypeOK
<1>4. ASSUME NEW w \in Worker, NEW j \in Job, Claim(w, j)
      PROVE  LockMatchesStatus'
  <2>1. /\ status'[j] = "running" /\ lockedBy'[j] # NoId
        /\ \A i \in Job \ {j} : /\ status'[i] = status[i]
                                /\ lockedBy'[i] = lockedBy[i]
                                /\ lease'[i] = lease[i]
                                /\ stage'[i] = stage[i]
    BY <1>4, <1>a, WorkerAssumption DEF Claim, TypeOK
  <2> QED  BY <2>1 DEF LockMatchesStatus
<1>5. ASSUME NEW w \in Worker, BeginStage(w) \/ FindLockLost(w) \/ MarkLoad(w)
      PROVE  LockMatchesStatus'
  BY <1>5 DEF BeginStage, FindLockLost, MarkLoad, LockMatchesStatus
<1>6. ASSUME NEW w \in Worker, CancelAtBoundary(w) PROVE LockMatchesStatus'
  BY <1>6, <1>a, <1>b, LockReleased DEF CancelAtBoundary, TypeOK
<1>7. ASSUME NEW w \in Worker, CommitStage(w) PROVE LockMatchesStatus'
  <2>1. held[w] \in Job /\ status[held[w]] = "running"
    BY <1>7, <1>b DEF CommitStage, PerformEffect, Owns
  <2> QED  BY <1>7, <1>a, <2>1 DEF CommitStage, LockMatchesStatus, TypeOK
<1>8. ASSUME NEW w \in Worker, Succeed(w) PROVE LockMatchesStatus'
  <2>1. held[w] \in Job  BY <1>8, <1>b DEF Succeed, PerformEffect
  <2> QED  BY <1>8, <1>a, <2>1, LockReleased DEF Succeed, TypeOK
<1>9. ASSUME NEW w \in Worker, NEW r \in BOOLEAN, StageFails(w, r)
      PROVE  LockMatchesStatus'
  BY <1>9 DEF StageFails, LockMatchesStatus
<1>10. ASSUME NEW w \in Worker, MarkRefused(w) \/ MarkLost(w) \/ Abandon(w)
       PROVE  LockMatchesStatus'
  BY <1>10 DEF MarkRefused, MarkLost, Abandon, LockMatchesStatus
<1>11. ASSUME NEW w \in Worker, MarkWrite(w) PROVE LockMatchesStatus'
  BY <1>11, <1>a, <1>b, LockReleased DEF MarkWrite, TypeOK
<1>12. CASE Tick
  <2>1. \A j \in Job : lease[j] = 0 => lease'[j] = 0
    BY <1>12, <1>a DEF Tick, Less, TypeOK
  <2> QED  BY <1>12, <2>1 DEF Tick, LockMatchesStatus
<1>13. CASE UNCHANGED vars
  BY <1>13 DEF vars, LockMatchesStatus
<1> QED
  BY ONLY StepCases, <1>a, [Next]_vars, <1>1, <1>2, <1>3, <1>4, <1>5, <1>6,
     <1>7, <1>8, <1>9, <1>10, <1>11, <1>12, <1>13

(* A job is locked exactly while it runs, and a success has no stage left. *)
THEOREM LockedWhileRunning == Spec => []LockMatchesStatus
<1>1. Spec => [](IndInv /\ LockMatchesStatus)
  BY InitLock, StepLock, IndInvHolds, PTL DEF Spec
<1> QED  BY <1>1, PTL

---------------------------------------------------------------------------
(* Late reports.  A process that reports a failure and still owns the job  *)
(* under an id of its own has seen nobody else move the job on.            *)

Reports(w) == pc[w] \in {"failing", "marking"} /\ Owns(w, held[w])

ReportInv ==
  \A w \in Worker : UniqueId(w) /\ Reports(w) => loaded[w] = stage[held[w]]

LEMMA InitReport == Init => ReportInv
BY DEF Init, ReportInv, Reports

(* A step keeps the reports that it neither opens nor writes the row of.   *)
LEMMA ReportsKept ==
  ASSUME ReportInv,
         \A w \in Worker : UniqueId(w) /\ Reports(w)' =>
           /\ Reports(w)
           /\ held'[w] = held[w] /\ loaded'[w] = loaded[w]
           /\ stage'[held[w]] = stage[held[w]]
  PROVE  ReportInv'
BY DEF ReportInv, UniqueId

LEMMA StepReport == IndInv /\ ReportInv /\ [Next]_vars => ReportInv'
<1> SUFFICES ASSUME IndInv, ReportInv, [Next]_vars PROVE ReportInv'  OBVIOUS
<1> USE DEF row, wvars, history
<1>a. Typed /\ TypeOK /\ StageExclusion  BY DEF IndInv, Typed, RunnerInv
<1>b. \A w \in Worker : pc[w] # "idle" => held[w] \in Job
  BY <1>a DEF Typed, HeldIsJob
<1>1. ASSUME NEW j \in Job, NEW t \in AllJobTypes, NEW s \in WorkStage,
             Insert(j, t, s)
      PROVE  ReportInv'
  BY <1>1, <1>a, <1>b, ReportsKept DEF Insert, Reports, Owns, TypeOK
<1>2. ASSUME NEW j \in Job, CancelRead(j) \/ CancelRunning(j) PROVE ReportInv'
  BY <1>2, ReportsKept DEF CancelRead, CancelRunning, Reports, Owns
<1>3. ASSUME NEW j \in Job, CancelWaiting(j) PROVE ReportInv'
  BY <1>3, <1>a, <1>b, ReportsKept
  DEF CancelWaiting, Unlock, Reports, Owns, TypeOK
<1>4. ASSUME NEW v \in Worker, NEW j \in Job, Claim(v, j) PROVE ReportInv'
  <2> SUFFICES ASSUME NEW w \in Worker, UniqueId(w), Reports(w)'
               PROVE  /\ Reports(w)
                      /\ held'[w] = held[w] /\ loaded'[w] = loaded[w]
                      /\ stage'[held[w]] = stage[held[w]]
    BY ReportsKept
  <2>1. w # v /\ pc'[w] = pc[w] /\ held'[w] = held[w] /\ loaded' = loaded
    BY <1>4, <1>a DEF Claim, Reports, TypeOK
  <2>2. held[w] \in Job  BY <2>1, <1>b DEF Reports
  <2>3. held[w] # j
    BY <1>4, <1>a, <2>1, <2>2, WorkerAssumption
    DEF Claim, Reports, Owns, UniqueId, TypeOK
  <2> QED  BY <1>4, <1>a, <2>1, <2>2, <2>3 DEF Claim, Reports, Owns, TypeOK
<1>5. ASSUME NEW v \in Worker, BeginStage(v) \/ MarkLoad(v) PROVE ReportInv'
  <2>1. CASE BeginStage(v)
    BY <2>1, <1>a, ReportsKept DEF BeginStage, Reports, Owns, TypeOK
  <2>2. CASE MarkLoad(v)
    BY <2>2, <1>a, ReportsKept DEF MarkLoad, Reports, Owns, TypeOK
  <2> QED  BY <1>5, <2>1, <2>2
<1>6. ASSUME NEW v \in Worker, FindLockLost(v) PROVE ReportInv'
  BY <1>6, <1>a, ReportsKept DEF FindLockLost, Reports, Owns, TypeOK
<1>7. ASSUME NEW v \in Worker, CancelAtBoundary(v) \/ MarkWrite(v)
      PROVE  ReportInv'
  <2>1. CASE CancelAtBoundary(v)
    BY <2>1, <1>a, <1>b, ReportsKept
    DEF CancelAtBoundary, Release, Unlock, Reports, Owns, TypeOK
  <2>2. CASE MarkWrite(v)
    BY <2>2, <1>a, <1>b, ReportsKept
    DEF MarkWrite, Release, Unlock, Reports, Owns, TypeOK
  <2> QED  BY <1>7, <2>1, <2>2
<1>8. ASSUME NEW v \in Worker, CommitStage(v) \/ Succeed(v) PROVE ReportInv'
  <2> SUFFICES ASSUME NEW w \in Worker, UniqueId(w), Reports(w)'
               PROVE  /\ Reports(w)
                      /\ held'[w] = held[w] /\ loaded'[w] = loaded[w]
                      /\ stage'[held[w]] = stage[held[w]]
    BY ReportsKept
  <2>1. pc[v] = "inStage" /\ held[v] \in Job /\ Owns(v, held[v])
    BY <1>8, <1>b DEF CommitStage, Succeed, PerformEffect
  <2>2. w # v /\ pc'[w] = pc[w] /\ held'[w] = held[w] /\ loaded'[w] = loaded[w]
    <3>1. CASE CommitStage(v)
      BY <3>1, <1>a DEF CommitStage, Reports, TypeOK
    <3>2. CASE Succeed(v)
      BY <3>2, <1>a DEF Succeed, Release, Reports, TypeOK
    <3> QED  BY <1>8, <3>1, <3>2
  <2>3. held[w] \in Job  BY <2>2, <1>b DEF Reports
  <2>4. held[w] # held[v]
    <3>1. CASE CommitStage(v)
      BY <3>1, <2>1, <2>2 DEF CommitStage, Reports, Owns, UniqueId
    <3>2. CASE Succeed(v)
      BY <3>2, <1>a, <2>1, <2>2 DEF Succeed, Reports, Owns, TypeOK
    <3> QED  BY <1>8, <3>1, <3>2
  <2>5. CASE CommitStage(v)
    BY <2>5, <1>a, <2>1, <2>2, <2>3, <2>4 DEF CommitStage, Reports, Owns, TypeOK
  <2>6. CASE Succeed(v)
    BY <2>6, <1>a, <2>1, <2>2, <2>3, <2>4
    DEF Succeed, Unlock, Reports, Owns, TypeOK
  <2> QED  BY <1>8, <2>5, <2>6
<1>9. ASSUME NEW v \in Worker, NEW r \in BOOLEAN, StageFails(v, r) PROVE ReportInv'
  <2> SUFFICES ASSUME NEW w \in Worker, UniqueId(w), Reports(w)'
               PROVE  loaded'[w] = stage'[held'[w]]
    BY DEF ReportInv, UniqueId
  <2>1. CASE w = v
    BY <1>9, <1>a, <2>1 DEF StageFails, StageExclusion
  <2>2. CASE w # v
    BY <1>9, <1>a, <2>2 DEF StageFails, ReportInv, Reports, Owns, TypeOK
  <2> QED  BY <2>1, <2>2
<1>10. ASSUME NEW v \in Worker, MarkRefused(v) \/ MarkLost(v) \/ Abandon(v)
       PROVE  ReportInv'
  BY <1>10, <1>a, ReportsKept
  DEF MarkRefused, MarkLost, Abandon, Release, Reports, Owns, TypeOK
<1>11. CASE Tick
  BY <1>11, ReportsKept DEF Tick, Reports, Owns
<1>12. CASE UNCHANGED vars
  BY <1>12, ReportsKept DEF vars, Reports, Owns
<1> QED
  BY ONLY StepCases, <1>a, [Next]_vars, <1>1, <1>2, <1>3, <1>4, <1>5, <1>6,
     <1>7, <1>8, <1>9, <1>10, <1>11, <1>12

(* A failure is recorded against the stage that failed.                    *)
THEOREM LateReportsHarmless == Spec => FailureNamesItsStage
<1> DEFINE Named(w) ==
      /\ UniqueId(w) /\ pc[w] = "marking" /\ pc'[w] = "idle"
      /\ status[held[w]] = "running" /\ status'[held[w]] \in {"retrying", "failed"}
      => loaded[w] = stage[held[w]]
<1>1. ASSUME IndInv, ReportInv, [Next]_vars, NEW w \in Worker PROVE Named(w)
  <2> SUFFICES ASSUME UniqueId(w), pc[w] = "marking", pc'[w] = "idle",
                      status[held[w]] = "running",
                      status'[held[w]] \in {"retrying", "failed"}
               PROVE  loaded[w] = stage[held[w]]
    OBVIOUS
  <2> USE DEF row, wvars, history
  <2>a. Typed /\ TypeOK /\ held[w] \in Job
    BY <1>1 DEF IndInv, Typed, HeldIsJob
  <2>1. CASE MarkWrite(w)
    BY <1>1, <2>1 DEF MarkWrite, ReportInv, Reports
  <2>2. ASSUME NEW v \in Worker, v # w,
               MarkRefused(v) \/ MarkWrite(v) \/ MarkLost(v) \/ Abandon(v)
                 \/ CancelAtBoundary(v) \/ Succeed(v)
        PROVE  FALSE
    BY <2>a, <2>2 DEF MarkRefused, MarkWrite, MarkLost, Abandon,
       CancelAtBoundary, Succeed, Release, TypeOK
  <2>3. ASSUME MarkRefused(w) \/ MarkLost(w) \/ Abandon(w) PROVE FALSE
    BY <2>3 DEF MarkRefused, MarkLost, Abandon
  <2>4. ASSUME NEW v \in Worker, CommitStage(v) \/ BeginStage(v) \/ FindLockLost(v)
                 \/ MarkLoad(v) \/ (\E j \in Job : Claim(v, j))
                 \/ (\E r \in BOOLEAN : StageFails(v, r))
        PROVE  FALSE
    BY <2>a, <2>4 DEF CommitStage, BeginStage, FindLockLost, MarkLoad, Claim,
       StageFails, TypeOK
  <2>5. ASSUME \/ \E j \in Job, t \in AllJobTypes, s \in WorkStage : Insert(j, t, s)
               \/ \E j \in Job : CancelRead(j) \/ CancelWaiting(j) \/ CancelRunning(j)
               \/ Tick \/ UNCHANGED vars
        PROVE  FALSE
    BY <2>5 DEF Insert, CancelRead, CancelWaiting, CancelRunning, Tick, vars
  <2>6. CancelAtBoundary(w) \/ Succeed(w) => FALSE
    BY DEF CancelAtBoundary, Succeed, PerformEffect
  <2> QED  BY ONLY StepCases, <1>1, <2>a, <2>1, <2>2, <2>3, <2>4, <2>5, <2>6
<1> HIDE DEF Named
<1>2. IndInv /\ ReportInv /\ [Next]_vars => [\A w \in Worker : Named(w)]_vars
  BY <1>1
<1>3. Spec => [][\A w \in Worker : Named(w)]_vars
  BY <1>2, InitReport, StepReport, IndInvHolds, PTL DEF Spec
<1> QED  BY <1>3 DEF FailureNamesItsStage, Named

---------------------------------------------------------------------------
(* ImportJobs implements JobLifecycle: with workers, locks, leases and     *)
(* attempts hidden, every behaviour of the job table is one in which each  *)
(* job performs its stages once each and in order and then settles.        *)

(* A cancel request is only pending for a job that exists. *)
PendingExists ==
  \A j \in Job : status[j] = "absent" =>
    <<j, "waiting">> \notin cancelling /\ <<j, "running">> \notin cancelling

RefInv == IndInv /\ PendingExists

LEMMA StepPending == IndInv /\ PendingExists /\ [Next]_vars => PendingExists'
<1> SUFFICES ASSUME IndInv, PendingExists, [Next]_vars PROVE PendingExists'
  OBVIOUS
<1> USE DEF row, wvars, history
<1>a. Typed /\ TypeOK  BY DEF IndInv, Typed
<1>b. \A w \in Worker : pc[w] # "idle" => held[w] \in Job
  BY <1>a DEF Typed, HeldIsJob
<1>1. ASSUME NEW j \in Job, NEW t \in AllJobTypes, NEW s \in WorkStage,
             Insert(j, t, s)
      PROVE  PendingExists'
  BY <1>1, <1>a DEF Insert, PendingExists, TypeOK
<1>2. ASSUME NEW j \in Job, CancelRead(j) PROVE PendingExists'
  BY <1>2 DEF CancelRead, PendingExists, Waiting
<1>3. ASSUME NEW j \in Job, CancelWaiting(j) \/ CancelRunning(j)
      PROVE  PendingExists'
  <2>1. \A i \in Job : status'[i] = "absent" => status[i] = "absent"
    BY <1>3, <1>a DEF CancelWaiting, CancelRunning, TypeOK
  <2>2. cancelling' \subseteq cancelling
    BY <1>3 DEF CancelWaiting, CancelRunning
  <2> QED  BY <2>1, <2>2 DEF PendingExists
<1>4. ASSUME UNCHANGED cancelling,
             \A i \in Job : status'[i] = "absent" => status[i] = "absent"
      PROVE  PendingExists'
  BY <1>4 DEF PendingExists
<1>5. ASSUME NEW w \in Worker, NEW j \in Job, Claim(w, j) PROVE PendingExists'
  BY <1>5, <1>4, <1>a DEF Claim, TypeOK
<1>6. ASSUME NEW w \in Worker,
             BeginStage(w) \/ FindLockLost(w) \/ MarkLoad(w) \/ MarkRefused(w)
               \/ MarkLost(w) \/ Abandon(w) \/ CommitStage(w)
      PROVE  PendingExists'
  BY <1>6, <1>4 DEF BeginStage, FindLockLost, MarkLoad, MarkRefused, MarkLost,
     Abandon, CommitStage
<1>7. ASSUME NEW w \in Worker, CancelAtBoundary(w) \/ Succeed(w) \/ MarkWrite(w)
      PROVE  PendingExists'
  BY <1>7, <1>4, <1>a DEF CancelAtBoundary, Succeed, MarkWrite, TypeOK
<1>8. ASSUME NEW w \in Worker, NEW r \in BOOLEAN, StageFails(w, r)
      PROVE  PendingExists'
  BY <1>8, <1>4 DEF StageFails
<1>9. CASE Tick \/ UNCHANGED vars
  BY <1>9, <1>4 DEF Tick, vars
<1> QED
  BY ONLY StepCases, <1>a, [Next]_vars, <1>1, <1>2, <1>3, <1>5, <1>6, <1>7,
     <1>8, <1>9

LEMMA RefInvHolds == Spec => []RefInv
<1>1. Init => PendingExists  BY DEF Init, PendingExists
<1> QED  BY <1>1, IndInvHolds, StepPending, PTL DEF Spec, RefInv

---------------------------------------------------------------------------
PhaseOf == [j \in Job |-> Phase(j)]

Settled == {"success", "failed", "cancelled"}

(* A step that leaves the phases, the first stages and the effects alone.  *)
LEMMA StutterMaps ==
  ASSUME UNCHANGED <<first, done>>, \A j \in Job : Phase(j)' = Phase(j)
  PROVE  [Contract!Next]_(Contract!jvars)
BY DEF Contract!jvars

(* A step that only changes the phase of one job.                          *)
LEMMA PhaseChanges ==
  ASSUME NEW j \in Job, NEW p, UNCHANGED <<first, done>>, Phase(j)' = p,
         \A i \in Job \ {j} : Phase(i)' = Phase(i)
  PROVE  PhaseOf' = [PhaseOf EXCEPT ![j] = p]
BY DEF PhaseOf

LEMMA InitMaps == Init => Contract!Init
BY DEF Init, Contract!Init, Phase, Waiting

(* Row j is set to cancelled, from any status it may have but absent.      *)
LEMMA CancelMaps ==
  ASSUME Typed, NEW j \in Job, UNCHANGED <<first, done>>, status[j] # "absent",
         status' = [status EXCEPT ![j] = "cancelled"]
  PROVE  [Contract!Next]_(Contract!jvars)
<1>1. Phase(j)' = "cancelled" /\ \A i \in Job \ {j} : Phase(i)' = Phase(i)
  BY DEF Phase, Waiting, Typed, TypeOK
<1>2. CASE Phase(j) = "cancelled"
  BY <1>1, <1>2, StutterMaps
<1>3. CASE Phase(j) # "cancelled"
  <2>1. Phase(j) \in {"live", "success", "failed"}
    BY <1>3 DEF Phase, Waiting, Typed, TypeOK, Status, Terminal
  <2>2. Contract!Cancel(j)
    BY <1>1, <2>1, PhaseChanges DEF Contract!Cancel, PhaseOf
  <2> QED  BY <2>2 DEF Contract!Next
<1> QED  BY <1>2, <1>3

(* The effect of the stage that job j is at: the next one of the contract. *)
LEMMA PerformMaps ==
  ASSUME IndInv, NEW j \in Job, status[j] = "running",
         stage[j] # Finished, UNCHANGED first,
         done' = [done EXCEPT ![j][stage[j]] = @ + 1],
         \A i \in Job \ {j} : status'[i] = status[i],
         status'[j] = IF stage[j] + 1 = Finished THEN "success" ELSE "running"
  PROVE  [Contract!Next]_(Contract!jvars)
<1> DEFINE s == stage[j]
<1>a. Typed /\ TypeOK /\ ProgressInv  BY DEF IndInv, Typed
<1>1. s \in WorkStage /\ first[j] \in Stage /\ first[j] <= s
  BY <1>a DEF TypeOK, ProgressInv, FirstBeforeStage
<1>2. \A r \in WorkStage :
        done[j][r] = IF first[j] <= r /\ r < s THEN 1 ELSE 0
  BY <1>a DEF ProgressInv, EffectsMatchStage
<1>3. Contract!Rest(j) = s..Cleanup
  BY <1>1, <1>2 DEF Contract!Rest
<1>4. Contract!IsNext(j, s)
  BY <1>1, <1>3 DEF Contract!IsNext
<1>5. done' = [done EXCEPT ![j][s] = 1]
  <2>1. done[j][s] = 0  BY <1>1, <1>2
  <2>2. done' = [done EXCEPT ![j] = [done[j] EXCEPT ![s] = done[j][s] + 1]]
    BY <1>1, <1>a DEF TypeOK
  <2> QED  BY <1>1, <1>a, <2>1, <2>2 DEF TypeOK
<1>6. (Contract!Rest(j) = {s}) <=> s + 1 = Finished
  <2>1. CASE s = Cleanup
    BY <1>3, <2>1
  <2>2. CASE s # Cleanup
    <3>1. s + 1 \in s..Cleanup  BY <1>1, <2>2
    <3> QED  BY <1>1, <1>3, <2>2, <3>1
  <2> QED  BY <2>1, <2>2
<1>7. /\ Phase(j) = "live"
      /\ Phase(j)' = IF Contract!Rest(j) = {s} THEN "success" ELSE "live"
      /\ \A i \in Job \ {j} : Phase(i)' = Phase(i)
  BY <1>6 DEF Phase, Waiting
<1>8. Contract!Perform(j, s)
  BY <1>4, <1>5, <1>7 DEF Contract!Perform
<1> QED  BY <1>1, <1>8 DEF Contract!Next

LEMMA StepMaps == RefInv /\ [Next]_vars => [Contract!Next]_(Contract!jvars)
<1> SUFFICES ASSUME RefInv, [Next]_vars PROVE [Contract!Next]_(Contract!jvars)
  OBVIOUS
<1> USE DEF row, wvars, history
<1>a. IndInv /\ Typed /\ TypeOK /\ PendingExists  BY DEF RefInv, IndInv, Typed
<1>b. \A w \in Worker : pc[w] # "idle" => held[w] \in Job
  BY <1>a DEF Typed, HeldIsJob
<1>1. ASSUME NEW j \in Job, NEW t \in AllJobTypes, NEW s \in WorkStage,
             Insert(j, t, s)
      PROVE  [Contract!Next]_(Contract!jvars)
  <2>1. /\ Phase(j) = "absent" /\ Phase(j)' = "live"
        /\ \A i \in Job \ {j} : Phase(i)' = Phase(i)
    BY <1>1, <1>a DEF Insert, Phase, Waiting, TypeOK
  <2>2. Contract!Create(j)
    BY <1>1, <2>1 DEF Insert, Contract!Create
  <2> QED  BY <2>2 DEF Contract!Next
<1>2. ASSUME NEW j \in Job, CancelRead(j) \/ CancelRunning(j)
      PROVE  [Contract!Next]_(Contract!jvars)
  BY <1>2, StutterMaps DEF CancelRead, CancelRunning, Phase
<1>3. ASSUME NEW j \in Job, CancelWaiting(j)
      PROVE  [Contract!Next]_(Contract!jvars)
  <2>1. status[j] # "absent"  BY <1>3, <1>a DEF CancelWaiting, PendingExists
  <2> QED  BY <1>3, <1>a, <2>1, CancelMaps DEF CancelWaiting
<1>4. ASSUME NEW w \in Worker, NEW j \in Job, Claim(w, j)
      PROVE  [Contract!Next]_(Contract!jvars)
  <2>1. \A i \in Job : Phase(i)' = Phase(i)
    BY <1>4, <1>a DEF Claim, Claimable, Phase, Waiting, TypeOK
  <2> QED  BY <1>4, <2>1, StutterMaps DEF Claim
<1>5. ASSUME NEW w \in Worker,
             BeginStage(w) \/ FindLockLost(w) \/ MarkLoad(w) \/ MarkRefused(w)
               \/ MarkLost(w) \/ Abandon(w)
      PROVE  [Contract!Next]_(Contract!jvars)
  BY <1>5, StutterMaps DEF BeginStage, FindLockLost, MarkLoad, MarkRefused,
     MarkLost, Abandon, Phase
<1>6. ASSUME NEW w \in Worker, CancelAtBoundary(w)
      PROVE  [Contract!Next]_(Contract!jvars)
  <2>1. held[w] \in Job /\ status[held[w]] # "absent"
    BY <1>6, <1>b DEF CancelAtBoundary, Owns
  <2> QED  BY <1>6, <1>a, <2>1, CancelMaps DEF CancelAtBoundary
<1>7. ASSUME NEW w \in Worker, CommitStage(w) \/ Succeed(w)
      PROVE  [Contract!Next]_(Contract!jvars)
  <2>1. /\ pc[w] = "inStage" /\ held[w] \in Job
        /\ status[held[w]] = "running" /\ loaded[w] = stage[held[w]]
    BY <1>7, <1>a, <1>b
    DEF CommitStage, Succeed, PerformEffect, Owns, IndInv, RunnerInv,
        StageExclusion
  <2>2. stage[held[w]] # Finished
    BY <1>a, <2>1 DEF IndInv, ProgressInv, LiveUnfinished
  <2>3. /\ UNCHANGED first
        /\ done' = [done EXCEPT ![held[w]][stage[held[w]]] = @ + 1]
        /\ \A i \in Job \ {held[w]} : status'[i] = status[i]
        /\ status'[held[w]] =
             IF stage[held[w]] + 1 = Finished THEN "success" ELSE "running"
    <3>1. CASE CommitStage(w)
      BY <3>1, <2>1 DEF CommitStage, PerformEffect
    <3>2. CASE Succeed(w)
      BY <3>2, <1>a, <2>1 DEF Succeed, PerformEffect, TypeOK
    <3> QED  BY <1>7, <3>1, <3>2
  <2> QED  BY ONLY <1>a, <2>1, <2>2, <2>3, PerformMaps
<1>8. ASSUME NEW w \in Worker, NEW r \in BOOLEAN, StageFails(w, r)
      PROVE  [Contract!Next]_(Contract!jvars)
  BY <1>8, StutterMaps DEF StageFails, Phase
<1>9. ASSUME NEW w \in Worker, MarkWrite(w)
      PROVE  [Contract!Next]_(Contract!jvars)
  <2>1. PICK j \in Job : j = held[w]  BY <1>9, <1>b DEF MarkWrite
  <2>2. /\ UNCHANGED <<first, done>> /\ status[j] = "running"
        /\ status' = [status EXCEPT
                        ![j] = IF ShouldRetry(w) THEN "retrying" ELSE "failed"]
    BY <1>9, <2>1 DEF MarkWrite, Owns
  <2>3. Phase(j) = "live" /\ \A i \in Job \ {j} : Phase(i)' = Phase(i)
    BY <1>a, <2>2 DEF Phase, Waiting, TypeOK
  <2>4. CASE ShouldRetry(w)
    <3>1. status'[j] = "retrying"  BY <1>a, <2>2, <2>4 DEF TypeOK
    <3>2. Phase(j)' = Phase(j)  BY <2>3, <3>1 DEF Phase, Waiting
    <3> QED  BY <2>2, <2>3, <3>2, StutterMaps
  <2>5. CASE ~ShouldRetry(w)
    <3>1. status'[j] = "failed"  BY <1>a, <2>2, <2>5 DEF TypeOK
    <3>2. Phase(j)' = "failed"  BY <3>1 DEF Phase, Waiting
    <3>3. Contract!Fail(j)
      BY <2>2, <2>3, <3>2, PhaseChanges DEF Contract!Fail, PhaseOf
    <3> QED  BY <3>3 DEF Contract!Next
  <2> QED  BY <2>4, <2>5
<1>10. CASE Tick \/ UNCHANGED vars
  BY <1>10, StutterMaps DEF Tick, vars, Phase
<1> QED
  BY ONLY StepCases, <1>a, [Next]_vars, <1>1, <1>2, <1>3, <1>4, <1>5, <1>6,
     <1>7, <1>8, <1>9, <1>10

(* The job table keeps the contract of JobLifecycle.                       *)
THEOREM JobsImplementContract == Spec => ImplementsContract
<1>1. Spec => Contract!Init /\ [][Contract!Next]_(Contract!jvars)
  BY InitMaps, StepMaps, RefInvHolds, PTL DEF Spec
<1> QED  BY <1>1 DEF ImplementsContract, Contract!Spec


---------------------------------------------------------------------------
(* Attempts.  Each claim of a running job is a takeover, so only the claims*)
(* of waiting jobs have to be accounted for.  A job waits again because a  *)
(* worker marked it that had seen attempts left, and no more workers can   *)
(* hold a job than have taken it over, and one.                            *)

Holders(j) == {w \in Worker : pc[w] # "idle" /\ held[w] = j}

(* The holders that are about to send the job back to wait.                *)
Senders(j) == {w \in Holders(j) : pc[w] = "marking" /\ seen[w] < MaxAttempts}

Waits(j) == IF status[j] \in Waiting THEN 1 ELSE 0

(* The account of j, while its takeovers are counted.                      *)
Account(j) ==
  /\ IsFiniteSet(Holders(j))
  /\ status[j] = "absent" => attempts[j] = 0 /\ Holders(j) = {}
  /\ takeovers[j] < TakeoverCap =>
       /\ status[j] = "running" => Cardinality(Holders(j)) <= takeovers[j] + 1
       /\ status[j] \in Waiting => Cardinality(Holders(j)) <= takeovers[j]
       /\ attempts[j] >= MaxAttempts =>
            attempts[j] + Cardinality(Senders(j)) + Waits(j) <= MaxAttempts + takeovers[j]

AccountInv == \A j \in Job : Account(j)

LEMMA InitAccount == Init => AccountInv
<1> SUFFICES ASSUME Init, NEW j \in Job PROVE Account(j)
  BY DEF AccountInv
<1>1. Holders(j) = {}  BY DEF Init, Holders
<1> QED  BY <1>1, FS_EmptySet, BoundsAssumption DEF Init, Account, Waiting

(* The finite sets and numbers of an account.                              *)
LEMMA AccountTyped ==
  ASSUME TypeOK, NEW j \in Job, Account(j)
  PROVE  /\ attempts[j] \in 0..AttemptCap /\ takeovers[j] \in 0..AttemptCap
         /\ MaxAttempts \in Nat \ {0} /\ AttemptCap \in Nat /\ AttemptCap > MaxAttempts
         /\ IsFiniteSet(Holders(j)) /\ IsFiniteSet(Senders(j))
         /\ Cardinality(Holders(j)) \in Nat /\ Cardinality(Senders(j)) \in Nat
         /\ Cardinality(Senders(j)) <= Cardinality(Holders(j))
<1>1. Senders(j) \subseteq Holders(j) /\ IsFiniteSet(Holders(j))
  BY DEF Senders, Account
<1> QED  BY <1>1, FS_Subset, FS_CardinalityType, BoundsAssumption DEF TypeOK

(* A step that sends no job back to wait and adds no holder keeps the      *)
(* account, also when it settles the job.                                  *)
LEMMA Steady ==
  ASSUME TypeOK, NEW j \in Job, Account(j),
         attempts'[j] = attempts[j], takeovers'[j] = takeovers[j],
         status'[j] = status[j] \/ (status'[j] \in Terminal /\ status[j] # "absent"),
         Holders(j)' \subseteq Holders(j),
         attempts[j] >= MaxAttempts => Senders(j)' \subseteq Senders(j)
  PROVE  Account(j)'
<1>1. /\ IsFiniteSet(Holders(j)') /\ Cardinality(Holders(j)') \in Nat
      /\ Cardinality(Holders(j)') <= Cardinality(Holders(j))
  BY AccountTyped, FS_Subset, FS_CardinalityType
<1>2. attempts[j] >= MaxAttempts =>
        /\ Cardinality(Senders(j)') \in Nat
        /\ Cardinality(Senders(j)') <= Cardinality(Senders(j))
  BY AccountTyped, FS_Subset, FS_CardinalityType
<1>3. status'[j] = "absent" => attempts'[j] = 0 /\ Holders(j)' = {}
  BY DEF Account, Terminal
<1>4. ASSUME takeovers[j] < TakeoverCap
      PROVE  /\ status'[j] = "running" => Cardinality(Holders(j)') <= takeovers'[j] + 1
             /\ status'[j] \in Waiting => Cardinality(Holders(j)') <= takeovers'[j]
  BY <1>1, <1>4, AccountTyped DEF Account, Terminal, Waiting
<1>5. ASSUME takeovers[j] < TakeoverCap, attempts'[j] >= MaxAttempts
      PROVE  attempts'[j] + Cardinality(Senders(j)') + Waits(j)' <= MaxAttempts + takeovers'[j]
  <2>1. Waits(j)' \in 0..1 /\ Waits(j) \in 0..1 /\ Waits(j)' <= Waits(j)
    BY DEF Waits, Terminal, Waiting
  <2>2. attempts[j] + Cardinality(Senders(j)) + Waits(j) <= MaxAttempts + takeovers[j]
    BY <1>5 DEF Account
  <2> QED  BY <1>2, <1>5, <2>1, <2>2, AccountTyped
<1> QED  BY <1>1, <1>3, <1>4, <1>5 DEF Account

(* One holder fewer, whatever the job.                                     *)
LEMMA ReleaseHolders ==
  ASSUME TypeOK, NEW w \in Worker, Release(w), NEW j \in Job
  PROVE  /\ Holders(j)' = Holders(j) \ {w}
         /\ Senders(j)' = Senders(j) \ {w}
BY DEF TypeOK, Release, Holders, Senders

(* Every step keeps the accounts.                                          *)
LEMMA StepAccount == Typed /\ AccountInv /\ [Next]_vars => AccountInv'
<1> SUFFICES ASSUME Typed, AccountInv, [Next]_vars, NEW i \in Job PROVE Account(i)'
  BY DEF AccountInv
<1> USE DEF row, wvars, history
<1>a. TypeOK /\ Account(i) /\ \A w \in Worker : pc[w] # "idle" => held[w] \in Job
  BY DEF Typed, HeldIsJob, AccountInv
<1>b. ASSUME UNCHANGED <<status, attempts, takeovers, pc, held, seen>>
      PROVE  Account(i)'
  <2>1. Holders(i)' = Holders(i) /\ Senders(i)' = Senders(i)
    BY <1>b DEF Holders, Senders
  <2> QED  BY <1>a, <1>b, <2>1, Steady
<1>1. ASSUME NEW j \in Job, NEW t \in AllJobTypes, NEW s \in WorkStage, Insert(j, t, s)
      PROVE  Account(i)'
  <2>1. /\ status[j] = "absent" /\ status' = [status EXCEPT ![j] = "queued"]
        /\ UNCHANGED <<attempts, takeovers, pc, held, seen>>
    BY <1>1 DEF Insert
  <2>2. Holders(i)' = Holders(i) /\ Senders(i)' = Senders(i)
    BY <2>1 DEF Holders, Senders
  <2>3. CASE i = j
    <3>1. attempts'[i] = 0 /\ Holders(i)' = {} /\ status'[i] = "queued"
      BY <1>a, <2>1, <2>2, <2>3 DEF Account, TypeOK
    <3>2. takeovers'[i] \in Nat /\ MaxAttempts \in Nat \ {0}
      BY <1>a, <2>1, BoundsAssumption DEF TypeOK
    <3> QED  BY <3>1, <3>2, FS_EmptySet DEF Account
  <2>4. CASE i # j
    <3>1. status'[i] = status[i]  BY <1>a, <2>1, <2>4 DEF TypeOK
    <3> QED  BY <1>a, <2>1, <2>2, <3>1, Steady
  <2> QED  BY <2>3, <2>4
<1>2. ASSUME NEW j \in Job, CancelRead(j) \/ CancelRunning(j) PROVE Account(i)'
  BY <1>2, <1>b DEF CancelRead, CancelRunning
<1>3. ASSUME NEW j \in Job, CancelWaiting(j) PROVE Account(i)'
  <2>1. /\ UNCHANGED <<attempts, takeovers, pc, held, seen>>
        /\ status' = [status EXCEPT ![j] = "cancelled"]
    BY <1>3 DEF CancelWaiting
  <2>2. Holders(i)' = Holders(i) /\ Senders(i)' = Senders(i)
    BY <2>1 DEF Holders, Senders
  <2>3. CASE status[i] = "absent" /\ i = j
    <3>1. attempts'[i] = 0 /\ Holders(i)' = {} /\ status'[i] = "cancelled"
      BY <1>a, <2>1, <2>2, <2>3 DEF Account, TypeOK
    <3>2. takeovers'[i] \in Nat /\ MaxAttempts \in Nat \ {0}
      BY <1>a, <2>1, BoundsAssumption DEF TypeOK
    <3> QED  BY <3>1, <3>2, FS_EmptySet DEF Account, Waiting
  <2>4. CASE ~(status[i] = "absent" /\ i = j)
    <3>1. status'[i] = status[i] \/ (status'[i] \in Terminal /\ status[i] # "absent")
      BY <1>a, <2>1, <2>4 DEF TypeOK, Terminal
    <3> QED  BY <1>a, <2>1, <2>2, <3>1, Steady
  <2> QED  BY <2>3, <2>4
<1>4. ASSUME NEW v \in Worker, NEW j \in Job, Claim(v, j) PROVE Account(i)'
  <2>1. /\ pc[v] = "idle" /\ Claimable(j) /\ UNCHANGED seen
        /\ status' = [status EXCEPT ![j] = "running"]
        /\ attempts' = [attempts EXCEPT ![j] = CountUp(@)]
        /\ takeovers' = [takeovers EXCEPT ![j] = IF status[j] = "running" THEN CountTakeover(@) ELSE @]
        /\ pc' = [pc EXCEPT ![v] = "holding"] /\ held' = [held EXCEPT ![v] = j]
    BY <1>4 DEF Claim
  <2>2. CASE i # j
    <3>1. Holders(i)' = Holders(i) /\ Senders(i)' = Senders(i)
      BY <1>a, <2>1, <2>2 DEF TypeOK, Holders, Senders
    <3> QED  BY <1>a, <2>1, <2>2, <3>1, Steady DEF TypeOK
  <2>3. CASE i = j
    <3>1. /\ Holders(i)' = Holders(i) \cup {v} /\ v \notin Holders(i)
          /\ Senders(i)' = Senders(i)
      BY <1>a, <2>1, <2>3 DEF TypeOK, Holders, Senders
    <3>2. /\ status'[i] = "running" /\ attempts'[i] = CountUp(attempts[i])
          /\ takeovers'[i] = IF status[i] = "running" THEN CountTakeover(takeovers[i]) ELSE takeovers[i]
          /\ status[i] \in Waiting \/ status[i] = "running"
      BY <1>a, <2>1, <2>3 DEF TypeOK, Claimable
    <3>3. IsFiniteSet(Holders(i)') /\ Cardinality(Holders(i)') = Cardinality(Holders(i)) + 1
      BY <1>a, <3>1, AccountTyped, FS_AddElement
    <3>4. ASSUME takeovers'[i] < TakeoverCap
          PROVE  /\ Cardinality(Holders(i)') <= takeovers'[i] + 1
                 /\ attempts'[i] >= MaxAttempts =>
                      attempts'[i] + Cardinality(Senders(i)') + Waits(i)' <= MaxAttempts + takeovers'[i]
      <4>1. takeovers[i] < TakeoverCap
            /\ takeovers'[i] = takeovers[i] + (IF status[i] = "running" THEN 1 ELSE 0)
        BY <1>a, <3>2, <3>4, AccountTyped DEF CountTakeover
      <4>2. Cardinality(Holders(i)) <= takeovers'[i]
        BY <1>a, <3>2, <4>1, AccountTyped DEF Account, Waiting
      <4>3. attempts'[i] <= attempts[i] + 1 /\ attempts'[i] \in Nat
        BY <1>a, <3>2, AccountTyped DEF CountUp
      <4>4. Waits(i)' = 0
        BY <3>2 DEF Waits, Waiting
      <4>5. CASE attempts[i] >= MaxAttempts
        <5>1. attempts[i] + Cardinality(Senders(i)) + Waits(i) <= MaxAttempts + takeovers[i]
          BY <1>a, <4>1, <4>5 DEF Account
        <5>2. Waits(i) = IF status[i] = "running" THEN 0 ELSE 1
          BY <3>2 DEF Waits, Waiting
        <5> QED  BY <1>a, <3>1, <3>3, <4>1, <4>2, <4>3, <4>4, <5>1, <5>2, AccountTyped
      <4>6. CASE attempts[i] < MaxAttempts
        BY <1>a, <3>1, <3>3, <4>1, <4>2, <4>3, <4>4, <4>6, AccountTyped
      <4> QED  BY <1>a, <4>5, <4>6, AccountTyped
    <3> QED  BY <3>2, <3>3, <3>4 DEF Account, Waiting
  <2> QED  BY <2>2, <2>3
<1>5. ASSUME NEW v \in Worker, BeginStage(v) \/ FindLockLost(v) \/ CommitStage(v) \/ MarkLoad(v)
                               \/ \E r \in BOOLEAN : StageFails(v, r)
      PROVE  Account(i)'
  <2>1. /\ pc[v] # "idle" /\ UNCHANGED <<status, attempts, takeovers, held>>
        /\ \E p \in {"holding", "inStage", "failing", "marking"} : pc' = [pc EXCEPT ![v] = p]
        /\ \A w \in Worker \ {v} : seen'[w] = seen[w]
        /\ pc'[v] = "marking" => seen'[v] = attempts[held[v]]
    BY <1>5, <1>a DEF BeginStage, FindLockLost, CommitStage, PerformEffect, MarkLoad, StageFails, TypeOK
  <2>2. Holders(i)' = Holders(i)
    BY <1>a, <2>1 DEF Holders, TypeOK
  <2>3. attempts[i] >= MaxAttempts => Senders(i)' \subseteq Senders(i)
    <3> SUFFICES ASSUME attempts[i] >= MaxAttempts, NEW w \in Senders(i)' PROVE w \in Senders(i)
      OBVIOUS
    <3>1. w \in Holders(i) /\ pc'[w] = "marking" /\ seen'[w] < MaxAttempts /\ held[w] = i /\ w \in Worker
      BY <2>1, <2>2 DEF Senders, Holders
    <3>2. w # v
      BY <1>a, <2>1, <3>1, AccountTyped
    <3> QED  BY <1>a, <2>1, <3>1, <3>2 DEF Senders, TypeOK
  <2> QED  BY <1>a, <2>1, <2>2, <2>3, Steady
<1>6. ASSUME NEW v \in Worker, MarkRefused(v) \/ MarkLost(v) \/ Abandon(v)
      PROVE  Account(i)'
  <2>1. Release(v) /\ UNCHANGED <<status, attempts, takeovers>>
    BY <1>6 DEF MarkRefused, MarkLost, Abandon
  <2> QED  BY <1>a, <2>1, ReleaseHolders, Steady
<1>7. ASSUME NEW v \in Worker, CancelAtBoundary(v) \/ MarkWrite(v) \/ Succeed(v)
      PROVE  Account(i)'
  <2>1. PICK j \in Job : pc[v] # "idle" /\ j = held[v]
    BY <1>a, <1>7 DEF CancelAtBoundary, MarkWrite, Succeed, PerformEffect
  <2>2. /\ Release(v) /\ UNCHANGED <<attempts, takeovers>> /\ status[j] = "running"
        /\ status' = [status EXCEPT ![j] = status'[j]]
        /\ \/ status'[j] \in Terminal
           \/ pc[v] = "marking" /\ seen[v] < MaxAttempts /\ status'[j] = "retrying"
    <3>1. CASE CancelAtBoundary(v)
      BY <2>1, <3>1, <1>a DEF CancelAtBoundary, Owns, Terminal, TypeOK
    <3>2. CASE MarkWrite(v)
      BY <2>1, <3>2, <1>a DEF MarkWrite, ShouldRetry, Owns, Terminal, TypeOK
    <3>3. CASE Succeed(v)
      BY <2>1, <3>3, <1>a DEF Succeed, PerformEffect, Owns, Terminal, TypeOK
    <3> QED  BY <1>7, <3>1, <3>2, <3>3
  <2>3. Holders(i)' = Holders(i) \ {v} /\ Senders(i)' = Senders(i) \ {v}
    BY <1>a, <2>2, ReleaseHolders
  <2>4. CASE i # j \/ status'[j] \in Terminal
    <3>1. status'[i] = status[i] \/ (status'[i] \in Terminal /\ status[i] # "absent")
      BY <1>a, <2>2, <2>4 DEF TypeOK
    <3> QED  BY <1>a, <2>2, <2>3, <3>1, Steady
  <2>5. CASE i = j /\ pc[v] = "marking" /\ seen[v] < MaxAttempts /\ status'[j] = "retrying"
    <3>1. v \in Holders(i) /\ v \in Senders(i)
      BY <2>1, <2>5 DEF Holders, Senders
    <3>2. /\ IsFiniteSet(Holders(i)') /\ Cardinality(Holders(i)') = Cardinality(Holders(i)) - 1
          /\ Cardinality(Senders(i)') = Cardinality(Senders(i)) - 1
      <4>1. /\ IsFiniteSet(Holders(i) \ {v})
            /\ Cardinality(Holders(i) \ {v}) = Cardinality(Holders(i)) - 1
        BY <1>a, <3>1, AccountTyped, FS_RemoveElement
      <4>2. Cardinality(Senders(i) \ {v}) = Cardinality(Senders(i)) - 1
        BY <1>a, <3>1, AccountTyped, FS_RemoveElement
      <4> QED  BY <2>3, <4>1, <4>2
    <3>3. Waits(i) = 0 /\ Waits(i)' = 1
      BY <2>2, <2>5 DEF Waits, Waiting
    <3> QED  BY <1>a, <2>2, <2>5, <3>2, <3>3, AccountTyped DEF Account, Waiting
  <2> QED  BY <2>2, <2>4, <2>5
<1>8. CASE Tick
  BY <1>8, <1>b DEF Tick
<1>9. CASE UNCHANGED vars
  BY <1>9, <1>b DEF vars
<1> QED
  BY ONLY StepCases, <1>a, [Next]_vars, <1>1, <1>2, <1>3, <1>4, <1>5, <1>6, <1>7, <1>8, <1>9

(* Only a claim that takes a job over costs an attempt beyond max_attempts:*)
(* not a late report of a worker that lost the job, nor a shared WORKER_ID *)
(* (claim_next_job, mark_claimed_job_failed).                              *)
THEOREM AttemptsBounded == Spec => []AttemptsAccounted
<1>1. Typed /\ AccountInv => AttemptsAccounted
  <2> SUFFICES ASSUME Typed, AccountInv, NEW j \in Job
               PROVE  attempts[j] <= MaxAttempts + takeovers[j]
    BY DEF AttemptsAccounted
  <2>1. TypeOK /\ Account(j)
    BY DEF Typed, AccountInv
  <2>2. CASE takeovers[j] < TakeoverCap /\ attempts[j] >= MaxAttempts
    <3>1. attempts[j] + Cardinality(Senders(j)) + Waits(j) <= MaxAttempts + takeovers[j]
      BY <2>1, <2>2 DEF Account
    <3>2. Waits(j) \in 0..1
      BY DEF Waits
    <3> QED  BY <2>1, <3>1, <3>2, AccountTyped
  <2>3. CASE ~(takeovers[j] < TakeoverCap /\ attempts[j] >= MaxAttempts)
    BY <2>1, <2>3, AccountTyped DEF TakeoverCap
  <2> QED  BY <2>2, <2>3
<1>2. Init => Typed /\ AccountInv
  BY InitTyped, InitAccount
<1>3. Typed /\ AccountInv /\ [Next]_vars => Typed' /\ AccountInv'
  BY StepTyped, StepAccount
<1> QED  BY <1>1, <1>2, <1>3, PTL DEF Spec
===========================================================================
