---------------------------- MODULE ImportJobs ----------------------------
(***************************************************************************)
(* Import jobs of Little Bear: the import_jobs table, the worker processes *)
(* that claim, advance and fail jobs, and the API commands that create,    *)
(* cancel and retry them.                                                  *)
(*                                                                         *)
(* A worker step is one database transaction.  The heartbeat UPDATE that   *)
(* opens a stage transaction takes the job's row lock and keeps it until   *)
(* the stage commits or rolls back, so a claim (SKIP LOCKED) passes over   *)
(* the row and every other UPDATE of the row waits for it.                 *)
(*                                                                         *)
(* Instants are kept as remaining ticks: lease[j] = 0 is locked_until null *)
(* or past, backoff[j] = 0 is next_retry_at null or past.                  *)
(***************************************************************************)
EXTENDS Integers, ImportStages

CONSTANTS
  MaxJobs,      \* jobs that a behaviour may create
  JobTypes,     \* job types the API creates
  Worker,       \* worker processes
  Id,           \* values of WORKER_ID
  IdOf,         \* the WORKER_ID of each process: two processes may share one
  NoId,         \* locked_by IS NULL
  MaxAttempts,  \* import_jobs.max_attempts
  AttemptCap,   \* attempt_count is counted up to this value
  LeaseTicks,   \* WORKER_LOCK_SECONDS
  BackoffTicks, \* retry_delay_seconds
  MaxFaults,    \* abandoned claims (crash, stop, unexpected exception)
  SlowStages    \* may a worker's step outlive its lease?

ASSUME BoundsAssumption ==
  /\ MaxJobs \in Nat
  /\ MaxAttempts \in Nat \ {0}
  /\ AttemptCap \in Nat /\ AttemptCap > MaxAttempts
  /\ LeaseTicks \in Nat \ {0}
  /\ BackoffTicks \in Nat
  /\ MaxFaults \in Nat
  /\ SlowStages \in BOOLEAN

ASSUME WorkerAssumption ==
  /\ IdOf \in [Worker -> Id]
  /\ NoId \notin Id

ASSUME TypesAssumption == JobTypes \subseteq AllJobTypes

Job == 1..MaxJobs   \* numbered in the order of created_at
NoJob == 0

Waiting  == {"queued", "retrying"}
Terminal == {"success", "failed", "cancelled"}
Status   == {"absent", "running"} \cup Waiting \cup Terminal

VARIABLES
  \* rows of import_jobs
  status, stage, jobType, attempts, lockedBy, lease, backoff, cancelRequested,
  \* cancel requests that read a status and have not written yet
  cancelling,
  \* workers: control point, claimed job, stage loaded, locked_until that the
  \* open transaction will commit, and what mark_claimed_job_failed read
  pc, held, loaded, renewed, retryable, seen,
  \* history: stage the job was queued at, committed effects per stage,
  \* abandoned claims, claims that took a running job over
  first, done, faults, takeovers

row     == <<status, stage, jobType, attempts, lockedBy, lease, backoff,
             cancelRequested>>
wvars   == <<pc, held, loaded, renewed, retryable, seen>>
history == <<first, done, faults, takeovers>>
vars    == <<row, cancelling, wvars, history>>

(* A typed state, of every variable. *)
TypeOK ==
  /\ status \in [Job -> Status]
  /\ stage \in [Job -> Stage]
  /\ jobType \in [Job -> AllJobTypes]
  /\ attempts \in [Job -> 0..AttemptCap]
  /\ lockedBy \in [Job -> Id \cup {NoId}]
  /\ lease \in [Job -> 0..LeaseTicks]
  /\ backoff \in [Job -> 0..BackoffTicks]
  /\ cancelRequested \in [Job -> BOOLEAN]
  /\ cancelling \subseteq Job \X {"waiting", "running"}
  /\ pc \in [Worker -> {"idle", "holding", "inStage", "failing", "marking"}]
  /\ held \in [Worker -> Job \cup {NoJob}]
  /\ loaded \in [Worker -> Stage]
  /\ renewed \in [Worker -> 0..LeaseTicks]
  /\ retryable \in [Worker -> BOOLEAN]
  /\ seen \in [Worker -> 0..AttemptCap]
  /\ first \in [Job -> Stage]
  /\ done \in [Job -> [WorkStage -> Nat]]
  /\ faults \in 0..MaxFaults
  /\ takeovers \in [Job -> 0..AttemptCap]

Init ==
  /\ status = [j \in Job |-> "absent"]
  /\ stage = [j \in Job |-> Validate]
  /\ jobType = [j \in Job |-> "upload"]
  /\ attempts = [j \in Job |-> 0]
  /\ lockedBy = [j \in Job |-> NoId]
  /\ lease = [j \in Job |-> 0]
  /\ backoff = [j \in Job |-> 0]
  /\ cancelRequested = [j \in Job |-> FALSE]
  /\ cancelling = {}
  /\ pc = [w \in Worker |-> "idle"]
  /\ held = [w \in Worker |-> NoJob]
  /\ loaded = [w \in Worker |-> Validate]
  /\ renewed = [w \in Worker |-> 0]
  /\ retryable = [w \in Worker |-> FALSE]
  /\ seen = [w \in Worker |-> 0]
  /\ first = [j \in Job |-> Validate]
  /\ done = [j \in Job |-> [s \in WorkStage |-> 0]]
  /\ faults = 0
  /\ takeovers = [j \in Job |-> 0]

---------------------------------------------------------------------------
(* Faulty variants of definitions below, each named for the definition it  *)
(* would replace: with it, TLC finds the property it breaks violated.      *)

RowLocked_HeartbeatCommitsAlone(j) == FALSE
Owns_AnyWorker(w, j) == status[j] = "running"
Claimable_AnyStatus(j) == status[j] # "absent" /\ backoff[j] = 0 /\ lease[j] = 0
Claimable_NoTakeover(j) == status[j] \in Waiting /\ backoff[j] = 0 /\ lease[j] = 0
StopsAt_WhenTaken(j) == cancelRequested[j] /\ stage[j] = first[j]
ShouldRetry_OffByOne(w) == retryable[w] /\ seen[w] <= MaxAttempts

---------------------------------------------------------------------------
(* State predicates that the statements' WHERE clauses test.               *)

(* The row lock of an open stage transaction. *)
RowLocked(j) == \E w \in Worker : pc[w] = "inStage" /\ held[w] = j

(* locked_by = :worker_id AND status = 'running' *)
Owns(w, j) == status[j] = "running" /\ lockedBy[j] = IdOf[w]

Claimable(j) ==
  /\ \/ status[j] \in Waiting /\ backoff[j] = 0
     \/ status[j] = "running"
  /\ lease[j] = 0

(* A stage boundary at which the worker cancels instead of going on. *)
StopsAt(j) == cancelRequested[j]

(* locked_by = NULL, locked_until = NULL *)
Unlock(j) ==
  /\ lockedBy' = [lockedBy EXCEPT ![j] = NoId]
  /\ lease' = [lease EXCEPT ![j] = 0]

(* The requests of permission_refresh and index_delete jobs name no          *)
(* document_ids, so their validate stage (reached by a retry) always fails. *)
EffectPossible(j, s) ==
  s = Validate => jobType[j] \notin {"permission_refresh", "index_delete"}

---------------------------------------------------------------------------
(* API commands.                                                           *)

(* insert_import_job: the next row, queued at stage s. *)
Insert(j, t, s) ==
  /\ status[j] = "absent"
  /\ \A i \in Job : i < j => status[i] # "absent"
  /\ status' = [status EXCEPT ![j] = "queued"]
  /\ stage' = [stage EXCEPT ![j] = s]
  /\ jobType' = [jobType EXCEPT ![j] = t]
  /\ first' = [first EXCEPT ![j] = s]
  /\ UNCHANGED <<attempts, lockedBy, lease, backoff, cancelRequested,
                 cancelling, wvars, done, faults, takeovers>>

Submit(j, t) == Insert(j, t, FirstStage(t))

(* A manual retry leaves the old row alone and queues a new job. *)
RetryJob(i, j) ==
  /\ status[i] \in {"failed", "cancelled"}
  /\ Insert(j, jobType[i], RetryStage(jobType[i]))

(* request_cancel reads the status; a terminal job is returned as it is. *)
CancelRead(j) ==
  /\ \/ /\ status[j] \in Waiting
        /\ cancelling' = cancelling \cup {<<j, "waiting">>}
     \/ /\ status[j] = "running"
        /\ cancelling' = cancelling \cup {<<j, "running">>}
  /\ UNCHANGED <<row, wvars, history>>

(* ... then writes by what it read: the UPDATE does not test the status.   *)
CancelWaiting(j) ==
  /\ <<j, "waiting">> \in cancelling
  /\ ~RowLocked(j)
  /\ cancelling' = cancelling \ {<<j, "waiting">>}
  /\ status' = [status EXCEPT ![j] = "cancelled"]
  /\ cancelRequested' = [cancelRequested EXCEPT ![j] = TRUE]
  /\ Unlock(j)
  /\ UNCHANGED <<stage, jobType, attempts, backoff, wvars, history>>

CancelRunning(j) ==
  /\ <<j, "running">> \in cancelling
  /\ ~RowLocked(j)
  /\ cancelling' = cancelling \ {<<j, "running">>}
  /\ cancelRequested' = [cancelRequested EXCEPT ![j] = TRUE]
  /\ UNCHANGED <<status, stage, jobType, attempts, lockedBy, lease, backoff,
                 wvars, history>>

---------------------------------------------------------------------------
(* Worker processes.                                                       *)

(* The process forgets its claim and polls again; the row is not written.  *)
Release(w) ==
  /\ pc' = [pc EXCEPT ![w] = "idle"]
  /\ held' = [held EXCEPT ![w] = NoJob]
  /\ loaded' = [loaded EXCEPT ![w] = Validate]
  /\ renewed' = [renewed EXCEPT ![w] = 0]
  /\ retryable' = [retryable EXCEPT ![w] = FALSE]
  /\ seen' = [seen EXCEPT ![w] = 0]

CountUp(n) == IF n < AttemptCap THEN n + 1 ELSE n

(* More takeovers than this allow any count of attempts.                   *)
TakeoverCap == AttemptCap - MaxAttempts
CountTakeover(n) == IF n < TakeoverCap THEN n + 1 ELSE n

(* claim_next_job: the oldest claimable row that nobody has locked.  There *)
(* is no test of attempt_count, and a cancel request is not cleared.       *)
Claim(w, j) ==
  /\ pc[w] = "idle"
  /\ Claimable(j) /\ ~RowLocked(j)
  /\ \A i \in Job : i < j => ~Claimable(i) \/ RowLocked(i)
  /\ status' = [status EXCEPT ![j] = "running"]
  /\ stage' = [stage EXCEPT ![j] = IF @ = Finished THEN Validate ELSE @]
  /\ attempts' = [attempts EXCEPT ![j] = CountUp(@)]
  /\ takeovers' = [takeovers EXCEPT ![j] = IF status[j] = "running"
                                          THEN CountTakeover(@) ELSE @]
  /\ lockedBy' = [lockedBy EXCEPT ![j] = IdOf[w]]
  /\ lease' = [lease EXCEPT ![j] = LeaseTicks]
  /\ backoff' = [backoff EXCEPT ![j] = 0]
  /\ pc' = [pc EXCEPT ![w] = "holding"]
  /\ held' = [held EXCEPT ![w] = j]
  /\ UNCHANGED <<jobType, cancelRequested, cancelling, loaded, renewed,
                 retryable, seen, first, done, faults>>

(* heartbeat_claimed_job renews the lease, expired or not, in the stage's  *)
(* transaction; load_claimed_job then reads the stage.                     *)
BeginStage(w) ==
  LET j == held[w] IN
  /\ pc[w] = "holding"
  /\ ~RowLocked(j)
  /\ Owns(w, j)
  /\ ~StopsAt(j)
  /\ pc' = [pc EXCEPT ![w] = "inStage"]
  /\ loaded' = [loaded EXCEPT ![w] = stage[j]]
  /\ renewed' = [renewed EXCEPT ![w] = LeaseTicks]
  /\ UNCHANGED <<row, cancelling, held, retryable, seen, history>>

(* cancel_claimed_job, at the stage boundary. *)
CancelAtBoundary(w) ==
  LET j == held[w] IN
  /\ pc[w] = "holding"
  /\ ~RowLocked(j)
  /\ Owns(w, j)
  /\ StopsAt(j)
  /\ status' = [status EXCEPT ![j] = "cancelled"]
  /\ Unlock(j)
  /\ Release(w)
  /\ UNCHANGED <<stage, jobType, attempts, backoff, cancelRequested,
                 cancelling, history>>

(* The heartbeat updates no row and the load raises LOCK_REQUIRED, which   *)
(* the loop handles as any other ImportServiceError.                       *)
FindLockLost(w) ==
  /\ pc[w] = "holding"
  /\ ~RowLocked(held[w])
  /\ ~Owns(w, held[w])
  /\ pc' = [pc EXCEPT ![w] = "failing"]
  /\ UNCHANGED <<row, cancelling, held, loaded, renewed, retryable, seen,
                 history>>

(* The stage's effect, its stage number and the renewed lease commit       *)
(* together.                                                               *)
PerformEffect(w) ==
  LET j == held[w]
      s == loaded[w] IN
  /\ pc[w] = "inStage"
  /\ Owns(w, j)
  /\ EffectPossible(j, s)
  /\ s # Finished
  /\ done' = [done EXCEPT ![j][s] = @ + 1]

CommitStage(w) ==
  LET j == held[w] IN
  /\ PerformEffect(w)
  /\ loaded[w] + 1 # Finished
  /\ stage' = [stage EXCEPT ![j] = loaded[w] + 1]
  /\ lease' = [lease EXCEPT ![j] = renewed[w]]
  /\ pc' = [pc EXCEPT ![w] = "holding"]
  /\ loaded' = [loaded EXCEPT ![w] = Validate]
  /\ renewed' = [renewed EXCEPT ![w] = 0]
  /\ UNCHANGED <<status, jobType, attempts, lockedBy, backoff,
                 cancelRequested, cancelling, held, retryable, seen, first,
                 faults, takeovers>>

(* succeed_claimed_job, after the last stage. *)
Succeed(w) ==
  LET j == held[w] IN
  /\ PerformEffect(w)
  /\ loaded[w] + 1 = Finished
  /\ status' = [status EXCEPT ![j] = "success"]
  /\ stage' = [stage EXCEPT ![j] = Finished]
  /\ Unlock(j)
  /\ Release(w)
  /\ UNCHANGED <<jobType, attempts, backoff, cancelRequested, cancelling,
                 first, faults, takeovers>>

(* The stage raises ImportServiceError: its transaction, heartbeat         *)
(* included, is rolled back.                                               *)
StageFails(w, r) ==
  /\ pc[w] = "inStage"
  /\ r => EffectPossible(held[w], loaded[w])
  /\ pc' = [pc EXCEPT ![w] = "failing"]
  /\ renewed' = [renewed EXCEPT ![w] = 0]
  /\ retryable' = [retryable EXCEPT ![w] = r]
  /\ UNCHANGED <<row, cancelling, held, loaded, seen, history>>

(* mark_claimed_job_failed, in a transaction of its own: it reads a row    *)
(* whose lease must still hold ...                                         *)
MarkLoad(w) ==
  LET j == held[w] IN
  /\ pc[w] = "failing"
  /\ Owns(w, j) /\ lease[j] > 0
  /\ pc' = [pc EXCEPT ![w] = "marking"]
  /\ seen' = [seen EXCEPT ![w] = attempts[j]]
  /\ UNCHANGED <<row, cancelling, held, loaded, renewed, retryable, history>>

(* ... or raises again, and the job is left running.                       *)
MarkRefused(w) ==
  LET j == held[w] IN
  /\ pc[w] = "failing"
  /\ ~(Owns(w, j) /\ lease[j] > 0)
  /\ Release(w)
  /\ UNCHANGED <<row, cancelling, history>>

ShouldRetry(w) == retryable[w] /\ seen[w] < MaxAttempts

MarkWrite(w) ==
  LET j == held[w] IN
  /\ pc[w] = "marking"
  /\ ~RowLocked(j)
  /\ Owns(w, j)
  /\ status' = [status EXCEPT
                  ![j] = IF ShouldRetry(w) THEN "retrying" ELSE "failed"]
  /\ backoff' = [backoff EXCEPT
                   ![j] = IF ShouldRetry(w) THEN BackoffTicks ELSE 0]
  /\ Unlock(j)
  /\ Release(w)
  /\ UNCHANGED <<stage, jobType, attempts, cancelRequested, cancelling,
                 history>>

(* The guarded UPDATE finds no row: NoResultFound, job left as it is. *)
MarkLost(w) ==
  /\ pc[w] = "marking"
  /\ ~RowLocked(held[w])
  /\ ~Owns(w, held[w])
  /\ Release(w)
  /\ UNCHANGED <<row, cancelling, history>>

(* A crash, a stop signal seen between stages, or an exception that is not *)
(* an ImportServiceError: the open transaction is rolled back and the job  *)
(* stays running.                                                          *)
Abandon(w) ==
  /\ pc[w] # "idle"
  /\ faults < MaxFaults
  /\ faults' = faults + 1
  /\ Release(w)
  /\ UNCHANGED <<row, cancelling, first, done, takeovers>>

---------------------------------------------------------------------------
(* Time.                                                                   *)

Less(n) == IF n > 0 THEN n - 1 ELSE 0

(* Unless SlowStages, a worker finishes a step before its lease runs out.  *)
InTime == SlowStages \/ \A w \in Worker : pc[w] # "idle" => lease[held[w]] # 1

Tick ==
  /\ InTime
  /\ lease' = [j \in Job |-> Less(lease[j])]
  /\ backoff' = [j \in Job |-> Less(backoff[j])]
  /\ renewed' = [w \in Worker |-> Less(renewed[w])]
  /\ <<lease', backoff', renewed'>> # <<lease, backoff, renewed>>
  /\ UNCHANGED <<status, stage, jobType, attempts, lockedBy, cancelRequested,
                 cancelling, pc, held, loaded, retryable, seen, history>>

(* Every job is absent or settled and every worker polls. *)
Rest ==
  /\ \A j \in Job : status[j] \in Terminal \cup {"absent"}
  /\ \A w \in Worker : pc[w] = "idle"
  /\ UNCHANGED vars

---------------------------------------------------------------------------
StageStep(w) == \/ CommitStage(w)
                \/ Succeed(w)
                \/ \E r \in BOOLEAN : StageFails(w, r)

WorkerStep(w) == \/ \E j \in Job : Claim(w, j)
                 \/ BeginStage(w)
                 \/ CancelAtBoundary(w)
                 \/ FindLockLost(w)
                 \/ StageStep(w)
                 \/ MarkLoad(w)
                 \/ MarkRefused(w)
                 \/ MarkWrite(w)
                 \/ MarkLost(w)

CancelWrite(j) == CancelWaiting(j) \/ CancelRunning(j)

ApiStep == \/ \E j \in Job, t \in JobTypes : Submit(j, t)
           \/ \E i, j \in Job : RetryJob(i, j)
           \/ \E j \in Job : CancelRead(j)
           \/ \E j \in Job : CancelWrite(j)

Next == \/ ApiStep
        \/ \E w \in Worker : WorkerStep(w)
        \/ \E w \in Worker : Abandon(w)
        \/ Tick
        \/ Rest

(* Workers keep polling and finish the stage they run, transactions that   *)
(* wait for a row lock get it, and time passes.  Nothing makes a client    *)
(* submit, cancel or retry, nor a worker crash.                            *)
Fairness ==
  /\ \A w \in Worker : WF_vars(WorkerStep(w))
  /\ \A j \in Job : WF_vars(CancelWaiting(j)) /\ WF_vars(CancelRunning(j))
  /\ WF_vars(Tick)

Spec == Init /\ [][Next]_vars
FairSpec == Spec /\ Fairness

---------------------------------------------------------------------------
(* Properties.                                                             *)

(* Exactly once, in order: whatever claims, takeovers, rollbacks and       *)
(* retries a job went through, the committed effects of its stages are     *)
(* those between the stage it was queued at and its stage now, one each.   *)
EffectsMatchStage ==
  \A j \in Job : \A s \in WorkStage :
    done[j][s] = IF first[j] <= s /\ s < stage[j] THEN 1 ELSE 0

(* Two processes never run a stage of one job at the same time, even with  *)
(* one WORKER_ID and an expired lease, and the one that runs it works from *)
(* the row as it is.                                                       *)
StageExclusion ==
  \A w \in Worker : pc[w] = "inStage" =>
    /\ Owns(w, held[w]) /\ loaded[w] = stage[held[w]]
    /\ \A v \in Worker \ {w} : ~(pc[v] = "inStage" /\ held[v] = held[w])

(* A job is locked exactly while it runs, so none is left waiting behind a *)
(* lease that nobody owns, and success means that the last stage committed.*)
LockMatchesStatus ==
  \A j \in Job :
    /\ lockedBy[j] # NoId <=> status[j] = "running"
    /\ status[j] # "running" => lease[j] = 0
    /\ status[j] = "success" => stage[j] = Finished

(* After a cancel request is committed no further stage effect of the job  *)
(* commits, whichever worker runs it and however often it is retried; not  *)
(* even the cleanup of a job that has published (cancel_claimed_job).      *)
CancelHonoured ==
  [][\A j \in Job : cancelRequested[j] => done'[j] = done[j]]_vars

UniqueId(w) == \A v \in Worker \ {w} : IdOf[v] # IdOf[w]

(* A process that shares its WORKER_ID with no other records a failure only*)
(* against the stage that failed: a late report never fails a job that     *)
(* moved on.                                                               *)
FailureNamesItsStage ==
  [][\A w \in Worker :
       /\ UniqueId(w) /\ pc[w] = "marking" /\ pc'[w] = "idle"
       /\ status[held[w]] = "running" /\ status'[held[w]] \in {"retrying", "failed"}
       => loaded[w] = stage[held[w]]]_vars

(* Every attempt above max_attempts is due to a claim that took the job    *)
(* over from a worker whose lease ran out: failures, late reports of       *)
(* workers that lost the job, shared WORKER_IDs and crashes cost none.     *)
AttemptsAccounted ==
  \A j \in Job : attempts[j] <= MaxAttempts + takeovers[j]

(* Every job that was created is settled, when claims are abandoned        *)
(* finitely often and no step outlives its lease.                          *)
JobSettles == \A j \in Job : status[j] # "absent" ~> status[j] \in Terminal

---------------------------------------------------------------------------
(* The contract with whoever waits for a job, which JobLifecycle states.   *)

Phase(j) == IF status[j] \in Waiting \cup {"running"} THEN "live" ELSE status[j]

Contract == INSTANCE JobLifecycle WITH
  phase <- [j \in Job |-> Phase(j)],
  effects <- done,
  begin <- first

ImplementsContract == Contract!Spec
===========================================================================
