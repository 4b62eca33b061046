------------------------------ MODULE JobQueue ------------------------------
(***************************************************************************)
(* The SQL job queue that replaces BullMQ when QUEUE_STRATEGY=local: the   *)
(* table background_jobs (packages/db/src/background-jobs-repos.ts) and    *)
(* the poller that works it off (apps/worker/src/database-worker.ts).      *)
(*                                                                         *)
(* setInterval starts a poll every five seconds whether or not the last    *)
(* one has ended, and several worker processes may share the table, so any *)
(* number of runs of runOneDatabaseQueueJob overlap.  A run is an element  *)
(* of Runs; each of its SQL statements is one step.  completeBackgroundJob *)
(* and failBackgroundJob address the row by id only: they look neither at  *)
(* its status nor at locked_by, so a run whose lock was released as stale  *)
(* still writes its outcome over whatever happened to the row meanwhile.   *)
(*                                                                         *)
(* Time is relative: Tick lets one unit pass on every timer of the table,  *)
(* each timer stops at the value where nothing more depends on it.         *)
(***************************************************************************)
EXTENDS Integers, FiniteSets

CONSTANTS
  Jobs,         \* row ids; randomUUID() never returns one twice
  Keys,         \* dedupe keys (BullMQ jobIds) of one queue
  NoKey,        \* dedupe_key IS NULL
  NoJob,        \* what an idle run works on
  Runs,         \* overlapping runs of runOneDatabaseQueueJob
  Priority,     \* Priority[j]: the priority column, smallest first
  MaxAttempts,  \* the max_attempts column
  StaleLock,    \* staleLockMs
  RetryUnit,    \* the 30 s by which a retry is put off per attempt
  KeepCompleted, KeepFailed,  \* retention of finished rows
  MaxFaults     \* bound: lost runs, lost replies and runs slower than a lock

ASSUME JobQueueAssumption ==
  /\ IsFiniteSet(Jobs)
  /\ NoKey \notin Keys
  /\ NoJob \notin Jobs
  /\ Priority \in [Jobs -> Nat]
  /\ MaxAttempts \in Nat \ {0}
  /\ StaleLock \in Nat
  /\ RetryUnit \in Nat
  /\ KeepCompleted \in Nat
  /\ KeepFailed \in Nat
  /\ MaxFaults \in Nat

VARIABLES
  \* the table, one row per job id
  status,    \* "none" before the insert, "gone" after the delete
  key,       \* dedupe_key
  attempts,  \* attempts
  due,       \* time until run_at, 0 once it is past
  lockAge,   \* time since locked_at, Null when not locked
  purgeIn,   \* time until purge_after, Null when not set
  \* the runs
  pc,        \* where in runOneDatabaseQueueJob
  job,       \* the row it claimed
  turn,      \* row.attempts in the run's own copy of the row
  seen,      \* attempts as failBackgroundJob read it
  \* history, read by no guard but those of the bound MaxFaults
  releases,  \* how often the row's lock was released as stale
  retried,   \* the turns that put the row back for a retry
  unsure,    \* jobs whose completion was written but reported as an error
  faults

table   == <<status, key, attempts, due, lockAge, purgeIn>>
runs    == <<pc, job, turn, seen>>
history == <<releases, retried, unsure, faults>>
vars    == <<table, runs, history>>

Null == -1

Queued   == {"waiting", "delayed"}
Live     == Queued \union {"active"}      \* BACKGROUND_JOB_ACTIVE_STATUSES
Terminal == {"completed", "failed"}       \* BACKGROUND_JOB_TERMINAL_STATUSES
Present  == Live \union Terminal
Status   == Present \union {"none", "gone"}

Phase == {"idle", "running", "failing", "deciding"}

TypeOK ==
  /\ status   \in [Jobs -> Status]
  /\ key      \in [Jobs -> Keys \union {NoKey}]
  /\ attempts \in [Jobs -> Nat]
  /\ due      \in [Jobs -> Nat]
  /\ lockAge  \in [Jobs -> Nat \union {Null}]
  /\ purgeIn  \in [Jobs -> Nat \union {Null}]
  /\ pc       \in [Runs -> Phase]
  /\ job      \in [Runs -> Jobs \union {NoJob}]
  /\ \A r \in Runs : pc[r] = "idle" <=> job[r] = NoJob
  /\ turn     \in [Runs -> Nat]
  /\ seen     \in [Runs -> Nat]
  /\ releases \in [Jobs -> Nat]
  /\ retried  \in [Jobs -> SUBSET Nat]
  /\ unsure   \in SUBSET Jobs
  /\ faults   \in Nat

Init ==
  /\ status   = [j \in Jobs |-> "none"]
  /\ key      = [j \in Jobs |-> NoKey]
  /\ attempts = [j \in Jobs |-> 0]
  /\ due      = [j \in Jobs |-> 0]
  /\ lockAge  = [j \in Jobs |-> Null]
  /\ purgeIn  = [j \in Jobs |-> Null]
  /\ pc       = [r \in Runs |-> "idle"]
  /\ job      = [r \in Runs |-> NoJob]
  /\ turn     = [r \in Runs |-> 0]
  /\ seen     = [r \in Runs |-> 0]
  /\ releases = [j \in Jobs |-> 0]
  /\ retried  = [j \in Jobs |-> {}]
  /\ unsure   = {}
  /\ faults   = 0

-----------------------------------------------------------------------------
(* The producers *)

\* enqueueBackgroundJob: the insert, with run_at = now.  The unique index on
\* (queue_name, dedupe_key) admits one row per key whatever its status; NULL
\* keys never collide.  A refused insert throws and changes nothing.
Enqueue(j, k) ==
  /\ status[j] = "none"
  /\ k # NoKey => \A i \in Jobs : status[i] \in Present => key[i] # k
  /\ status'   = [status EXCEPT ![j] = "waiting"]
  /\ key'      = [key EXCEPT ![j] = k]
  /\ UNCHANGED <<attempts, due, lockAge, purgeIn, runs, history>>

\* DELETE FROM background_jobs, rows S.
Delete(S) ==
  /\ status'  = [j \in Jobs |-> IF j \in S THEN "gone" ELSE status[j]]
  /\ purgeIn' = [j \in Jobs |-> IF j \in S THEN Null ELSE purgeIn[j]]
  /\ lockAge' = [j \in Jobs |-> IF j \in S THEN Null ELSE lockAge[j]]
  /\ UNCHANGED <<key, attempts, due, runs, history>>

\* Mutant: the DELETE without its status condition.
AnyWithKey(k) == {j \in Jobs : status[j] \in Present /\ key[j] = k}

FinishedWithKey(k) == {j \in Jobs : status[j] \in Terminal /\ key[j] = k}

\* removeFinishedBackgroundJobByDedupeKey: producers call it to free the key.
ClearFinished(k) ==
  /\ FinishedWithKey(k) # {}
  /\ Delete(FinishedWithKey(k))

-----------------------------------------------------------------------------
(* One run of runOneDatabaseQueueJob *)

\* Mutant: rows in progress are offered as well.
DueOrActive == {j \in Jobs : status[j] \in Live /\ due[j] = 0}

Due == {j \in Jobs : status[j] \in Queued /\ due[j] = 0}

\* ORDER BY priority ASC; the order of rows of one priority is left open.
FirstDue == {j \in Due : \A i \in Due : Priority[j] <= Priority[i]}

\* claimNextBackgroundJob, one transaction.
Claim(r, j) ==
  /\ pc[r] = "idle"
  /\ j \in FirstDue
  /\ status'   = [status EXCEPT ![j] = "active"]
  /\ attempts' = [attempts EXCEPT ![j] = @ + 1]
  /\ lockAge'  = [lockAge EXCEPT ![j] = 0]
  /\ pc'   = [pc EXCEPT ![r] = "running"]
  /\ job'  = [job EXCEPT ![r] = j]
  /\ turn' = [turn EXCEPT ![r] = attempts[j] + 1]
  /\ UNCHANGED <<key, due, purgeIn, seen, history>>

\* The run is over and its local variables with it.
EndRun(r) ==
  /\ pc'   = [pc EXCEPT ![r] = "idle"]
  /\ job'  = [job EXCEPT ![r] = NoJob]
  /\ turn' = [turn EXCEPT ![r] = 0]
  /\ seen' = [seen EXCEPT ![r] = 0]

\* Mutant: the purge date is forgotten.
WriteCompletedForGood(j) ==
  IF status[j] \in Present
  THEN /\ status'  = [status EXCEPT ![j] = "completed"]
       /\ lockAge' = [lockAge EXCEPT ![j] = Null]
       /\ UNCHANGED purgeIn
  ELSE UNCHANGED <<status, lockAge, purgeIn>>

\* The UPDATE of completeBackgroundJob: no row, no effect.
WriteCompleted(j) ==
  IF status[j] \in Present
  THEN /\ status'  = [status EXCEPT ![j] = "completed"]
       /\ lockAge' = [lockAge EXCEPT ![j] = Null]
       /\ purgeIn' = [purgeIn EXCEPT ![j] = KeepCompleted]
  ELSE UNCHANGED <<status, lockAge, purgeIn>>

\* The handler returned: completeBackgroundJob.  The retention it reads first
\* never changes after the insert.
Complete(r) ==
  /\ pc[r] = "running"
  /\ WriteCompleted(job[r])
  /\ EndRun(r)
  /\ UNCHANGED <<key, attempts, due, history>>

\* The handler threw, or completeBackgroundJob before its UPDATE: to the catch.
HandlerFails(r) ==
  /\ pc[r] = "running"
  /\ pc' = [pc EXCEPT ![r] = "failing"]
  /\ UNCHANGED <<table, job, turn, seen, history>>

\* The UPDATE was executed but its reply lost: completeBackgroundJob throws
\* and the run goes on to report a failure.
CompleteReplyLost(r) ==
  /\ pc[r] = "running"
  /\ faults < MaxFaults
  /\ WriteCompleted(job[r])
  /\ pc' = [pc EXCEPT ![r] = "failing"]
  /\ unsure' = unsure \union {job[r]}
  /\ faults' = faults + 1
  /\ UNCHANGED <<key, attempts, due, job, turn, seen, releases, retried>>

\* failBackgroundJob, its SELECT of attempts and max_attempts: a missing row
\* ends the run.
ReadAttempts(r) ==
  /\ pc[r] = "failing"
  /\ IF status[job[r]] \in Present
     THEN /\ pc'   = [pc EXCEPT ![r] = "deciding"]
          /\ seen' = [seen EXCEPT ![r] = attempts[job[r]]]
          /\ UNCHANGED <<job, turn>>
     ELSE EndRun(r)
  /\ UNCHANGED <<table, history>>

\* Mutant: the last attempt is not made.
RetryOneLess(r) == turn[r] + 1 < MaxAttempts /\ seen[r] < MaxAttempts

\* willRetry: runOneDatabaseQueueJob passes a retryAt when its own copy of the
\* row allows another attempt, failBackgroundJob compares what it has read.
WillRetry(r) == turn[r] < MaxAttempts /\ seen[r] < MaxAttempts

\* Mutant: a retry leaves the column as it is.
RetryKeepsPurgeDate(r) == IF WillRetry(r) THEN purgeIn[job[r]] ELSE KeepFailed

\* purgeAfter of the UPDATE: a row that is retried must not be purged.
PurgeDateAfterFailure(r) == IF WillRetry(r) THEN Null ELSE KeepFailed

\* failBackgroundJob, its UPDATE by id.
WriteFailed(r) ==
  LET j == job[r] IN
  /\ pc[r] = "deciding"
  /\ EndRun(r)
  /\ IF status[j] \in Present
     THEN /\ status'  = [status EXCEPT ![j] = IF WillRetry(r) THEN "delayed" ELSE "failed"]
          /\ lockAge' = [lockAge EXCEPT ![j] = Null]
          /\ due'     = [due EXCEPT ![j] = IF WillRetry(r) THEN RetryUnit * turn[r] ELSE 0]
          /\ purgeIn' = [purgeIn EXCEPT ![j] = PurgeDateAfterFailure(r)]
          /\ retried' = [retried EXCEPT ![j] = IF WillRetry(r) THEN @ \union {turn[r]} ELSE @]
     ELSE UNCHANGED <<status, lockAge, due, purgeIn, retried>>
  /\ UNCHANGED <<key, attempts, releases, unsure, faults>>

\* The worker process dies, or failBackgroundJob throws: the run is over and
\* the row stays as it is.
LoseRun(r) ==
  /\ pc[r] # "idle"
  /\ faults < MaxFaults
  /\ EndRun(r)
  /\ faults' = faults + 1
  /\ UNCHANGED <<table, releases, retried, unsure>>

-----------------------------------------------------------------------------
(* runMaintenance *)

\* Mutant: rows without a purge date count as due.
PurgeUndated ==
  \E S \in SUBSET {j \in Jobs : status[j] \in Present /\ purgeIn[j] <= 0} : S # {} /\ Delete(S)

\* purgeDueBackgroundJobs: the batch limit may leave rows for the next time.
Purge ==
  \E S \in SUBSET {j \in Jobs : purgeIn[j] = 0} : S # {} /\ Delete(S)

Stale == {j \in Jobs : status[j] = "active" /\ lockAge[j] >= StaleLock}

\* Stale rows some run is still working on: that run is slower than the lock.
Slow == {j \in Stale : \E r \in Runs : job[r] = j}

\* releaseStaleBackgroundJobLocks, one UPDATE.  attempts is not looked at.
Release ==
  /\ Stale # {}
  /\ faults + Cardinality(Slow) <= MaxFaults
  /\ status'   = [j \in Jobs |-> IF j \in Stale THEN "waiting" ELSE status[j]]
  /\ lockAge'  = [j \in Jobs |-> IF j \in Stale THEN Null ELSE lockAge[j]]
  /\ releases' = [j \in Jobs |-> IF j \in Stale THEN releases[j] + 1 ELSE releases[j]]
  /\ faults'   = faults + Cardinality(Slow)
  /\ UNCHANGED <<key, attempts, due, purgeIn, runs, retried, unsure>>

-----------------------------------------------------------------------------
\* Timers count down to 0; the age of a lock matters up to StaleLock.
Countdown(t) == IF t > 0 THEN t - 1 ELSE t
Aged(a)      == IF a = Null \/ a >= StaleLock THEN a ELSE a + 1

Tick ==
  /\ due'     = [j \in Jobs |-> Countdown(due[j])]
  /\ purgeIn' = [j \in Jobs |-> Countdown(purgeIn[j])]
  /\ lockAge' = [j \in Jobs |-> Aged(lockAge[j])]
  /\ UNCHANGED <<status, key, attempts, runs, history>>

Finish(r) == Complete(r) \/ HandlerFails(r) \/ ReadAttempts(r) \/ WriteFailed(r)

Next ==
  \/ \E j \in Jobs, k \in Keys \union {NoKey} : Enqueue(j, k)
  \/ \E k \in Keys : ClearFinished(k)
  \/ \E r \in Runs, j \in Jobs : Claim(r, j)
  \/ \E r \in Runs : Complete(r)
  \/ \E r \in Runs : HandlerFails(r)
  \/ \E r \in Runs : CompleteReplyLost(r)
  \/ \E r \in Runs : ReadAttempts(r)
  \/ \E r \in Runs : WriteFailed(r)
  \/ \E r \in Runs : LoseRun(r)
  \/ Purge
  \/ Release
  \/ Tick

\* Weak fairness of what the two setInterval loops and the clock bring about:
\* polling goes on, a handler ends (the calls it awaits time out), maintenance
\* comes round, time passes.  Nothing is assumed of the producers, and losses
\* are bounded by MaxFaults.
Fairness ==
  /\ WF_vars(\E r \in Runs, j \in Jobs : Claim(r, j))
  /\ \A r \in Runs : WF_vars(Finish(r))
  /\ WF_vars(Purge)
  /\ WF_vars(Release)
  /\ WF_vars(Tick)

Spec == Init /\ [][Next]_vars

FairSpec == Spec /\ Fairness

-----------------------------------------------------------------------------
(* Properties *)

\* Whatever order the writes of overlapping runs and of maintenance take, a
\* row has a purge date exactly when it is finished and a lock exactly when a
\* run was given it: a late failure that puts a row back after another run has
\* completed it takes its purge date away.  purgeDueBackgroundJobs looks at
\* nothing but the date, the release of stale locks at the lock.
RowConsistent ==
  \A j \in Jobs :
    /\ purgeIn[j] # Null <=> status[j] \in Terminal
    /\ lockAge[j] # Null <=> status[j] = "active"

\* A job is given up only after all its attempts: failBackgroundJob decides on
\* two readings of attempts, one of them stale, and neither may be too high.
GivenUpOnlyWhenExhausted ==
  \A j \in Jobs : status[j] = "failed" => attempts[j] >= MaxAttempts

\* The handler of one job is started at most MaxAttempts times and once more
\* for every stale lock that was released.  Late failures of slow runs must not
\* buy further attempts.
AttemptsBounded ==
  \A j \in Jobs : attempts[j] <= MaxAttempts + releases[j]

\* As long as no lock of a row was released as stale, one run at most works on
\* it, and the row is locked while that run is in its handler.
NoOverlapBeforeStaleRelease ==
  \A j \in Jobs : releases[j] = 0 =>
    \A r, s \in Runs :
      /\ job[r] = j /\ job[s] = j => r = s
      /\ job[r] = j /\ pc[r] = "running" => status[j] = "active"

\* A row leaves the table only when it is finished: neither the retention
\* purge nor a producer clearing its key removes work that is still to do.
LiveRowsSurvive ==
  [][\A j \in Jobs : status[j] \in Live => status'[j] # "gone"]_vars

\* A finished job is queued again only if a stale lock of it was released or
\* the reply to its completion was lost.
FinishedStaysFinished ==
  [][\A j \in Jobs : status[j] \in Terminal /\ status'[j] \in Live
                       => releases[j] > 0 \/ j \in unsure]_vars

\* The table and its runs implement the promise of JobDelivery.
PhaseOf(j) == IF status[j] = "none" THEN "new"
              ELSE IF status[j] \in Live THEN "pending"
              ELSE IF status[j] \in Terminal THEN "settled"
              ELSE "forgotten"

Delivery == INSTANCE JobDelivery WITH
              phase    <- [j \in Jobs |-> PhaseOf(j)],
              tries    <- attempts,
              taken    <- releases,
              doubtful <- unsure

ImplementsDelivery == Delivery!DSpec

\* Every job that was queued leaves the table in the end: again and again no
\* row is left.
JobsArePurged == []<>(\A j \in Jobs : status[j] \in {"none", "gone"})

-----------------------------------------------------------------------------
(* The inductive invariant behind the safety properties *)

\* A run holds a turn of its row that was really given out, and what
\* failBackgroundJob read of attempts lies between that turn and the present.
RunsWellFormed ==
  \A r \in Runs : pc[r] # "idle" =>
    /\ status[job[r]] # "none"
    /\ turn[r] \in 1..attempts[job[r]]
    /\ pc[r] = "deciding" => seen[r] \in turn[r]..attempts[job[r]]

\* Turns are unique, and a run in progress has not yet put its row back.
TurnsDistinct ==
  \A r \in Runs : pc[r] # "idle" =>
    /\ turn[r] \notin retried[job[r]]
    /\ \A s \in Runs : s # r /\ job[s] = job[r] => turn[s] # turn[r]

Waiting(j) == IF status[j] \in Queued THEN 1 ELSE 0

\* Every attempt was paid for: by the insert, by a stale release or by the
\* failure of an earlier turn below MaxAttempts, each of which pays once.
AttemptsPaid ==
  \A j \in Jobs :
    /\ retried[j] \subseteq 1..attempts[j]
    /\ retried[j] \subseteq 1..(MaxAttempts - 1)
    /\ status[j] = "none" => attempts[j] = 0
    /\ status[j] = "active" => attempts[j] > 0
    /\ status[j] # "none" =>
         attempts[j] + Waiting(j) <= 1 + releases[j] + Cardinality(retried[j])

\* Before the first stale release the only run on a row holds its lock, unless
\* the reply to its completion was lost.
SoleOwner ==
  \A r \in Runs : pc[r] # "idle" /\ releases[job[r]] = 0 =>
    /\ \A s \in Runs : job[s] = job[r] => s = r
    /\ \/ status[job[r]] = "active"
       \/ /\ pc[r] # "running"
          /\ job[r] \in unsure
          /\ status[job[r]] \in {"completed", "gone"}

IInv ==
  /\ TypeOK
  /\ RowConsistent
  /\ GivenUpOnlyWhenExhausted
  /\ RunsWellFormed
  /\ TurnsDistinct
  /\ AttemptsPaid
  /\ SoleOwner

=============================================================================
