--------------------------- MODULE JobQueue_proofs ---------------------------
(***************************************************************************)
(* Proofs about JobQueue for every set of jobs, keys and runs, every       *)
(* number of attempts and every length of its timers.                      *)
(***************************************************************************)
EXTENDS JobQueue, FiniteSetTheorems, TLAPS

-----------------------------------------------------------------------------
(* Type correctness *)

\* The start of every run has the declared types.
LEMMA InitType == Init => TypeOK
  BY JobQueueAssumption DEF Init, TypeOK, Status, Present, Live, Terminal, Queued, Phase, Null

\* The number of rows that some slow run holds.
LEMMA SlowIsFinite == Cardinality(Slow) \in Nat
<1>1. Slow \subseteq Jobs
  BY DEF Slow, Stale
<1>2. QED
  BY <1>1, JobQueueAssumption, FS_Subset, FS_CardinalityType

\* The delay of a retry is a time.
LEMMA DelayType == \A m, n \in Nat : m * n \in Nat
  OBVIOUS

\* Every step keeps the declared types.
LEMMA NextType == TypeOK /\ [Next]_vars => TypeOK'
<1> SUFFICES ASSUME TypeOK, [Next]_vars PROVE TypeOK'
  OBVIOUS
<1> USE JobQueueAssumption DEF TypeOK, Status, Present, Live, Terminal, Queued, Phase, Null,
          runs, table, history
<1>1. ASSUME NEW j \in Jobs, NEW k \in Keys \union {NoKey}, Enqueue(j, k) PROVE TypeOK'
  BY <1>1 DEF Enqueue
<1>2. ASSUME NEW k \in Keys, ClearFinished(k) PROVE TypeOK'
  BY <1>2 DEF ClearFinished, Delete
<1>3. ASSUME NEW r \in Runs, NEW j \in Jobs, Claim(r, j) PROVE TypeOK'
  BY <1>3 DEF Claim
<1>4. ASSUME NEW r \in Runs, Complete(r) PROVE TypeOK'
  BY <1>4 DEF Complete, WriteCompleted, EndRun
<1>5. ASSUME NEW r \in Runs, HandlerFails(r) PROVE TypeOK'
  BY <1>5 DEF HandlerFails
<1>6. ASSUME NEW r \in Runs, CompleteReplyLost(r) PROVE TypeOK'
  BY <1>6 DEF CompleteReplyLost, WriteCompleted
<1>7. ASSUME NEW r \in Runs, ReadAttempts(r) PROVE TypeOK'
  BY <1>7 DEF ReadAttempts, EndRun
<1>8. ASSUME NEW r \in Runs, WriteFailed(r) PROVE TypeOK'
  <2>1. job[r] \in Jobs /\ turn[r] \in Nat /\ RetryUnit * turn[r] \in Nat
    BY <1>8, DelayType DEF WriteFailed
  <2>2. WillRetry(r) => turn[r] < MaxAttempts
    BY DEF WillRetry
  <2>3. QED
    BY SMTT(30), <1>8, <2>1, <2>2 DEF WriteFailed, PurgeDateAfterFailure, EndRun
<1>9. ASSUME NEW r \in Runs, LoseRun(r) PROVE TypeOK'
  BY <1>9 DEF LoseRun, EndRun
<1>10. CASE Purge
  BY <1>10 DEF Purge, Delete
<1>11. CASE Release
  BY <1>11, SlowIsFinite DEF Release
<1>12. CASE Tick
  BY <1>12 DEF Tick, Countdown, Aged
<1>13. CASE UNCHANGED vars
  BY <1>13 DEF vars
<1>14. QED
  BY <1>1, <1>2, <1>3, <1>4, <1>5, <1>6, <1>7, <1>8, <1>9, <1>10, <1>11, <1>12, <1>13 DEF Next

\* Every reachable state has the declared types.
THEOREM TypeCorrect == Spec => []TypeOK
  BY InitType, NextType, PTL DEF Spec

-----------------------------------------------------------------------------
(* Each conjunct of the inductive invariant is preserved *)


\* Every write that finishes a row sets its purge date and clears its lock;
\* every write that revives one clears the purge date.
LEMMA NextRowConsistent == TypeOK /\ RowConsistent /\ [Next]_vars => RowConsistent'
<1> SUFFICES ASSUME TypeOK, RowConsistent, [Next]_vars PROVE RowConsistent'
  OBVIOUS
<1> USE JobQueueAssumption DEF TypeOK, Status, Present, Live, Terminal, Queued, Phase, Null, RowConsistent
<1>1. ASSUME NEW j \in Jobs, NEW k \in Keys \union {NoKey}, Enqueue(j, k) PROVE RowConsistent'
  BY <1>1 DEF Enqueue, runs, history
<1>2. ASSUME NEW k \in Keys, ClearFinished(k) PROVE RowConsistent'
  BY <1>2 DEF ClearFinished, Delete, FinishedWithKey, runs, history
<1>3. ASSUME NEW r \in Runs, NEW j \in Jobs, Claim(r, j) PROVE RowConsistent'
  BY <1>3 DEF Claim, FirstDue, Due, history
<1>4. ASSUME NEW r \in Runs, Complete(r) PROVE RowConsistent'
  BY <1>4 DEF Complete, WriteCompleted, EndRun, history
<1>5. ASSUME NEW r \in Runs, HandlerFails(r) PROVE RowConsistent'
  BY <1>5 DEF HandlerFails, table, history
<1>6. ASSUME NEW r \in Runs, CompleteReplyLost(r) PROVE RowConsistent'
  BY <1>6 DEF CompleteReplyLost, WriteCompleted
<1>7. ASSUME NEW r \in Runs, ReadAttempts(r) PROVE RowConsistent'
  BY <1>7 DEF ReadAttempts, EndRun, table, history
<1>8. ASSUME NEW r \in Runs, WriteFailed(r) PROVE RowConsistent'
  BY <1>8 DEF WriteFailed, PurgeDateAfterFailure, WillRetry, EndRun
<1>9. ASSUME NEW r \in Runs, LoseRun(r) PROVE RowConsistent'
  BY <1>9 DEF LoseRun, EndRun, table
<1>10. CASE Purge
  BY <1>10 DEF Purge, Delete, runs, history
<1>11. CASE Release
  BY <1>11 DEF Release, Stale, runs
<1>12. CASE Tick
  BY <1>12 DEF Tick, Countdown, Aged, runs, history
<1>13. CASE UNCHANGED vars
  BY <1>13 DEF vars, table, runs, history
<1>14. QED
  BY <1>1, <1>2, <1>3, <1>4, <1>5, <1>6, <1>7, <1>8, <1>9, <1>10, <1>11, <1>12, <1>13 DEF Next


\* Both readings of attempts are at most the present value.
LEMMA NextGivenUp == TypeOK /\ RunsWellFormed /\ GivenUpOnlyWhenExhausted /\ [Next]_vars => GivenUpOnlyWhenExhausted'
<1> SUFFICES ASSUME TypeOK, RunsWellFormed, GivenUpOnlyWhenExhausted, [Next]_vars PROVE GivenUpOnlyWhenExhausted'
  OBVIOUS
<1> USE JobQueueAssumption DEF TypeOK, Status, Present, Live, Terminal, Queued, Phase, Null, GivenUpOnlyWhenExhausted
<1>1. ASSUME NEW j \in Jobs, NEW k \in Keys \union {NoKey}, Enqueue(j, k) PROVE GivenUpOnlyWhenExhausted'
  BY <1>1 DEF Enqueue, runs, history
<1>2. ASSUME NEW k \in Keys, ClearFinished(k) PROVE GivenUpOnlyWhenExhausted'
  BY <1>2 DEF ClearFinished, Delete, FinishedWithKey, runs, history
<1>3. ASSUME NEW r \in Runs, NEW j \in Jobs, Claim(r, j) PROVE GivenUpOnlyWhenExhausted'
  BY <1>3 DEF Claim, FirstDue, Due, history
<1>4. ASSUME NEW r \in Runs, Complete(r) PROVE GivenUpOnlyWhenExhausted'
  BY <1>4 DEF Complete, WriteCompleted, EndRun, history
<1>5. ASSUME NEW r \in Runs, HandlerFails(r) PROVE GivenUpOnlyWhenExhausted'
  BY <1>5 DEF HandlerFails, table, history
<1>6. ASSUME NEW r \in Runs, CompleteReplyLost(r) PROVE GivenUpOnlyWhenExhausted'
  BY <1>6 DEF CompleteReplyLost, WriteCompleted
<1>7. ASSUME NEW r \in Runs, ReadAttempts(r) PROVE GivenUpOnlyWhenExhausted'
  BY <1>7 DEF ReadAttempts, EndRun, table, history
<1>8. ASSUME NEW r \in Runs, WriteFailed(r) PROVE GivenUpOnlyWhenExhausted'
  BY <1>8 DEF WriteFailed, PurgeDateAfterFailure, WillRetry, EndRun, RunsWellFormed
<1>9. ASSUME NEW r \in Runs, LoseRun(r) PROVE GivenUpOnlyWhenExhausted'
  BY <1>9 DEF LoseRun, EndRun, table
<1>10. CASE Purge
  BY <1>10 DEF Purge, Delete, runs, history
<1>11. CASE Release
  BY <1>11 DEF Release, Stale, runs
<1>12. CASE Tick
  BY <1>12 DEF Tick, Countdown, Aged, runs, history
<1>13. CASE UNCHANGED vars
  BY <1>13 DEF vars, table, runs, history
<1>14. QED
  BY <1>1, <1>2, <1>3, <1>4, <1>5, <1>6, <1>7, <1>8, <1>9, <1>10, <1>11, <1>12, <1>13 DEF Next


\* Rows are never un-inserted and attempts never fall.
LEMMA NextRunsWellFormed == TypeOK /\ AttemptsPaid /\ RunsWellFormed /\ [Next]_vars => RunsWellFormed'
<1> SUFFICES ASSUME TypeOK, AttemptsPaid, RunsWellFormed, [Next]_vars PROVE RunsWellFormed'
  OBVIOUS
<1> USE JobQueueAssumption DEF TypeOK, Status, Present, Live, Terminal, Queued, Phase, Null, RunsWellFormed
<1>1. ASSUME NEW j \in Jobs, NEW k \in Keys \union {NoKey}, Enqueue(j, k) PROVE RunsWellFormed'
  BY <1>1 DEF Enqueue, runs, history
<1>2. ASSUME NEW k \in Keys, ClearFinished(k) PROVE RunsWellFormed'
  BY <1>2 DEF ClearFinished, Delete, FinishedWithKey, runs, history
<1>3. ASSUME NEW r \in Runs, NEW j \in Jobs, Claim(r, j) PROVE RunsWellFormed'
  BY <1>3 DEF Claim, FirstDue, Due, history
<1>4. ASSUME NEW r \in Runs, Complete(r) PROVE RunsWellFormed'
  BY <1>4 DEF Complete, WriteCompleted, EndRun, history
<1>5. ASSUME NEW r \in Runs, HandlerFails(r) PROVE RunsWellFormed'
  BY <1>5 DEF HandlerFails, table, history
<1>6. ASSUME NEW r \in Runs, CompleteReplyLost(r) PROVE RunsWellFormed'
  BY <1>6 DEF CompleteReplyLost, WriteCompleted
<1>7. ASSUME NEW r \in Runs, ReadAttempts(r) PROVE RunsWellFormed'
  BY <1>7 DEF ReadAttempts, EndRun, table, history
<1>8. ASSUME NEW r \in Runs, WriteFailed(r) PROVE RunsWellFormed'
  BY <1>8 DEF WriteFailed, PurgeDateAfterFailure, WillRetry, EndRun
<1>9. ASSUME NEW r \in Runs, LoseRun(r) PROVE RunsWellFormed'
  BY <1>9 DEF LoseRun, EndRun, table
<1>10. CASE Purge
  BY <1>10 DEF Purge, Delete, runs, history
<1>11. CASE Release
  BY <1>11 DEF Release, Stale, runs
<1>12. CASE Tick
  BY <1>12 DEF Tick, Countdown, Aged, runs, history
<1>13. CASE UNCHANGED vars
  BY <1>13 DEF vars, table, runs, history
<1>14. QED
  BY <1>1, <1>2, <1>3, <1>4, <1>5, <1>6, <1>7, <1>8, <1>9, <1>10, <1>11, <1>12, <1>13 DEF Next


\* A claim takes a turn no run holds and none has used.
LEMMA NextTurnsDistinct == TypeOK /\ RunsWellFormed /\ AttemptsPaid /\ TurnsDistinct /\ [Next]_vars => TurnsDistinct'
<1> SUFFICES ASSUME TypeOK, RunsWellFormed, AttemptsPaid, TurnsDistinct, [Next]_vars PROVE TurnsDistinct'
  OBVIOUS
<1> USE JobQueueAssumption DEF TypeOK, Status, Present, Live, Terminal, Queued, Phase, Null, TurnsDistinct
<1>1. ASSUME NEW j \in Jobs, NEW k \in Keys \union {NoKey}, Enqueue(j, k) PROVE TurnsDistinct'
  BY <1>1 DEF Enqueue, runs, history
<1>2. ASSUME NEW k \in Keys, ClearFinished(k) PROVE TurnsDistinct'
  BY <1>2 DEF ClearFinished, Delete, FinishedWithKey, runs, history
<1>3. ASSUME NEW r \in Runs, NEW j \in Jobs, Claim(r, j) PROVE TurnsDistinct'
  BY <1>3 DEF Claim, FirstDue, Due, history, RunsWellFormed, AttemptsPaid
<1>4. ASSUME NEW r \in Runs, Complete(r) PROVE TurnsDistinct'
  BY <1>4 DEF Complete, WriteCompleted, EndRun, history
<1>5. ASSUME NEW r \in Runs, HandlerFails(r) PROVE TurnsDistinct'
  BY <1>5 DEF HandlerFails, table, history
<1>6. ASSUME NEW r \in Runs, CompleteReplyLost(r) PROVE TurnsDistinct'
  BY <1>6 DEF CompleteReplyLost, WriteCompleted
<1>7. ASSUME NEW r \in Runs, ReadAttempts(r) PROVE TurnsDistinct'
  BY <1>7 DEF ReadAttempts, EndRun, table, history
<1>8. ASSUME NEW r \in Runs, WriteFailed(r) PROVE TurnsDistinct'
  BY <1>8 DEF WriteFailed, PurgeDateAfterFailure, WillRetry, EndRun
<1>9. ASSUME NEW r \in Runs, LoseRun(r) PROVE TurnsDistinct'
  BY <1>9 DEF LoseRun, EndRun, table
<1>10. CASE Purge
  BY <1>10 DEF Purge, Delete, runs, history
<1>11. CASE Release
  BY <1>11 DEF Release, Stale, runs
<1>12. CASE Tick
  BY <1>12 DEF Tick, Countdown, Aged, runs, history
<1>13. CASE UNCHANGED vars
  BY <1>13 DEF vars, table, runs, history
<1>14. QED
  BY <1>1, <1>2, <1>3, <1>4, <1>5, <1>6, <1>7, <1>8, <1>9, <1>10, <1>11, <1>12, <1>13 DEF Next


\* A row is claimed only when queued, and before a stale release it is queued
\* only when no run is left on it.
LEMMA NextSoleOwner == TypeOK /\ RowConsistent /\ RunsWellFormed /\ SoleOwner /\ [Next]_vars => SoleOwner'
<1> SUFFICES ASSUME TypeOK, RowConsistent, RunsWellFormed, SoleOwner, [Next]_vars PROVE SoleOwner'
  OBVIOUS
<1> USE JobQueueAssumption DEF TypeOK, Status, Present, Live, Terminal, Queued, Phase, Null, SoleOwner, RunsWellFormed
<1>1. ASSUME NEW j \in Jobs, NEW k \in Keys \union {NoKey}, Enqueue(j, k) PROVE SoleOwner'
  BY <1>1 DEF Enqueue, runs, history
<1>2. ASSUME NEW k \in Keys, ClearFinished(k) PROVE SoleOwner'
  BY <1>2 DEF ClearFinished, Delete, FinishedWithKey, runs, history
<1>3. ASSUME NEW r \in Runs, NEW j \in Jobs, Claim(r, j) PROVE SoleOwner'
  BY <1>3 DEF Claim, FirstDue, Due, history
<1>4. ASSUME NEW r \in Runs, Complete(r) PROVE SoleOwner'
  BY <1>4 DEF Complete, WriteCompleted, EndRun, history
<1>5. ASSUME NEW r \in Runs, HandlerFails(r) PROVE SoleOwner'
  BY <1>5 DEF HandlerFails, table, history
<1>6. ASSUME NEW r \in Runs, CompleteReplyLost(r) PROVE SoleOwner'
  BY <1>6 DEF CompleteReplyLost, WriteCompleted
<1>7. ASSUME NEW r \in Runs, ReadAttempts(r) PROVE SoleOwner'
  BY <1>7 DEF ReadAttempts, EndRun, table, history
<1>8. ASSUME NEW r \in Runs, WriteFailed(r) PROVE SoleOwner'
  BY <1>8 DEF WriteFailed, PurgeDateAfterFailure, WillRetry, EndRun
<1>9. ASSUME NEW r \in Runs, LoseRun(r) PROVE SoleOwner'
  BY <1>9 DEF LoseRun, EndRun, table
<1>10. CASE Purge
  BY <1>10 DEF Purge, Delete, RowConsistent, runs, history
<1>11. CASE Release
  BY <1>11 DEF Release, Stale, runs
<1>12. CASE Tick
  BY <1>12 DEF Tick, Countdown, Aged, runs, history
<1>13. CASE UNCHANGED vars
  BY <1>13 DEF vars, table, runs, history
<1>14. QED
  BY <1>1, <1>2, <1>3, <1>4, <1>5, <1>6, <1>7, <1>8, <1>9, <1>10, <1>11, <1>12, <1>13 DEF Next

\* The turns that retried are finitely many, and a new one counts.
LEMMA RetriedCount ==
  ASSUME TypeOK, AttemptsPaid, NEW j \in Jobs
  PROVE  /\ Cardinality(retried[j]) \in Nat
         /\ Cardinality(retried[j]) <= MaxAttempts - 1
         /\ \A n : n \notin retried[j] =>
              Cardinality(retried[j] \union {n}) = Cardinality(retried[j]) + 1
<1> USE JobQueueAssumption
<1>1. /\ IsFiniteSet(1..(MaxAttempts - 1))
      /\ Cardinality(1..(MaxAttempts - 1)) = MaxAttempts - 1
  BY FS_Interval
<1>2. retried[j] \subseteq 1..(MaxAttempts - 1)
  BY DEF AttemptsPaid
<1>3. /\ IsFiniteSet(retried[j])
      /\ Cardinality(retried[j]) <= MaxAttempts - 1
  BY <1>1, <1>2, FS_Subset
<1>4. QED
  BY <1>3, FS_CardinalityType, FS_AddElement


\* A claim spends what the row's being queued is worth; a stale release and the
\* failure of a turn below MaxAttempts each pay for the next claim.
LEMMA NextAttemptsPaid == TypeOK /\ RowConsistent /\ RunsWellFormed /\ TurnsDistinct /\ AttemptsPaid /\ [Next]_vars => AttemptsPaid'
<1> SUFFICES ASSUME TypeOK, RowConsistent, RunsWellFormed, TurnsDistinct, AttemptsPaid, [Next]_vars PROVE AttemptsPaid'
  OBVIOUS
<1> USE JobQueueAssumption DEF TypeOK, Status, Present, Live, Terminal, Queued, Phase, Null, AttemptsPaid, Waiting
<1>1. ASSUME NEW j \in Jobs, NEW k \in Keys \union {NoKey}, Enqueue(j, k) PROVE AttemptsPaid'
  <2>1. retried'[j] = retried[j] /\ status'[j] = "waiting" /\ attempts'[j] = 0
    BY <1>1 DEF Enqueue, history
  <2>2. QED
    BY <1>1, <2>1, RetriedCount DEF Enqueue, runs, history
<1>2. ASSUME NEW k \in Keys, ClearFinished(k) PROVE AttemptsPaid'
  BY <1>2 DEF ClearFinished, Delete, FinishedWithKey, runs, history
<1>3. ASSUME NEW r \in Runs, NEW j \in Jobs, Claim(r, j) PROVE AttemptsPaid'
  BY <1>3, RetriedCount DEF Claim, FirstDue, Due, history
<1>4. ASSUME NEW r \in Runs, Complete(r) PROVE AttemptsPaid'
  BY <1>4, RetriedCount DEF Complete, WriteCompleted, history
<1>5. ASSUME NEW r \in Runs, HandlerFails(r) PROVE AttemptsPaid'
  BY <1>5 DEF HandlerFails, table, history
<1>6. ASSUME NEW r \in Runs, CompleteReplyLost(r) PROVE AttemptsPaid'
  BY <1>6, RetriedCount DEF CompleteReplyLost, WriteCompleted
<1>7. ASSUME NEW r \in Runs, ReadAttempts(r) PROVE AttemptsPaid'
  BY <1>7 DEF ReadAttempts, EndRun, table, history
<1>8. ASSUME NEW r \in Runs, WriteFailed(r) PROVE AttemptsPaid'
  <2>. DEFINE j == job[r]
  <2>1. j \in Jobs /\ turn[r] \in 1..attempts[j] /\ turn[r] \notin retried[j]
    BY <1>8 DEF WriteFailed, RunsWellFormed, TurnsDistinct
  <2>2. CASE WillRetry(r) /\ status[j] \in Present
    <3>1. retried' = [retried EXCEPT ![j] = retried[j] \union {turn[r]}] /\ turn[r] \in 1..(MaxAttempts - 1)
      BY <1>8, <2>1, <2>2 DEF WriteFailed, PurgeDateAfterFailure, WillRetry
    <3>2. Cardinality(retried'[j]) = Cardinality(retried[j]) + 1
      BY <2>1, <3>1, RetriedCount
    <3>3. QED
      BY <1>8, <2>1, <2>2, <3>1, <3>2, RetriedCount DEF WriteFailed, PurgeDateAfterFailure, WillRetry
  <2>3. CASE ~ WillRetry(r) \/ status[j] \notin Present
    BY <1>8, <2>1, <2>3, RetriedCount DEF WriteFailed, PurgeDateAfterFailure, WillRetry
  <2>4. QED
    BY <2>2, <2>3
<1>9. ASSUME NEW r \in Runs, LoseRun(r) PROVE AttemptsPaid'
  BY <1>9 DEF LoseRun, EndRun, table
<1>10. CASE Purge
  BY <1>10 DEF Purge, Delete, RowConsistent, runs, history
<1>11. CASE Release
  <2>1. ASSUME NEW i \in Jobs
        PROVE  /\ retried'[i] = retried[i]
               /\ attempts'[i] = attempts[i]
               /\ \/ status'[i] = status[i] /\ releases'[i] = releases[i]
                  \/ /\ status[i] = "active" /\ status'[i] = "waiting"
                     /\ releases'[i] = releases[i] + 1
    BY <1>11 DEF Release, Stale
  <2>2. QED
    BY <2>1, RetriedCount
<1>12. CASE Tick
  BY <1>12 DEF Tick, Countdown, Aged, runs, history
<1>13. CASE UNCHANGED vars
  BY <1>13 DEF vars, table, runs, history
<1>14. QED
  BY <1>1, <1>2, <1>3, <1>4, <1>5, <1>6, <1>7, <1>8, <1>9, <1>10, <1>11, <1>12, <1>13 DEF Next

-----------------------------------------------------------------------------
(* The inductive invariant and what follows from it *)

\* The inductive invariant holds in every reachable state.
THEOREM Inductive == Spec => []IInv
<1>1. Init => IInv
  <2> SUFFICES ASSUME Init PROVE IInv
    OBVIOUS
  <2>1. TypeOK
    BY InitType
  <2>2. RowConsistent /\ GivenUpOnlyWhenExhausted
    BY DEF Init, RowConsistent, GivenUpOnlyWhenExhausted, Null, Terminal
  <2>3. RunsWellFormed /\ TurnsDistinct /\ SoleOwner
    BY DEF Init, RunsWellFormed, TurnsDistinct, SoleOwner
  <2>4. AttemptsPaid
    BY JobQueueAssumption DEF Init, AttemptsPaid
  <2>5. QED
    BY <2>1, <2>2, <2>3, <2>4 DEF IInv
<1>2. IInv /\ [Next]_vars => IInv'
  BY NextType, NextRowConsistent, NextGivenUp, NextRunsWellFormed, NextTurnsDistinct,
     NextAttemptsPaid, NextSoleOwner DEF IInv
<1>3. QED
  BY <1>1, <1>2, PTL DEF Spec

\* Purge date and lock agree with the status of every row.
THEOREM RowsStayConsistent == Spec => []RowConsistent
  BY Inductive, PTL DEF IInv

\* No job is given up before its last attempt.
THEOREM NeverGivenUpEarly == Spec => []GivenUpOnlyWhenExhausted
  BY Inductive, PTL DEF IInv

\* The number of attempts is bounded by MaxAttempts and the stale releases.
THEOREM AttemptsStayBounded == Spec => []AttemptsBounded
<1>1. IInv => AttemptsBounded
  <2> SUFFICES ASSUME IInv, NEW j \in Jobs PROVE attempts[j] <= MaxAttempts + releases[j]
    BY DEF AttemptsBounded
  <2>1. TypeOK /\ AttemptsPaid
    BY DEF IInv
  <2>2. Cardinality(retried[j]) \in Nat /\ Cardinality(retried[j]) <= MaxAttempts - 1
    BY <2>1, RetriedCount
  <2>3. attempts[j] \in Nat /\ releases[j] \in Nat /\ MaxAttempts \in Nat \ {0}
    BY <2>1, JobQueueAssumption DEF TypeOK
  <2>4. CASE status[j] = "none"
    BY <2>1, <2>3, <2>4 DEF AttemptsPaid
  <2>5. CASE status[j] # "none"
    BY <2>1, <2>2, <2>3, <2>5 DEF AttemptsPaid, Waiting
  <2>6. QED
    BY <2>4, <2>5
<1>2. QED
  BY <1>1, Inductive, PTL

\* Runs of one row overlap only after a stale release of its lock.
THEOREM NoEarlyOverlap == Spec => []NoOverlapBeforeStaleRelease
<1>1. IInv => NoOverlapBeforeStaleRelease
  BY JobQueueAssumption DEF IInv, TypeOK, SoleOwner, NoOverlapBeforeStaleRelease
<1>2. QED
  BY <1>1, Inductive, PTL

\* Neither the purge nor a producer deletes a row that is still to be worked on.
THEOREM NoLiveRowIsLost == Spec => LiveRowsSurvive
<1>1. IInv /\ [Next]_vars =>
        [\A j \in Jobs : status[j] \in Live => status'[j] # "gone"]_vars
  <2> SUFFICES ASSUME IInv, Next, NEW j \in Jobs, status[j] \in Live PROVE status'[j] # "gone"
    BY DEF vars
  <2> USE DEF Live, Queued, Terminal, Present
  <2>1. TypeOK /\ RowConsistent
    BY DEF IInv
  <2>2. CASE Purge
    BY <2>1, <2>2 DEF Purge, Delete, RowConsistent, Null
  <2>3. ASSUME NEW k \in Keys, ClearFinished(k) PROVE status'[j] # "gone"
    BY <2>1, <2>3 DEF ClearFinished, Delete, FinishedWithKey
  <2>4. CASE Release
    BY <2>1, <2>4 DEF Release
  <2>5. CASE Tick
    BY <2>1, <2>5 DEF Tick
  <2>6. ASSUME NEW i \in Jobs, NEW k \in Keys \union {NoKey}, Enqueue(i, k)
        PROVE  status'[j] # "gone"
    BY <2>1, <2>6 DEF Enqueue, TypeOK
  <2>7. ASSUME NEW r \in Runs, NEW i \in Jobs, Claim(r, i) PROVE status'[j] # "gone"
    BY <2>1, <2>7 DEF Claim, TypeOK
  <2>8. ASSUME NEW r \in Runs,
               Complete(r) \/ HandlerFails(r) \/ CompleteReplyLost(r)
                 \/ ReadAttempts(r) \/ WriteFailed(r) \/ LoseRun(r)
        PROVE  status'[j] # "gone"
    BY <2>1, <2>8 DEF Complete, HandlerFails, CompleteReplyLost, ReadAttempts, WriteFailed,
                      LoseRun, WriteCompleted, table, TypeOK
  <2>9. QED
    BY <2>2, <2>3, <2>4, <2>5, <2>6, <2>7, <2>8 DEF Next
<1>2. QED
  BY <1>1, Inductive, PTL DEF Spec, LiveRowsSurvive

\* A finished job comes back only after a stale release or a lost reply.
THEOREM FinishedJobsStay == Spec => FinishedStaysFinished
<1>1. IInv /\ [Next]_vars =>
        [\A j \in Jobs : status[j] \in Terminal /\ status'[j] \in Live
                           => releases[j] > 0 \/ j \in unsure]_vars
  <2> SUFFICES ASSUME IInv, Next, NEW j \in Jobs,
                      status[j] \in Terminal, status'[j] \in Live
               PROVE  releases[j] > 0 \/ j \in unsure
    BY DEF vars
  <2> USE DEF Live, Queued, Terminal, Present
  <2>1. TypeOK /\ SoleOwner
    BY DEF IInv
  <2>2. ASSUME NEW r \in Runs, WriteFailed(r) PROVE releases[j] > 0 \/ j \in unsure
    <3>1. job[r] = j /\ pc[r] # "idle"
      BY <2>1, <2>2 DEF WriteFailed, TypeOK
    <3>2. releases[j] = 0 => j \in unsure
      BY <2>1, <3>1 DEF SoleOwner
    <3>3. QED
      BY <2>1, <3>2 DEF TypeOK
  <2>3. ASSUME NEW i \in Jobs, NEW k \in Keys \union {NoKey}, Enqueue(i, k) PROVE FALSE
    BY <2>1, <2>3 DEF Enqueue, TypeOK
  <2>4. ASSUME NEW k \in Keys, ClearFinished(k) PROVE FALSE
    BY <2>1, <2>4 DEF ClearFinished, Delete
  <2>5. ASSUME NEW r \in Runs, NEW i \in Jobs, Claim(r, i) PROVE FALSE
    BY <2>1, <2>5 DEF Claim, FirstDue, Due, TypeOK
  <2>6. ASSUME NEW r \in Runs,
               Complete(r) \/ HandlerFails(r) \/ CompleteReplyLost(r) \/ ReadAttempts(r) \/ LoseRun(r)
        PROVE  FALSE
    BY <2>1, <2>6 DEF Complete, HandlerFails, CompleteReplyLost, ReadAttempts, LoseRun,
                      WriteCompleted, table, TypeOK
  <2>7. ASSUME Purge \/ Release \/ Tick PROVE FALSE
    BY <2>1, <2>7 DEF Purge, Delete, Release, Stale, Tick
  <2>8. QED
    BY <2>2, <2>3, <2>4, <2>5, <2>6, <2>7 DEF Next
<1>2. QED
  BY <1>1, Inductive, PTL DEF Spec, FinishedStaysFinished

-----------------------------------------------------------------------------
(* JobQueue implements JobDelivery *)

\* The phases the table is mapped to.
phases == [j \in Jobs |-> PhaseOf(j)]

\* One row's change of phase is a change of the phase function at that row.
LEMMA PhaseStep ==
  ASSUME NEW j \in Jobs, NEW p,
         \A i \in Jobs : i # j => status'[i] = status[i],
         PhaseOf(j)' = p
  PROVE  phases' = [phases EXCEPT ![j] = p]
  BY DEF phases, PhaseOf

\* A row that keeps its phase, as all others keep their status.
LEMMA PhaseStays ==
  ASSUME \A i \in Jobs : PhaseOf(i)' = PhaseOf(i)
  PROVE  phases' = phases
  BY DEF phases

\* The empty table is where JobDelivery starts.
LEMMA RefinesInit == Init => Delivery!DInit
  BY DEF Init, Delivery!DInit, PhaseOf

\* Every step of the queue is a step of JobDelivery or leaves it unchanged.
LEMMA RefinesNext == IInv /\ [Next]_vars => [Delivery!DNext]_(Delivery!dvars)
<1> SUFFICES ASSUME IInv, [Next]_vars PROVE [Delivery!DNext]_(Delivery!dvars)
  OBVIOUS
<1> DEFINE Stutter == phases' = phases /\ UNCHANGED <<attempts, releases, unsure>>
<1> USE DEF Live, Queued, Terminal, Present, Status
<1>t. TypeOK /\ RunsWellFormed /\ AttemptsPaid /\ SoleOwner /\ RowConsistent
  BY DEF IInv
<1>p. \A j \in Jobs : /\ PhaseOf(j) = "new" <=> status[j] = "none"
                      /\ PhaseOf(j) = "pending" <=> status[j] \in Live
                      /\ PhaseOf(j) = "settled" <=> status[j] \in Terminal
                      /\ PhaseOf(j) = "forgotten" <=> status[j] = "gone"
  BY <1>t DEF PhaseOf, TypeOK
<1>s. Stutter => UNCHANGED Delivery!dvars
  BY DEF Delivery!dvars, phases
<1>1. ASSUME NEW j \in Jobs, NEW k \in Keys \union {NoKey}, Enqueue(j, k)
      PROVE  Delivery!Submit(j)
  <2>1. phases' = [phases EXCEPT ![j] = "pending"]
    <3>1. PhaseOf(j)' = "pending"
      BY <1>1, <1>t DEF Enqueue, PhaseOf, TypeOK
    <3>2. QED
      BY <1>1, <1>t, <3>1, PhaseStep DEF Enqueue, TypeOK
  <2>2. QED
    BY <1>1, <1>p, <2>1 DEF Enqueue, history, Delivery!Submit, phases
<1>2. ASSUME NEW S, Delete(S), S \subseteq Jobs, \A j \in S : status[j] \in Terminal
      PROVE  Delivery!Forget(S)
  <2>1. phases' = [j \in Jobs |-> IF j \in S THEN "forgotten" ELSE phases[j]]
    BY <1>2 DEF Delete, PhaseOf, phases
  <2>2. QED
    BY <1>2, <1>p, <2>1 DEF Delete, history, Delivery!Forget, phases
<1>3. ASSUME NEW r \in Runs, NEW j \in Jobs, Claim(r, j) PROVE Delivery!Try(j)
  <2>1. status[j] \in Queued
    BY <1>3 DEF Claim, FirstDue, Due
  <2>2. phases' = phases
    <3>1. \A i \in Jobs : PhaseOf(i)' = PhaseOf(i)
      BY <1>3, <1>t, <2>1 DEF Claim, PhaseOf, TypeOK
    <3>2. QED
      BY <3>1, PhaseStays
  <2>3. attempts[j] < MaxAttempts + releases[j]
    <3>1. attempts[j] + 1 <= 1 + releases[j] + Cardinality(retried[j])
      BY <1>t, <2>1 DEF AttemptsPaid, Waiting
    <3>2. Cardinality(retried[j]) \in Nat /\ Cardinality(retried[j]) <= MaxAttempts - 1
      BY <1>t, RetriedCount
    <3>3. attempts[j] \in Nat /\ releases[j] \in Nat /\ MaxAttempts \in Nat
      BY <1>t, JobQueueAssumption DEF TypeOK
    <3>4. QED
      BY <3>1, <3>2, <3>3
  <2>4. QED
    BY <1>3, <1>p, <2>1, <2>2, <2>3 DEF Claim, history, Delivery!Try, phases
<1>4. ASSUME NEW r \in Runs, pc[r] # "idle"
      PROVE  job[r] \in Jobs /\ status[job[r]] # "none" /\ attempts[job[r]] > 0
  BY <1>4, <1>t DEF TypeOK, RunsWellFormed
<1>5. ASSUME NEW j \in Jobs, WriteCompleted(j), status[j] \in Present
      PROVE  phases' = [phases EXCEPT ![j] = "settled"] /\ phases[j] \in {"pending", "settled"}
  <2>1. PhaseOf(j)' = "settled" /\ \A i \in Jobs : i # j => status'[i] = status[i]
    BY <1>5, <1>t DEF WriteCompleted, PhaseOf, TypeOK
  <2>2. phases[j] \in {"pending", "settled"}
    BY <1>5, <1>p DEF phases
  <2>3. QED
    BY <2>1, <2>2, PhaseStep
<1>6. ASSUME NEW r \in Runs, Complete(r) PROVE Delivery!Settle(job[r], TRUE) \/ Stutter
  <2>1. CASE status[job[r]] \in Present
    BY <1>6, <1>4, <1>5, <2>1 DEF Complete, history, Delivery!Settle, phases
  <2>2. CASE status[job[r]] \notin Present
    BY <1>6, <2>2, PhaseStays DEF Complete, WriteCompleted, history, PhaseOf
  <2>3. QED
    BY <2>1, <2>2
<1>7. ASSUME NEW r \in Runs, CompleteReplyLost(r)
      PROVE  Delivery!Settle(job[r], FALSE) \/ Delivery!Unacknowledged(job[r])
  <2>1. CASE status[job[r]] \in Present
    BY <1>7, <1>4, <1>5, <2>1 DEF CompleteReplyLost, Delivery!Settle, phases
  <2>2. CASE status[job[r]] \notin Present
    <3>1. phases' = phases
      BY <1>7, <2>2, PhaseStays DEF CompleteReplyLost, WriteCompleted, PhaseOf
    <3>2. job[r] \in Jobs /\ status[job[r]] = "gone"
      BY <1>7, <1>4, <1>t, <2>2 DEF CompleteReplyLost, TypeOK
    <3>3. QED
      BY <1>7, <1>p, <3>1, <3>2 DEF CompleteReplyLost, Delivery!Unacknowledged, phases
  <2>3. QED
    BY <2>1, <2>2
<1>8. ASSUME NEW r \in Runs, WriteFailed(r)
      PROVE  Delivery!Settle(job[r], TRUE) \/ Delivery!Reopen(job[r]) \/ Stutter
  <2>1. PICK j \in Jobs : j = job[r] /\ status[j] # "none" /\ attempts[j] > 0
    BY <1>8, <1>4 DEF WriteFailed
  <2>2. UNCHANGED <<attempts, releases, unsure>>
    BY <1>8 DEF WriteFailed
  <2>3. CASE status[j] \in Present /\ ~ WillRetry(r)
    <3>1. PhaseOf(j)' = "settled" /\ \A i \in Jobs : i # j => status'[i] = status[i]
      BY <1>8, <1>t, <2>1, <2>3 DEF WriteFailed, PhaseOf, TypeOK
    <3>2. phases[j] \in {"pending", "settled"}
      BY <1>p, <2>3 DEF phases
    <3>3. phases' = [phases EXCEPT ![j] = "settled"]
      BY <3>1, PhaseStep
    <3>4. QED
      BY <2>1, <2>2, <3>2, <3>3 DEF Delivery!Settle, phases
  <2>4. CASE status[j] \in Terminal /\ WillRetry(r)
    <3>1. PhaseOf(j)' = "pending" /\ \A i \in Jobs : i # j => status'[i] = status[i]
      BY <1>8, <1>t, <2>1, <2>4 DEF WriteFailed, PhaseOf, TypeOK
    <3>2. phases[j] = "settled"
      BY <1>p, <2>4 DEF phases
    <3>3. phases' = [phases EXCEPT ![j] = "pending"]
      BY <3>1, PhaseStep
    <3>4. releases[j] = 0 => j \in unsure
      BY <1>8, <1>t, <2>1, <2>4 DEF WriteFailed, SoleOwner
    <3>5. releases[j] > 0 \/ j \in unsure
      BY <1>t, <3>4 DEF TypeOK
    <3>6. QED
      BY <2>1, <2>2, <3>2, <3>3, <3>5 DEF Delivery!Reopen, phases
  <2>5. CASE status[j] \in Live /\ WillRetry(r)
    <3>1. \A i \in Jobs : PhaseOf(i)' = PhaseOf(i)
      BY <1>8, <1>t, <2>1, <2>5 DEF WriteFailed, PhaseOf, TypeOK
    <3>2. QED
      BY <2>2, <3>1, PhaseStays
  <2>6. CASE status[j] \notin Present
    BY <1>8, <2>1, <2>2, <2>6, PhaseStays DEF WriteFailed, PhaseOf
  <2>7. QED
    BY <2>3, <2>4, <2>5, <2>6
<1>9. ASSUME NEW r \in Runs, HandlerFails(r) \/ ReadAttempts(r) \/ LoseRun(r) PROVE Stutter
  BY <1>9 DEF HandlerFails, ReadAttempts, LoseRun, table, history, phases, PhaseOf
<1>10. CASE Release
  <2>1. phases' = phases
    <3>1. \A i \in Jobs : PhaseOf(i)' = PhaseOf(i)
      BY <1>10 DEF Release, Stale, PhaseOf
    <3>2. QED
      BY <3>1, PhaseStays
  <2>2. \A j \in Stale : phases[j] = "pending" /\ attempts[j] > 0
    BY <1>p, <1>t DEF Stale, phases, AttemptsPaid
  <2>3. Delivery!TakeLeases(Stale)
    BY <1>10, <2>1, <2>2 DEF Release, Delivery!TakeLeases, phases
  <2>4. QED
    BY <2>3 DEF Delivery!DNext, Stale
<1>11. CASE Tick
  BY <1>11, <1>s DEF Tick, history, phases, PhaseOf
<1>12. CASE UNCHANGED vars
  BY <1>12, <1>s DEF vars, table, history, phases, PhaseOf
<1>13. ASSUME NEW k \in Keys, ClearFinished(k) PROVE Delivery!Forget(FinishedWithKey(k))
  BY <1>13, <1>2 DEF ClearFinished, FinishedWithKey
<1>14. CASE Purge
  <2>1. PICK S \in SUBSET {j \in Jobs : purgeIn[j] = 0} : Delete(S)
    BY <1>14 DEF Purge
  <2>2. \A j \in S : status[j] \in Terminal
    BY <1>t, <2>1 DEF RowConsistent, Null
  <2>3. Delivery!Forget(S) /\ S \in SUBSET Jobs
    BY <1>2, <2>1, <2>2
  <2>4. QED
    BY <2>3 DEF Delivery!DNext
<1>15. ASSUME NEW r \in Runs, Complete(r) \/ CompleteReplyLost(r) \/ WriteFailed(r)
       PROVE  job[r] \in Jobs
  BY <1>15, <1>4 DEF Complete, CompleteReplyLost, WriteFailed
<1>16. \A k \in Keys : FinishedWithKey(k) \in SUBSET Jobs
  BY DEF FinishedWithKey
<1>17. QED
  BY <1>s, <1>1, <1>3, <1>6, <1>7, <1>8, <1>9, <1>10, <1>11, <1>12, <1>13, <1>14, <1>15, <1>16
     DEF Next, Delivery!DNext

\* The queue implements the at-least-once service of JobDelivery.
THEOREM Refinement == Spec => ImplementsDelivery
  BY RefinesInit, RefinesNext, Inductive, PTL DEF Spec, ImplementsDelivery, Delivery!DSpec

=============================================================================
