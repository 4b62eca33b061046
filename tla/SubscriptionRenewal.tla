------------------------ MODULE SubscriptionRenewal ------------------------
(***************************************************************************)
(* Realm subscriptions and the worker that renews them: the rows of        *)
(* subscriptions (packages/db/src/subscription-repos.ts), the ledger of    *)
(* platform_subscription_payments, the renewal                             *)
(* (packages/db/src/subscription-billing-repos.ts), the scan and charge    *)
(* jobs (apps/worker/src/subscription-billing-worker.ts) and the           *)
(* subscriber's requests (apps/api/src/routes/*-subscription*.ts).         *)
(*                                                                         *)
(* No database transaction spans two statements here, so a request or a    *)
(* charge run is a process that takes one statement per step.  Requests    *)
(* and runs overlap freely; a charge job is delivered at least once, as    *)
(* JobDelivery promises.                                                   *)
(*                                                                         *)
(* Time counts billing periods (addMonthsUtc(t, 1) is t + 1).              *)
(***************************************************************************)
EXTENDS Integers, FiniteSets

CONSTANTS
  Subs,        \* subscription row ids
  NoSub,       \* what an idle run or request works on
  Subjects, SubjectOf,  \* SubjectOf[s]: the realm or member the row bills
  Plans, NoPlan,        \* catalog tiers; pending_plan_id IS NULL
  TrialOf,     \* TrialOf[p]: the plan's trial_days, in periods rounded up
  Runs,        \* overlapping runs of handleRenewalCharge
  Requests,    \* overlapping subscriber requests
  Managed,     \* bound: the rows whose subscriber asks for anything after them
  Local,       \* TRUE: SQL queue, FALSE: BullMQ
  Horizon,     \* bound of the clock
  MaxFaults    \* bound: crashes and redeliveries

ASSUME SubscriptionAssumption ==
  /\ NoSub \notin Subs
  /\ SubjectOf \in [Subs -> Subjects]
  /\ NoPlan \notin Plans
  /\ TrialOf \in [Plans -> Nat]
  /\ IsFiniteSet(Runs)
  /\ Managed \subseteq Subs
  /\ Local \in BOOLEAN
  /\ Horizon \in Nat
  /\ MaxFaults \in Nat

VARIABLES
  now,
  \* the rows of subscriptions
  status,        \* "none" before the insert
  plan,          \* plan_id
  pending,       \* pending_plan_id
  started,       \* started_at
  periodEnd,     \* current_period_end; current_period_start is one less
  trialEnd,      \* trial_ends_at, started_at when there is no trial
  effectiveEnd,  \* effective_end_at, Null when not canceled
  ledger,        \* ledger[s]: period_start_utc of the payment rows of s
  \* the queue: charge jobs <<s, p>> as subscriptionRenewalJobId names them
  listed,        \* due subscriptions the scan has still to put on the queue
  queued,        \* waiting to be run
  kept,          \* finished, their ids not yet free
  \* charge runs
  pc, job, readEnd,
  \* subscriber requests
  step, target, seenEnd,
  \* history, read by no guard but those of the bound MaxFaults
  again,         \* again[s]: how often a charge job of s was delivered again
  cancelEnd,     \* current_period_end when the row was first canceled
  faults

rows     == <<status, plan, pending, started, periodEnd, trialEnd, effectiveEnd, ledger>>
queue    == <<listed, queued, kept>>
charges  == <<pc, job, readEnd>>
requests == <<step, target, seenEnd>>
history  == <<again, cancelEnd, faults>>
vars     == <<now, rows, queue, charges, requests, history>>

Null       == -1
ActiveLike == {"active", "canceling"}
Ended      == {"canceling", "canceled"}
ChargeJobs == Subs \X Nat

TypeOK ==
  /\ now          \in Nat
  /\ status       \in [Subs -> {"none", "active", "canceling", "canceled"}]
  /\ plan         \in [Subs -> Plans \union {NoPlan}]
  /\ pending      \in [Subs -> Plans \union {NoPlan}]
  /\ started      \in [Subs -> Nat]
  /\ periodEnd    \in [Subs -> Nat]
  /\ trialEnd     \in [Subs -> Nat]
  /\ effectiveEnd \in [Subs -> Nat \union {Null}]
  /\ ledger       \in [Subs -> SUBSET Nat]
  /\ listed \subseteq ChargeJobs
  /\ queued \subseteq ChargeJobs
  /\ kept   \subseteq ChargeJobs
  /\ pc           \in [Runs -> {"idle", "insert", "advance"}]
  /\ job          \in [Runs -> ChargeJobs \union {<<NoSub, 0>>}]
  /\ \A w \in Runs : pc[w] # "idle" => job[w] \in ChargeJobs
  /\ readEnd      \in [Runs -> Nat]
  /\ step         \in [Requests -> {"idle", "subscribe", "charge", "cancel", "schedule"}]
  /\ target       \in [Requests -> Subs \union {NoSub}]
  /\ \A q \in Requests : step[q] # "idle" => target[q] \in Subs
  /\ seenEnd      \in [Requests -> Nat]
  /\ again        \in [Subs -> Nat]
  /\ cancelEnd    \in [Subs -> Nat \union {Null}]
  /\ faults       \in Nat

Init ==
  /\ now          = 0
  /\ status       = [s \in Subs |-> "none"]
  /\ plan         = [s \in Subs |-> NoPlan]
  /\ pending      = [s \in Subs |-> NoPlan]
  /\ started      = [s \in Subs |-> 0]
  /\ periodEnd    = [s \in Subs |-> 0]
  /\ trialEnd     = [s \in Subs |-> 0]
  /\ effectiveEnd = [s \in Subs |-> Null]
  /\ ledger       = [s \in Subs |-> {}]
  /\ listed = {}
  /\ queued = {}
  /\ kept   = {}
  /\ pc        = [w \in Runs |-> "idle"]
  /\ job       = [w \in Runs |-> <<NoSub, 0>>]
  /\ readEnd   = [w \in Runs |-> 0]
  /\ step      = [q \in Requests |-> "idle"]
  /\ target    = [q \in Requests |-> NoSub]
  /\ seenEnd   = [q \in Requests |-> 0]
  /\ again     = [s \in Subs |-> 0]
  /\ cancelEnd = [s \in Subs |-> Null]
  /\ faults    = 0

-----------------------------------------------------------------------------
(* The subscriber's requests *)

Goto(q, at, s, end) ==
  /\ step'    = [step EXCEPT ![q] = at]
  /\ target'  = [target EXCEPT ![q] = s]
  /\ seenEnd' = [seenEnd EXCEPT ![q] = end]

Done(q) == Goto(q, "idle", NoSub, 0)

\* The new row id s is this request's own: randomUUID().
Fresh(s) ==
  /\ status[s] = "none"
  /\ \A q \in Requests : target[q] # s

\* POST .../subscription: the subject has no active or canceling row.
FindNone(q, s) ==
  /\ step[q] = "idle"
  /\ Fresh(s)
  /\ \A t \in Subs : SubjectOf[t] = SubjectOf[s] => status[t] \notin ActiveLike
  /\ Goto(q, "subscribe", s, 0)
  /\ UNCHANGED <<now, rows, queue, charges, history>>

\* insertSubscriptionWithFirstPayment, the row.  With a trial there is no
\* first payment.
InsertSubscription(q, p) ==
  LET s == target[q] IN
  /\ step[q] = "subscribe"
  /\ status'    = [status EXCEPT ![s] = "active"]
  /\ plan'      = [plan EXCEPT ![s] = p]
  /\ started'   = [started EXCEPT ![s] = now]
  /\ periodEnd' = [periodEnd EXCEPT ![s] = now + 1]
  /\ trialEnd'  = [trialEnd EXCEPT ![s] = now + TrialOf[p]]
  /\ IF TrialOf[p] = 0 THEN Goto(q, "charge", s, 0) ELSE Done(q)
  /\ UNCHANGED <<now, pending, effectiveEnd, ledger, queue, charges, history>>

\* insertSubscriptionWithFirstPayment, the payment for the first period.
InsertFirstPayment(q) ==
  LET s == target[q] IN
  /\ step[q] = "charge"
  /\ ledger' = [ledger EXCEPT ![s] = @ \union {started[s]}]
  /\ Done(q)
  /\ UNCHANGED <<now, status, plan, pending, started, periodEnd, trialEnd,
                 effectiveEnd, queue, charges, history>>

\* POST .../subscription/cancel and .../schedule-plan-change up to the last
\* read of the row: the route's query for an active or canceling row and the
\* repository's check of its status agree on what they let pass.
ReadRow(q, s, for) ==
  /\ step[q] = "idle"
  /\ s \in Managed
  /\ status[s] \in ActiveLike
  /\ for = "schedule" => Plans # {plan[s]}
  /\ Goto(q, for, s, IF for = "cancel" THEN periodEnd[s] ELSE 0)
  /\ UNCHANGED <<now, rows, queue, charges, history>>

\* cancelSubscriptionForTenant, its UPDATE by id.  cancel_at_period_end is
\* true exactly in status "canceling".
WriteCancel(q, effective) ==
  LET s == target[q] IN
  /\ step[q] = "cancel"
  /\ status' = [status EXCEPT ![s] = IF effective = "immediate" THEN "canceled" ELSE "canceling"]
  /\ effectiveEnd' = [effectiveEnd EXCEPT ![s] = IF effective = "immediate" THEN now ELSE seenEnd[q]]
  /\ pending' = [pending EXCEPT ![s] = NoPlan]
  /\ cancelEnd' = [cancelEnd EXCEPT ![s] = IF @ = Null THEN periodEnd[s] ELSE @]
  /\ Done(q)
  /\ UNCHANGED <<now, plan, started, periodEnd, trialEnd, ledger, queue, charges,
                 again, faults>>

\* scheduleSubscriptionPlanChangeForTenant, its UPDATE by id.
WriteSchedule(q, p) ==
  LET s == target[q] IN
  /\ step[q] = "schedule"
  /\ p # plan[s]
  /\ pending' = [pending EXCEPT ![s] = p]
  /\ Done(q)
  /\ UNCHANGED <<now, status, plan, started, periodEnd, trialEnd, effectiveEnd,
                 ledger, queue, charges, history>>

\* DELETE .../scheduled-plan-change, its UPDATE by id.  Every row was active once,
\* when the request may have read it; what it read decides nothing else.
ClearSchedule(s) ==
  /\ s \in Managed
  /\ status[s] # "none"
  /\ pending' = [pending EXCEPT ![s] = NoPlan]
  /\ UNCHANGED <<now, status, plan, started, periodEnd, trialEnd, effectiveEnd,
                 ledger, queue, charges, requests, history>>

\* The API process dies or the statement fails: what was written stays.
LoseRequest(q) ==
  /\ step[q] # "idle"
  /\ faults < MaxFaults
  /\ Done(q)
  /\ faults' = faults + 1
  /\ UNCHANGED <<now, rows, queue, charges, again, cancelEnd>>

-----------------------------------------------------------------------------
(* handleRenewalScan; the ids of scan jobs admit one per hour *)

\* Mutant: the scan asks for the periods that end just now; one without a scan is
\* not made up for.
DueJustNow == {s \in Subs : status[s] = "active" /\ periodEnd[s] = now /\ trialEnd[s] <= now}

\* listSubscriptionsDueForRenewal; the batch limit of 200 is not reached.
DueForRenewal ==
  {s \in Subs : status[s] = "active" /\ periodEnd[s] <= now /\ trialEnd[s] <= now}

StartScan ==
  /\ listed = {}
  /\ DueForRenewal # {}
  /\ listed' = {<<s, periodEnd[s]>> : s \in DueForRenewal}
  /\ UNCHANGED <<now, rows, queued, kept, charges, requests, history>>

\* Mutant: a job in progress does not hold its id.
TakenUnlessActive(x) == x \in queued \union kept

Taken(x) == x \in queued \union kept \union {job[w] : w \in Runs}

AddCharge(x) ==
  /\ x \in listed
  /\ ~Taken(x)
  /\ listed' = listed \ {x}
  /\ queued' = queued \union {x}
  /\ UNCHANGED <<now, rows, kept, charges, requests, history>>

\* BullMQ ignores an id it knows.  The SQL queue refuses the insert and throws,
\* which ends the scan: the rest of the list is not added.
AddRefused(x) ==
  /\ x \in listed
  /\ Taken(x)
  /\ listed' = IF Local THEN {} ELSE listed \ {x}
  /\ UNCHANGED <<now, rows, queued, kept, charges, requests, history>>

LoseScan ==
  /\ listed # {}
  /\ faults < MaxFaults
  /\ listed' = {}
  /\ faults' = faults + 1
  /\ UNCHANGED <<now, rows, queued, kept, charges, requests, again, cancelEnd>>

\* Finished jobs are removed when their retention is over: after an hour or a
\* day.  No scan takes that long from its query to its last add.
Purge(S) ==
  /\ S # {}
  /\ S \intersect listed = {}
  /\ kept' = kept \ S
  /\ UNCHANGED <<now, rows, listed, queued, charges, requests, history>>

-----------------------------------------------------------------------------
(* handleRenewalCharge and processSubscriptionRenewal *)

\* The run is over and its local variables with it.
Leave(w) ==
  /\ pc'      = [pc EXCEPT ![w] = "idle"]
  /\ job'     = [job EXCEPT ![w] = <<NoSub, 0>>]
  /\ readEnd' = [readEnd EXCEPT ![w] = 0]

EndCharge(w) ==
  /\ Leave(w)
  /\ kept' = kept \union {job[w]}

\* Mutant: the status is not looked at again.
MayRenewAnyway(s) == status[s] # "none"

MayRenew(s) == status[s] = "active"

\* A run takes a job and reads the row.  The period in the job's data is not
\* used.  A row that is not active fails the job; tried again it fails again.
\* (plan_missing cannot happen: plan_id is a foreign key.)
ReadSubscription(w, x) ==
  LET s == x[1] IN
  /\ pc[w] = "idle"
  /\ x \in queued
  /\ queued' = queued \ {x}
  /\ IF MayRenew(s)
     THEN /\ pc'      = [pc EXCEPT ![w] = "insert"]
          /\ job'     = [job EXCEPT ![w] = x]
          /\ readEnd' = [readEnd EXCEPT ![w] = periodEnd[s]]
          /\ UNCHANGED kept
     ELSE /\ kept' = kept \union {x}
          /\ UNCHANGED charges
  /\ UNCHANGED <<now, rows, listed, requests, history>>

\* Mutant: the index is missing.
NoDuplicate(w) == FALSE

\* The unique index on (subscription_id, period_start_utc).
Duplicate(w) == readEnd[w] \in ledger[job[w][1]]

\* The payment row for the next period; a duplicate ends the run ("skipped").
InsertPayment(w) ==
  LET s == job[w][1] IN
  /\ pc[w] = "insert"
  /\ IF Duplicate(w)
     THEN /\ EndCharge(w)
          /\ UNCHANGED ledger
     ELSE /\ ledger' = [ledger EXCEPT ![s] = @ \union {readEnd[w]}]
          /\ pc' = [pc EXCEPT ![w] = "advance"]
          /\ UNCHANGED <<job, readEnd, kept>>
  /\ UNCHANGED <<now, status, plan, pending, started, periodEnd, trialEnd,
                 effectiveEnd, listed, queued, requests, history>>

\* Mutant: the next period starts today.
NextEndFromNow(w) == now + 1

\* addMonthsUtc of the end that was read.
NextEnd(w) == readEnd[w] + 1

\* The UPDATE by id: only the period, whatever the status is by now.
AdvancePeriod(w) ==
  LET s == job[w][1] IN
  /\ pc[w] = "advance"
  /\ periodEnd' = [periodEnd EXCEPT ![s] = NextEnd(w)]
  /\ EndCharge(w)
  /\ UNCHANGED <<now, status, plan, pending, started, trialEnd, effectiveEnd,
                 ledger, listed, queued, requests, history>>

\* The queue delivers the job again: its run died or failed, or only lost its
\* lock and goes on, or its success was not acknowledged.
Redeliver(w, alive) ==
  LET s == job[w][1] IN
  /\ pc[w] # "idle"
  /\ faults < MaxFaults
  /\ queued' = queued \union {job[w]}
  /\ again' = [again EXCEPT ![s] = @ + 1]
  /\ faults' = faults + 1
  /\ IF alive THEN UNCHANGED charges ELSE Leave(w)
  /\ UNCHANGED <<now, rows, listed, kept, requests, cancelEnd>>

\* The run dies or fails for the last time.
GiveUp(w) ==
  /\ pc[w] # "idle"
  /\ faults < MaxFaults
  /\ EndCharge(w)
  /\ faults' = faults + 1
  /\ UNCHANGED <<now, rows, listed, queued, requests, again, cancelEnd>>

-----------------------------------------------------------------------------
Tick ==
  /\ now < Horizon
  /\ now' = now + 1
  /\ UNCHANGED <<rows, queue, charges, requests, history>>

Next ==
  \/ \E q \in Requests, s \in Subs : FindNone(q, s)
  \/ \E q \in Requests, p \in Plans : InsertSubscription(q, p)
  \/ \E q \in Requests : InsertFirstPayment(q)
  \/ \E q \in Requests, s \in Subs, for \in {"cancel", "schedule"} : ReadRow(q, s, for)
  \/ \E q \in Requests, effective \in {"immediate", "period_end"} : WriteCancel(q, effective)
  \/ \E q \in Requests, p \in Plans : WriteSchedule(q, p)
  \/ \E s \in Subs : ClearSchedule(s)
  \/ \E q \in Requests : LoseRequest(q)
  \/ StartScan
  \/ \E x \in listed : AddCharge(x)
  \/ \E x \in listed : AddRefused(x)
  \/ LoseScan
  \/ \E S \in SUBSET kept : Purge(S)
  \/ \E w \in Runs, x \in queued : ReadSubscription(w, x)
  \/ \E w \in Runs : InsertPayment(w)
  \/ \E w \in Runs : AdvancePeriod(w)
  \/ \E w \in Runs, alive \in BOOLEAN : Redeliver(w, alive)
  \/ \E w \in Runs : GiveUp(w)
  \/ Tick

Spec == Init /\ [][Next]_vars

\* The worker's runs end and time passes.  Between two scans the queue is worked
\* off and retention runs out, hence the strong fairness of both.  Nothing in the
\* repository schedules the scans: that they come round is no part of Fairness.
Fairness ==
  /\ WF_vars(\E x \in listed : AddCharge(x) \/ AddRefused(x))
  /\ SF_vars(Purge(kept))
  /\ \A s \in Subs :
       SF_vars(\E w \in Runs, x \in queued : x[1] = s /\ ReadSubscription(w, x))
  /\ \A w \in Runs : WF_vars(InsertPayment(w) \/ AdvancePeriod(w))
  /\ WF_vars(Tick)

FairSpec == Spec /\ Fairness

-----------------------------------------------------------------------------
(* Properties *)

\* Overlapping, repeated and dying runs leave a ledger without gaps: payments
\* stand for consecutive periods from the first (or, after a trial or a lost
\* request, the second) up to the one that ends at current_period_end, and at
\* most for the one that follows.
LedgerWithoutGaps ==
  \A s \in Subs : status[s] # "none" =>
    \E first \in {started[s], started[s] + 1} :
      \/ ledger[s] = first..(periodEnd[s] - 1)
      \/ ledger[s] = first..periodEnd[s]

\* Runs write the period they read some steps ago, by id and without a guard;
\* still no write undoes a later one or skips a period.
PeriodsRollForward ==
  [][\A s \in Subs : status[s] # "none" =>
       periodEnd'[s] \in {periodEnd[s], periodEnd[s] + 1}]_vars

\* A run that read the row before it was canceled still charges; but once
\* canceled, at whichever time, at most one further period is charged.
AtMostOneChargeAfterCancel ==
  \A s \in Subs : status[s] \in Ended => \A p \in ledger[s] : p <= cancelEnd[s]

\* Nothing is charged while the trial runs.
TrialIsFree ==
  \A s \in Subs : now < trialEnd[s] => ledger[s] = {}

\* Periods that have not begun are charged only by charge jobs that were
\* delivered again, each of them one at most.
EarlyChargesAreReruns ==
  \A s \in Subs : Cardinality({p \in ledger[s] : p > now}) <= again[s]

Overdue(s) == status[s] = "active" /\ periodEnd[s] <= now /\ trialEnd[s] <= now

\* The operator's part: a cron job or the super admin's button
\* (subscription-billing-queue.ts:21) queues scans whenever something is due.
ScansComeRound == WF_vars(StartScan)

\* If scans come round, period after period that falls due is renewed, unless the
\* subscription is canceled first or its renewal was cut off between the payment
\* and the new period.
CaughtUpOrTorn ==
  ScansComeRound =>
    \A s \in Subs, end \in 1..Horizon :
      Overdue(s) /\ periodEnd[s] = end ~>
        \/ periodEnd[s] > end
        \/ status[s] \in Ended
        \/ [](periodEnd[s] \in ledger[s])

\* Once canceled, a row runs on for the period it was in and at most the one
\* after it; and the end that a cancellation "at the end of the period" notes is
\* one the row had, however long ago its request had read it.
LastPeriodAfterCancel ==
  \A s \in Subs :
    /\ status[s] \in Ended => periodEnd[s] \in {cancelEnd[s], cancelEnd[s] + 1}
    /\ status[s] = "canceling" => effectiveEnd[s] \in (started[s] + 1)..periodEnd[s]

\* The next period is paid for, but no run is left that would begin it.
Torn(s) ==
  /\ periodEnd[s] \in ledger[s]
  /\ \A w \in Runs : pc[w] = "advance" => job[w][1] # s

\* A renewal that was cut off between the payment and the period is never made
\* good (subscription-billing-repos.ts:141): whatever scans, runs and requests
\* do, the period stays as it is and nothing but the first period is charged.
TornStaysTorn ==
  [][\A s \in Subs : Torn(s) =>
       /\ Torn(s)'
       /\ periodEnd'[s] = periodEnd[s]
       /\ ledger'[s] \subseteq ledger[s] \union {started[s]}]_vars

-----------------------------------------------------------------------------
(* The inductive invariant behind the safety properties *)

\* A request that is about to insert has a row id of its own; all others work
\* on a row that exists, those that charge on one without a trial.
RequestsWellFormed ==
  \A q \in Requests :
    /\ step[q] = "idle" => target[q] = NoSub
    /\ step[q] = "subscribe" =>
         /\ status[target[q]] = "none"
         /\ \A o \in Requests : o # q => target[o] # target[q]
    /\ step[q] \in {"charge", "cancel", "schedule"} => status[target[q]] # "none"
    /\ step[q] = "charge" => trialEnd[target[q]] <= now

\* Periods are not empty; before the insert there is nothing to a row, and a
\* row is canceled after its start.
RowsWellFormed ==
  \A s \in Subs :
    /\ status[s] = "none" => ledger[s] = {}
    /\ status[s] # "none" => started[s] < periodEnd[s]
    /\ cancelEnd[s] = Null <=> status[s] \notin Ended
    /\ status[s] \in Ended => started[s] < cancelEnd[s]

MayBeCharged(s) == status[s] # "none" /\ trialEnd[s] <= now

\* A charge job, waiting or run, belongs to a row whose trial is over.
JobsWellFormed ==
  /\ \A x \in listed \union queued : MayBeCharged(x[1])
  /\ \A w \in Runs : pc[w] # "idle" => MayBeCharged(job[w][1])

\* What a run read is a period end of the row's, past or present.  A run that
\* has inserted the payment is the only one, and the row waits for it.
ChargesWellFormed ==
  \A w \in Runs : pc[w] # "idle" =>
    LET s == job[w][1] IN
    /\ readEnd[w] \in (started[s] + 1)..periodEnd[s]
    /\ status[s] \in Ended => readEnd[w] <= cancelEnd[s]
    /\ pc[w] = "advance" =>
         /\ readEnd[w] = periodEnd[s]
         /\ periodEnd[s] \in ledger[s]
         /\ \A v \in Runs : pc[v] = "advance" /\ job[v][1] = s => v = w

IInv ==
  /\ TypeOK
  /\ LedgerWithoutGaps
  /\ AtMostOneChargeAfterCancel
  /\ TrialIsFree
  /\ RequestsWellFormed
  /\ RowsWellFormed
  /\ JobsWellFormed
  /\ ChargesWellFormed

-----------------------------------------------------------------------------
(* The inductive invariant behind EarlyChargesAreReruns.  Every job that can *)
(* still move the row of s on is counted: the jobs that wait for a run, and   *)
(* the runs that read the present period end and were not forestalled.       *)

Waiting(s) == {x \in queued \union {y \in listed : ~Taken(y)} : x[1] = s}

Working(s) ==
  {w \in Runs : /\ pc[w] # "idle" /\ job[w][1] = s /\ readEnd[w] = periodEnd[s]
                /\ pc[w] = "insert" => periodEnd[s] \notin ledger[s]}

Pending(s) == Cardinality(Waiting(s)) + Cardinality(Working(s))

\* One of them is the job of the present period, which does not charge early.
HasDue(s) ==
  \/ <<s, periodEnd[s]>> \in Waiting(s)
  \/ \E w \in Working(s) : job[w] = <<s, periodEnd[s]>>

\* No job is for a period that was not over when it was listed.
JobsDue ==
  /\ \A x \in listed \union queued : x[2] <= now /\ x[2] <= periodEnd[x[1]]
  /\ \A w \in Runs : pc[w] # "idle" => job[w][2] <= now /\ job[w][2] <= periodEnd[job[w][1]]

\* A run that is over has no job.
IdleRuns == \A w \in Runs : pc[w] = "idle" => job[w] = <<NoSub, 0>>

\* Beside the job of the present period there are only jobs delivered again, and
\* so many fewer of them as periods have been charged ahead of the clock.
RerunsCover(s) ==
  IF HasDue(s)
  THEN Pending(s) <= again[s] + 1
  ELSE Pending(s) <= again[s] /\ Pending(s) + periodEnd[s] - 1 - now <= again[s]

\* A payment that the row has not followed yet was covered as well.
PaymentCovered(s) == periodEnd[s] \in ledger[s] => periodEnd[s] <= now + again[s]

EarlyInv ==
  /\ JobsDue
  /\ IdleRuns
  /\ \A s \in Subs : RerunsCover(s) /\ PaymentCovered(s)

=============================================================================
