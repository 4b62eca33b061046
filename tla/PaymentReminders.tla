-------------------------- MODULE PaymentReminders --------------------------
(***************************************************************************)
(* Payment reminders: the scan and the reminder jobs of the lifecycle      *)
(* queue (apps/worker/src/invoicing-lifecycle-worker.ts), the rows of      *)
(* invoicing_payment_reminders (packages/db/src/invoicing-repos.ts), and   *)
(* the email jobs that follow (apps/worker/src/tenant-mail-jobs.ts).       *)
(*                                                                         *)
(* A reminder job inserts the row, then an audit event, then the email     *)
(* job, each in a statement of its own; it is delivered at least once, as  *)
(* JobDelivery promises, and so is the email job.                          *)
(*                                                                         *)
(* Of an invoice only what reminders look at is kept; InvoiceLifecycle has *)
(* the rest.  Its balance is positive.  Time counts days.                  *)
(***************************************************************************)
EXTENDS Integers

CONSTANTS
  Invoices,
  Addressed,   \* invoices whose customer has an email address
  Offset,      \* Offset[k]: payment_reminder_*_offset_days
  Runs,        \* overlapping runs of handlePaymentReminder
  NoReminder,  \* what an idle run works on
  Local,       \* TRUE: SQL queue, FALSE: BullMQ
  Horizon,     \* bound of the clock
  MaxFaults    \* bound: runs and mails that fail or are repeated

Kinds     == {"first", "second"}
Reminders == Invoices \X Kinds

ASSUME ReminderAssumption ==
  /\ Addressed \subseteq Invoices
  /\ Offset \in [Kinds -> Int]
  /\ NoReminder \notin Reminders
  /\ Local \in BOOLEAN
  /\ Horizon \in Nat
  /\ MaxFaults \in Nat

VARIABLES
  today,
  \* the invoices; "open" stands for invoice_sent and invoice_overdue
  status, due,
  \* the tenant's configuration
  enabled,   \* payment_reminders_enabled
  moment,    \* payment_reminder in email_moments_enabled, or "unset"
  \* the rows of invoicing_payment_reminders
  reminded,
  \* the lifecycle queue
  listed,    \* reminders the scan has still to add
  queued,    \* jobs waiting to be run
  kept,      \* finished, their ids not yet free
  \* runs of reminder jobs
  pc, job,
  \* the email queue: how many jobs wait for each reminder
  emails,
  \* history, read by no guard but those of the bound MaxFaults
  mails,     \* mails[x]: how often the customer got reminder x
  again,     \* again[x]: how often an email job of x was run again
  torn,      \* reminders with a row, whose run or email job was given up
  faults

invoices == <<status, due>>
config   == <<enabled, moment>>
queue    == <<listed, queued, kept>>
runs     == <<pc, job>>
history  == <<mails, again, torn, faults>>
vars     == <<today, invoices, config, reminded, queue, runs, emails, history>>

NoDate == -1

TypeOK ==
  /\ today    \in Nat
  /\ status   \in [Invoices -> {"draft", "open", "disputed", "settled"}]
  /\ due      \in [Invoices -> Nat \union {NoDate}]
  /\ \A i \in Invoices : status[i] = "open" => due[i] \in Nat
  /\ enabled  \in BOOLEAN
  /\ moment   \in {"unset", "on", "off"}
  /\ reminded \subseteq Reminders
  /\ listed   \subseteq Reminders
  /\ queued   \subseteq Reminders
  /\ kept     \subseteq Reminders
  /\ pc       \in [Runs -> {"idle", "insert", "record", "enqueue"}]
  /\ job      \in [Runs -> Reminders \union {NoReminder}]
  /\ \A w \in Runs : pc[w] = "idle" <=> job[w] = NoReminder
  /\ emails   \in [Reminders -> Nat]
  /\ mails    \in [Reminders -> Nat]
  /\ again    \in [Reminders -> Nat]
  /\ torn     \subseteq Reminders
  /\ faults   \in Nat

Init ==
  /\ today    = 0
  /\ status   = [i \in Invoices |-> "draft"]
  /\ due      = [i \in Invoices |-> NoDate]
  /\ enabled  = TRUE
  /\ moment   = "unset"
  /\ reminded = {}
  /\ listed   = {}
  /\ queued   = {}
  /\ kept     = {}
  /\ pc       = [w \in Runs |-> "idle"]
  /\ job      = [w \in Runs |-> NoReminder]
  /\ emails   = [x \in Reminders |-> 0]
  /\ mails    = [x \in Reminders |-> 0]
  /\ again    = [x \in Reminders |-> 0]
  /\ torn     = {}
  /\ faults   = 0

-----------------------------------------------------------------------------
(* The invoice, as far as reminders see it, and the configuration *)

\* sendInvoice: the due date is given, or counted from today or, after a denial or a
\* payment in part, from the day of that.
SendInvoice(i, d) ==
  /\ status[i] = "draft"
  /\ status' = [status EXCEPT ![i] = "open"]
  /\ due'    = [due EXCEPT ![i] = d]
  /\ UNCHANGED <<today, config, reminded, queue, runs, emails, history>>

DisputeInvoice(i) ==
  /\ status[i] \in {"draft", "open"}
  /\ status' = [status EXCEPT ![i] = "disputed"]
  /\ UNCHANGED <<today, due, config, reminded, queue, runs, emails, history>>

\* Payments, credits, and everything after an acknowledged dispute.
SettleInvoice(i) ==
  /\ status[i] \in {"open", "disputed"}
  /\ status' = [status EXCEPT ![i] = "settled"]
  /\ UNCHANGED <<today, due, config, reminded, queue, runs, emails, history>>

\* denyInvoiceDispute: the due date is taken back, the reminders' rows are not.
DenyDispute(i) ==
  /\ status[i] = "disputed"
  /\ status' = [status EXCEPT ![i] = "draft"]
  /\ due'    = [due EXCEPT ![i] = NoDate]
  /\ UNCHANGED <<today, config, reminded, queue, runs, emails, history>>

\* invoicingEmailMomentIsEnabled: payment_reminders_enabled counts only while
\* the moment was never written.
MomentEnabled == moment = "on" \/ (moment = "unset" /\ enabled)

\* updateInvoicingConfiguration: paymentRemindersEnabled, or emailMoments with
\* payment_reminder; each save writes both columns.
Configure(by, on) ==
  LET resolved == IF by = "paymentRemindersEnabled" /\ moment # "unset"
                  THEN moment = "on"
                  ELSE on
  IN
  /\ enabled' = resolved
  /\ moment'  = IF resolved THEN "on" ELSE "off"
  /\ UNCHANGED <<today, invoices, reminded, queue, runs, emails, history>>

-----------------------------------------------------------------------------
(* handleLifecycleScan, its part for reminders *)

\* invoicingPaymentReminderTriggerDate: addDaysToIsoDate adds no negative
\* number of days.
TriggerDate(i, k) == due[i] + (IF Offset[k] < 0 THEN 0 ELSE Offset[k])

\* Mutant: on the very day only; a day without a scan is not made up for.
TriggeredThatDay(i, k) == due[i] # NoDate /\ TriggerDate(i, k) = today

Triggered(i, k) == due[i] # NoDate /\ TriggerDate(i, k) <= today

\* listInvoicesDueForPaymentReminders; the batch limit of 200 is not reached.
DueForReminder ==
  {x \in Reminders : /\ status[x[1]] = "open"
                     /\ enabled
                     /\ Triggered(x[1], x[2])
                     /\ x \notin reminded}

StartScan ==
  /\ listed = {}
  /\ DueForReminder # {}
  /\ listed' = DueForReminder
  /\ UNCHANGED <<today, invoices, config, reminded, queued, kept, runs, emails, history>>

\* invoicingLifecycleJobId names invoice and kind.
Taken(x) == x \in queued \union kept \union {job[w] : w \in Runs}

AddReminder(x) ==
  /\ x \in listed
  /\ ~Taken(x)
  /\ listed' = listed \ {x}
  /\ queued' = queued \union {x}
  /\ UNCHANGED <<today, invoices, config, reminded, kept, runs, emails, history>>

\* BullMQ ignores an id it knows; the SQL queue refuses the insert, and the
\* scan ends there.
AddRefused(x) ==
  /\ x \in listed
  /\ Taken(x)
  /\ listed' = IF Local THEN {} ELSE listed \ {x}
  /\ UNCHANGED <<today, invoices, config, reminded, queued, kept, runs, emails, history>>

\* The scan dies, or is ended by an id of its offers or overdue invoices.
LoseScan ==
  /\ listed # {}
  /\ faults < MaxFaults
  /\ listed' = {}
  /\ faults' = faults + 1
  /\ UNCHANGED <<today, invoices, config, reminded, queued, kept, runs, emails,
                 mails, again, torn>>

\* The retention of finished jobs is over; no scan takes that long.
Purge(S) ==
  /\ S # {}
  /\ S \intersect listed = {}
  /\ kept' = kept \ S
  /\ UNCHANGED <<today, invoices, config, reminded, listed, queued, runs, emails, history>>

-----------------------------------------------------------------------------
(* handlePaymentReminder and processInvoicingPaymentReminder *)

At(w, x, step) ==
  /\ pc'  = [pc EXCEPT ![w] = step]
  /\ job' = [job EXCEPT ![w] = x]

Leave(w) == At(w, NoReminder, "idle")

\* What processInvoicingPaymentReminder checks.
MayRemind(x) ==
  /\ status[x[1]] = "open"
  /\ MomentEnabled
  /\ Triggered(x[1], x[2])
  /\ x \notin reminded

\* A run takes a job and reads invoice, configuration and row.  Without an
\* address an audit event, which no code reads, is all it writes.
CheckReminder(w, x) ==
  /\ pc[w] = "idle"
  /\ x \in queued
  /\ queued' = queued \ {x}
  /\ IF MayRemind(x) /\ x[1] \in Addressed
     THEN /\ At(w, x, "insert")
          /\ UNCHANGED kept
     ELSE /\ kept' = kept \union {x}
          /\ UNCHANGED runs
  /\ UNCHANGED <<today, invoices, config, reminded, listed, emails, history>>

\* Mutant: the index is missing.
NoDuplicate(w) == FALSE

\* The unique index on tenant, invoice and kind.
Duplicate(w) == job[w] \in reminded

\* The row, or an error; if the queue tries the job again, it finds the row.
InsertReminder(w) ==
  /\ pc[w] = "insert"
  /\ IF Duplicate(w)
     THEN /\ Leave(w)
          /\ kept' = kept \union {job[w]}
          /\ UNCHANGED reminded
     ELSE /\ reminded' = reminded \union {job[w]}
          /\ At(w, job[w], "record")
          /\ UNCHANGED kept
  /\ UNCHANGED <<today, invoices, config, listed, queued, emails, history>>

\* The audit event invoice_payment_reminder_sent.
RecordReminder(w) ==
  /\ pc[w] = "record"
  /\ At(w, job[w], "enqueue")
  /\ UNCHANGED <<today, invoices, config, reminded, queue, emails, history>>

\* The email job, which has no id of its own.
EnqueueEmail(w) ==
  /\ pc[w] = "enqueue"
  /\ emails' = [emails EXCEPT ![job[w]] = @ + 1]
  /\ kept'   = kept \union {job[w]}
  /\ Leave(w)
  /\ UNCHANGED <<today, invoices, config, reminded, listed, queued, history>>

Tears(w) == IF pc[w] \in {"record", "enqueue"} THEN {job[w]} ELSE {}

\* The queue delivers the job again: its run failed or died, or only lost its
\* lock and goes on.
Redeliver(w, alive) ==
  /\ pc[w] # "idle"
  /\ faults < MaxFaults
  /\ queued' = queued \union {job[w]}
  /\ faults' = faults + 1
  /\ IF alive
     THEN UNCHANGED <<runs, torn>>
     ELSE Leave(w) /\ torn' = torn \union Tears(w)
  /\ UNCHANGED <<today, invoices, config, reminded, listed, kept, emails, mails, again>>

\* The run fails or dies for the last time.
GiveUp(w) ==
  /\ pc[w] # "idle"
  /\ faults < MaxFaults
  /\ kept'   = kept \union {job[w]}
  /\ torn'   = torn \union Tears(w)
  /\ faults' = faults + 1
  /\ Leave(w)
  /\ UNCHANGED <<today, invoices, config, reminded, listed, queued, emails, mails, again>>

-----------------------------------------------------------------------------
(* sendInvoicingPaymentReminderEmailJob, which does not ask for the status *)

SendEmail(x) ==
  /\ emails[x] > 0
  /\ emails' = [emails EXCEPT ![x] = @ - 1]
  /\ mails'  = [mails EXCEPT ![x] = @ + 1]
  /\ UNCHANGED <<today, invoices, config, reminded, queue, runs, again, torn, faults>>

\* The mail is out, but the job is taken to have failed and will be run again.
SendUnacknowledged(x) ==
  /\ emails[x] > 0
  /\ faults < MaxFaults
  /\ mails'  = [mails EXCEPT ![x] = @ + 1]
  /\ again'  = [again EXCEPT ![x] = @ + 1]
  /\ faults' = faults + 1
  /\ UNCHANGED <<today, invoices, config, reminded, queue, runs, emails, torn>>

\* No mail server is configured, or it refuses the mail for the last time.
DropEmail(x) ==
  /\ emails[x] > 0
  /\ faults < MaxFaults
  /\ emails' = [emails EXCEPT ![x] = @ - 1]
  /\ torn'   = torn \union {x}
  /\ faults' = faults + 1
  /\ UNCHANGED <<today, invoices, config, reminded, queue, runs, mails, again>>

Tick ==
  /\ today < Horizon
  /\ today' = today + 1
  /\ UNCHANGED <<invoices, config, reminded, queue, runs, emails, history>>

Next ==
  \/ \E i \in Invoices, d \in 0..Horizon : SendInvoice(i, d)
  \/ \E i \in Invoices : DisputeInvoice(i)
  \/ \E i \in Invoices : SettleInvoice(i)
  \/ \E i \in Invoices : DenyDispute(i)
  \/ \E by \in {"paymentRemindersEnabled", "emailMoments"}, on \in BOOLEAN : Configure(by, on)
  \/ StartScan
  \/ \E x \in listed : AddReminder(x)
  \/ \E x \in listed : AddRefused(x)
  \/ LoseScan
  \/ \E S \in SUBSET kept : Purge(S)
  \/ \E w \in Runs, x \in queued : CheckReminder(w, x)
  \/ \E w \in Runs : InsertReminder(w)
  \/ \E w \in Runs : RecordReminder(w)
  \/ \E w \in Runs : EnqueueEmail(w)
  \/ \E w \in Runs, alive \in BOOLEAN : Redeliver(w, alive)
  \/ \E w \in Runs : GiveUp(w)
  \/ \E x \in Reminders : SendEmail(x)
  \/ \E x \in Reminders : SendUnacknowledged(x)
  \/ \E x \in Reminders : DropEmail(x)
  \/ Tick

Spec == Init /\ [][Next]_vars

\* Runs end, mails are sent and days pass.  Between two scans the queue is worked
\* off and retention runs out, hence the strong fairness of both.  Nothing in the
\* repository schedules the scans: that they come round is no part of Fairness.
Fairness ==
  /\ WF_vars(\E x \in listed : AddReminder(x) \/ AddRefused(x))
  /\ SF_vars(Purge(kept))
  /\ \A x \in Reminders :
       /\ SF_vars(\E w \in Runs : CheckReminder(w, x))
       /\ WF_vars(SendEmail(x))
  /\ \A w \in Runs : WF_vars(InsertReminder(w) \/ RecordReminder(w) \/ EnqueueEmail(w))
  /\ WF_vars(Tick)

FairSpec == Spec /\ Fairness

-----------------------------------------------------------------------------
(* Properties *)

\* However often scans add a reminder and however its runs overlap, fail or
\* are delivered again, its customer is mailed once, and once more for each
\* time the email job itself was run again.
MailedOnce ==
  \A x \in Reminders : mails[x] <= 1 + again[x]

AwaitsReminder(x) ==
  /\ status[x[1]] = "open"
  /\ enabled
  /\ due[x[1]] # NoDate /\ TriggerDate(x[1], x[2]) <= today
  /\ x[1] \in Addressed

\* The operator's part: the daily scan (invoicing-lifecycle.ts:28) that the super
\* admin's button or a cron job of the operator's queues.
ScansComeRound == WF_vars(StartScan)

\* If scans come round, an invoice that stays open after the day of a reminder is
\* reminded in the end, except where a run or its email job was given up between
\* the row and the mail: the row then keeps every later job away.
RemindedOrTorn ==
  ScansComeRound =>
    \A x \in Reminders :
      <>[]AwaitsReminder(x) => <>(mails[x] > 0 \/ x \in torn)

\* The row is there, but neither a job nor a run will send the mail.
Abandoned(x) ==
  /\ x \in reminded
  /\ emails[x] = 0
  /\ \A w \in Runs : job[w] = x => pc[w] = "insert"

\* A reminder whose run was cut off after the row is never made good: whatever
\* later scans, runs and repetitions do, the row keeps its mail from being sent.
AbandonedForGood ==
  [][\A x \in Reminders : Abandoned(x) => Abandoned(x)' /\ mails'[x] = mails[x]]_vars

-----------------------------------------------------------------------------
(* The inductive invariant behind MailedOnce *)

PastInsert(w, x) == job[w] = x /\ pc[w] \in {"record", "enqueue"}

\* A row, which keeps every later job away, stands for a mail that was sent,
\* is queued or will be queued by a run, or for one that was given up.
RowsAccounted ==
  \A x \in reminded : \/ mails[x] > 0
                      \/ emails[x] > 0
                      \/ x \in torn
                      \/ \E w \in Runs : PastInsert(w, x)

\* A reminder without a row has no mail and no run that will queue one.
NothingWithoutRow ==
  \A x \in Reminders \ reminded :
    /\ emails[x] = 0 /\ mails[x] = 0 /\ again[x] = 0
    /\ \A w \in Runs : ~PastInsert(w, x)

\* The run that inserted the row is the only one that will queue a mail.
OneRunOwesMail ==
  \A w \in Runs, x \in Reminders : PastInsert(w, x) =>
    /\ emails[x] = 0 /\ mails[x] = 0
    /\ \A v \in Runs : PastInsert(v, x) => v = w

MailsCounted ==
  \A x \in Reminders : mails[x] + emails[x] <= 1 + again[x]

IInv ==
  /\ TypeOK
  /\ NothingWithoutRow
  /\ OneRunOwesMail
  /\ MailsCounted
  /\ RowsAccounted

=============================================================================
