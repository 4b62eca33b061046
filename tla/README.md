# Verification of KOIOS

TLA+ models of the parts of this repository where several processes write the
same rows, the TLC runs that check them on small instances, and TLAPS proofs for
every instance. Line numbers refer to the sources under `src/`.

## 1. The system

A multi-tenant business application in TypeScript: a Fastify API (`apps/api`), a
worker (`apps/worker`), a web and a mobile client, and the packages `db`
(all SQL, for PostgreSQL and MySQL), `shared` (types and pure rules), `crypto`
and `logger`. Nearly every multi-step operation of `packages/db` is a sequence of
single SQL statements *without* a transaction around them (the claim of a queue
job is the notable exception), so a request, a job run and a webhook are
processes that interleave statement by statement, and each may end after any of
its statements.

| Component | State | Operations | Interacts with | What makes it correct |
|---|---|---|---|---|
| SQL job queue (`background-jobs-repos.ts`, `database-worker.ts`) | `background_jobs` rows: status, attempts, run_at, lock, purge_after | enqueue, claim, complete, fail, clear key, purge, release stale | every producer in the API, every job handler | no job lost, attempts bounded, one owner until a lock goes stale, everything ends and is purged |
| Realm subscriptions and renewal (`subscription-repos.ts`, `subscription-billing-repos.ts`, billing worker) | `subscriptions`, `platform_subscription_payments` | subscribe, cancel, schedule a plan, scan, renew | job queue (at least once), Stripe | ledger without gaps or double charges, cancellation and trial respected |
| Stripe webhooks (`stripe-webhooks.ts`, `stripe-webhook-repos.ts`) | `processed_stripe_events`, card and delinquency columns | claim, handle, release | Stripe (repeats, overlaps, reorders) | each event once, none lost, row and Stripe agree |
| Quotes and offers (`invoicing-repos.ts`, `public-invoicing.ts`) | quotes, offers, response links, numbers and revisions | promote, demote, archive, send, decide by staff or by link, expire | lifecycle jobs, invoices, email | a deal has one live document, no number twice, legal transitions |
| Invoices (`invoicing-repos.ts`, `tenant-invoicing.ts`) | invoices, revisions, payments, audit events | send, pay, dispute, acknowledge, deny, discount, credit, archive, demote, mark overdue | lifecycle jobs, email | money accounted for, never collected twice, collected more than the total by accident only, disputes answered once |
| Invoicing lifecycle jobs (`invoicing-lifecycle-worker.ts`, `tenant-mail-jobs.ts`) | reminder rows | scan, expire, mark overdue, remind, mail | job queue, email queue, the tenant's configuration | one mail per reminder, none forgotten |
| Mailbox sync (`mailbox-queue.ts`, `mailbox-sync-worker.ts`, `mailbox-repos.ts`, connectors) | jobs by account, sync cursor, messages, threads, invitations | ask, scan, fetch a page, import, reconcile, save the cursor, continue; mark as read | job queue, mail providers | one row per message, nothing missed, counts and flags agree with the provider |
| Sales funnel (`sales-funnel-*-repos.ts`) | lanes, leads, deals | insert, move, promote by hand or by lane, archive, reactivate, delete | API | one deal per lead, promoted leads stay away, every card on a lane |
| Document numbering | `invoicing_number_sequences` | allocate | documents | numbers unique and consecutive |
| Sign-in and tokens, cache store | `app_cache_entries`, refresh tokens, one-time codes | lockout, rotation, consume | API | one-time things used once, counts not lost |
| Catalogue, company subscriptions, CRM, workforce, tenants and users | records | create, update, delete | API | mostly single statements; foreign keys |
| Encryption, blobs, mail transport, schema, clients, logger | – | – | – | not models of state |

Hard behaviours: polls and requests that overlap; a run that outlives its lock;
outcomes written by id whatever happened to the row; a crash between two
statements; a reply that is lost after its statement took effect; redelivery by
BullMQ, by the SQL queue and by Stripe; check-then-insert; read-modify-write.
`PROJECT.json` lists these hazards at the lines where they bite, with the
properties that watch them, and those still waiting for a model.

## 2. Modules

| Module | Role |
|---|---|
| `JobDelivery` | abstract: what the queue promises its users, an at-least-once service |
| `JobQueue` | the SQL queue; implements `JobDelivery` |
| `SubscriptionRenewal` | subscriptions, renewal and their requests; takes charge jobs from a queue that behaves as `JobDelivery` allows |
| `StripeWebhooks` | the webhook's claim, handlers and release, with Stripe as environment |
| `DocumentStatus` | abstract: what the repositories promise of a document's status, whatever overlaps |
| `InvoiceLifecycle` | invoices, payments, disputes and revisions; implements `DocumentStatus` |
| `SalesDocuments` | quotes, offers, draft invoices and the customer's link; implements `DocumentStatus` |
| `PaymentReminders` | scan, reminder job, row and mail |
| `MailboxSync` | dispatch and runs of an account's sync, the provider, a user |
| `SalesFunnel` | lanes, leads, deals and promotion |
| `…_proofs` | theorems about the module of that name |
| `MC…` | constants and symmetry for TLC |

Definitions carry the names of the code where they can; `PROJECT.json` maps each
to its lines. In every module a process (a run, a request) is an element of a
set, `pc`, `step` or `doing` says before which statement it stands, one action is one
statement with everything it writes, and the variables named *history* are read
by no guard except the bound on faults. A definition whose comment begins with
*Mutant* is not part of the model: it is what a plausible mistake in the
definition near it would look like, and each property is tested by putting one
in its place.

### JobQueue

One row per job id. A run of `runOneDatabaseQueueJob` claims the first due row
(`Claim`, the one transaction), runs the handler, and writes the outcome:
`Complete`, or `HandlerFails`, `ReadAttempts`, `WriteFailed`. Both outcomes
address the row by id only. `CompleteReplyLost`, `LoseRun` and slow runs
(`Release` of a row that a run still works on) are the faults. `ClearFinished`
is what producers call to free a key. Timers are relative, so time needs no
bound: `Tick` lowers each until it has run out. A job's retention never changes,
so its SELECT is merged with the UPDATE it serves; `LIMIT` of the purge is a
choice of any subset. Not modelled: the order of rows of equal priority (any),
the status `paused`, which nothing writes, and the admin's read-only views.

`JobDelivery` forgets statuses, locks and runs. Its `Settle` may happen to a
settled job (two runs of one job), `Reopen` needs a lease that was taken or a
reply that was lost. That is what the users of the queue may rely on;
`SubscriptionRenewal`, `PaymentReminders` and `MailboxSync` rely on no more.

### SubscriptionRenewal

`FindNone`, `InsertSubscription` and `InsertFirstPayment` are the three
steps of subscribing; `ReadRow` followed by `WriteCancel` or
`WriteSchedule` the other requests. Nothing in the repository starts a scan, so the
specification leaves open whether one ever comes; a property that needs them says so (`ScansComeRound`).
A scan lists what is due and adds one charge job per subscription and period end; ids already known are ignored
(BullMQ) or end the scan (SQL queue), by the constant `Local`. A charge
run reads the row, inserts the payment of the next period (the unique index
refuses a second), and updates the period, by id. `Redeliver` and `GiveUp` are
the faults of the queue. BullMQ itself is external; its own checks of job
ids are not modelled. Time counts periods of one month, and a trial is
rounded up to periods. `Managed` bounds the subscriptions whose subscriber asks for anything after
the first request; the theorems hold for any.

When the insert fails on the index, `processSubscriptionRenewal` tells that from the
message of the error. Should a driver word it otherwise, the run throws instead of
skipping; the effect on the rows is the same.

### StripeWebhooks

`Claim` is the insert that only one request can win, `AnswerDuplicate` the
answer to the others. `FirstStep` chooses the handler. Each write has an
`ok`: if it is false the statement took effect but was reported as an error,
and the run goes to its catch, which releases the claim (`Release`). `Throw` is a
failure without effect, `Die` the end of the process. Only `failures` is kept of the
delinquency columns, which are written together. Nothing in the repository
sets `psp_payment_intent_id` (charging is done elsewhere), so which successes a
ledger row knows of is the constant `Linked`, and the subscription an event is
resolved to is `SubOf`. Event types that no handler knows are claimed and
answered and are left out.

### DocumentStatus, InvoiceLifecycle, SalesDocuments

Every operation on a document reads it, checks its status with a predicate of
`shared`, and later writes the new status by id. `DocumentStatus` says what remains
of the table of legal transitions under that discipline: a writer `Plan`s a status
that is legal from what it sees, and `Write`s it over whatever is there. Both
detailed modules implement it, with `plan` mapped to the document and target
(`doc`, `to`) of each request; the legal transitions (`LegalNext`) are those the
predicates permit.

`InvoiceLifecycle` keeps an invoice's status, total, sum of payments, source and
the audit events that code reads back (`Resolved` tells one cycle of dispute and
denial from the next by their order). A payment in part, a discount and a credit
create a revision with a smaller total, which the same request then sends or credits; the
steps between are those of the code. `MarkOverdue` is the job: it may start whenever the
due date is past. `Die` ends a request between two statements. `overlapped` and
`torn` record the invoices where that happened, so that the properties can say
what holds where it did not. Lines, customers and amounts of tax are left out: a
total is a small number.

`SalesDocuments` follows a deal through quote, offer and invoice, forwards
(promotion) and back (demotion), with the decisions of staff and of customers by link,
and the expiry job. A conversion inserts the successor first and writes the source's
status after. Of an invoice it keeps draft, sent and demoted, as
`InvoiceLifecycle` has the rest.

### PaymentReminders

An invoice is reduced to what reminders ask of it: a draft, open, disputed or
settled, with a due date. `StartScan` lists what is due, if anybody starts a scan
(`ScansComeRound`, as for renewals); each addition is a
step, and on the SQL queue a known id ends the scan. A run checks, inserts the row (a
unique index stands behind it), writes the audit event and enqueues the mail, each in
a statement of its own. `Redeliver` with `alive` is a lost lock. The
configuration's two columns and the precedence of the email moment over the older
switch are modelled (`Configure`, `MomentEnabled`), and so is `addDaysToIsoDate`,
which adds no negative number of days.

### MailboxSync

One account. A run reads the cursor, fetches a page, and for each message looks for it,
then imports it (thread count, message, invitation) or reconciles it (message, recount,
thread), all separate statements; then it saves the cursor and enqueues its
continuation under a new id. `AccountActive` is the look at the queue that is to keep
runs apart; `DispatchLate` is one that acted on what it saw before. On the SQL queue that look
reads at most 200 jobs; a continuation it misses for that leads to the same addition, so
`DispatchLate` stands for it too. A page is
one message on Gmail and the whole folder on IMAP, whose connector never says that a
folder is read to its end.

An invitation is recorded only if there is a user whose calendar it is: the owner of the account, or
the user of a linked calendar (`claimed`, any value at first; `LinkCalendar` sets it). Nothing
records it afterwards but `OpenMessage`: to show a message is to record its invitation, if the text
that was stored holds it (`Embedded`), which is not the case of one that came as an attachment.

`Revoke` takes the authorization of a Gmail account back. The next run ends without a retry
(`StopForReconnect`), and `DueForSync` leaves the account out from then on, until the user has gone
to the provider (`AskReconnect`) and come back (`Reconnect`). A run that has read the authorization
before that may fail with it later (`outdated`).

A user marks a thread as read or unread in four steps (`MarkThread`, `MarkMessages`, `WriteUnreadCount`,
`PushReadState`), the last a push to the provider that may fail. Folders of threads are left out; that
a thread in the trash or among the drafts counts no new message is a choice (`UpsertThread` with
`filed`), and counts as a mishap.

### SalesFunnel

Lanes of two boards, leads and deals by id. A request takes one or two statements;
between them `doing` names what it is about to do, and `card` and `target` to
what. Promotion (by hand, or by a move to the lane that is ready for sales) looks for
a deal of the lead, inserts one, and archives the lead. `together`, `revived`, `torn`
and `stranded` record the four ways in which overlap and crashes defeat the checks.

## 3. Runs

| Run | Instance | Shows |
|---|---|---|
| `queue` | 2 jobs, 1 key, 2 runs, 2 attempts, 2 faults; fair | rows consistent, bounds, ownership, refinement of `JobDelivery`, every job ends and is purged |
| `renewal` | 1 subscription, 2 plans (one with a trial), 2 runs, 2 requests, 2 faults, 2 periods, BullMQ | ledger, periods, what a cancellation stops, early charges |
| `renewal_live` | 2 subscriptions with a trial of one period, 1 of them managed, 1 run, 1 request, 1 fault, 2 periods, SQL queue; fair | if scans come round, renewed period after period unless canceled or torn |
| `stripe` | 2 setup events, 1 failure, 1 linked success, 2 requests, 1 fault; fair | one run per event, none handled twice, counts, honest answers, cards agree, every event handled or cut off |
| `invoices` | an invoice of 2 units and the id of a revision, 2 requests, 3 audit events, 1 mishap | money, payments beyond the total, disputes, legal transitions, refinement of `DocumentStatus` |
| `sales_documents` | 5 documents of 1 deal, 2 requests, 1 mishap | one live document, unique revisions, legal transitions, refinement of `DocumentStatus` |
| `reminders` | 1 invoice, 2 reminders (one with a negative offset), 2 runs, 1 day, 1 fault, SQL queue; fair | one mail per reminder; what was given up halfway never comes; if scans come round, every other reminder does |
| `mailbox` | Gmail, 3 messages (1 sent, 1 with an invitation), 2 runs, 1 mishap; fair | one row, a missed invitation stays missed, nothing passed over by the cursor, agreement in the end |
| `funnel` | 1 lead, 2 deals, 2 lanes on each board, 2 requests, 1 mishap | deals, promoted leads, lanes |
| `stripe_retry`, `invoice_overpaid`, `mailbox_imap` | smallest that show it | *violated*: see section 6 |

Why the bounds are enough to be of interest. In all of them two processes are the
fewest that overlap, and one mishap lets an operation be cut off, or overtaken, and then
meet every other operation to the end. `queue`: two attempts are the fewest with a retry; two
faults allow a slow run to be overtaken by one whose reply is lost. `renewal`: two runs
let a redelivered job overtake its first delivery; two requests let a cancellation overtake
another request; a horizon of two lets a subscription be renewed after its first renewal.
`renewal_live`: after a trial of one period a subscription falls due twice before the clock ends; two
subscriptions are the fewest of which one's refused id can keep a scan from the other.
`stripe`: two setup events are the fewest that can disagree; a failure and a payment the
fewest in which a read of the counter can be stale. `invoices`: a total of two can be paid in
part; two ids are an invoice and its revision; new disputes end after three events, which
leaves room for a dispute, its denial and the dispute of the next cycle. `sales_documents`:
five ids allow quote, offer, demoted quote, second offer and invoice, the shortest path on
which a revision is counted from a demoted offer. `mailbox`: message 1 has an
invitation, 2 is in the sent folder, and 3 arrives while pages are being read, so that the inbox
has two pages. `funnel`: two deals are the fewest that break "one deal per lead", two lanes on
each board allow moves and a deletion. The theorems do not depend on these bounds.

`CHECK_DEADLOCK FALSE` is set where the instance really ends: finitely many
subscriptions, events, documents, cards or messages and a bounded clock. `JobQueue` never stops,
as its clock does not, and neither does `PaymentReminders`, whose tenant may always
save the configuration.

Symmetry is used in safety runs only, over requests, runs and interchangeable ids.

### Fairness

`JobQueue`: the two `setInterval` loops poll and maintain for ever, a handler
ends, time passes (`WF`). Producers owe nothing.

`SubscriptionRenewal` and `PaymentReminders`: runs end, mails are sent and time passes.
Nothing in the repository starts a scan: that is a cron job ("daily scan",
`invoicing-lifecycle.ts:28`) or the super admin ("cron / super-admin",
`subscription-billing-queue.ts:21`). So no scan is part of `Fairness`. That one comes round is the
premise of the two properties, `ScansComeRound => ...`, in plain sight. Between two scans the queue is
worked off and the retention of finished jobs runs out, so jobs are taken and finished
jobs purged even if scans disturb them in between (`SF`). No scan lasts longer
than the retention of an hour.

`StripeWebhooks`: a handler's calls end; Stripe sends an event again until it is
answered 2xx, and the service is then up (`WF` of a claim while the event is
not answered). Stripe is external and does so for days; three of
its retries suffice in the instance.

`MailboxSync`: the scan, which the worker schedules itself (`schedulePeriodicMailboxSyncScan`), comes
round, the poll interval and the age of a sync that goes on
pass, and workers go on with what they took; a mark that has begun ends. Nothing
says that a push to the provider succeeds, that mail arrives or that a user does anything, connects
an account again included.

Faults are bounded everywhere, so they end.

## 4. Theorems

All are invariance or step properties of `Spec`, for all constants that satisfy the
module's assumption (finitely many jobs, events or runs, distinct null values,
natural-number bounds). Nothing is assumed about the size of any set of processes,
documents or rows, except that jobs, events and runs are finite where they are counted.
Every module's `TypeOK` is a theorem (`TypeCorrect`); the run `funnel` checks it too, as a lane of
the other board would violate it; the others spend their time on properties that could fail.

**JobQueue.** `IInv` strengthens the properties by three facts. *Turns*: the attempts of a row
number the runs that got it, no two runs have the same turn, and a turn that put the row
back is no longer a run's. *Payments*: each attempt was paid for by the
insert, by one stale release or by one failed turn below `MaxAttempts`; there are fewer
than `MaxAttempts` of the last, which bounds attempts although
late failures of overlapping runs may put a row back many times. *Ownership*: before the first stale release a row's only run finds
it active, unless the reply to its completion was lost. The invariant gives
`AttemptsBounded` through the cardinality of the set of retried turns, and every step
of `Next` maps to a step of `JobDelivery` or to none (`Refinement`). `RowConsistent`, that status, lock and purge date of a row fit each other whatever
was written by id over whatever, is one of its conjuncts.

**SubscriptionRenewal.** What a run has read is a period end of the row's, past or
present; a run that has inserted its payment has read the present one, is the only
such run, and the payment is in the ledger (`ChargesWellFormed`). Together with
the unique index that is why writes by id, guarded by nothing, neither undo nor skip
a period. The invariant also says which jobs can exist (`JobsWellFormed`) and which
rows a request can work on (`RequestsWellFormed`). `TrialIsFree` follows too.
`EarlyChargesAreReruns` needs a second invariant (`EarlyInv`). It counts, for each row, the jobs
that wait for a run and the runs that can still move the row (`Pending`). The job of the
present period charges nothing early; all others, together with the periods charged ahead of the
clock, are at most as many as the redeliveries (`RerunsCover`). A scan adds a job only if its
id is free, that is, only if the job of the present period is not pending; when a
run moves the row on, the periods ahead grow by one and its own job is gone.
`LastPeriodAfterCancel` says what a cancellation leaves running: a run that moves a canceled
row on read it before it was canceled (`ChargesWellFormed`), so the period it begins is the one after
that of the cancellation; and a request that is about to cancel has read an end the row
had (`SeenInv`), so the end it notes is none of another period. `TornStaysTorn` is the bad news, proved:
a row whose payment for the next period is in the ledger while no run is about to write the
period is never renewed again, since the index refuses every further payment.

**StripeWebhooks.** A claim belongs to its run, or its event is handled or orphaned
(`ClaimsAccounted`), which makes runs of an event exclude each other and answers honest. An event that was handled keeps its claim, so that no run ever gets it again
(`HandledOnce`), and one that is still open is not answered and its claim is free or held by the run at
work on it, so that Stripe sends it again and is heard (`OpenEventsComeBack`; the exceptions are
those of `HandledOrCut`). For the counter, no number a run has read exceeds the failures handled so far
plus the writes reported as errors (`ReadingsBounded`); the proof counts `handled` with
`FS_AddElement` when a run finishes. `CardsAgree` rests on `SetupsInOrder`: a run that is about
to save a card brought the one that is Stripe's default, unless another setup of the subscription
came between.

**InvoiceLifecycle.** `Shape` says what a request at each of its steps works on and
how much it may still collect; `AloneInv`, that a request works alone on an invoice that did
not overlap, the revision it follows up and the source it goes back to included.
`CurrentInv` carries what a request saw to the moment it writes: if it is alone, the status is
still one its target is legal from, which with `AloneInv` gives `FollowsLegalTransitions` although the
writes are guarded by nothing. `RevisedInv` says that an invoice with a revision
was settled or is about to be, by the request that revised it; `MoneyInv` has one
equation for each step of a payment, a discount and a credit, from which `MoneyAccounted`
follows when no request is left. `DisputesInv` relates the audit events to status and step: the last
answer is as new as the last dispute only if the dispute is resolved. `RevisionsInv` relates revisions to the audit events that tell of
them: an acknowledged invoice that was revised has a `followUp` after the email of the
acknowledgment, or a request that is about to record it. Hence `OneRevision`: an invoice is not
credited or discounted twice. `OverpaidByMishapsOnly`, that no more than the total is collected but once more for
each mishap, rests on the requests that may yet collect (`Collectors`): what was collected and what they
carry is bounded by the total times one more than the mishaps (`Bounded`), since a second request can
begin to pay only while the status still says so, that is, where it overlaps the first or where one was cut off
before it wrote the status. For the refinement, a step that reads and decides maps to `Plan`, the write to `Write`, the end of a request to
`Drop`, an inserted revision to `Create`.

**SalesDocuments.** `RequestsFit` and `WorkInv`: a request on a document of an untroubled deal is
alone with it, and what it writes is of its kind and revives nothing. `DealsInv`: a deal is at one
*head*, a live document whose successor is not yet there; insertion of a successor moves the
head, since the request supersedes its document from that statement on. `NumberInv`: the
last offer of a deal has the highest revision of its number, whatever path of demotions led
there, so that the next one is new. `LegalInv` carries what a request saw of a
document to the moment it writes, as `CurrentInv` does for invoices, and gives
`FollowsLegalTransitions`; here a deal, not a document, is what two requests must not meet on.

**SalesFunnel.** `DealsInv` and `RestInv` carry what a request found when it looked to its
second statement, unless another promoted or revived the same lead; `RowsInv` says that an id
taken for a new lead is in nobody else's hands; `LanesInv` that a card on its way goes
to a lane that exists, or one that is counted as stranded.

**PaymentReminders.** Without a row nothing is owed (`NothingWithoutRow`); the run that inserted the
row is the only one that will queue its mail (`OneRunOwesMail`); mails sent and queued are paid
for by the row or by a repetition of the email job (`MailsCounted`). That gives
`MailedOnce`, and `RowsAccounted` says where the mail of a row is. The reverse side is
`AbandonedForGood`: once a row is there with no mail queued or sent and no run that would queue it, none
ever is, as the row turns every later run away.

**MailboxSync.** Unless a lock was lost or a dispatch came late, one job of the account at most
waits or runs (`AloneInv`), so a message that a run has looked for in vain has still no row when
it is inserted (`RowsInv`): `OneRowPerMessage`. `MissedForGood` holds with races, too: an invitation is
recorded by the run that imports its message and by nobody else but a reader of the stored text, and a message that has a
row is not imported again by any run that begins to look at it later (`InvitationsMissed`).
`NothingSkipped` is about the cursor: of two messages of a folder the older is never left behind
where the newer was imported, but for one that the provider listed and did not hand out. Its
invariant is `SkipInv`. A run fetches at the cursor, which nobody else moves (`AloneInv`); the
page and the place where the cursor goes on meet (`PagesMeet`), so what the cursor is about to pass is
known, withheld or on the page; and a page loses a message only to a row. All steps but the fetch
and the save are of one kind (`Onward`), for which that is shown once. That a page has a newest message, which the types rest on, is proved from the well-foundedness of `<`
(`MaxExists`).

Seven theorems state properties that no run names, as the runs' time is limited:
`AttemptsBounded`, `FinishedStaysFinished`, `TrialIsFree`, `TornStaysTorn`, `OpenEventsComeBack`,
`RowsAccounted` and `OneRevision`; TLC agreed with each on the run's instance
before it was proved (`OneRevision` on one with a third invoice id, the fewest that can break
it).

Only model-checked: the liveness properties (`JobsArePurged`, `CaughtUpOrTorn`,
`HandledOrCut`, `MirrorsInTheEnd`, `RemindedOrTorn`), as fairness and `ENABLED` are out of the
prover's reach. Every other property of a passing run is a theorem.

## 5. What each property would catch

| Property | A change of the code that would break it |
|---|---|
| `RowConsistent` | a retry that keeps the purge date of the outcome before |
| `GivenUpOnlyWhenExhausted` | `<` and `<=` confused in either of the two comparisons of attempts |
| `NoOverlapBeforeStaleRelease` | a claim that offers active rows |
| `LiveRowsSurvive` | clearing a key without looking at the status |
| `ImplementsDelivery` | a purge of rows without a date |
| `JobsArePurged` | a completion without a purge date; stale locks kept when attempts are used up |
| `LedgerWithoutGaps`, `PeriodsRollForward` | a next period counted from today; a missing unique index |
| `AtMostOneChargeAfterCancel`, `LastPeriodAfterCancel` | a charge run that does not look at the status |
| `CaughtUpOrTorn` | a due query for periods that end just now, which makes up for nothing |
| `EarlyChargesAreReruns` | a job in progress whose id is free |
| `OneRunPerEvent`, `HandledOnce`, `FailuresNotOvercounted` | an insert that lets every request through |
| `AnsweredIsHandled`, `HandledOrCut`, `CardsAgree` | a failed handler that keeps its claim |
| `MoneyAccounted` | a revision for the total instead of what is left of it |
| `NeverCollectibleTwice`, `FollowsLegalTransitions` of invoices | a dispute accepted in any status |
| `OverpaidByMishapsOnly` | a payment accepted of an invoice that was paid in part |
| `OneAnswerPerDispute`, `NoDisputeIsStuck` | a dispute taken as resolved by a denial only, or by the answer to an earlier cycle |
| `ImplementsDocumentStatus` | an overdue job that looks at the date only; an expiry that takes any offer |
| `FollowsLegalTransitions` of quotes and offers | an expiry that takes any offer |
| `OneLiveDocument` | a quote converted again after it was converted |
| `RevisionsUnique` | a promotion that takes over the revision of the demoted offer |
| `MailedOnce`, `AbandonedForGood` | the unique index on invoice and kind missing |
| `RemindedOrTorn` | a reminder due on its very day only, so that a day without a scan is not made up for |
| `OneRowPerMessage` | a look at the queue that knows the account's own job id only |
| `MissedForGood` | a look for the message that overlooks what has been read |
| `NothingSkipped` | a folder taken as read after every page |
| `MirrorsInTheEnd` | a reconciliation that takes over the unread count of the thread |
| `OneDealPerLead` | a promotion that does not look for a deal |
| `PromotedLeadsRest` | a reactivation that does not |
| `CardsOnBoard` | a lane deleted with cards on it |

## 6. Findings

Three runs state, as their single property, what a comment, document or message of the
repository says, and are violated.

- `stripe_retry`: an event answered as a duplicate of a run that then fails is lost
  (`stripe-webhooks.ts:142`).
- `invoice_overpaid`: two payments of one invoice that overlap are both registered in
  full (`invoicing-repos.ts:3415`, against `tenant-invoicing.ts:1432`).
- `mailbox_imap`: the sync of an IMAP account never leaves the inbox
  (`imap-smtp-connector.ts:215`, against `docs/mailbox-module.md:24`).

The passing runs say how far each goes: `HandledOrCut` that an event is lost in no other
way, `MoneyAccounted` that the money of an invoice is right unless two requests overlapped
on it or one ended half way, and Gmail's `MirrorsInTheEnd` that the order of folders works
where the connector reports the end of one.

Divergences met while modelling that have no run of their own:

- A renewal that ends between payment row and period is never repaired
  (`subscription-billing-repos.ts:141`); `CaughtUpOrTorn` says it is the only way to stay overdue, and
  `TornStaysTorn`, a theorem, that nothing in the code leads out of it.
- A reminder job that ends between its row and its mail is never made good, for the row turns
  the retry away (`invoicing-lifecycle-worker.ts:131`): `AbandonedForGood`, a theorem.
- A discount or credit that ends between the revision and its audit event can be applied again
  (`invoicing-repos.ts:2961`); `OneRevision` says nothing else brings a second revision about.
- A charge job delivered again after its effect charges a period that has not begun
  (`subscription-billing-repos.ts:118`); `EarlyChargesAreReruns` says each needs a redelivery.
- Nothing applies a scheduled plan change (`subscription-repos.ts:507`, against
  `docs/guidelines/architecture.md:74`).
- Overlapping requests subscribe twice (`account-subscription.ts:139`).
- Overlapping promotions make two deals of one lead (`sales-funnel-sales-deal-repos.ts:810`, against
  `docs/sales-funnel-module.md:63`); `OneDealPerLead` says nothing else does. A deal made by hand may
  name a lead that has one already.
- The count of failed charges may fall short of the failures when two are handled at once;
  `FailuresNotOvercounted` says it never exceeds them.
- An invitation whose message was imported while the account had neither owner nor linked calendar, or by a
  run that ended before it was recorded, is not made good (`mailbox-sync-worker.ts:329`); `MissedForGood`, a
  theorem, says that only a reader of a text that holds it brings it back.
- A run that has read the old authorization and fails after the user connected the account again
  writes the reconnect error over the account's new state (`mailbox-sync-worker.ts:376`), and the scan leaves the
  account out from then on (`mailbox-repos.ts:2411`), although its authorization is good and the sync
  that the reconnection asked for was not added because that run was active. A user must connect it once more or ask for
  a sync. It is one of the exceptions of `MirrorsInTheEnd`.
- A first reminder with a negative offset is accepted (`shared/src/invoicing.ts:435`), but
  `addDaysToIsoDate` makes it due with the invoice.
- After a denied dispute the invoice gets a new due date, but the rows of its
  reminders remain, so it is not reminded again.
- The email job of a reminder does not look at the status (`tenant-mail-jobs.ts:90`), so an
  invoice that was settled meanwhile is dunned all the same.
- `paymentRemindersEnabled` has an effect only before the configuration is first saved, since the email moment,
  which every save writes, takes precedence (`invoicing-repos.ts:536`).
- A customer without an address gets an audit event at every scan.
- The scans take at most 200 rows in no stated order.

## 7. Plan

Done: job queue, renewal, webhooks, invoices, quotes and offers, reminders, mailbox sync,
sales funnel. Left, most important behaviour first; each module with named assumptions on its
constants and without recursive operators, so that it can be proved about.

1. `DocumentNumbers`: the sequence in both dialects; an abstract counter; uniqueness proved
   for PostgreSQL, run for MySQL (`invoicing-repos.ts:643`).
2. `CacheStore`, and over it `LoginLockout`, `OneTimeTicket` and `RefreshRotation`; an abstract
   map with expiry that the store implements.
3. `CalendarInvites`: updates of one invitation out of order
   (`mailbox-repos.ts:2990`), and the emptying of the trash, whose offset skips batches
   (`mailbox-repos.ts:4042`).
4. `InvoiceTotals` and `SubscriptionCalendar`: rounding, tax and month arithmetic as
   operators against reference definitions.

That the queues inside `SubscriptionRenewal` and `PaymentReminders` implement `JobDelivery` cannot be
shown by a refinement mapping: there an id is free again after the purge and is used again, while a
job that `JobDelivery` has forgotten stays forgotten. A theorem still worth having about what is
here: that an account's unread counts agree with its rows wherever no two writers met.

## 8. Not modelled

Records without a protocol (CRM, workforce, catalogue, company subscriptions, users and
roles) change in single statements guarded by foreign keys. Encryption and encodings are
beyond model checking. Mail transport, files, clients, logging and migrations are input
and output; mail providers appear as `MailboxSync` sees them. The read-only views of the job
queue change nothing.

Within the modelled components: the lines, texts and taxes of documents; the secret of a
customer's link; prices and the calendar of months; signature checks of webhooks; stars,
folders, bodies, attachments and calendars of mailboxes, the deletion of users, calendars and
accounts, and the Microsoft connector; owners,
contacts, timeline and the order of lanes in the funnel, and a deal's patch with
`archived: false`. The jobs in which the lifecycle scan puts expiry and overdue marks are
reduced to their effect, which may come at any time they could.

## 9. Running

```
tlc -config MCJobQueue.cfg MCJobQueue
tlc -config MCInvoiceLifecycle.cfg MCInvoiceLifecycle
tlapm JobQueue_proofs.tla
```

Every other configuration names its module in `PROJECT.json`. Liveness runs take the longest,
one to four minutes each.
