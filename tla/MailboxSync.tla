---------------------------- MODULE MailboxSync ----------------------------
(***************************************************************************)
(* The sync of one external mailbox account: jobs of the mail-sync queue   *)
(* (apps/worker/src/mailbox-sync-worker.ts, apps/api/src/lib/              *)
(* mailbox-queue.ts) that fetch a page of the provider's inbox or sent     *)
(* folder, import or reconcile its messages statement by statement         *)
(* (packages/db/src/mailbox-repos.ts), save the cursor and enqueue a       *)
(* continuation; and the changes a user makes meanwhile, pushed to the     *)
(* provider if that works.                                                 *)
(*                                                                         *)
(* Mail is numbered in the order of its arrival.  A message has a read     *)
(* flag and may bear an invitation.  Gmail may take the account's          *)
(* authorization back, until its user connects the account again.          *)
(* Stars, folders of threads, bodies and attachments are left out, and so  *)
(* is the sync of calendars.                                               *)
(***************************************************************************)
EXTENDS Integers, FiniteSets, FiniteSetsExt

CONSTANTS
  Provider,    \* "gmail" or "imap"
  Backlog,     \* messages that are there when the account is connected
  MaxMail,     \* bound: those and the messages that arrive
  Sent,        \* those in the sent folder; the others are in the inbox
  Invites,     \* those with a calendar invitation
  Embedded,    \* those of them whose invitation is in the text that is stored
  Runs,        \* jobs the workers run at a time
  MaxMishaps   \* bound: changes of the user, runs that fail or lose their lock,
               \* late dispatches, messages the provider does not hand out or
               \* the thread does not count, authorizations taken back

Mail == 1 .. MaxMail

ASSUME MailboxAssumption ==
  /\ Provider \in {"gmail", "imap"}
  /\ MaxMail \in Nat \ {0} /\ Backlog \in 0 .. MaxMail /\ MaxMishaps \in Nat
  /\ Sent \subseteq Mail /\ Invites \subseteq Mail /\ Embedded \subseteq Invites
  /\ IsFiniteSet(Runs)

VARIABLES
  \* the provider
  arrived,     \* messages 1 .. arrived are there
  remoteRead,  \* those marked as read
  revoked,     \* it gives no access token for the authorization that is stored,
               \* and the last one has run out
  \* mailbox_accounts
  cursor,      \* sync_cursor: folder and page, 0 for the first page
  syncStatus,  \* "reconnect" is an error that only a new authorization ends
  recent,      \* last_synced_at is less than the poll interval ago
  quiet,       \* updated_at is too long ago for a sync that goes on
  claimed,     \* the account has an owner or a linked calendar
  \* the queue
  stable,      \* the job with the account's own id
  fresh,       \* waiting continuations, each with an id of its own
  \* the runs
  pc, job, at, page, thread, count,
  outdated,    \* those that fetch with an authorization replaced since
  \* mailbox_messages, mailbox_threads and the calendar; a row is known by the
  \* message and the run it was inserted for
  rows, unread, invited,
  \* the user's mark, and the provider's consent screen
  user, consent,
  \* history, read by no guard but those of the bounds
  raced,       \* a run lost its lock, or a dispatcher acted on what it had seen before
  withheld,    \* messages that the provider listed and once did not hand out
  mishaps

provider == <<arrived, remoteRead, revoked>>
account  == <<cursor, syncStatus, recent, quiet, claimed>>
queue    == <<stable, fresh>>
runs     == <<pc, job, at, page, thread, count, outdated>>
mailbox  == <<rows, unread, invited>>
requests == <<user, consent>>
history  == <<raced, withheld, mishaps>>
vars     == <<provider, account, queue, runs, mailbox, requests, history>>

Ids    == Mail \X Runs
NoId   == <<0, "none">>
NoRow  == [thread |-> NoId, read |-> FALSE]
Absent == -1      \* of a thread's unread_count

Folder      == {"inbox", "sent"}
FolderState == [folder : Folder, page : 0 .. MaxMail]
Start       == [folder |-> "inbox", page |-> 0]

Idle == [at |-> "idle", thread |-> NoId, read |-> FALSE, count |-> 0]

TypeOK ==
  /\ arrived    \in 0 .. MaxMail
  /\ remoteRead \subseteq Mail
  /\ cursor     \in FolderState
  /\ revoked    \in BOOLEAN
  /\ syncStatus \in {"idle", "syncing", "error", "reconnect"}
  /\ recent     \in BOOLEAN
  /\ quiet      \in BOOLEAN
  /\ claimed    \in BOOLEAN
  /\ stable     \in {"none", "waiting", "active"}
  /\ fresh      \in Nat
  /\ pc         \in [Runs -> {"idle", "fetch", "message", "count", "insert", "invite",
                              "reconcile", "recount", "rewrite", "save", "continue"}]
  /\ job        \in [Runs -> {"none", "stable", "fresh", "lost"}]
  /\ at         \in [Runs -> FolderState]
  /\ page       \in [Runs -> SUBSET (Mail \X BOOLEAN)]
  /\ thread     \in [Runs -> Ids \union {NoId}]
  /\ count      \in [Runs -> Nat]
  /\ outdated   \subseteq Runs
  /\ rows       \in [Ids -> [thread : Ids \union {NoId}, read : BOOLEAN]]
  /\ unread     \in [Ids -> Nat \union {Absent}]
  /\ invited    \subseteq Mail
  /\ user       \in [at : {"idle", "mark", "count", "push"}, thread : Ids \union {NoId},
                     read : BOOLEAN, count : Nat]
  /\ consent    \in BOOLEAN
  /\ raced      \in BOOLEAN
  /\ withheld   \subseteq Mail
  /\ mishaps    \in 0 .. MaxMishaps

\* An account is a user's own or, without an owner, an agent's; Gmail's come with
\* a linked calendar, if the request that connects them gets that far.
Init ==
  /\ arrived = Backlog /\ remoteRead = Sent \intersect (1 .. Backlog) /\ revoked = FALSE
  /\ cursor = Start /\ syncStatus = "idle" /\ recent = FALSE /\ quiet = FALSE
  /\ claimed \in BOOLEAN
  /\ stable = "none" /\ fresh = 0
  /\ pc     = [r \in Runs |-> "idle"]
  /\ job    = [r \in Runs |-> "none"]
  /\ at     = [r \in Runs |-> Start]
  /\ page   = [r \in Runs |-> {}]
  /\ thread = [r \in Runs |-> NoId]
  /\ count  = [r \in Runs |-> 0]
  /\ outdated = {}
  /\ rows   = [i \in Ids |-> NoRow]
  /\ unread = [i \in Ids |-> Absent]
  /\ invited = {}
  /\ user = Idle /\ consent = FALSE
  /\ raced = FALSE /\ withheld = {} /\ mishaps = 0

-----------------------------------------------------------------------------
(* The provider *)

\* A message arrives, unread, or one that was sent from another client appears.
Arrive ==
  /\ arrived < MaxMail
  /\ arrived' = arrived + 1
  /\ remoteRead' = IF arrived' \in Sent THEN remoteRead \union {arrived'} ELSE remoteRead
  /\ UNCHANGED <<revoked, account, queue, runs, mailbox, requests, history>>

\* The authorization is taken back or runs out.  (An IMAP account has a password:
\* what a server says of a wrong one is an error like others.)
Revoke ==
  /\ Provider = "gmail" /\ ~revoked
  /\ mishaps < MaxMishaps
  /\ revoked' = TRUE
  /\ mishaps' = mishaps + 1
  /\ UNCHANGED <<arrived, remoteRead, account, queue, runs, mailbox, requests, raced, withheld>>

InFolder(f) == {m \in 1 .. arrived : (m \in Sent) = (f = "sent")}

\* Gmail lists the newest first; a page, of one message here, goes on after
\* the last one listed.  IMAP fetches what is there since the day of the
\* cursor, which is not over here.
Remaining(s) ==
  {m \in InFolder(s.folder) : Provider = "imap" \/ s.page = 0 \/ m < s.page}

Listed(s) == IF Provider = "imap" \/ Remaining(s) = {} THEN Remaining(s)
             ELSE {Max(Remaining(s))}

\* syncDelta's pageCursor: Gmail's next page, if there is one, and for IMAP
\* always the time of the fetch.
PageCursor(s) ==
  IF Provider = "imap" THEN 1
  ELSE IF Cardinality(Remaining(s)) > 1 THEN Max(Remaining(s)) ELSE 0

-----------------------------------------------------------------------------
(* The queue *)

\* Mutant: only the account's own job id is looked up.
OwnJobActive == stable # "none"

\* isAccountMailSyncActive: the account's own job, or any other of its jobs,
\* is waiting or held by a run.  (On the SQL queue the look for the others stops
\* after 200 jobs; what it misses is a late dispatch, below.)
AccountActive == stable # "none" \/ fresh > 0 \/ \E r \in Runs : job[r] = "fresh"

\* enqueueMailboxSyncAccount, when a user asks for it.
RequestSync ==
  /\ ~AccountActive
  /\ stable' = "waiting"
  /\ UNCHANGED <<provider, account, fresh, runs, mailbox, requests, history>>

\* What listAccountsDueForSync selects.
DueForSync == (syncStatus # "syncing" \/ quiet) /\ ~recent /\ syncStatus # "reconnect"

\* handleSyncScan
ScanDispatch == DueForSync /\ RequestSync

\* Either may have looked at the queue some time before it adds the job; the
\* id of a job that is there makes the addition a no-op.
DispatchLate ==
  /\ stable = "none" /\ AccountActive
  /\ mishaps < MaxMishaps
  /\ stable'  = "waiting"
  /\ raced'   = TRUE
  /\ mishaps' = mishaps + 1
  /\ UNCHANGED <<provider, account, fresh, runs, mailbox, requests, withheld>>

PollIntervalPasses ==
  /\ recent
  /\ recent' = FALSE
  /\ UNCHANGED <<provider, cursor, syncStatus, quiet, claimed, queue, runs, mailbox, requests,
                 history>>

SyncingGoesStale ==
  /\ syncStatus = "syncing" /\ ~quiet
  /\ quiet'  = TRUE
  /\ recent' = FALSE
  /\ UNCHANGED <<provider, cursor, syncStatus, claimed, queue, runs, mailbox, requests, history>>

-----------------------------------------------------------------------------
(* A run of handleSyncAccount *)

Goto(r, step) == pc' = [pc EXCEPT ![r] = step]

\* A worker takes a job; the run reads the account and marks it as syncing.
StartSync(r, kind) ==
  /\ pc[r] = "idle"
  /\ r = CHOOSE w \in Runs : pc[w] = "idle"   \* any will do
  /\ \/ kind = "stable" /\ stable = "waiting" /\ stable' = "active" /\ UNCHANGED fresh
     \/ kind = "fresh" /\ fresh > 0 /\ fresh' = fresh - 1 /\ UNCHANGED stable
  /\ job' = [job EXCEPT ![r] = kind]
  /\ at'  = [at  EXCEPT ![r] = cursor]
  /\ syncStatus' = "syncing"
  /\ quiet' = FALSE
  /\ Goto(r, "fetch")
  /\ UNCHANGED <<provider, cursor, recent, claimed, page, thread, count, outdated, mailbox,
                 requests, history>>

\* refreshAuthIfNeeded, with the authorization that the run has read
Authorized(r) == ~revoked /\ r \notin outdated

\* syncDelta; a message that the provider lists but does not hand out is left
\* out of the page (gmail-connector.ts:260).
Fetch(r, missing) ==
  /\ pc[r] = "fetch"
  /\ Authorized(r)
  /\ missing # {} => Provider = "gmail" /\ mishaps < MaxMishaps
  /\ page' = [page EXCEPT ![r] = {<<m, m \in remoteRead>> : m \in Listed(at[r]) \ missing}]
  /\ at'   = [at EXCEPT ![r].page = PageCursor(at[r])]
  /\ withheld' = withheld \union missing
  /\ mishaps' = IF missing = {} THEN mishaps ELSE mishaps + 1
  /\ Goto(r, "message")
  /\ UNCHANGED <<provider, account, queue, job, thread, count, outdated, mailbox, requests, raced>>

\* The message of the page that is next.
Newest(msgs) == CHOOSE p \in msgs : \A q \in msgs : q[1] <= p[1]

Current(r) == Newest(page[r])

RowsOf(m)     == {i \in Ids : i[1] = m /\ rows[i] # NoRow}
RowsIn(t)     == {i \in Ids : rows[i] # NoRow /\ rows[i].thread = t}
UnreadRows(t) == {i \in RowsIn(t) : ~rows[i].read}
Threads       == {t \in Ids : unread[t] # Absent}

Known(m) == RowsOf(m) # {}

\* Mutant: a message that has been read is not found.
FoundUnread(m) == \E i \in RowsOf(m) : ~rows[i].read

\* messageExistsByProviderId
Found(m) == Known(m)

\* A known message is reconciled.  For another the thread is looked up, by the
\* provider's id (all of Gmail's mail is one thread here, IMAP's has no id).
LookUp(r) ==
  LET m == Current(r)[1] IN
  /\ pc[r] = "message"
  /\ page[r] # {}
  /\ IF Found(m)
     THEN /\ \E i \in RowsOf(m) : thread' = [thread EXCEPT ![r] = i]
          /\ UNCHANGED count
          /\ Goto(r, "reconcile")
     ELSE /\ IF Provider = "imap" \/ Threads = {}
             THEN thread' = [thread EXCEPT ![r] = NoId] /\ UNCHANGED count
             ELSE \E t \in Threads : /\ thread' = [thread EXCEPT ![r] = t]
                                     /\ count'  = [count  EXCEPT ![r] = unread[t]]
          /\ Goto(r, "count")
  /\ UNCHANGED <<provider, account, queue, job, at, page, outdated, mailbox, requests, history>>

\* upsertMailboxThread: the count that was read, and one more if the message is
\* unread, or a thread of its own.  A thread that was in the trash or the drafts
\* counts no new message.
UpsertThread(r, filed) ==
  LET m     == Current(r)[1]
      delta == IF Current(r)[2] \/ filed THEN 0 ELSE 1
      t     == IF thread[r] = NoId THEN <<m, r>> ELSE thread[r]
  IN
  /\ pc[r] = "count"
  /\ filed => thread[r] # NoId /\ ~Current(r)[2] /\ mishaps < MaxMishaps
  /\ mishaps' = IF filed THEN mishaps + 1 ELSE mishaps
  /\ unread' = [unread EXCEPT ![t] = IF thread[r] = NoId THEN delta ELSE count[r] + delta]
  /\ thread' = [thread EXCEPT ![r] = t]
  /\ Goto(r, "insert")
  /\ UNCHANGED <<provider, account, queue, job, at, page, count, outdated, rows, invited,
                 requests, raced, withheld>>

\* The run turns to the next message of the page.
Forward(r) ==
  /\ page'   = [page   EXCEPT ![r] = @ \ {Current(r)}]
  /\ thread' = [thread EXCEPT ![r] = NoId]
  /\ count'  = [count  EXCEPT ![r] = 0]
  /\ Goto(r, "message")

\* insertMailboxMessage
InsertMessage(r) ==
  LET m == Current(r)[1] IN
  /\ pc[r] = "insert"
  /\ rows' = [rows EXCEPT ![<<m, r>>] = [thread |-> thread[r], read |-> Current(r)[2]]]
  /\ IF m \in Invites THEN Goto(r, "invite") /\ UNCHANGED <<page, thread, count>>
                      ELSE Forward(r)
  /\ UNCHANGED <<provider, account, queue, job, at, outdated, unread, invited, requests,
                 history>>

\* parseAndUpsertIcsInvite, if there is somebody whose calendar it is
RecordInvite(r) ==
  /\ pc[r] = "invite"
  /\ invited' = IF claimed THEN invited \union {Current(r)[1]} ELSE invited
  /\ Forward(r)
  /\ UNCHANGED <<provider, account, queue, job, at, outdated, rows, unread, requests, history>>

\* reconcileMailboxMessageFromProvider: the message, ...
Reconcile(r) ==
  /\ pc[r] = "reconcile"
  /\ rows' = [rows EXCEPT ![thread[r]].read = Current(r)[2]]
  /\ thread' = [thread EXCEPT ![r] = rows[thread[r]].thread]
  /\ Goto(r, "recount")
  /\ UNCHANGED <<provider, account, queue, job, at, page, count, outdated, unread, invited,
                 requests, history>>

\* Mutant: the unread count is taken over from the thread.
RecountKept(t) == unread[t]

\* ... the unread messages of its thread, counted anew, ...
Recounted(t) == Cardinality(UnreadRows(t))

Recount(r) ==
  /\ pc[r] = "recount"
  /\ count' = [count EXCEPT ![r] = Recounted(thread[r])]
  /\ Goto(r, "rewrite")
  /\ UNCHANGED <<provider, account, queue, job, at, page, thread, outdated, mailbox, requests,
                 history>>

\* ... and the thread.
Rewrite(r) ==
  /\ pc[r] = "rewrite"
  /\ unread' = [unread EXCEPT ![thread[r]] = count[r]]
  /\ Forward(r)
  /\ UNCHANGED <<provider, account, queue, job, at, outdated, rows, invited, requests, history>>

\* Mutant: the other folder comes after every page.
AdvanceAlways(s) == [folder |-> IF s.folder = "inbox" THEN "sent" ELSE "inbox", page |-> 0]

\* advanceMailboxSyncFolderState
Advance(s) ==
  IF s.page # 0 THEN s
  ELSE [folder |-> IF s.folder = "inbox" THEN "sent" ELSE "inbox", page |-> 0]

CycleComplete(s) == Advance(s) = Start

\* The cursor is saved ...
SaveCursor(r) ==
  /\ pc[r] = "message"
  /\ page[r] = {}
  /\ cursor' = Advance(at[r])
  /\ syncStatus' = "idle"
  /\ quiet' = FALSE
  /\ recent' = (recent \/ CycleComplete(at[r]))
  /\ Goto(r, "continue")
  /\ UNCHANGED <<provider, claimed, queue, job, at, page, thread, count, outdated, mailbox,
                 requests, history>>

\* The run is over.
Reset(r) ==
  /\ pc'     = [pc     EXCEPT ![r] = "idle"]
  /\ job'    = [job    EXCEPT ![r] = "none"]
  /\ at'     = [at     EXCEPT ![r] = Start]
  /\ page'   = [page   EXCEPT ![r] = {}]
  /\ thread' = [thread EXCEPT ![r] = NoId]
  /\ count'  = [count  EXCEPT ![r] = 0]
  /\ outdated' = outdated \ {r}

\* ... and a continuation enqueued, unless the cycle is over.
Continue(r) ==
  /\ pc[r] = "continue"
  /\ fresh'  = IF CycleComplete(at[r]) THEN fresh ELSE fresh + 1
  /\ stable' = IF job[r] = "stable" THEN "none" ELSE stable
  /\ Reset(r)
  /\ UNCHANGED <<provider, account, mailbox, requests, history>>

\* Without an authorization the run is over and its job done: the account waits
\* for its user.
StopForReconnect(r) ==
  /\ pc[r] = "fetch"
  /\ ~Authorized(r)
  /\ syncStatus' = "reconnect" /\ recent' = TRUE /\ quiet' = FALSE
  /\ stable' = IF job[r] = "stable" THEN "none" ELSE stable
  /\ Reset(r)
  /\ UNCHANGED <<provider, cursor, claimed, fresh, mailbox, requests, history>>

\* The job of a run goes back to the queue, or its attempts are used up.
GiveBack(r, again) ==
  /\ stable' = IF job[r] # "stable" THEN stable ELSE IF again THEN "waiting" ELSE "none"
  /\ fresh'  = IF job[r] = "fresh" /\ again THEN fresh + 1 ELSE fresh

\* The run ends where it is: a statement or the provider fails, which the
\* account is told, or the process dies.
Fail(r, told, again) ==
  /\ pc[r] # "idle"
  /\ mishaps < MaxMishaps
  /\ mishaps' = mishaps + 1
  /\ IF told THEN syncStatus' = "error" /\ recent' = TRUE /\ quiet' = FALSE
             ELSE UNCHANGED <<syncStatus, recent, quiet>>
  /\ GiveBack(r, again)
  /\ Reset(r)
  /\ UNCHANGED <<provider, cursor, claimed, mailbox, requests, raced, withheld>>

\* A slow run loses its lock, and its job goes to another.
LoseLock(r) ==
  /\ job[r] \in {"stable", "fresh"}
  /\ mishaps < MaxMishaps
  /\ mishaps' = mishaps + 1
  /\ raced'   = TRUE
  /\ GiveBack(r, TRUE)
  /\ job'     = [job EXCEPT ![r] = "lost"]
  /\ UNCHANGED <<provider, account, pc, at, page, thread, count, outdated, mailbox, requests,
                 withheld>>

-----------------------------------------------------------------------------
(* The user                                                                  *)

\* A user marks a thread as read or unread (PATCH /threads/:threadId): its
\* messages are listed, ...
MarkThread(t, read) ==
  /\ user.at = "idle"
  /\ mishaps < MaxMishaps
  /\ mishaps' = mishaps + 1
  /\ user' = [at |-> "mark", thread |-> t, read |-> read,
              count |-> IF read THEN 0 ELSE Max({1, Cardinality(RowsIn(t))})]
  /\ UNCHANGED <<provider, account, queue, runs, mailbox, consent, raced, withheld>>

\* ... those there are now marked, then the thread, ...
MarkMessages ==
  /\ user.at = "mark"
  /\ rows' = [i \in Ids |-> IF i \in RowsIn(user.thread) THEN [rows[i] EXCEPT !.read = user.read]
                            ELSE rows[i]]
  /\ user' = [user EXCEPT !.at = "count"]
  /\ UNCHANGED <<provider, account, queue, runs, unread, invited, consent, history>>

WriteUnreadCount ==
  /\ user.at = "count"
  /\ unread' = [unread EXCEPT ![user.thread] = user.count]
  /\ user' = [user EXCEPT !.at = "push"]
  /\ UNCHANGED <<provider, account, queue, runs, rows, invited, consent, history>>

\* ... and the provider, if it can be reached.
PushReadState(ok) ==
  LET pushed == {i[1] : i \in RowsIn(user.thread)} IN
  /\ user.at = "push"
  /\ ok => ~revoked
  /\ remoteRead' = IF ~ok THEN remoteRead
                   ELSE IF user.read THEN remoteRead \union pushed ELSE remoteRead \ pushed
  /\ user' = Idle
  /\ UNCHANGED <<arrived, revoked, account, queue, runs, mailbox, consent, history>>

\* A calendar is linked to the account, by the first event a user creates with it.
LinkCalendar ==
  /\ Provider = "gmail" /\ ~claimed
  /\ mishaps < MaxMishaps
  /\ claimed' = TRUE
  /\ mishaps' = mishaps + 1
  /\ UNCHANGED <<provider, cursor, syncStatus, recent, quiet, queue, runs, mailbox, requests,
                 raced, withheld>>

\* A user opens a thread; an invitation that is missing from the calendar is
\* recorded, if the stored text of its message holds it (serializeMessage).
OpenMessage(m) ==
  /\ Known(m) /\ m \in Embedded \ invited
  /\ mishaps < MaxMishaps
  /\ invited' = invited \union {m}
  /\ mishaps' = mishaps + 1
  /\ UNCHANGED <<provider, account, queue, runs, rows, unread, requests, raced, withheld>>

\* The user of an account that waits for it turns to the provider ...
AskReconnect ==
  /\ syncStatus = "reconnect" /\ ~consent
  /\ consent' = TRUE
  /\ UNCHANGED <<provider, account, queue, runs, mailbox, user, history>>

\* ... and comes back with a new authorization, whatever the account does now; a
\* run that is about to fetch has read the old one.  A sync is requested, if that
\* works.
Reconnect(enqueued) ==
  /\ consent
  /\ consent' = FALSE
  /\ revoked' = FALSE
  /\ outdated' = IF revoked THEN {r \in Runs : pc[r] = "fetch"} ELSE outdated
  /\ syncStatus' = "idle" /\ quiet' = FALSE
  /\ stable' = IF enqueued /\ ~AccountActive THEN "waiting" ELSE stable
  /\ UNCHANGED <<arrived, remoteRead, cursor, recent, claimed, fresh, pc, job, at, page, thread,
                 count, mailbox, user, history>>

\* A mark that has begun.
MarkOn == MarkMessages \/ WriteUnreadCount \/ \E ok \in BOOLEAN : PushReadState(ok)

UserStep ==
  \/ \E t \in Threads, read \in BOOLEAN : MarkThread(t, read)
  \/ MarkOn
  \/ LinkCalendar
  \/ \E m \in Mail : OpenMessage(m)
  \/ AskReconnect
  \/ \E enqueued \in BOOLEAN : Reconnect(enqueued)

Work(r) ==
  \/ \E kind \in {"stable", "fresh"} : StartSync(r, kind)
  \/ Fetch(r, {})
  \/ LookUp(r)
  \/ UpsertThread(r, FALSE)
  \/ InsertMessage(r)
  \/ RecordInvite(r)
  \/ Reconcile(r)
  \/ Recount(r)
  \/ Rewrite(r)
  \/ SaveCursor(r)
  \/ Continue(r)
  \/ StopForReconnect(r)

Mishap(r) ==
  \/ UpsertThread(r, TRUE)
  \/ Fetch(r, Listed(at[r]))
  \/ \E told, again \in BOOLEAN : Fail(r, told, again)
  \/ LoseLock(r)

Next ==
  \/ Arrive
  \/ Revoke
  \/ RequestSync
  \/ ScanDispatch
  \/ DispatchLate
  \/ PollIntervalPasses
  \/ SyncingGoesStale
  \/ UserStep
  \/ \E r \in Runs : Work(r) \/ Mishap(r)

Spec == Init /\ [][Next]_vars

\* Time passes, the scan comes round (schedulePeriodicMailboxSyncScan), workers go
\* on with what they took, and a mark with what it began; what a user begins, the
\* provider and the faults are not fair.
FairSpec ==
  /\ Spec
  /\ WF_vars(PollIntervalPasses) /\ WF_vars(SyncingGoesStale) /\ WF_vars(ScanDispatch)
  /\ WF_vars(\E r \in Runs : Work(r))
  /\ WF_vars(MarkOn)

-----------------------------------------------------------------------------
(* Properties *)

\* A message of the provider has one row, though no index says so: the check
\* and the insert are two statements, and what keeps two runs apart is the
\* look at the queue.  A lost lock or a late dispatch defeats it.
OneRowPerMessage == ~raced => \A m \in Mail : Cardinality(RowsOf(m)) <= 1

\* A message is there without its invitation, and no run is importing it.
InviteMissed(m) ==
  /\ Known(m) /\ m \notin invited
  /\ \A r \in Runs : pc[r] \in {"count", "insert", "invite"} => Current(r)[1] # m

\* An invitation that its import missed, because the run ended between the message
\* and the invitation or because nobody had a calendar then, is missed for good:
\* every retry and every later sync finds the message and does not look at the
\* invitation again.  Only a user who opens the thread helps, and only if the
\* stored text holds it.
MissedForGood ==
  [][\A m \in Invites \ Embedded : InviteMissed(m) => InviteMissed(m)']_vars

SameFolder(m, n) == (m \in Sent) = (n \in Sent)

\* A sync that goes on at s will not come to m before it begins the folder anew.
Passed(s, m) ==
  \/ (m \in Sent) # (s.folder = "sent")
  \/ s.page # 0 /\ s.page <= m

\* The cursor, which moves page by page and run by run through both folders while
\* runs fail and mail arrives, passes over no message of Gmail's: what lies behind
\* it and was missed is newer than all that was imported, or was withheld.
NothingSkipped ==
  Provider = "gmail" /\ ~raced =>
    \A m, n \in Mail :
      m < n /\ SameFolder(m, n) /\ Known(n) /\ Passed(cursor, m) => Known(m) \/ m \in withheld

\* Rows, read flags and unread counts agree with the provider.
Mirrored ==
  /\ \A m \in 1 .. arrived : Known(m) /\ \A i \in RowsOf(m) : rows[i].read = (m \in remoteRead)
  /\ \A t \in Threads : unread[t] = Cardinality(UnreadRows(t))

\* Once mail, user and faults come to rest the mailbox agrees with the
\* provider for good: every page of both folders is read in each cycle, so
\* whatever a failed run, a push that did not arrive or a user between two
\* statements left behind is set right.  Two overlapping runs may leave a
\* second row that nothing sets right, and an account whose authorization was
\* taken back, or that a run with an old one has stopped, waits for its user.
MirrorsInTheEnd == <>[](raced \/ revoked \/ syncStatus = "reconnect" \/ Mirrored)

\* "poll-based delta sync (inbox + sent)" (docs/mailbox-module.md:24): what is
\* in the sent folder is imported.
SentIsImported == \A m \in Sent : m <= arrived ~> Known(m)
=============================================================================
