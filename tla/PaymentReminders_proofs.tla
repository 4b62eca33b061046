----------------------- MODULE PaymentReminders_proofs -----------------------
(***************************************************************************)
(* Proofs about PaymentReminders for every set of invoices and runs, every *)
(* offset and every number of faults.                                      *)
(***************************************************************************)
EXTENDS PaymentReminders, TLAPS

-----------------------------------------------------------------------------
(* Type correctness *)

\* The start has the declared types.
LEMMA InitType == Init => TypeOK
  BY ReminderAssumption DEF Init, TypeOK, NoDate

\* What the actions of a run leave in pc and job: a run is idle exactly if it
\* has no job.
LEMMA RunsWellTyped ==
  ASSUME TypeOK, NEW w \in Runs, NEW x \in Reminders \union {NoReminder},
         NEW step \in {"idle", "insert", "record", "enqueue"},
         step = "idle" <=> x = NoReminder,
         At(w, x, step)
  PROVE  /\ pc' \in [Runs -> {"idle", "insert", "record", "enqueue"}]
         /\ job' \in [Runs -> Reminders \union {NoReminder}]
         /\ \A v \in Runs : pc'[v] = "idle" <=> job'[v] = NoReminder
  BY DEF TypeOK, At

\* Every step keeps the declared types.
LEMMA NextType == TypeOK /\ [Next]_vars => TypeOK'
<1> SUFFICES ASSUME TypeOK, [Next]_vars PROVE TypeOK'
  OBVIOUS
<1> USE ReminderAssumption DEF TypeOK, invoices, config, queue, runs, history
<1>1. ASSUME NEW i \in Invoices, NEW d \in 0..Horizon, SendInvoice(i, d) PROVE TypeOK'
  BY <1>1 DEF SendInvoice
<1>2. ASSUME NEW i \in Invoices, DisputeInvoice(i) PROVE TypeOK'
  BY <1>2 DEF DisputeInvoice
<1>3. ASSUME NEW i \in Invoices, SettleInvoice(i) PROVE TypeOK'
  BY <1>3 DEF SettleInvoice
<1>4. ASSUME NEW i \in Invoices, DenyDispute(i) PROVE TypeOK'
  BY <1>4 DEF DenyDispute, NoDate
<1>5. ASSUME NEW by \in {"paymentRemindersEnabled", "emailMoments"}, NEW on \in BOOLEAN,
             Configure(by, on)
      PROVE TypeOK'
  BY <1>5 DEF Configure
<1>6. CASE StartScan
  BY <1>6 DEF StartScan, DueForReminder
<1>7. ASSUME NEW x \in listed, AddReminder(x) \/ AddRefused(x) PROVE TypeOK'
  BY <1>7 DEF AddReminder, AddRefused
<1>8. CASE LoseScan
  BY <1>8 DEF LoseScan
<1>9. ASSUME NEW S \in SUBSET kept, Purge(S) PROVE TypeOK'
  BY <1>9 DEF Purge
<1>10. ASSUME NEW w \in Runs, NEW x \in queued, CheckReminder(w, x) PROVE TypeOK'
  <2>1. CASE MayRemind(x) /\ x[1] \in Addressed
    <3>1. x \in Reminders /\ x # NoReminder /\ At(w, x, "insert")
      BY <1>10, <2>1 DEF CheckReminder
    <3>2. QED
      BY <1>10, <2>1, <3>1, RunsWellTyped DEF CheckReminder
  <2>2. CASE ~(MayRemind(x) /\ x[1] \in Addressed)
    BY <1>10, <2>2 DEF CheckReminder
  <2>3. QED
    BY <2>1, <2>2
<1>11. ASSUME NEW w \in Runs, InsertReminder(w) PROVE TypeOK'
  <2>1. job[w] \in Reminders /\ job[w] # NoReminder
    BY <1>11 DEF InsertReminder
  <2>2. CASE Duplicate(w)
    BY <1>11, <2>1, <2>2, RunsWellTyped DEF InsertReminder, Leave
  <2>3. CASE ~Duplicate(w)
    BY <1>11, <2>1, <2>3, RunsWellTyped DEF InsertReminder
  <2>4. QED
    BY <2>2, <2>3
<1>12. ASSUME NEW w \in Runs, RecordReminder(w) PROVE TypeOK'
  <2>1. job[w] \in Reminders /\ job[w] # NoReminder
    BY <1>12 DEF RecordReminder
  <2>2. QED
    BY <1>12, <2>1, RunsWellTyped DEF RecordReminder
<1>13. ASSUME NEW w \in Runs, EnqueueEmail(w) PROVE TypeOK'
  <2>1. job[w] \in Reminders
    BY <1>13 DEF EnqueueEmail
  <2>2. QED
    BY <1>13, <2>1, RunsWellTyped DEF EnqueueEmail, Leave
<1>14. ASSUME NEW w \in Runs, NEW alive \in BOOLEAN, Redeliver(w, alive) PROVE TypeOK'
  <2>1. job[w] \in Reminders /\ Tears(w) \subseteq Reminders
    BY <1>14 DEF Redeliver, Tears
  <2>2. CASE alive
    BY <1>14, <2>1, <2>2 DEF Redeliver
  <2>3. CASE ~alive
    BY <1>14, <2>1, <2>3, RunsWellTyped DEF Redeliver, Leave
  <2>4. QED
    BY <2>2, <2>3
<1>15. ASSUME NEW w \in Runs, GiveUp(w) PROVE TypeOK'
  <2>1. job[w] \in Reminders /\ Tears(w) \subseteq Reminders
    BY <1>15 DEF GiveUp, Tears
  <2>2. QED
    BY <1>15, <2>1, RunsWellTyped DEF GiveUp, Leave
<1>16. ASSUME NEW x \in Reminders, SendEmail(x) PROVE TypeOK'
  BY <1>16 DEF SendEmail
<1>17. ASSUME NEW x \in Reminders, SendUnacknowledged(x) PROVE TypeOK'
  BY <1>17 DEF SendUnacknowledged
<1>18. ASSUME NEW x \in Reminders, DropEmail(x) PROVE TypeOK'
  BY <1>18 DEF DropEmail
<1>19. CASE Tick
  BY <1>19 DEF Tick
<1>20. CASE UNCHANGED vars
  BY <1>20 DEF vars
<1>21. QED
  BY <1>1, <1>2, <1>3, <1>4, <1>5, <1>6, <1>7, <1>8, <1>9, <1>10, <1>11, <1>12, <1>13, <1>14,
     <1>15, <1>16, <1>17, <1>18, <1>19, <1>20 DEF Next

\* Every reachable state has the declared types.
THEOREM TypeCorrect == Spec => []TypeOK
  BY InitType, NextType, PTL DEF Spec

-----------------------------------------------------------------------------
(* Mails *)

MailInv == NothingWithoutRow /\ OneRunOwesMail /\ MailsCounted /\ RowsAccounted

\* What MailInv is about, and what most actions leave alone.
Accounts == <<reminded, emails, mails, again>>

\* A step that leaves the accounts alone, brings no run past its insert and
\* tears what leaves that place keeps MailInv.
LEMMA RunsComeAndGo ==
  ASSUME TypeOK, MailInv, UNCHANGED Accounts, torn \subseteq torn',
         \A w \in Runs, x \in Reminders :
            /\ PastInsert(w, x)' => PastInsert(w, x)
            /\ PastInsert(w, x) => PastInsert(w, x)' \/ x \in torn'
  PROVE  MailInv'
<1> USE DEF Accounts, MailInv, TypeOK
<1>1. NothingWithoutRow'
  BY DEF NothingWithoutRow
<1>2. OneRunOwesMail'
  BY DEF OneRunOwesMail
<1>3. MailsCounted'
  BY DEF MailsCounted
<1>4. RowsAccounted'
  BY DEF RowsAccounted
<1>5. QED
  BY <1>1, <1>2, <1>3, <1>4

\* The insert of a row makes its run the one that owes the mail.
LEMMA InsertKeepsMails ==
  ASSUME TypeOK, MailInv, NEW w \in Runs, InsertReminder(w)
  PROVE  MailInv'
<1> USE ReminderAssumption DEF TypeOK, runs, history
<1>1. job[w] \in Reminders
  BY DEF InsertReminder
<1>2. CASE Duplicate(w)
  <2>1. \A v \in Runs, x \in Reminders : PastInsert(v, x)' <=> PastInsert(v, x)
    BY <1>2 DEF InsertReminder, Leave, At, PastInsert
  <2>2. QED
    BY <1>2, <2>1, RunsComeAndGo DEF InsertReminder, Accounts
<1>3. CASE ~Duplicate(w)
  <2>y. PICK y \in Reminders : y = job[w]
    BY <1>1
  <2>1. y \notin reminded /\ reminded' = reminded \union {y}
    BY <1>3, <2>y DEF InsertReminder, Duplicate
  <2>2. emails[y] = 0 /\ mails[y] = 0 /\ \A v \in Runs : ~PastInsert(v, y)
    BY <2>1 DEF MailInv, NothingWithoutRow
  <2>3. UNCHANGED <<emails, mails, again, torn>>
    BY DEF InsertReminder
  <2>4. PastInsert(w, y)'
    BY <1>3, <2>y DEF InsertReminder, At, PastInsert
  <2>5. \A v \in Runs, x \in Reminders :
          PastInsert(v, x)' <=> PastInsert(v, x) \/ (v = w /\ x = y)
    BY <1>3, <2>y DEF InsertReminder, At, PastInsert
  <2>6. NothingWithoutRow'
    BY <2>1, <2>3, <2>5 DEF MailInv, NothingWithoutRow
  <2>7. OneRunOwesMail'
    BY <2>2, <2>3, <2>5 DEF MailInv, OneRunOwesMail
  <2>8. MailsCounted'
    BY <2>3 DEF MailInv, MailsCounted
  <2>9. RowsAccounted'
    BY <2>1, <2>3, <2>4, <2>5 DEF MailInv, RowsAccounted
  <2>10. QED
    BY <2>6, <2>7, <2>8, <2>9 DEF MailInv
<1>4. QED
  BY <1>2, <1>3

\* The run that owes the mail queues it, and is then no longer one.
LEMMA EnqueueKeepsMails ==
  ASSUME TypeOK, MailInv, NEW w \in Runs, EnqueueEmail(w)
  PROVE  MailInv'
<1> USE ReminderAssumption DEF TypeOK, history
<1>y. PICK y \in Reminders : y = job[w]
  BY DEF EnqueueEmail
<1>1. PastInsert(w, y)
  BY <1>y DEF EnqueueEmail, PastInsert
<1>2. /\ y \in reminded
      /\ emails[y] = 0 /\ mails[y] = 0
      /\ \A v \in Runs : PastInsert(v, y) => v = w
  BY <1>1 DEF MailInv, NothingWithoutRow, OneRunOwesMail
<1>3. UNCHANGED <<reminded, mails, again, torn>>
  BY DEF EnqueueEmail
<1>4. /\ emails'[y] = 1
      /\ \A x \in Reminders \ {y} : emails'[x] = emails[x]
  BY <1>y, <1>2 DEF EnqueueEmail
<1>5. \A v \in Runs, x \in Reminders : PastInsert(v, x)' <=> PastInsert(v, x) /\ v # w
  BY DEF EnqueueEmail, Leave, At, PastInsert
<1>6. \A v \in Runs : ~PastInsert(v, y)'
  BY <1>1, <1>2, <1>5
<1>7. \A x \in Reminders : PastInsert(w, x) => x = y
  BY <1>y DEF PastInsert
<1>8. NothingWithoutRow'
  BY <1>2, <1>3, <1>4, <1>5 DEF MailInv, NothingWithoutRow
<1>9. OneRunOwesMail'
  BY <1>3, <1>4, <1>5, <1>6 DEF MailInv, OneRunOwesMail
<1>10. MailsCounted'
  <2> SUFFICES ASSUME NEW x \in Reminders PROVE mails'[x] + emails'[x] <= 1 + again'[x]
    BY DEF MailsCounted
  <2>1. CASE x = y
    BY <1>1, <1>2, <1>3, <1>4, <2>1
  <2>2. CASE x # y
    BY <1>3, <1>4, <2>2 DEF MailInv, MailsCounted
  <2>3. QED
    BY <2>1, <2>2
<1>11. RowsAccounted'
  <2> SUFFICES ASSUME NEW x \in reminded'
               PROVE  \/ mails'[x] > 0 \/ emails'[x] > 0 \/ x \in torn'
                      \/ \E v \in Runs : PastInsert(v, x)'
    BY DEF RowsAccounted
  <2>1. CASE x = y
    BY <1>4, <2>1
  <2>2. CASE x # y
    BY <1>3, <1>4, <1>5, <1>7, <2>2 DEF MailInv, RowsAccounted
  <2>3. QED
    BY <2>1, <2>2
<1>12. QED
  BY <1>8, <1>9, <1>10, <1>11 DEF MailInv

\* An email job has no run of its reminder beside it, whatever becomes of it.
LEMMA EmailsKeepMails ==
  ASSUME TypeOK, MailInv, NEW y \in Reminders, UNCHANGED <<reminded, runs>>, emails[y] > 0,
         emails' \in [Reminders -> Nat], mails' \in [Reminders -> Nat],
         again' \in [Reminders -> Nat],
         torn \subseteq torn',
         mails'[y] > 0 \/ y \in torn',
         mails'[y] + emails'[y] - again'[y] <= mails[y] + emails[y] - again[y],
         \A x \in Reminders \ {y} :
            emails'[x] = emails[x] /\ mails'[x] = mails[x] /\ again'[x] = again[x]
  PROVE  MailInv'
<1> USE DEF TypeOK, runs
<1>1. \A v \in Runs, x \in Reminders : PastInsert(v, x)' <=> PastInsert(v, x)
  BY DEF PastInsert
<1>2. y \in reminded /\ \A v \in Runs : ~PastInsert(v, y)
  BY DEF MailInv, NothingWithoutRow, OneRunOwesMail
<1>3. NothingWithoutRow'
  BY <1>1, <1>2 DEF MailInv, NothingWithoutRow
<1>4. OneRunOwesMail'
  BY <1>1, <1>2 DEF MailInv, OneRunOwesMail
<1>5. MailsCounted'
  <2> SUFFICES ASSUME NEW x \in Reminders PROVE mails'[x] + emails'[x] <= 1 + again'[x]
    BY DEF MailsCounted
  <2>1. mails[x] + emails[x] <= 1 + again[x]
    BY DEF MailInv, MailsCounted
  <2>2. CASE x = y
    BY <2>1, <2>2
  <2>3. CASE x # y
    BY <2>1, <2>3
  <2>4. QED
    BY <2>2, <2>3
<1>6. RowsAccounted'
  BY <1>1 DEF MailInv, RowsAccounted
<1>7. QED
  BY <1>3, <1>4, <1>5, <1>6 DEF MailInv

\* Every step keeps the accounts in order.
LEMMA NextMails == TypeOK /\ MailInv /\ [Next]_vars => MailInv'
<1> SUFFICES ASSUME TypeOK, MailInv, [Next]_vars PROVE MailInv'
  OBVIOUS
<1> USE ReminderAssumption DEF TypeOK
<1>1. CASE UNCHANGED <<reminded, runs, emails, history>>
  BY <1>1, RunsComeAndGo DEF Accounts, PastInsert, runs, history
<1>2. ASSUME NEW w \in Runs, NEW x \in queued, CheckReminder(w, x) PROVE MailInv'
  <2>1. UNCHANGED Accounts /\ torn' = torn
    BY <1>2 DEF CheckReminder, Accounts, history
  <2>2. \A v \in Runs, z \in Reminders : PastInsert(v, z)' <=> PastInsert(v, z)
    BY <1>2 DEF CheckReminder, At, PastInsert, runs
  <2>3. QED
    BY <2>1, <2>2, RunsComeAndGo
<1>3. ASSUME NEW w \in Runs, RecordReminder(w) PROVE MailInv'
  <2>1. UNCHANGED Accounts /\ torn' = torn
    BY <1>3 DEF RecordReminder, Accounts, history
  <2>2. \A v \in Runs, z \in Reminders : PastInsert(v, z)' <=> PastInsert(v, z)
    BY <1>3 DEF RecordReminder, At, PastInsert
  <2>3. QED
    BY <2>1, <2>2, RunsComeAndGo
<1>4. ASSUME NEW w \in Runs, NEW alive \in BOOLEAN, Redeliver(w, alive) PROVE MailInv'
  <2>1. UNCHANGED Accounts /\ torn \subseteq torn'
    BY <1>4 DEF Redeliver, Accounts
  <2>2. \A v \in Runs, z \in Reminders :
          /\ PastInsert(v, z)' => PastInsert(v, z)
          /\ PastInsert(v, z) => PastInsert(v, z)' \/ z \in torn'
    BY <1>4 DEF Redeliver, Leave, At, Tears, PastInsert, runs
  <2>3. QED
    BY <2>1, <2>2, RunsComeAndGo
<1>5. ASSUME NEW w \in Runs, GiveUp(w) PROVE MailInv'
  <2>1. UNCHANGED Accounts /\ torn \subseteq torn'
    BY <1>5 DEF GiveUp, Accounts
  <2>2. \A v \in Runs, z \in Reminders :
          /\ PastInsert(v, z)' => PastInsert(v, z)
          /\ PastInsert(v, z) => PastInsert(v, z)' \/ z \in torn'
    BY <1>5 DEF GiveUp, Leave, At, Tears, PastInsert
  <2>3. QED
    BY <2>1, <2>2, RunsComeAndGo
<1>6. ASSUME NEW x \in Reminders, SendEmail(x) PROVE MailInv'
  BY <1>6, EmailsKeepMails DEF SendEmail
<1>7. ASSUME NEW x \in Reminders, SendUnacknowledged(x) PROVE MailInv'
  BY <1>7, EmailsKeepMails DEF SendUnacknowledged
<1>8. ASSUME NEW x \in Reminders, DropEmail(x) PROVE MailInv'
  BY <1>8, EmailsKeepMails DEF DropEmail
<1>9. ASSUME NEW i \in Invoices, NEW d \in 0..Horizon,
             SendInvoice(i, d) \/ DisputeInvoice(i) \/ SettleInvoice(i) \/ DenyDispute(i)
      PROVE MailInv'
  BY <1>1, <1>9 DEF SendInvoice, DisputeInvoice, SettleInvoice, DenyDispute
<1>10. ASSUME NEW x \in listed, AddReminder(x) \/ AddRefused(x) PROVE MailInv'
  BY <1>1, <1>10 DEF AddReminder, AddRefused
<1>11. CASE LoseScan
  BY <1>11, RunsComeAndGo DEF LoseScan, Accounts, PastInsert, runs
<1>12. CASE StartScan \/ Tick \/ UNCHANGED vars
  BY <1>1, <1>12 DEF StartScan, Tick, vars
<1>13. ASSUME NEW S \in SUBSET kept, Purge(S) PROVE MailInv'
  BY <1>1, <1>13 DEF Purge
<1>14. ASSUME NEW by \in {"paymentRemindersEnabled", "emailMoments"}, NEW on \in BOOLEAN,
              Configure(by, on)
       PROVE MailInv'
  BY <1>1, <1>14 DEF Configure
<1>15. QED
  BY <1>2, <1>3, <1>4, <1>5, <1>6, <1>7, <1>8, <1>9, <1>10, <1>11, <1>12, <1>13, <1>14,
     InsertKeepsMails, EnqueueKeepsMails DEF Next

\* The inductive invariant holds in every reachable state.
THEOREM Inductive == Spec => []IInv
<1>1. Init => IInv
  <2> SUFFICES ASSUME Init PROVE IInv
    OBVIOUS
  <2>1. \A w \in Runs, x \in Reminders : ~PastInsert(w, x)
    BY DEF Init, PastInsert
  <2>2. MailInv
    BY <2>1 DEF Init, MailInv, NothingWithoutRow, OneRunOwesMail, MailsCounted, RowsAccounted
  <2>3. QED
    BY <2>2, InitType DEF IInv, MailInv
<1>2. IInv /\ [Next]_vars => IInv'
  BY NextType, NextMails DEF IInv, MailInv
<1>3. QED
  BY <1>1, <1>2, PTL DEF Spec

\* A customer is mailed once for a reminder, whatever scans and reminder jobs
\* do, and once more only for each repetition of the email job.
THEOREM OneMail == Spec => []MailedOnce
<1>1. IInv => MailedOnce
  BY DEF IInv, TypeOK, MailsCounted, MailedOnce
<1>2. QED
  BY <1>1, Inductive, PTL

\* A row without a mail has one queued, has a run that will queue it, or was
\* given up: no mail is lost in any other way.
THEOREM NoneForgotten == Spec => []RowsAccounted
<1>1. IInv => RowsAccounted
  BY DEF IInv
<1>2. QED
  BY <1>1, Inductive, PTL

-----------------------------------------------------------------------------
(* Rows without a mail to come *)

\* What is left of such a reminder is runs that will find its row.
LEMMA AbandonedStep ==
  ASSUME IInv, Next, NEW x \in Reminders, Abandoned(x)
  PROVE  Abandoned(x)' /\ mails'[x] = mails[x]
<1> DEFINE Silent == emails'[x] = emails[x] /\ mails'[x] = mails[x]
           Waits  == x \in reminded' /\ \A w \in Runs : job'[w] = x => pc'[w] = "insert"
<1>1. /\ TypeOK /\ x # NoReminder
      /\ x \in reminded /\ emails[x] = 0 /\ \A w \in Runs : job[w] = x => pc[w] = "insert"
  BY ReminderAssumption DEF IInv, Abandoned
<1> SUFFICES Silent /\ Waits
  BY <1>1 DEF Abandoned
<1>2. ASSUME UNCHANGED <<reminded, runs>> PROVE Waits
  BY <1>1, <1>2 DEF runs
<1>3. ASSUME NEW w \in Runs, Leave(w), reminded' = reminded PROVE Waits
  BY <1>1, <1>3 DEF Leave, At, TypeOK
<1>4. ASSUME NEW w \in Runs, NEW y \in queued, CheckReminder(w, y) PROVE Silent /\ Waits
  <2>1. Waits
    BY <1>1, <1>2, <1>4 DEF CheckReminder, At, TypeOK
  <2>2. QED
    BY <1>4, <2>1 DEF CheckReminder, history
<1>5. ASSUME NEW w \in Runs, InsertReminder(w) PROVE Silent /\ Waits
  <2>1. CASE Duplicate(w)
    BY <1>3, <1>5, <2>1 DEF InsertReminder, history
  <2>2. CASE ~Duplicate(w)
    <3>1. job[w] # x /\ reminded' = reminded \union {job[w]} /\ At(w, job[w], "record")
      BY <1>1, <1>5, <2>2 DEF InsertReminder, Duplicate
    <3>2. Waits
      BY <1>1, <3>1 DEF At, TypeOK
    <3>3. QED
      BY <1>5, <3>2 DEF InsertReminder, history
  <2>3. QED
    BY <2>1, <2>2
<1>6. ASSUME NEW w \in Runs, RecordReminder(w) PROVE Silent /\ Waits
  <2>1. job[w] # x
    BY <1>1, <1>6 DEF RecordReminder
  <2>2. Waits
    BY <1>1, <1>6, <2>1 DEF RecordReminder, At, TypeOK
  <2>3. QED
    BY <1>6, <2>2 DEF RecordReminder, history
<1>7. ASSUME NEW w \in Runs, EnqueueEmail(w) PROVE Silent /\ Waits
  <2>1. job[w] # x
    BY <1>1, <1>7 DEF EnqueueEmail
  <2>2. Silent
    BY <1>1, <1>7, <2>1 DEF EnqueueEmail, TypeOK, history
  <2>3. QED
    BY <1>3, <1>7, <2>2 DEF EnqueueEmail
<1>8. ASSUME NEW w \in Runs, NEW alive \in BOOLEAN, Redeliver(w, alive) PROVE Silent /\ Waits
  BY <1>2, <1>3, <1>8 DEF Redeliver
<1>9. ASSUME NEW w \in Runs, GiveUp(w) PROVE Silent /\ Waits
  BY <1>3, <1>9 DEF GiveUp
<1>10. ASSUME NEW y \in Reminders, SendEmail(y) \/ SendUnacknowledged(y) \/ DropEmail(y)
       PROVE  Silent /\ Waits
  <2>1. y # x
    BY <1>1, <1>10 DEF SendEmail, SendUnacknowledged, DropEmail
  <2>2. Silent
    BY <1>1, <1>10, <2>1 DEF SendEmail, SendUnacknowledged, DropEmail, TypeOK
  <2>3. QED
    BY <1>2, <1>10, <2>2 DEF SendEmail, SendUnacknowledged, DropEmail
<1>11. ASSUME UNCHANGED <<reminded, runs, emails, mails>> PROVE Silent /\ Waits
  BY <1>2, <1>11
<1>12. ASSUME NEW i \in Invoices, NEW d \in 0..Horizon,
              SendInvoice(i, d)
       PROVE  Silent /\ Waits
  BY <1>11, <1>12 DEF SendInvoice, history
<1>13. ASSUME NEW y \in listed, AddReminder(y) \/ AddRefused(y) PROVE Silent /\ Waits
  BY <1>11, <1>13 DEF AddReminder, AddRefused, history
<1>14. CASE StartScan \/ LoseScan \/ Tick
  BY <1>11, <1>14 DEF StartScan, LoseScan, Tick, history
<1>15. ASSUME NEW S \in SUBSET kept, Purge(S) PROVE Silent /\ Waits
  BY <1>11, <1>15 DEF Purge, history
<1>16. ASSUME NEW by \in {"paymentRemindersEnabled", "emailMoments"}, NEW on \in BOOLEAN,
              Configure(by, on)
       PROVE  Silent /\ Waits
  BY <1>11, <1>16 DEF Configure, history
<1>17. ASSUME NEW i \in Invoices, DisputeInvoice(i) \/ SettleInvoice(i) \/ DenyDispute(i)
       PROVE  Silent /\ Waits
  BY <1>11, <1>17 DEF DisputeInvoice, SettleInvoice, DenyDispute, history
<1>18. QED
  BY <1>4, <1>5, <1>6, <1>7, <1>8, <1>9, <1>10, <1>12, <1>13, <1>14, <1>15, <1>16, <1>17 DEF Next

\* A reminder whose run or mail was cut off after the row is never made good: the
\* row keeps every later scan, run and repetition from mailing it.
THEOREM AbandonedStays == Spec => AbandonedForGood
<1> DEFINE A == \A x \in Reminders : Abandoned(x) => Abandoned(x)' /\ mails'[x] = mails[x]
<1>1. IInv /\ [Next]_vars => [A]_vars
  BY AbandonedStep
<1>2. Spec => [][A]_vars
  BY <1>1, Inductive, PTL DEF Spec
<1>3. QED
  BY <1>2 DEF AbandonedForGood


=============================================================================
