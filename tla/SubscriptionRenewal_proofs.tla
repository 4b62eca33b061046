--------------------- MODULE SubscriptionRenewal_proofs ---------------------
(***************************************************************************)
(* Proofs about SubscriptionRenewal for every set of rows, plans, runs and *)
(* requests, every trial and any number of crashes and redeliveries.       *)
(***************************************************************************)
EXTENDS SubscriptionRenewal, FiniteSetTheorems, TLAPS

-----------------------------------------------------------------------------
(* Type correctness *)

\* The start of every behaviour has the declared types.
LEMMA InitType == Init => TypeOK
  BY SubscriptionAssumption DEF Init, TypeOK, ChargeJobs, Null

\* A charge job names a row.
LEMMA JobNamesRow == \A x \in ChargeJobs : x[1] \in Subs /\ x[2] \in Nat
  BY DEF ChargeJobs

\* A run that ends leaves its variables well typed.
LEMMA LeaveType ==
  ASSUME TypeOK, NEW w \in Runs, Leave(w)
  PROVE  /\ pc'      \in [Runs -> {"idle", "insert", "advance"}]
         /\ job'     \in [Runs -> ChargeJobs \union {<<NoSub, 0>>}]
         /\ \A v \in Runs : pc'[v] # "idle" => job'[v] \in ChargeJobs
         /\ readEnd' \in [Runs -> Nat]
<1> USE DEF TypeOK, Leave
<1>1. pc' \in [Runs -> {"idle", "insert", "advance"}] /\ readEnd' \in [Runs -> Nat]
  OBVIOUS
<1>2. job' \in [Runs -> ChargeJobs \union {<<NoSub, 0>>}]
  OBVIOUS
<1>3. \A v \in Runs : pc'[v] # "idle" => job'[v] \in ChargeJobs
  OBVIOUS
<1>4. QED
  BY <1>1, <1>2, <1>3

\* A request moves on only to where it belongs.
LEMMA GotoType ==
  ASSUME TypeOK, NEW q \in Requests, NEW s \in Subs \union {NoSub}, NEW end \in Nat,
         NEW at \in {"idle", "subscribe", "charge", "cancel", "schedule"},
         at # "idle" => s \in Subs, Goto(q, at, s, end)
  PROVE  /\ step'    \in [Requests -> {"idle", "subscribe", "charge", "cancel", "schedule"}]
         /\ target'  \in [Requests -> Subs \union {NoSub}]
         /\ \A o \in Requests : step'[o] # "idle" => target'[o] \in Subs
         /\ seenEnd' \in [Requests -> Nat]
  BY DEF TypeOK, Goto

\* Every step keeps the declared types.
LEMMA NextType == TypeOK /\ [Next]_vars => TypeOK'
<1> SUFFICES ASSUME TypeOK, [Next]_vars PROVE TypeOK'
  OBVIOUS
<1> USE SubscriptionAssumption, JobNamesRow
    DEF TypeOK, ActiveLike, Null, rows, queue, charges, requests, history
<1>1. ASSUME NEW q \in Requests, NEW s \in Subs, FindNone(q, s) PROVE TypeOK'
  BY <1>1 DEF FindNone, Goto
<1>2. ASSUME NEW q \in Requests, NEW p \in Plans, InsertSubscription(q, p) PROVE TypeOK'
  <2>1. target[q] \in Subs
    BY <1>2 DEF InsertSubscription
  <2>2. /\ step'    \in [Requests -> {"idle", "subscribe", "charge", "cancel", "schedule"}]
        /\ target'  \in [Requests -> Subs \union {NoSub}]
        /\ \A o \in Requests : step'[o] # "idle" => target'[o] \in Subs
        /\ seenEnd' \in [Requests -> Nat]
    BY <1>2, <2>1, GotoType DEF InsertSubscription, Done
  <2>3. TrialOf[p] \in Nat
    OBVIOUS
  <2>4. QED
    BY <1>2, <2>1, <2>2, <2>3 DEF InsertSubscription
<1>3. ASSUME NEW q \in Requests, InsertFirstPayment(q) PROVE TypeOK'
  BY <1>3 DEF InsertFirstPayment, Done, Goto
<1>4. ASSUME NEW q \in Requests, NEW s \in Subs, NEW for \in {"cancel", "schedule"},
             ReadRow(q, s, for)
      PROVE TypeOK'
  BY <1>4 DEF ReadRow, Goto
<1>5. ASSUME NEW q \in Requests, NEW effective \in {"immediate", "period_end"},
             WriteCancel(q, effective)
      PROVE TypeOK'
  BY <1>5 DEF WriteCancel, Done, Goto
<1>6. ASSUME NEW q \in Requests, NEW p \in Plans, WriteSchedule(q, p) PROVE TypeOK'
  BY <1>6 DEF WriteSchedule, Done, Goto
<1>7. ASSUME NEW s \in Subs, ClearSchedule(s) PROVE TypeOK'
  BY <1>7 DEF ClearSchedule
<1>8. ASSUME NEW q \in Requests, LoseRequest(q) PROVE TypeOK'
  BY <1>8 DEF LoseRequest, Done, Goto
<1>9. CASE StartScan
  BY <1>9 DEF StartScan, DueForRenewal, ChargeJobs
<1>10. ASSUME NEW x \in listed, AddCharge(x) \/ AddRefused(x) PROVE TypeOK'
  BY <1>10 DEF AddCharge, AddRefused
<1>11. CASE LoseScan
  BY <1>11 DEF LoseScan
<1>12. ASSUME NEW S \in SUBSET kept, Purge(S) PROVE TypeOK'
  BY <1>12 DEF Purge
<1>13. ASSUME NEW w \in Runs, NEW x \in queued, ReadSubscription(w, x) PROVE TypeOK'
  <2>1. x \in ChargeJobs /\ x[1] \in Subs /\ periodEnd[x[1]] \in Nat
    BY <1>13
  <2>2. CASE MayRenew(x[1])
    <3>1. /\ pc'      = [pc EXCEPT ![w] = "insert"]
          /\ job'     = [job EXCEPT ![w] = x]
          /\ readEnd' = [readEnd EXCEPT ![w] = periodEnd[x[1]]]
      BY <1>13, <2>2 DEF ReadSubscription
    <3>2. /\ pc'  \in [Runs -> {"idle", "insert", "advance"}]
          /\ job' \in [Runs -> ChargeJobs \union {<<NoSub, 0>>}]
          /\ \A v \in Runs : pc'[v] # "idle" => job'[v] \in ChargeJobs
          /\ readEnd' \in [Runs -> Nat]
      BY <2>1, <3>1
    <3>3. UNCHANGED <<now, rows, listed, kept, requests, history>> /\ queued' = queued \ {x}
      BY <1>13, <2>2 DEF ReadSubscription
    <3>4. QED
      BY <3>2, <3>3
  <2>3. CASE ~ MayRenew(x[1])
    BY <1>13, <2>1, <2>3 DEF ReadSubscription
  <2>4. QED
    BY <2>2, <2>3
<1>14. ASSUME NEW w \in Runs, InsertPayment(w) PROVE TypeOK'
  <2>1. job[w] \in ChargeJobs /\ readEnd[w] \in Nat
    BY <1>14 DEF InsertPayment
  <2>2. CASE Duplicate(w)
    BY <1>14, <2>1, <2>2, LeaveType DEF InsertPayment, EndCharge
  <2>3. CASE ~ Duplicate(w)
    <3>1. ledger' \in [Subs -> SUBSET Nat]
      BY <1>14, <2>1, <2>3 DEF InsertPayment
    <3>2. QED
      BY <1>14, <2>1, <2>3, <3>1 DEF InsertPayment
  <2>4. QED
    BY <2>2, <2>3
<1>15. ASSUME NEW w \in Runs, AdvancePeriod(w) PROVE TypeOK'
  <2>1. job[w] \in ChargeJobs /\ readEnd[w] \in Nat
    BY <1>15 DEF AdvancePeriod
  <2>2. periodEnd' \in [Subs -> Nat]
    BY <1>15, <2>1 DEF AdvancePeriod, NextEnd
  <2>3. QED
    BY <1>15, <2>1, <2>2, LeaveType DEF AdvancePeriod, EndCharge
<1>16. ASSUME NEW w \in Runs, NEW alive \in BOOLEAN, Redeliver(w, alive) PROVE TypeOK'
  <2>1. job[w] \in ChargeJobs
    BY <1>16 DEF Redeliver
  <2>2. queued' \subseteq ChargeJobs /\ again' \in [Subs -> Nat] /\ faults' \in Nat
    BY <1>16, <2>1 DEF Redeliver
  <2>3. CASE alive
    BY <1>16, <2>2, <2>3 DEF Redeliver
  <2>4. CASE ~ alive
    BY <1>16, <2>2, <2>4, LeaveType DEF Redeliver
  <2>5. QED
    BY <2>3, <2>4
<1>17. ASSUME NEW w \in Runs, GiveUp(w) PROVE TypeOK'
  <2>1. job[w] \in ChargeJobs
    BY <1>17 DEF GiveUp
  <2>2. QED
    BY <1>17, <2>1, LeaveType DEF GiveUp, EndCharge
<1>18. CASE Tick
  BY <1>18 DEF Tick
<1>19. CASE UNCHANGED vars
  BY <1>19 DEF vars
<1>20. QED
  BY SMTT(60), <1>1, <1>2, <1>3, <1>4, <1>5, <1>6, <1>7, <1>8, <1>9, <1>10, <1>11, <1>12, <1>13,
     <1>14, <1>15, <1>16, <1>17, <1>18, <1>19 DEF Next

\* Every reachable state has the declared types.
THEOREM TypeCorrect == Spec => []TypeOK
  BY InitType, NextType, PTL DEF Spec

-----------------------------------------------------------------------------
(* Each conjunct of the inductive invariant is preserved *)

\* The steps that leave rows, jobs and runs alone as far as the lemmas below go.
RequestOnly ==
  \/ \E q \in Requests, s \in Subs : FindNone(q, s)
  \/ \E q \in Requests, s \in Subs, for \in {"cancel", "schedule"} : ReadRow(q, s, for)
  \/ \E q \in Requests, p \in Plans : WriteSchedule(q, p)
  \/ \E s \in Subs : ClearSchedule(s)
  \/ \E q \in Requests : LoseRequest(q)

QueueOnly ==
  \/ StartScan
  \/ \E x \in listed : AddCharge(x) \/ AddRefused(x)
  \/ LoseScan
  \/ \E S \in SUBSET kept : Purge(S)

RunEnds ==
  \/ \E w \in Runs, alive \in BOOLEAN : Redeliver(w, alive)
  \/ \E w \in Runs : GiveUp(w)

\* What the lemmas speak of in the rows.
billing == <<status, started, periodEnd, trialEnd, ledger, cancelEnd>>

\* Next, with the steps that do not write rows taken together.
LEMMA Steps ==
  ASSUME Next
  PROVE  \/ RequestOnly /\ UNCHANGED <<now, billing, queue, charges>>
         \/ QueueOnly /\ UNCHANGED <<now, billing, charges, requests>>
         \/ RunEnds /\ UNCHANGED <<now, billing, listed, requests>>
         \/ \E q \in Requests, p \in Plans : InsertSubscription(q, p)
         \/ \E q \in Requests : InsertFirstPayment(q)
         \/ \E q \in Requests, effective \in {"immediate", "period_end"} : WriteCancel(q, effective)
         \/ \E w \in Runs, x \in queued : ReadSubscription(w, x)
         \/ \E w \in Runs : InsertPayment(w)
         \/ \E w \in Runs : AdvancePeriod(w)
         \/ Tick
<1> USE DEF billing, rows, queue, charges, requests, history
<1>1. RequestOnly => UNCHANGED <<now, billing, queue, charges>>
  BY DEF RequestOnly, FindNone, ReadRow, WriteSchedule, ClearSchedule, LoseRequest
<1>2. QueueOnly => UNCHANGED <<now, billing, charges, requests>>
  BY DEF QueueOnly, StartScan, AddCharge, AddRefused, LoseScan, Purge
<1>3. RunEnds => UNCHANGED <<now, billing, listed, requests>>
  BY DEF RunEnds, Redeliver, GiveUp
<1>4. QED
  BY <1>1, <1>2, <1>3 DEF Next, RequestOnly, QueueOnly, RunEnds

\* A request or a run at a statement works on a row.
LEMMA Targets ==
  ASSUME TypeOK
  PROVE  /\ \A q \in Requests : step[q] # "idle" => target[q] \in Subs
         /\ \A w \in Runs : pc[w] # "idle" =>
              /\ job[w] \in ChargeJobs
              /\ job[w][1] \in Subs
              /\ readEnd[w] \in Nat
  BY JobNamesRow DEF TypeOK

\* A fresh row id is targeted by nobody; nobody deletes a row.
LEMMA NextRequests ==
  TypeOK /\ RequestsWellFormed /\ [Next]_vars => RequestsWellFormed'
<1> SUFFICES ASSUME TypeOK, RequestsWellFormed, [Next]_vars PROVE RequestsWellFormed'
  OBVIOUS
<1> USE SubscriptionAssumption DEF TypeOK, RequestsWellFormed, ActiveLike
<1>1. ASSUME NEW q \in Requests, NEW s \in Subs, FindNone(q, s) PROVE RequestsWellFormed'
  BY <1>1 DEF FindNone, Goto, Fresh, rows
<1>2. ASSUME NEW q \in Requests, NEW p \in Plans, InsertSubscription(q, p) PROVE RequestsWellFormed'
  <2>1. PICK s \in Subs : s = target[q]
    BY <1>2 DEF InsertSubscription
  <2>2. /\ status[s] = "none"
        /\ status' = [status EXCEPT ![s] = "active"]
        /\ trialEnd' = [trialEnd EXCEPT ![s] = now + TrialOf[p]]
        /\ now' = now
        /\ \A o \in Requests : o # q => target[o] # s \/ step[o] = "idle"
    BY <1>2, <2>1 DEF InsertSubscription
  <2>3. CASE TrialOf[p] = 0
    BY <1>2, <2>1, <2>2, <2>3 DEF InsertSubscription, Goto
  <2>4. CASE TrialOf[p] # 0
    BY <1>2, <2>1, <2>2, <2>4 DEF InsertSubscription, Done, Goto
  <2>5. QED
    BY <2>3, <2>4
<1>3. ASSUME NEW q \in Requests, InsertFirstPayment(q) PROVE RequestsWellFormed'
  BY <1>3 DEF InsertFirstPayment, Done, Goto
<1>4. ASSUME NEW q \in Requests, NEW s \in Subs, NEW for \in {"cancel", "schedule"},
             ReadRow(q, s, for)
      PROVE RequestsWellFormed'
  BY <1>4 DEF ReadRow, Goto, rows
<1>5. ASSUME NEW q \in Requests, NEW effective \in {"immediate", "period_end"},
             WriteCancel(q, effective)
      PROVE RequestsWellFormed'
  BY <1>5 DEF WriteCancel, Done, Goto
<1>6. ASSUME NEW q \in Requests, NEW p \in Plans, WriteSchedule(q, p) PROVE RequestsWellFormed'
  BY <1>6 DEF WriteSchedule, Done, Goto
<1>7. ASSUME NEW q \in Requests, LoseRequest(q) PROVE RequestsWellFormed'
  BY <1>7 DEF LoseRequest, Done, Goto, rows
<1>8. CASE Tick
  BY <1>8 DEF Tick, rows, requests
<1>9. CASE UNCHANGED <<now, status, trialEnd, requests>>
  BY <1>9 DEF requests
<1>10. UNCHANGED <<now, status, trialEnd, requests>> \/ ~ UNCHANGED vars
  BY DEF vars, rows
<1>11. ASSUME NEW s \in Subs, ClearSchedule(s) PROVE UNCHANGED <<now, status, trialEnd, requests>>
  BY <1>11 DEF ClearSchedule
<1>12. QED
  BY Steps, <1>1, <1>2, <1>3, <1>4, <1>5, <1>6, <1>7, <1>8, <1>9, <1>10, <1>11
     DEF RequestOnly, billing, ReadSubscription, InsertPayment, AdvancePeriod, rows

\* No step but the insert and the cancellation touches what is said of a row,
\* but for payments, and those belong to rows that exist.
LEMMA NextRows ==
  TypeOK /\ RequestsWellFormed /\ JobsWellFormed /\ ChargesWellFormed /\ RowsWellFormed /\ [Next]_vars
    => RowsWellFormed'
<1> SUFFICES ASSUME TypeOK, RequestsWellFormed, JobsWellFormed, ChargesWellFormed,
                    RowsWellFormed, [Next]_vars
             PROVE RowsWellFormed'
  OBVIOUS
<1> USE DEF TypeOK, RowsWellFormed, Null, Ended
<1>1. ASSUME NEW q \in Requests, NEW p \in Plans, InsertSubscription(q, p) PROVE RowsWellFormed'
  <2>1. PICK s \in Subs : s = target[q]
    BY <1>1 DEF InsertSubscription
  <2>2. status[s] = "none"
    BY <1>1, <2>1 DEF InsertSubscription, RequestsWellFormed
  <2>3. QED
    BY <1>1, <2>1, <2>2 DEF InsertSubscription, history
<1>2. ASSUME NEW q \in Requests, InsertFirstPayment(q) PROVE RowsWellFormed'
  <2>1. PICK s \in Subs : s = target[q]
    BY <1>2 DEF InsertFirstPayment
  <2>2. status[s] # "none"
    BY <1>2, <2>1 DEF InsertFirstPayment, RequestsWellFormed
  <2>3. QED
    BY <1>2, <2>1, <2>2 DEF InsertFirstPayment, history
<1>3. ASSUME NEW q \in Requests, NEW effective \in {"immediate", "period_end"},
             WriteCancel(q, effective)
      PROVE RowsWellFormed'
  <2>1. PICK s \in Subs : s = target[q]
    BY <1>3 DEF WriteCancel
  <2>2. status[s] # "none" /\ periodEnd[s] \in Nat
    BY <1>3, <2>1 DEF WriteCancel, RequestsWellFormed
  <2>3. /\ status'[s] \in Ended
        /\ cancelEnd' = [cancelEnd EXCEPT ![s] = IF @ = Null THEN periodEnd[s] ELSE @]
        /\ \A t \in Subs : t # s => status'[t] = status[t]
        /\ UNCHANGED <<started, periodEnd, ledger>>
    BY <1>3, <2>1 DEF WriteCancel
  <2>4. QED
    BY <2>1, <2>2, <2>3
<1>4. ASSUME NEW w \in Runs, InsertPayment(w) PROVE RowsWellFormed'
  <2>1. PICK s \in Subs : s = job[w][1]
    BY <1>4, Targets DEF InsertPayment
  <2>2. status[s] # "none"
    BY <1>4, <2>1 DEF InsertPayment, JobsWellFormed, MayBeCharged
  <2>3. \A t \in Subs : t # s => ledger'[t] = ledger[t]
    BY <1>4, <2>1 DEF InsertPayment
  <2>4. QED
    BY <1>4, <2>2, <2>3 DEF InsertPayment, history
<1>5. ASSUME NEW w \in Runs, AdvancePeriod(w) PROVE RowsWellFormed'
  <2>1. PICK s \in Subs : s = job[w][1]
    BY <1>5, Targets DEF AdvancePeriod
  <2>2. readEnd[w] = periodEnd[s]
    BY <1>5, <2>1 DEF AdvancePeriod, ChargesWellFormed
  <2>3. periodEnd' = [periodEnd EXCEPT ![s] = periodEnd[s] + 1]
    BY <1>5, <2>1, <2>2 DEF AdvancePeriod, NextEnd
  <2>4. QED
    BY <1>5, <2>3 DEF AdvancePeriod, history
<1>6. CASE UNCHANGED billing
  BY <1>6 DEF billing
<1>7. UNCHANGED vars => UNCHANGED billing
  BY DEF vars, rows, history, billing
<1>8. ASSUME NEW w \in Runs, NEW x \in queued, ReadSubscription(w, x) PROVE UNCHANGED billing
  BY <1>8 DEF ReadSubscription, billing, rows, history
<1>9. Tick => UNCHANGED billing
  BY DEF Tick, billing, rows, history
<1>10. QED
  BY Steps, <1>1, <1>2, <1>3, <1>4, <1>5, <1>6, <1>7, <1>8, <1>9

\* A job on the list or in the queue was there before, goes back to the queue from
\* its run, or was listed for the period end that the scan found.
LEMMA JobsOrigin ==
  ASSUME [Next]_vars
  PROVE  \A x \in listed' \union queued' :
           \/ x \in listed \union queued
           \/ \E w \in Runs : pc[w] # "idle" /\ x = job[w]
           \/ StartScan /\ x[1] \in DueForRenewal /\ x[2] = periodEnd[x[1]]
<1>1. ASSUME StartScan, NEW x \in listed'
      PROVE  x[1] \in DueForRenewal /\ x[2] = periodEnd[x[1]]
  BY <1>1 DEF StartScan
<1>2. QED
  BY <1>1, Steps DEF vars, queue, RequestOnly, QueueOnly, RunEnds, StartScan, AddCharge, AddRefused,
     LoseScan, Purge, Redeliver, GiveUp, InsertSubscription, InsertFirstPayment, WriteCancel,
     ReadSubscription, InsertPayment, AdvancePeriod, Tick

\* A run has the job it had, or took one from the queue.
LEMMA RunsOrigin ==
  ASSUME TypeOK, [Next]_vars, NEW w \in Runs, pc'[w] # "idle"
  PROVE  \/ pc[w] # "idle" /\ job'[w] = job[w]
         \/ \E x \in queued : job'[w] = x
<1>1. ASSUME NEW v \in Runs, Leave(v) PROVE pc[w] # "idle" /\ job'[w] = job[w]
  BY <1>1 DEF Leave, TypeOK
<1>2. ASSUME NEW v \in Runs, NEW x \in queued, ReadSubscription(v, x)
      PROVE  \/ pc[w] # "idle" /\ job'[w] = job[w]
             \/ job'[w] = x
  BY <1>2 DEF ReadSubscription, charges, TypeOK
<1>3. ASSUME NEW v \in Runs, InsertPayment(v) PROVE pc[w] # "idle" /\ job'[w] = job[w]
  BY <1>1, <1>3 DEF InsertPayment, EndCharge, TypeOK
<1>4. ASSUME NEW v \in Runs, AdvancePeriod(v) PROVE pc[w] # "idle" /\ job'[w] = job[w]
  BY <1>1, <1>4 DEF AdvancePeriod, EndCharge
<1>5. ASSUME RunEnds PROVE pc[w] # "idle" /\ job'[w] = job[w]
  BY <1>1, <1>5 DEF RunEnds, Redeliver, GiveUp, EndCharge, charges
<1>6. UNCHANGED charges => pc[w] # "idle" /\ job'[w] = job[w]
  BY DEF charges
<1>7. QED
  BY <1>2, <1>3, <1>4, <1>5, <1>6, Steps
     DEF vars, InsertSubscription, InsertFirstPayment, WriteCancel, Tick

\* Jobs come only from the scan's query, which lists active rows after their
\* trial, and trial_ends_at never changes after the insert.
LEMMA NextJobs ==
  TypeOK /\ RequestsWellFormed /\ JobsWellFormed /\ [Next]_vars => JobsWellFormed'
<1> SUFFICES ASSUME TypeOK, RequestsWellFormed, JobsWellFormed, [Next]_vars PROVE JobsWellFormed'
  OBVIOUS
<1>1. ASSUME NEW s \in Subs, MayBeCharged(s), ~ \E q \in Requests, p \in Plans : InsertSubscription(q, p)
      PROVE  MayBeCharged(s)'
  <2>1. now' \in {now, now + 1} /\ trialEnd' = trialEnd
    BY <1>1, Steps DEF vars, rows, billing, InsertFirstPayment, WriteCancel, ReadSubscription,
       InsertPayment, AdvancePeriod, Tick
  <2>2. status[s] # "none" => status'[s] # "none"
    BY <1>1, Steps DEF TypeOK, vars, rows, billing, InsertFirstPayment, WriteCancel,
       ReadSubscription, InsertPayment, AdvancePeriod, Tick
  <2>3. QED
    BY <1>1, <2>1, <2>2 DEF TypeOK, MayBeCharged
<1>2. ASSUME NEW q \in Requests, NEW p \in Plans, InsertSubscription(q, p),
             NEW s \in Subs, MayBeCharged(s)
      PROVE  MayBeCharged(s)'
  <2>1. PICK t \in Subs : t = target[q]
    BY <1>2 DEF InsertSubscription, TypeOK
  <2>2. status[t] = "none"
    BY <1>2, <2>1 DEF InsertSubscription, RequestsWellFormed
  <2>3. s # t
    BY <1>2, <2>2 DEF MayBeCharged
  <2>4. QED
    BY <1>2, <2>1, <2>3 DEF InsertSubscription, MayBeCharged, TypeOK
<1>3. \A s \in Subs : MayBeCharged(s) => MayBeCharged(s)'
  BY <1>1, <1>2
<1>4. \A x \in listed' \union queued' :
        x \in listed \union queued \/ (\E w \in Runs : pc[w] # "idle" /\ x = job[w])
          \/ (StartScan /\ x[1] \in DueForRenewal)
  BY JobsOrigin
<1>5. ASSUME NEW x \in listed' \union queued' PROVE MayBeCharged(x[1])'
  <2>1. x[1] \in Subs
    BY NextType, JobNamesRow DEF TypeOK
  <2>2. MayBeCharged(x[1])
    BY <1>4 DEF JobsWellFormed, DueForRenewal, MayBeCharged
  <2>3. QED
    BY <1>3, <2>1, <2>2
<1>6. ASSUME NEW w \in Runs, pc'[w] # "idle" PROVE MayBeCharged(job[w][1])'
  <2>1. \/ pc[w] # "idle" /\ job'[w] = job[w]
        \/ \E x \in queued : job'[w] = x
    BY <1>6, RunsOrigin
  <2>2. PICK s \in Subs : s = job'[w][1] /\ MayBeCharged(s)
    BY <2>1, Targets, JobNamesRow DEF JobsWellFormed, TypeOK
  <2>3. MayBeCharged(s)'
    BY <1>3, <2>2
  <2>4. QED
    BY <2>2, <2>3 DEF MayBeCharged
<1>7. QED
  BY <1>5, <1>6 DEF JobsWellFormed

\* A payment goes to the end of the ledger: what a run read is a period end,
\* and all but the present one are in the ledger already.
LEMMA NextLedger ==
  TypeOK /\ RequestsWellFormed /\ RowsWellFormed /\ JobsWellFormed /\ ChargesWellFormed
    /\ LedgerWithoutGaps /\ [Next]_vars => LedgerWithoutGaps'
<1> SUFFICES ASSUME TypeOK, RequestsWellFormed, RowsWellFormed, JobsWellFormed, ChargesWellFormed,
                    LedgerWithoutGaps, [Next]_vars
             PROVE LedgerWithoutGaps'
  OBVIOUS
<1>1. ASSUME NEW q \in Requests, NEW p \in Plans, InsertSubscription(q, p) PROVE LedgerWithoutGaps'
  <2>1. PICK s \in Subs : s = target[q]
    BY <1>1 DEF InsertSubscription, TypeOK
  <2>2. ledger[s] = {} /\ now \in Nat
    BY <1>1, <2>1 DEF InsertSubscription, RequestsWellFormed, RowsWellFormed, TypeOK
  <2>3. ledger'[s] = {} /\ started'[s] = now /\ periodEnd'[s] = now + 1
    BY <1>1, <2>1, <2>2 DEF InsertSubscription, TypeOK
  <2>4. (now + 1)..(now + 1 - 1) = {}
    BY <2>2
  <2>5. \E first \in {started'[s], started'[s] + 1} : ledger'[s] = first..(periodEnd'[s] - 1)
    <3>1. started'[s] + 1 = now + 1 /\ periodEnd'[s] - 1 = now + 1 - 1
      BY <2>2, <2>3
    <3>2. ledger'[s] = (started'[s] + 1)..(periodEnd'[s] - 1)
      BY <2>3, <2>4, <3>1, Zenon
    <3>3. QED
      BY <3>2, Zenon
  <2>6. \A t \in Subs : t # s => /\ status'[t] = status[t] /\ started'[t] = started[t]
                                 /\ periodEnd'[t] = periodEnd[t] /\ ledger'[t] = ledger[t]
    BY <1>1, <2>1 DEF InsertSubscription, TypeOK
  <2>7. QED
    BY <2>5, <2>6 DEF LedgerWithoutGaps
<1>2. ASSUME NEW q \in Requests, InsertFirstPayment(q) PROVE LedgerWithoutGaps'
  <2>1. PICK s \in Subs : s = target[q]
    BY <1>2 DEF InsertFirstPayment, TypeOK
  <2>2. /\ status[s] # "none"
        /\ started[s] < periodEnd[s] /\ started[s] \in Nat /\ periodEnd[s] \in Nat
    BY <1>2, <2>1 DEF InsertFirstPayment, RequestsWellFormed, RowsWellFormed, TypeOK
  <2>3. ledger' = [ledger EXCEPT ![s] = ledger[s] \union {started[s]}]
    BY <1>2, <2>1 DEF InsertFirstPayment
  <2>4. PICK first \in {started[s], started[s] + 1} :
          ledger[s] = first..(periodEnd[s] - 1) \/ ledger[s] = first..periodEnd[s]
    BY <2>2 DEF LedgerWithoutGaps
  <2>5. \A e \in {periodEnd[s] - 1, periodEnd[s]} :
          (first..e) \union {started[s]} = started[s]..e
    BY <2>2
  <2>6. ledger'[s] = ledger[s] \union {started[s]}
    BY <2>3 DEF TypeOK
  <2>7. ledger'[s] = started[s]..(periodEnd[s] - 1) \/ ledger'[s] = started[s]..periodEnd[s]
    BY <2>4, <2>5, <2>6
  <2>8. \A t \in Subs : t # s => ledger'[t] = ledger[t]
    BY <2>3 DEF TypeOK
  <2>9. status' = status /\ started' = started /\ periodEnd' = periodEnd
    BY <1>2 DEF InsertFirstPayment
  <2>10. QED
    BY <2>7, <2>8, <2>9 DEF LedgerWithoutGaps
<1>3. ASSUME NEW q \in Requests, NEW effective \in {"immediate", "period_end"},
             WriteCancel(q, effective)
      PROVE LedgerWithoutGaps'
  <2>1. PICK s \in Subs : s = target[q]
    BY <1>3 DEF WriteCancel, TypeOK
  <2>2. status[s] # "none"
    BY <1>3, <2>1 DEF WriteCancel, RequestsWellFormed
  <2>3. /\ \A t \in Subs : t # s => status'[t] = status[t]
        /\ UNCHANGED <<started, periodEnd, ledger>>
    BY <1>3, <2>1 DEF WriteCancel, TypeOK
  <2>4. QED
    BY <2>2, <2>3 DEF LedgerWithoutGaps
<1>4. ASSUME NEW w \in Runs, InsertPayment(w), ~ Duplicate(w) PROVE LedgerWithoutGaps'
  <2>1. PICK s \in Subs : s = job[w][1]
    BY <1>4, Targets DEF InsertPayment
  <2>2. /\ readEnd[w] \in (started[s] + 1)..periodEnd[s]
        /\ readEnd[w] \notin ledger[s]
        /\ status[s] # "none"
        /\ started[s] \in Nat /\ periodEnd[s] \in Nat
    BY <1>4, <2>1 DEF InsertPayment, Duplicate, ChargesWellFormed, JobsWellFormed, MayBeCharged, TypeOK
  <2>3. PICK first \in {started[s], started[s] + 1} :
          ledger[s] = first..(periodEnd[s] - 1) \/ ledger[s] = first..periodEnd[s]
    BY <2>2 DEF LedgerWithoutGaps
  <2>4. readEnd[w] = periodEnd[s] /\ ledger[s] = first..(periodEnd[s] - 1)
    BY <2>2, <2>3
  <2>5. (first..(periodEnd[s] - 1)) \union {periodEnd[s]} = first..periodEnd[s]
    BY <2>2
  <2>6. ledger' = [ledger EXCEPT ![s] = ledger[s] \union {periodEnd[s]}]
    BY <1>4, <2>1, <2>4 DEF InsertPayment
  <2>7. ledger'[s] = first..periodEnd[s] /\ \A t \in Subs : t # s => ledger'[t] = ledger[t]
    BY <2>4, <2>5, <2>6 DEF TypeOK
  <2>8. status' = status /\ started' = started /\ periodEnd' = periodEnd
    BY <1>4 DEF InsertPayment
  <2>9. QED
    BY <2>7, <2>8 DEF LedgerWithoutGaps
<1>5. ASSUME NEW w \in Runs, AdvancePeriod(w) PROVE LedgerWithoutGaps'
  <2>1. PICK s \in Subs : s = job[w][1]
    BY <1>5, Targets DEF AdvancePeriod
  <2>2. /\ readEnd[w] = periodEnd[s]
        /\ periodEnd[s] \in ledger[s]
        /\ status[s] # "none"
        /\ started[s] \in Nat /\ periodEnd[s] \in Nat
    BY <1>5, <2>1 DEF AdvancePeriod, ChargesWellFormed, JobsWellFormed, MayBeCharged, TypeOK
  <2>3. PICK first \in {started[s], started[s] + 1} :
          ledger[s] = first..(periodEnd[s] - 1) \/ ledger[s] = first..periodEnd[s]
    BY <2>2 DEF LedgerWithoutGaps
  <2>4. ledger[s] = first..periodEnd[s]
    BY <2>2, <2>3
  <2>5. periodEnd' = [periodEnd EXCEPT ![s] = periodEnd[s] + 1]
    BY <1>5, <2>1, <2>2 DEF AdvancePeriod, NextEnd
  <2>6. periodEnd'[s] - 1 = periodEnd[s] /\ \A t \in Subs : t # s => periodEnd'[t] = periodEnd[t]
    BY <2>2, <2>5 DEF TypeOK
  <2>7. status' = status /\ started' = started /\ ledger' = ledger
    BY <1>5 DEF AdvancePeriod
  <2>8. QED
    BY <2>4, <2>6, <2>7 DEF LedgerWithoutGaps
<1>6. CASE UNCHANGED <<status, started, periodEnd, ledger>>
  BY <1>6 DEF LedgerWithoutGaps
<1>7. \/ \E q \in Requests, p \in Plans : InsertSubscription(q, p)
      \/ \E q \in Requests : InsertFirstPayment(q)
      \/ \E q \in Requests, effective \in {"immediate", "period_end"} : WriteCancel(q, effective)
      \/ \E w \in Runs : InsertPayment(w) /\ ~ Duplicate(w)
      \/ \E w \in Runs : AdvancePeriod(w)
      \/ UNCHANGED <<status, started, periodEnd, ledger>>
  BY Steps DEF billing, vars, rows, ReadSubscription, InsertPayment, Tick
<1>8. QED
  BY <1>1, <1>2, <1>3, <1>4, <1>5, <1>6, <1>7

\* The first payment is made only without a trial, any other by a charge job.
LEMMA NextTrial ==
  TypeOK /\ RequestsWellFormed /\ RowsWellFormed /\ JobsWellFormed /\ TrialIsFree /\ [Next]_vars
    => TrialIsFree'
<1> SUFFICES ASSUME TypeOK, RequestsWellFormed, RowsWellFormed, JobsWellFormed, TrialIsFree,
                    [Next]_vars
             PROVE TrialIsFree'
  OBVIOUS
<1> USE DEF TypeOK, TrialIsFree
<1>1. ASSUME NEW q \in Requests, NEW p \in Plans, InsertSubscription(q, p) PROVE TrialIsFree'
  <2>1. PICK s \in Subs : s = target[q]
    BY <1>1 DEF InsertSubscription
  <2>2. ledger[s] = {}
    BY <1>1, <2>1 DEF InsertSubscription, RequestsWellFormed, RowsWellFormed
  <2>3. now' = now /\ ledger' = ledger /\ \A t \in Subs : t # s => trialEnd'[t] = trialEnd[t]
    BY <1>1, <2>1 DEF InsertSubscription
  <2>4. QED
    BY <2>2, <2>3
<1>2. ASSUME NEW q \in Requests, InsertFirstPayment(q) PROVE TrialIsFree'
  <2>1. PICK s \in Subs : s = target[q]
    BY <1>2 DEF InsertFirstPayment
  <2>2. trialEnd[s] <= now
    BY <1>2, <2>1 DEF InsertFirstPayment, RequestsWellFormed
  <2>3. UNCHANGED <<now, trialEnd>> /\ \A t \in Subs : t # s => ledger'[t] = ledger[t]
    BY <1>2, <2>1 DEF InsertFirstPayment
  <2>4. QED
    BY <2>2, <2>3
<1>3. ASSUME NEW w \in Runs, InsertPayment(w) PROVE TrialIsFree'
  <2>1. PICK s \in Subs : s = job[w][1]
    BY <1>3, Targets DEF InsertPayment
  <2>2. trialEnd[s] <= now
    BY <1>3, <2>1 DEF InsertPayment, JobsWellFormed, MayBeCharged
  <2>3. UNCHANGED <<now, trialEnd>> /\ \A t \in Subs : t # s => ledger'[t] = ledger[t]
    BY <1>3, <2>1 DEF InsertPayment
  <2>4. QED
    BY <2>2, <2>3
<1>4. CASE UNCHANGED <<trialEnd, ledger>> /\ now' \in {now, now + 1}
  BY <1>4
<1>5. \/ \E q \in Requests, p \in Plans : InsertSubscription(q, p)
      \/ \E q \in Requests : InsertFirstPayment(q)
      \/ \E w \in Runs : InsertPayment(w)
      \/ UNCHANGED <<trialEnd, ledger>> /\ now' \in {now, now + 1}
  BY Steps DEF billing, vars, rows, WriteCancel, ReadSubscription, AdvancePeriod, Tick
<1>6. QED
  BY <1>1, <1>2, <1>3, <1>4, <1>5

\* All payments and all period ends that runs have read are at most the period
\* end at the cancellation, and a canceled row is not read any more.
LEMMA NextCanceled ==
  TypeOK /\ RequestsWellFormed /\ RowsWellFormed /\ ChargesWellFormed /\ LedgerWithoutGaps
    /\ AtMostOneChargeAfterCancel /\ [Next]_vars => AtMostOneChargeAfterCancel'
<1> SUFFICES ASSUME TypeOK, RequestsWellFormed, RowsWellFormed, ChargesWellFormed,
                    LedgerWithoutGaps, AtMostOneChargeAfterCancel, [Next]_vars
             PROVE AtMostOneChargeAfterCancel'
  OBVIOUS
<1> USE DEF TypeOK, AtMostOneChargeAfterCancel, Ended, Null
<1>1. ASSUME NEW q \in Requests, NEW p \in Plans, InsertSubscription(q, p)
      PROVE AtMostOneChargeAfterCancel'
  <2>1. PICK s \in Subs : s = target[q]
    BY <1>1 DEF InsertSubscription
  <2>2. status'[s] = "active" /\ \A t \in Subs : t # s => status'[t] = status[t]
    BY <1>1, <2>1 DEF InsertSubscription
  <2>3. QED
    BY <1>1, <2>2 DEF InsertSubscription, history
<1>2. ASSUME NEW q \in Requests, InsertFirstPayment(q) PROVE AtMostOneChargeAfterCancel'
  <2>1. PICK s \in Subs : s = target[q]
    BY <1>2 DEF InsertFirstPayment
  <2>2. status[s] \in Ended => started[s] <= cancelEnd[s]
    BY DEF RowsWellFormed
  <2>3. ledger' = [ledger EXCEPT ![s] = ledger[s] \union {started[s]}]
    BY <1>2, <2>1 DEF InsertFirstPayment
  <2>4. UNCHANGED <<status, cancelEnd>>
    BY <1>2 DEF InsertFirstPayment, history
  <2>5. QED
    BY <2>2, <2>3, <2>4
<1>3. ASSUME NEW q \in Requests, NEW effective \in {"immediate", "period_end"},
             WriteCancel(q, effective)
      PROVE AtMostOneChargeAfterCancel'
  <2>1. PICK s \in Subs : s = target[q]
    BY <1>3 DEF WriteCancel
  <2>2. status[s] # "none"
    BY <1>3, <2>1 DEF WriteCancel, RequestsWellFormed
  <2>3. \A p \in ledger[s] : p <= periodEnd[s]
    <3>1. PICK first \in {started[s], started[s] + 1} :
            ledger[s] = first..(periodEnd[s] - 1) \/ ledger[s] = first..periodEnd[s]
      BY <2>2 DEF LedgerWithoutGaps
    <3>2. first \in Nat /\ periodEnd[s] \in Nat
      OBVIOUS
    <3>3. QED
      BY <3>1, <3>2
  <2>4. /\ cancelEnd' = [cancelEnd EXCEPT ![s] = IF @ = Null THEN periodEnd[s] ELSE @]
        /\ ledger' = ledger
        /\ \A t \in Subs : t # s => status'[t] = status[t]
    BY <1>3, <2>1 DEF WriteCancel
  <2>5. CASE status[s] \in Ended
    <3>1. cancelEnd[s] # Null
      BY <2>5 DEF RowsWellFormed
    <3>2. cancelEnd' = cancelEnd
      BY <2>4, <3>1
    <3>3. QED
      BY <2>4, <2>5, <3>2
  <2>6. CASE status[s] \notin Ended
    <3>1. cancelEnd[s] = Null
      BY <2>6 DEF RowsWellFormed
    <3>2. cancelEnd' = [cancelEnd EXCEPT ![s] = periodEnd[s]]
      BY <2>4, <3>1
    <3>3. QED
      BY <2>3, <2>4, <3>2
  <2>7. QED
    BY <2>5, <2>6
<1>4. ASSUME NEW w \in Runs, InsertPayment(w), ~ Duplicate(w) PROVE AtMostOneChargeAfterCancel'
  <2>1. PICK s \in Subs : s = job[w][1]
    BY <1>4, Targets DEF InsertPayment
  <2>2. status[s] \in Ended => readEnd[w] <= cancelEnd[s]
    BY <1>4, <2>1 DEF InsertPayment, ChargesWellFormed
  <2>3. ledger' = [ledger EXCEPT ![s] = ledger[s] \union {readEnd[w]}]
    BY <1>4, <2>1 DEF InsertPayment
  <2>4. UNCHANGED <<status, cancelEnd>>
    BY <1>4 DEF InsertPayment, history
  <2>5. QED
    BY <2>2, <2>3, <2>4
<1>5. CASE UNCHANGED <<status, ledger, cancelEnd>>
  BY <1>5
<1>6. \/ \E q \in Requests, p \in Plans : InsertSubscription(q, p)
      \/ \E q \in Requests : InsertFirstPayment(q)
      \/ \E q \in Requests, effective \in {"immediate", "period_end"} : WriteCancel(q, effective)
      \/ \E w \in Runs : InsertPayment(w) /\ ~ Duplicate(w)
      \/ UNCHANGED <<status, ledger, cancelEnd>>
  BY Steps DEF billing, vars, rows, history, ReadSubscription, InsertPayment, AdvancePeriod, Tick
<1>7. QED
  BY <1>1, <1>2, <1>3, <1>4, <1>5, <1>6

\* A run moves to its update only if the payment was not there, hence neither
\* was another run that waits for the row to move on.
LEMMA NextCharges ==
  TypeOK /\ RequestsWellFormed /\ RowsWellFormed /\ JobsWellFormed /\ LedgerWithoutGaps
    /\ ChargesWellFormed /\ [Next]_vars => ChargesWellFormed'
<1> SUFFICES ASSUME TypeOK, RequestsWellFormed, RowsWellFormed, JobsWellFormed,
                    LedgerWithoutGaps, ChargesWellFormed, [Next]_vars
             PROVE ChargesWellFormed'
  OBVIOUS
<1> USE DEF TypeOK, Ended, Null
<1>1. ASSUME NEW q \in Requests, NEW p \in Plans, InsertSubscription(q, p) PROVE ChargesWellFormed'
  <2>1. PICK s \in Subs : s = target[q]
    BY <1>1 DEF InsertSubscription
  <2>2. status[s] = "none"
    BY <1>1, <2>1 DEF InsertSubscription, RequestsWellFormed
  <2>3. \A w \in Runs : pc[w] # "idle" => job[w][1] \in Subs /\ job[w][1] # s
    BY <2>2, Targets DEF JobsWellFormed, MayBeCharged
  <2>4. UNCHANGED <<charges, ledger, cancelEnd>>
    BY <1>1 DEF InsertSubscription, history
  <2>5. \A t \in Subs : t # s => /\ status'[t] = status[t]
                                 /\ started'[t] = started[t]
                                 /\ periodEnd'[t] = periodEnd[t]
    BY <1>1, <2>1 DEF InsertSubscription
  <2>6. QED
    BY <2>3, <2>4, <2>5 DEF ChargesWellFormed, charges
<1>2. ASSUME NEW q \in Requests, InsertFirstPayment(q) PROVE ChargesWellFormed'
  <2>1. \A s \in Subs : ledger[s] \subseteq ledger'[s]
    BY <1>2 DEF InsertFirstPayment
  <2>2. UNCHANGED <<charges, status, started, periodEnd, cancelEnd>>
    BY <1>2 DEF InsertFirstPayment, history
  <2>3. QED
    BY <2>1, <2>2, Targets DEF ChargesWellFormed, charges
<1>3. ASSUME NEW q \in Requests, NEW effective \in {"immediate", "period_end"},
             WriteCancel(q, effective)
      PROVE ChargesWellFormed'
  <2>1. PICK s \in Subs : s = target[q]
    BY <1>3 DEF WriteCancel
  <2>2. /\ cancelEnd' = [cancelEnd EXCEPT ![s] = IF @ = Null THEN periodEnd[s] ELSE @]
        /\ UNCHANGED <<charges, started, periodEnd, ledger>>
        /\ \A t \in Subs : t # s => status'[t] = status[t]
    BY <1>3, <2>1 DEF WriteCancel
  <2>3. ASSUME NEW w \in Runs, pc[w] # "idle", job[w][1] = s PROVE readEnd[w] <= cancelEnd'[s]
    <3>1. readEnd[w] <= periodEnd[s] /\ (status[s] \in Ended => readEnd[w] <= cancelEnd[s])
      BY <2>3 DEF ChargesWellFormed
    <3>2. CASE cancelEnd[s] = Null
      BY <2>2, <3>1, <3>2
    <3>3. CASE cancelEnd[s] # Null
      BY <2>2, <3>1, <3>3 DEF RowsWellFormed
    <3>4. QED
      BY <3>2, <3>3
  <2>4. \A t \in Subs : t # s => cancelEnd'[t] = cancelEnd[t]
    BY <2>2
  <2>5. QED
    BY <2>2, <2>3, <2>4, Targets DEF ChargesWellFormed, charges
<1>4. ASSUME NEW w \in Runs, NEW x \in queued, ReadSubscription(w, x) PROVE ChargesWellFormed'
  <2>1. UNCHANGED <<status, started, periodEnd, ledger, cancelEnd>>
    BY <1>4 DEF ReadSubscription, rows, history
  <2>2. CASE MayRenew(x[1])
    <3>1. PICK s \in Subs : s = x[1] /\ status[s] = "active"
      BY <2>2, JobNamesRow DEF MayRenew
    <3>2. /\ pc'      = [pc EXCEPT ![w] = "insert"]
          /\ job'     = [job EXCEPT ![w] = x]
          /\ readEnd' = [readEnd EXCEPT ![w] = periodEnd[s]]
      BY <1>4, <2>2, <3>1 DEF ReadSubscription
    <3>3. periodEnd[s] \in (started[s] + 1)..periodEnd[s]
      BY <3>1 DEF RowsWellFormed
    <3>4. pc'[w] = "insert" /\ job'[w] = x /\ readEnd'[w] = periodEnd[s]
      BY <3>2
    <3>5. \A v \in Runs : v # w => pc'[v] = pc[v] /\ job'[v] = job[v] /\ readEnd'[v] = readEnd[v]
      BY <3>2
    <3>6. QED
      BY <2>1, <3>1, <3>3, <3>4, <3>5 DEF ChargesWellFormed
  <2>3. CASE ~ MayRenew(x[1])
    BY <1>4, <2>1, <2>3 DEF ReadSubscription, ChargesWellFormed, charges
  <2>4. QED
    BY <2>2, <2>3
<1>5. ASSUME NEW w \in Runs, Leave(w),
             UNCHANGED <<status, started, periodEnd, ledger, cancelEnd>>
      PROVE  ChargesWellFormed'
  <2>1. \A v \in Runs : pc'[v] # "idle" => v # w /\ pc'[v] = pc[v] /\ job'[v] = job[v]
                                           /\ readEnd'[v] = readEnd[v]
    BY <1>5 DEF Leave
  <2>2. QED
    BY <1>5, <2>1 DEF ChargesWellFormed
<1>6. ASSUME NEW w \in Runs, InsertPayment(w), ~ Duplicate(w) PROVE ChargesWellFormed'
  <2>1. PICK s \in Subs : s = job[w][1]
    BY <1>6, Targets DEF InsertPayment
  <2>2. /\ readEnd[w] \in (started[s] + 1)..periodEnd[s]
        /\ readEnd[w] \notin ledger[s]
        /\ status[s] # "none"
        /\ started[s] \in Nat /\ periodEnd[s] \in Nat
    BY <1>6, <2>1 DEF InsertPayment, Duplicate, ChargesWellFormed, JobsWellFormed, MayBeCharged
  <2>3. PICK first \in {started[s], started[s] + 1} :
          ledger[s] = first..(periodEnd[s] - 1) \/ ledger[s] = first..periodEnd[s]
    BY <2>2 DEF LedgerWithoutGaps
  <2>4. readEnd[w] = periodEnd[s]
    BY <2>2, <2>3
  <2>5. \A v \in Runs : pc[v] = "advance" => job[v][1] # s
    BY <2>2, <2>4 DEF ChargesWellFormed
  <2>6. /\ ledger' = [ledger EXCEPT ![s] = ledger[s] \union {readEnd[w]}]
        /\ pc' = [pc EXCEPT ![w] = "advance"]
        /\ UNCHANGED <<job, readEnd, status, started, periodEnd, cancelEnd>>
    BY <1>6, <2>1 DEF InsertPayment, history
  <2>7. periodEnd[s] \in ledger'[s] /\ \A t \in Subs : ledger[t] \subseteq ledger'[t]
    BY <2>4, <2>6
  <2>8. pc'[w] = "advance" /\ \A v \in Runs : v # w => pc'[v] = pc[v]
    BY <2>6
  <2>9. pc[w] # "idle"
    BY <1>6 DEF InsertPayment
  <2>10. QED
    BY <2>1, <2>4, <2>5, <2>6, <2>7, <2>8, <2>9, Targets DEF ChargesWellFormed
<1>7. ASSUME NEW w \in Runs, AdvancePeriod(w) PROVE ChargesWellFormed'
  <2>1. PICK s \in Subs : s = job[w][1]
    BY <1>7, Targets DEF AdvancePeriod
  <2>2. readEnd[w] = periodEnd[s] /\ \A v \in Runs : v # w /\ job[v][1] = s => pc[v] # "advance"
    BY <1>7, <2>1 DEF AdvancePeriod, ChargesWellFormed
  <2>3. periodEnd' = [periodEnd EXCEPT ![s] = periodEnd[s] + 1]
    BY <1>7, <2>1, <2>2 DEF AdvancePeriod, NextEnd
  <2>4. \A v \in Runs : pc'[v] # "idle" => v # w /\ pc'[v] = pc[v] /\ job'[v] = job[v]
                                           /\ readEnd'[v] = readEnd[v]
    BY <1>7 DEF AdvancePeriod, EndCharge, Leave
  <2>5. UNCHANGED <<status, started, ledger, cancelEnd>>
    BY <1>7 DEF AdvancePeriod, history
  <2>6. \A t \in Subs : /\ periodEnd[t] \in Nat /\ started[t] \in Nat
                        /\ t # s => periodEnd'[t] = periodEnd[t]
    BY <2>3
  <2>7. periodEnd'[s] = periodEnd[s] + 1
    BY <2>3
  <2>8. ASSUME NEW v \in Runs, pc'[v] # "idle"
        PROVE  LET t == job'[v][1] IN
               /\ readEnd'[v] \in (started'[t] + 1)..periodEnd'[t]
               /\ status'[t] \in Ended => readEnd'[v] <= cancelEnd'[t]
               /\ pc'[v] = "advance" =>
                    /\ readEnd'[v] = periodEnd'[t]
                    /\ periodEnd'[t] \in ledger'[t]
                    /\ \A u \in Runs : pc'[u] = "advance" /\ job'[u][1] = t => u = v
    <3>1. PICK t \in Subs : t = job[v][1]
      BY <2>4, <2>8, Targets
    <3>2. /\ readEnd[v] \in (started[t] + 1)..periodEnd[t]
          /\ status[t] \in Ended => readEnd[v] <= cancelEnd[t]
          /\ pc[v] = "advance" =>
               /\ readEnd[v] = periodEnd[t]
               /\ periodEnd[t] \in ledger[t]
               /\ \A u \in Runs : pc[u] = "advance" /\ job[u][1] = t => u = v
      BY <2>4, <2>8, <3>1 DEF ChargesWellFormed
    <3>3. readEnd'[v] \in (started'[t] + 1)..periodEnd'[t]
      BY <2>4, <2>5, <2>6, <2>7, <2>8, <3>2
    <3>4. pc'[v] = "advance" => t # s
      BY <2>2, <2>4, <2>8, <3>1
    <3>5. QED
      BY <2>4, <2>5, <2>6, <2>8, <3>1, <3>2, <3>3, <3>4
  <2>9. QED
    BY <2>8 DEF ChargesWellFormed
<1>8. CASE UNCHANGED <<status, started, periodEnd, ledger, cancelEnd, charges>>
  BY <1>8 DEF ChargesWellFormed, charges
<1>9. \/ \E q \in Requests, p \in Plans : InsertSubscription(q, p)
      \/ \E q \in Requests : InsertFirstPayment(q)
      \/ \E q \in Requests, effective \in {"immediate", "period_end"} : WriteCancel(q, effective)
      \/ \E w \in Runs, x \in queued : ReadSubscription(w, x)
      \/ \E w \in Runs : Leave(w) /\ UNCHANGED <<status, started, periodEnd, ledger, cancelEnd>>
      \/ \E w \in Runs : InsertPayment(w) /\ ~ Duplicate(w)
      \/ \E w \in Runs : AdvancePeriod(w)
      \/ UNCHANGED <<status, started, periodEnd, ledger, cancelEnd, charges>>
  BY Steps DEF billing, vars, rows, history, InsertPayment, EndCharge, RunEnds, Redeliver, GiveUp, Tick
<1>10. QED
  BY <1>1, <1>2, <1>3, <1>4, <1>5, <1>6, <1>7, <1>8, <1>9

-----------------------------------------------------------------------------
(* The inductive invariant and what follows from it *)

\* The conjunction is inductive.
THEOREM Inductive == Spec => []IInv
<1>1. Init => IInv
  <2>1. Init => TypeOK
    BY InitType
  <2>2. Init => IInv
    BY <2>1 DEF Init, IInv, LedgerWithoutGaps, AtMostOneChargeAfterCancel, TrialIsFree,
       RequestsWellFormed, RowsWellFormed, JobsWellFormed, ChargesWellFormed, Ended, Null
  <2>3. QED
    BY <2>2
<1>2. IInv /\ [Next]_vars => IInv'
  BY NextType, NextRequests, NextRows, NextJobs, NextLedger, NextTrial, NextCanceled, NextCharges
     DEF IInv
<1>3. QED
  BY <1>1, <1>2, PTL DEF Spec

\* However charge runs overlap, repeat and die, the payments of a subscription
\* stand for consecutive periods.
THEOREM LedgerStaysGapless == Spec => []LedgerWithoutGaps
<1>1. IInv => LedgerWithoutGaps
  BY DEF IInv
<1>2. QED
  BY <1>1, Inductive, PTL

\* A canceled subscription is charged at most once more.
THEOREM CancellationHolds == Spec => []AtMostOneChargeAfterCancel
<1>1. IInv => AtMostOneChargeAfterCancel
  BY DEF IInv
<1>2. QED
  BY <1>1, Inductive, PTL

\* Nothing is charged during a trial.
THEOREM TrialsAreFree == Spec => []TrialIsFree
<1>1. IInv => TrialIsFree
  BY DEF IInv
<1>2. QED
  BY <1>1, Inductive, PTL

\* A period end is written by the insert of its row and by runs that add one to it.
LEMMA PeriodStep ==
  ASSUME IInv, [Next]_vars
  PROVE  \A s \in Subs : status[s] # "none" => periodEnd'[s] \in {periodEnd[s], periodEnd[s] + 1}
<1> DEFINE Rolls == \A s \in Subs : status[s] # "none" =>
                      periodEnd'[s] \in {periodEnd[s], periodEnd[s] + 1}
<1> SUFFICES Rolls
  OBVIOUS
<1>1. ASSUME NEW q \in Requests, NEW p \in Plans, InsertSubscription(q, p) PROVE Rolls
  <2>1. PICK s \in Subs : s = target[q]
    BY <1>1 DEF InsertSubscription, IInv, TypeOK
  <2>2. status[s] = "none"
    BY <1>1, <2>1 DEF InsertSubscription, IInv, RequestsWellFormed
  <2>3. QED
    BY <1>1, <2>1, <2>2 DEF InsertSubscription, IInv, TypeOK
<1>2. ASSUME NEW w \in Runs, AdvancePeriod(w) PROVE Rolls
  <2>1. PICK s \in Subs : s = job[w][1] /\ readEnd[w] = periodEnd[s]
    BY <1>2, Targets DEF AdvancePeriod, IInv, ChargesWellFormed
  <2>2. QED
    BY <1>2, <2>1 DEF AdvancePeriod, NextEnd, IInv, TypeOK
<1>3. CASE periodEnd' = periodEnd
  BY <1>3
<1>4. \/ \E q \in Requests, p \in Plans : InsertSubscription(q, p)
      \/ \E w \in Runs : AdvancePeriod(w)
      \/ periodEnd' = periodEnd
  BY Steps DEF vars, billing, rows, InsertFirstPayment, WriteCancel, ReadSubscription, InsertPayment, Tick
<1>5. QED
  BY <1>1, <1>2, <1>3, <1>4

\* The period moves on by one at a time and never back.
THEOREM PeriodsRoll == Spec => PeriodsRollForward
<1>1. IInv /\ [Next]_vars =>
        [\A s \in Subs : status[s] # "none" => periodEnd'[s] \in {periodEnd[s], periodEnd[s] + 1}]_vars
  BY PeriodStep
<1>2. QED
  BY <1>1, Inductive, PTL DEF Spec, PeriodsRollForward

-----------------------------------------------------------------------------
(* The last period of a canceled row *)

\* A request that is about to cancel has read a period end of the row's, past or
\* present.
SeenInv ==
  \A q \in Requests : step[q] = "cancel" =>
    seenEnd[q] \in (started[target[q]] + 1)..periodEnd[target[q]]

EndsInv == SeenInv /\ LastPeriodAfterCancel

LEMMA InitEnds == Init => EndsInv
BY DEF Init, EndsInv, SeenInv, LastPeriodAfterCancel, Ended

\* A request that leaves, or waits for another statement than the cancellation.
LEMMA SeenElsewhere ==
  ASSUME TypeOK, SeenInv, NEW q \in Requests, NEW at, NEW t, NEW end, Goto(q, at, t, end),
         at # "cancel", UNCHANGED <<started, periodEnd>>
  PROVE  SeenInv'
<1>1. \A o \in Requests :
        \/ o = q /\ step'[o] = at
        \/ o # q /\ step'[o] = step[o] /\ target'[o] = target[o] /\ seenEnd'[o] = seenEnd[o]
  BY DEF TypeOK, Goto
<1>2. QED
  BY <1>1 DEF SeenInv

\* Period ends that are read stay behind the one of the row, and the renewal that
\* is under way at the cancellation is the last.
LEMMA NextEnds == IInv /\ EndsInv /\ [Next]_vars => EndsInv'
<1> SUFFICES ASSUME IInv, EndsInv, [Next]_vars PROVE EndsInv'
  OBVIOUS
<1>1. TypeOK /\ RequestsWellFormed /\ RowsWellFormed /\ SeenInv /\ LastPeriodAfterCancel
  BY DEF IInv, EndsInv
<1>2. ASSUME UNCHANGED <<status, started, periodEnd, effectiveEnd, cancelEnd>>
      PROVE  LastPeriodAfterCancel'
  BY <1>1, <1>2 DEF LastPeriodAfterCancel
<1>3. ASSUME RequestOnly PROVE EndsInv'
  <2>1. UNCHANGED <<status, started, periodEnd, effectiveEnd, cancelEnd>>
    BY <1>3 DEF RequestOnly, FindNone, ReadRow, WriteSchedule, ClearSchedule, LoseRequest, rows, history
  <2>2. SeenInv'
    <3>1. ASSUME NEW q \in Requests, NEW s \in Subs, ReadRow(q, s, "cancel") PROVE SeenInv'
      <4>1. /\ Goto(q, "cancel", s, periodEnd[s]) /\ status[s] \in ActiveLike
        BY <3>1 DEF ReadRow
      <4>2. started[s] < periodEnd[s] /\ started[s] \in Nat /\ periodEnd[s] \in Nat
        BY <1>1, <4>1 DEF RowsWellFormed, ActiveLike, TypeOK
      <4>3. \A o \in Requests :
              \/ o = q /\ target'[o] = s /\ seenEnd'[o] = periodEnd[s]
              \/ o # q /\ step'[o] = step[o] /\ target'[o] = target[o] /\ seenEnd'[o] = seenEnd[o]
        BY <1>1, <4>1 DEF TypeOK, Goto
      <4>4. periodEnd[s] \in (started[s] + 1)..periodEnd[s]
        BY <4>2
      <4>5. QED
        BY <1>1, <2>1, <4>3, <4>4 DEF SeenInv
    <3>2. ASSUME NEW s \in Subs, ClearSchedule(s) PROVE SeenInv'
      BY <1>1, <2>1, <3>2 DEF ClearSchedule, requests, SeenInv
    <3>3. \/ \E q \in Requests, s \in Subs : ReadRow(q, s, "cancel")
          \/ \E s \in Subs : ClearSchedule(s)
          \/ \E q \in Requests : \E at, t, end : Goto(q, at, t, end) /\ at # "cancel"
      BY <1>3 DEF RequestOnly, FindNone, ReadRow, WriteSchedule, LoseRequest, Done
    <3>4. QED
      BY <1>1, <2>1, <3>1, <3>2, <3>3, SeenElsewhere
  <2>3. QED
    BY <1>2, <2>1, <2>2 DEF EndsInv
<1>4. ASSUME NEW q \in Requests, NEW p \in Plans, InsertSubscription(q, p) PROVE EndsInv'
  <2>1. PICK s \in Subs : s = target[q]
    BY <1>1, <1>4 DEF InsertSubscription, TypeOK
  <2>2. /\ status[s] = "none" /\ status' = [status EXCEPT ![s] = "active"]
        /\ \A t \in Subs : t # s => started'[t] = started[t] /\ periodEnd'[t] = periodEnd[t]
        /\ UNCHANGED <<effectiveEnd, cancelEnd>>
    BY <1>1, <1>4, <2>1 DEF InsertSubscription, RequestsWellFormed, TypeOK, history
  <2>3. \A o \in Requests :
          \/ o = q /\ step'[o] # "cancel"
          \/ o # q /\ step'[o] = step[o] /\ target'[o] = target[o] /\ seenEnd'[o] = seenEnd[o]
    BY <1>1, <1>4 DEF InsertSubscription, Done, Goto, TypeOK
  <2>4. \A o \in Requests : step[o] = "cancel" => target[o] \in Subs /\ target[o] # s
    BY <1>1, <2>2 DEF RequestsWellFormed, TypeOK
  <2>5. SeenInv'
    BY <1>1, <2>2, <2>3, <2>4 DEF SeenInv
  <2>6. LastPeriodAfterCancel'
    BY <1>1, <2>2 DEF LastPeriodAfterCancel, TypeOK, Ended
  <2>7. QED
    BY <2>5, <2>6 DEF EndsInv
<1>5. ASSUME NEW q \in Requests, InsertFirstPayment(q) PROVE EndsInv'
  <2>1. /\ Goto(q, "idle", NoSub, 0)
        /\ UNCHANGED <<status, started, periodEnd, effectiveEnd, cancelEnd>>
    BY <1>5 DEF InsertFirstPayment, Done, history
  <2>2. QED
    BY <1>1, <1>2, <2>1, SeenElsewhere DEF EndsInv
<1>6. ASSUME NEW q \in Requests, NEW effective \in {"immediate", "period_end"}, WriteCancel(q, effective)
      PROVE  EndsInv'
  <2>1. PICK s \in Subs : s = target[q]
    BY <1>1, <1>6 DEF WriteCancel, TypeOK
  <2>2. /\ step[q] = "cancel" /\ Goto(q, "idle", NoSub, 0) /\ UNCHANGED <<started, periodEnd>>
        /\ status' = [status EXCEPT ![s] = IF effective = "immediate" THEN "canceled" ELSE "canceling"]
        /\ effectiveEnd' = [effectiveEnd EXCEPT ![s] = IF effective = "immediate" THEN now ELSE seenEnd[q]]
        /\ cancelEnd' = [cancelEnd EXCEPT ![s] = IF cancelEnd[s] = Null THEN periodEnd[s] ELSE cancelEnd[s]]
    BY <1>6, <2>1 DEF WriteCancel, Done
  <2>3. SeenInv'
    BY <1>1, <2>2, SeenElsewhere
  <2>4. /\ cancelEnd'[s] = IF cancelEnd[s] = Null THEN periodEnd[s] ELSE cancelEnd[s]
        /\ status'[s] = "canceling" => effectiveEnd'[s] = seenEnd[q]
        /\ \A t \in Subs : t # s =>
             status'[t] = status[t] /\ effectiveEnd'[t] = effectiveEnd[t] /\ cancelEnd'[t] = cancelEnd[t]
    BY <1>1, <2>2 DEF TypeOK
  <2>5. periodEnd[s] \in {cancelEnd'[s], cancelEnd'[s] + 1}
    BY <1>1, <2>4 DEF RowsWellFormed, LastPeriodAfterCancel
  <2>6. seenEnd[q] \in (started[s] + 1)..periodEnd[s]
    BY <1>1, <2>1, <2>2 DEF SeenInv
  <2>7. LastPeriodAfterCancel'
    BY <1>1, <2>2, <2>4, <2>5, <2>6 DEF LastPeriodAfterCancel
  <2>8. QED
    BY <2>3, <2>7 DEF EndsInv
<1>7. ASSUME NEW w \in Runs, AdvancePeriod(w) PROVE EndsInv'
  <2>1. PICK s \in Subs : s = job[w][1]
    BY <1>1, <1>7, Targets DEF AdvancePeriod
  <2>2. /\ readEnd[w] = periodEnd[s] /\ periodEnd[s] \in Nat
        /\ status[s] \in Ended => periodEnd[s] <= cancelEnd[s]
    BY <1>1, <1>7, <2>1 DEF AdvancePeriod, IInv, ChargesWellFormed, TypeOK
  <2>3. /\ periodEnd' = [periodEnd EXCEPT ![s] = periodEnd[s] + 1]
        /\ UNCHANGED <<status, started, effectiveEnd, cancelEnd, requests>>
    BY <1>7, <2>1, <2>2 DEF AdvancePeriod, NextEnd, history
  <2>4. \A t \in Subs : /\ started[t] \in Nat /\ periodEnd[t] \in Nat /\ periodEnd'[t] \in Nat
                        /\ periodEnd[t] <= periodEnd'[t]
                        /\ t # s => periodEnd'[t] = periodEnd[t]
    BY <1>1, <2>2, <2>3 DEF TypeOK
  <2>5. \A t \in Subs : (started[t] + 1)..periodEnd[t] \subseteq (started'[t] + 1)..periodEnd'[t]
    BY <2>3, <2>4
  <2>6. SeenInv'
    <3>1. \A o \in Requests : step[o] = "cancel" => target[o] \in Subs
      BY <1>1 DEF TypeOK
    <3>2. QED
      BY <1>1, <2>3, <2>5, <3>1 DEF SeenInv, requests
  <2>7. LastPeriodAfterCancel'
    <3>1. status[s] \in Ended => periodEnd'[s] = cancelEnd[s] + 1
      BY <1>1, <2>2, <2>3 DEF LastPeriodAfterCancel, TypeOK, Null
    <3>2. QED
      BY <1>1, <2>3, <2>4, <2>5, <3>1 DEF LastPeriodAfterCancel
  <2>8. QED
    BY <2>6, <2>7 DEF EndsInv
<1>8. ASSUME UNCHANGED <<status, started, periodEnd, effectiveEnd, cancelEnd, requests>> PROVE EndsInv'
  BY <1>1, <1>2, <1>8 DEF EndsInv, SeenInv, requests
<1>9. QueueOnly \/ RunEnds \/ Tick \/ UNCHANGED vars
        => UNCHANGED <<status, started, periodEnd, effectiveEnd, cancelEnd, requests>>
  BY DEF QueueOnly, StartScan, AddCharge, AddRefused, LoseScan, Purge, RunEnds, Redeliver, GiveUp, Tick,
     vars, rows, history
<1>10. ASSUME NEW w \in Runs, NEW x \in queued, ReadSubscription(w, x)
       PROVE  UNCHANGED <<status, started, periodEnd, effectiveEnd, cancelEnd, requests>>
  BY <1>10 DEF ReadSubscription, rows, history
<1>11. ASSUME NEW w \in Runs, InsertPayment(w)
       PROVE  UNCHANGED <<status, started, periodEnd, effectiveEnd, cancelEnd, requests>>
  BY <1>11 DEF InsertPayment, history
<1>12. QED
  BY <1>3, <1>4, <1>5, <1>6, <1>7, <1>8, <1>9, <1>10, <1>11, Steps

\* Once canceled, a row runs on for the period it was in and at most the one after
\* it, and the end a cancellation notes is one the row had.
THEOREM LastPeriod == Spec => []LastPeriodAfterCancel
<1>1. EndsInv => LastPeriodAfterCancel
  BY DEF EndsInv
<1>2. QED
  BY <1>1, Inductive, InitEnds, NextEnds, PTL DEF Spec

-----------------------------------------------------------------------------
(* Renewals that were cut off *)

\* Of a row that is paid ahead with no run to begin the period, every period end a
\* run can have read is a period that is paid for.
LEMMA TornIsPaid ==
  ASSUME IInv, NEW s \in Subs, Torn(s)
  PROVE  /\ status[s] # "none"
         /\ \A w \in Runs : pc[w] # "idle" /\ job[w][1] = s => pc[w] = "insert" /\ Duplicate(w)
<1>1. status[s] # "none"
  BY DEF Torn, IInv, RowsWellFormed
<1>2. PICK first \in {started[s], started[s] + 1} :
        ledger[s] = first..(periodEnd[s] - 1) \/ ledger[s] = first..periodEnd[s]
  BY <1>1 DEF IInv, LedgerWithoutGaps
<1>3. started[s] \in Nat /\ periodEnd[s] \in Nat
  BY DEF IInv, TypeOK
<1>4. ledger[s] = first..periodEnd[s]
  BY <1>2, <1>3 DEF Torn
<1>5. ASSUME NEW w \in Runs, pc[w] # "idle", job[w][1] = s PROVE pc[w] = "insert" /\ Duplicate(w)
  <2>1. readEnd[w] \in (started[s] + 1)..periodEnd[s]
    BY <1>5 DEF IInv, ChargesWellFormed
  <2>2. readEnd[w] \in ledger[s]
    BY <1>2, <1>3, <1>4, <2>1
  <2>3. pc[w] = "insert"
    BY <1>5 DEF Torn, IInv, TypeOK
  <2>4. QED
    BY <1>5, <2>2, <2>3 DEF Duplicate
<1>6. QED
  BY <1>1, <1>5

\* No step makes such a row good again.
LEMMA TornStep ==
  ASSUME IInv, Next, NEW s \in Subs, Torn(s)
  PROVE  /\ Torn(s)'
         /\ periodEnd'[s] = periodEnd[s]
         /\ ledger'[s] \subseteq ledger[s] \union {started[s]}
<1> DEFINE Stays == /\ periodEnd'[s] = periodEnd[s]
                    /\ ledger[s] \subseteq ledger'[s]
                    /\ ledger'[s] \subseteq ledger[s] \union {started[s]}
           Idle  == \A w \in Runs : pc'[w] = "advance" => job'[w][1] # s
<1>1. TypeOK /\ RequestsWellFormed
  BY DEF IInv
<1>2. /\ periodEnd[s] \in ledger[s] /\ status[s] # "none"
      /\ \A w \in Runs : pc[w] = "advance" => job[w][1] # s
      /\ \A w \in Runs : pc[w] # "idle" /\ job[w][1] = s => Duplicate(w)
  BY TornIsPaid DEF Torn
<1> SUFFICES Stays /\ Idle
  BY <1>2 DEF Torn
<1>3. ASSUME UNCHANGED charges PROVE Idle
  BY <1>2, <1>3 DEF charges
<1>4. ASSUME NEW w \in Runs, Leave(w) PROVE Idle
  BY <1>1, <1>2, <1>4 DEF Leave, TypeOK
<1>5. ASSUME UNCHANGED <<periodEnd, ledger>> PROVE Stays
  BY <1>5
<1>6. ASSUME NEW q \in Requests, NEW p \in Plans, InsertSubscription(q, p) PROVE Stays /\ Idle
  <2>1. s # target[q]
    BY <1>1, <1>2, <1>6 DEF InsertSubscription, RequestsWellFormed
  <2>2. QED
    BY <1>1, <1>3, <1>6, <2>1 DEF InsertSubscription, TypeOK
<1>7. ASSUME NEW q \in Requests, InsertFirstPayment(q) PROVE Stays /\ Idle
  <2>1. ledger'[s] = ledger[s] \/ ledger'[s] = ledger[s] \union {started[s]}
    BY <1>1, <1>7 DEF InsertFirstPayment, TypeOK
  <2>2. QED
    BY <1>3, <1>7, <2>1 DEF InsertFirstPayment
<1>8. ASSUME NEW q \in Requests, NEW effective \in {"immediate", "period_end"}, WriteCancel(q, effective)
      PROVE  Stays /\ Idle
  BY <1>3, <1>5, <1>8 DEF WriteCancel
<1>9. ASSUME NEW w \in Runs, NEW x \in queued, ReadSubscription(w, x) PROVE Stays /\ Idle
  <2>1. Idle
    BY <1>1, <1>2, <1>3, <1>9 DEF ReadSubscription, TypeOK
  <2>2. QED
    BY <1>5, <1>9, <2>1 DEF ReadSubscription, rows
<1>10. ASSUME NEW w \in Runs, InsertPayment(w) PROVE Stays /\ Idle
  <2>1. CASE Duplicate(w)
    BY <1>4, <1>5, <1>10, <2>1 DEF InsertPayment, EndCharge
  <2>2. CASE ~Duplicate(w)
    <3>1. job[w][1] # s
      BY <1>2, <1>10, <2>2 DEF InsertPayment
    <3>2. /\ ledger' = [ledger EXCEPT ![job[w][1]] = @ \union {readEnd[w]}]
          /\ pc' = [pc EXCEPT ![w] = "advance"] /\ UNCHANGED <<job, periodEnd>>
      BY <1>10, <2>2 DEF InsertPayment
    <3>3. QED
      BY <1>1, <1>2, <3>1, <3>2 DEF TypeOK
  <2>3. QED
    BY <2>1, <2>2
<1>11. ASSUME NEW w \in Runs, AdvancePeriod(w) PROVE Stays /\ Idle
  <2>1. job[w][1] # s
    BY <1>2, <1>11 DEF AdvancePeriod
  <2>2. QED
    BY <1>1, <1>4, <1>11, <2>1 DEF AdvancePeriod, EndCharge, TypeOK
<1>12. ASSUME RunEnds, UNCHANGED billing PROVE Stays /\ Idle
  BY <1>3, <1>4, <1>5, <1>12 DEF RunEnds, Redeliver, GiveUp, EndCharge, billing
<1>13. ASSUME UNCHANGED <<billing, charges>> PROVE Stays /\ Idle
  BY <1>3, <1>5, <1>13 DEF billing
<1>14. Tick => UNCHANGED <<billing, charges>>
  BY DEF Tick, rows, history, billing
<1>15. QED
  BY <1>6, <1>7, <1>8, <1>9, <1>10, <1>11, <1>12, <1>13, <1>14, Steps DEF queue

\* A renewal that was cut off between the payment and the period is never made
\* good, whatever scans, runs and requests follow.
THEOREM TornForGood == Spec => TornStaysTorn
<1> DEFINE A == \A s \in Subs : Torn(s) =>
                  /\ Torn(s)'
                  /\ periodEnd'[s] = periodEnd[s]
                  /\ ledger'[s] \subseteq ledger[s] \union {started[s]}
<1>1. IInv /\ [Next]_vars => [A]_vars
  BY TornStep
<1>2. Spec => [][A]_vars
  BY <1>1, Inductive, PTL DEF Spec
<1>3. QED
  BY <1>2 DEF TornStaysTorn

-----------------------------------------------------------------------------
(* Periods charged ahead of the clock *)

\* A part of a finite set is not larger, and smaller if it lacks an element.
LEMMA Part ==
  ASSUME NEW S, IsFiniteSet(S), NEW T \in SUBSET S
  PROVE  /\ Cardinality(T) \in Nat /\ Cardinality(S) \in Nat
         /\ Cardinality(T) <= Cardinality(S)
         /\ T # S => Cardinality(T) + 1 <= Cardinality(S)
<1>1. IsFiniteSet(T) /\ Cardinality(T) <= Cardinality(S) /\ (Cardinality(S) = Cardinality(T) => S = T)
  BY FS_Subset
<1>2. Cardinality(T) \in Nat /\ Cardinality(S) \in Nat
  BY <1>1, FS_CardinalityType
<1>3. QED
  BY <1>1, <1>2

\* A set with one element more is larger by one at most.
LEMMA OneMore ==
  ASSUME NEW S, IsFiniteSet(S), NEW x, NEW T \in SUBSET (S \union {x})
  PROVE  Cardinality(T) \in Nat /\ Cardinality(S) \in Nat /\ Cardinality(T) <= Cardinality(S) + 1
<1>1. IsFiniteSet(S \union {x}) /\ Cardinality(S \union {x}) <= Cardinality(S) + 1
  <2>1. Cardinality(S) \in Nat
    BY FS_CardinalityType
  <2>2. QED
    BY <2>1, FS_AddElement
<1>2. Cardinality(T) \in Nat /\ Cardinality(T) <= Cardinality(S \union {x})
  BY <1>1, Part
<1>3. Cardinality(S) \in Nat /\ Cardinality(S \union {x}) \in Nat
  BY <1>1, FS_CardinalityType
<1>4. QED
  BY <1>1, <1>2, <1>3

\* The jobs that wait are for periods that are over, the runs are some of Runs.
LEMMA PendingFinite ==
  ASSUME TypeOK, JobsDue, NEW s \in Subs
  PROVE  /\ IsFiniteSet(Waiting(s)) /\ Cardinality(Waiting(s)) \in Nat
         /\ IsFiniteSet(Working(s)) /\ Cardinality(Working(s)) \in Nat
<1>1. Waiting(s) \subseteq {s} \X (0..now)
  <2> SUFFICES ASSUME NEW x \in Waiting(s) PROVE x \in {s} \X (0..now)
    OBVIOUS
  <2>1. x \in ChargeJobs /\ x[1] = s /\ x[2] <= now
    BY DEF Waiting, JobsDue, TypeOK
  <2>2. QED
    BY <2>1 DEF ChargeJobs, TypeOK
<1>2. IsFiniteSet({s} \X (0..now))
  <2>1. IsFiniteSet({s})
    BY FS_Singleton
  <2>2. IsFiniteSet(0..now)
    BY FS_Interval DEF TypeOK
  <2>3. QED
    BY <2>1, <2>2, FS_Product, Zenon
<1>3. IsFiniteSet(Waiting(s))
  BY <1>1, <1>2, FS_Subset
<1>4. IsFiniteSet(Working(s))
  BY SubscriptionAssumption, FS_Subset DEF Working
<1>5. QED
  BY <1>3, <1>4, FS_CardinalityType

\* The job of the present period waits or runs only when that period is over.
LEMMA DueIsOver ==
  ASSUME TypeOK, JobsDue, NEW s \in Subs, HasDue(s)
  PROVE  periodEnd[s] <= now
<1>1. CASE <<s, periodEnd[s]>> \in Waiting(s)
  BY <1>1 DEF Waiting, JobsDue
<1>2. CASE \E w \in Working(s) : job[w] = <<s, periodEnd[s]>>
  BY <1>2 DEF Working, JobsDue
<1>3. QED
  BY <1>1, <1>2 DEF HasDue

\* When jobs only drop out, what is left stays covered.
LEMMA CoverKept ==
  ASSUME TypeOK, TypeOK', JobsDue, NEW s \in Subs, RerunsCover(s),
         Waiting(s)' \subseteq Waiting(s), Working(s)' \subseteq Working(s),
         \A w \in Working(s)' : job'[w] = job[w],
         periodEnd'[s] = periodEnd[s], again[s] <= again'[s], now <= now'
  PROVE  RerunsCover(s)'
<1>1. /\ Cardinality(Waiting(s)') \in Nat /\ Cardinality(Waiting(s)) \in Nat
      /\ Cardinality(Waiting(s)') <= Cardinality(Waiting(s))
      /\ Waiting(s)' # Waiting(s) => Cardinality(Waiting(s)') + 1 <= Cardinality(Waiting(s))
  BY PendingFinite, Part
<1>2. /\ Cardinality(Working(s)') \in Nat /\ Cardinality(Working(s)) \in Nat
      /\ Cardinality(Working(s)') <= Cardinality(Working(s))
      /\ Working(s)' # Working(s) => Cardinality(Working(s)') + 1 <= Cardinality(Working(s))
  BY PendingFinite, Part
<1>3. /\ periodEnd[s] \in Nat /\ again[s] \in Nat /\ again'[s] \in Nat /\ now \in Nat /\ now' \in Nat
  BY DEF TypeOK
<1>4. CASE HasDue(s)' \/ ~HasDue(s)
  <2>1. HasDue(s)' => HasDue(s)
    BY DEF HasDue
  <2>2. QED
    BY <1>1, <1>2, <1>3, <1>4, <2>1 DEF RerunsCover, Pending
<1>5. CASE ~HasDue(s)' /\ HasDue(s)
  <2>1. Waiting(s)' # Waiting(s) \/ Working(s)' # Working(s)
    BY <1>5 DEF HasDue
  <2>2. periodEnd[s] <= now
    BY <1>5, DueIsOver
  <2>3. Pending(s)' <= again[s]
    BY <1>1, <1>2, <1>3, <1>5, <2>1 DEF RerunsCover, Pending
  <2>4. Pending(s)' \in Nat
    BY <1>1, <1>2 DEF Pending
  <2>5. QED
    BY <1>3, <1>5, <2>2, <2>3, <2>4 DEF RerunsCover
<1>6. QED
  BY <1>4, <1>5

\* A run that may still charge charges a covered period.
LEMMA WorkIsCovered ==
  ASSUME TypeOK, JobsDue, NEW s \in Subs, RerunsCover(s), NEW w \in Working(s)
  PROVE  periodEnd[s] <= now + again[s]
<1>1. periodEnd[s] \in Nat /\ again[s] \in Nat /\ now \in Nat
  BY DEF TypeOK
<1>2. CASE HasDue(s)
  BY <1>1, <1>2, DueIsOver
<1>3. CASE ~HasDue(s)
  <2>1. Cardinality(Working(s)) # 0
    BY PendingFinite, FS_EmptySet
  <2>2. Pending(s) \in Nat /\ Pending(s) >= 1
    BY <2>1, PendingFinite DEF Pending
  <2>3. QED
    BY <1>1, <1>3, <2>2 DEF RerunsCover
<1>4. QED
  BY <1>2, <1>3

\* Scans list periods that are over, and no period end moves back.
LEMMA NextDue == IInv /\ JobsDue /\ [Next]_vars => JobsDue'
<1> SUFFICES ASSUME IInv, JobsDue, [Next]_vars PROVE JobsDue'
  OBVIOUS
<1>1. TypeOK /\ TypeOK'
  BY NextType DEF IInv
<1>2. now' \in {now, now + 1}
  BY Steps DEF vars, InsertSubscription, InsertFirstPayment, WriteCancel, ReadSubscription,
     InsertPayment, AdvancePeriod, Tick
<1>3. ASSUME NEW x \in ChargeJobs, MayBeCharged(x[1]), x[2] <= now, x[2] <= periodEnd[x[1]]
      PROVE  x[2] <= now' /\ x[2] <= periodEnd'[x[1]]
  <2>1. PICK s \in Subs : s = x[1] /\ x[2] \in Nat /\ status[s] # "none"
    BY <1>3, JobNamesRow DEF MayBeCharged
  <2>2. periodEnd'[s] \in {periodEnd[s], periodEnd[s] + 1}
    BY <2>1, PeriodStep
  <2>3. QED
    BY <1>1, <1>2, <1>3, <2>1, <2>2 DEF TypeOK
<1>4. ASSUME NEW x \in listed' \union queued' PROVE x[2] <= now' /\ x[2] <= periodEnd'[x[1]]
  <2>1. x \in ChargeJobs
    BY <1>1 DEF TypeOK
  <2>2. MayBeCharged(x[1]) /\ x[2] <= now /\ x[2] <= periodEnd[x[1]]
    <3>1. CASE x \in listed \union queued
      BY <3>1 DEF IInv, JobsWellFormed, JobsDue
    <3>2. CASE \E w \in Runs : pc[w] # "idle" /\ x = job[w]
      BY <3>2 DEF IInv, JobsWellFormed, JobsDue
    <3>3. CASE x[1] \in DueForRenewal /\ x[2] = periodEnd[x[1]]
      BY <1>1, <3>3 DEF DueForRenewal, MayBeCharged, TypeOK
    <3>4. QED
      BY <3>1, <3>2, <3>3, JobsOrigin
  <2>3. QED
    BY <1>3, <2>1, <2>2
<1>5. ASSUME NEW w \in Runs, pc'[w] # "idle"
      PROVE  job'[w][2] <= now' /\ job'[w][2] <= periodEnd'[job'[w][1]]
  <2>1. job'[w] \in ChargeJobs
    BY <1>1, <1>5 DEF TypeOK
  <2>2. MayBeCharged(job'[w][1]) /\ job'[w][2] <= now /\ job'[w][2] <= periodEnd[job'[w][1]]
    <3>1. CASE pc[w] # "idle" /\ job'[w] = job[w]
      BY <3>1 DEF IInv, JobsWellFormed, JobsDue
    <3>2. CASE \E x \in queued : job'[w] = x
      BY <3>2 DEF IInv, JobsWellFormed, JobsDue
    <3>3. QED
      BY <1>1, <1>5, <3>1, <3>2, RunsOrigin
  <2>3. QED
    BY <1>3, <2>1, <2>2
<1>6. QED
  BY <1>4, <1>5 DEF JobsDue

\* A run that ends gives its job up.
LEMMA NextIdle == TypeOK /\ IdleRuns /\ [Next]_vars => IdleRuns'
<1> SUFFICES ASSUME TypeOK, IdleRuns, [Next]_vars PROVE IdleRuns'
  OBVIOUS
<1> USE DEF TypeOK, IdleRuns
<1>1. ASSUME NEW w \in Runs, Leave(w) PROVE IdleRuns'
  BY <1>1 DEF Leave
<1>2. ASSUME NEW w \in Runs, NEW x \in queued, ReadSubscription(w, x) PROVE IdleRuns'
  BY <1>2 DEF ReadSubscription, charges
<1>3. ASSUME NEW w \in Runs, InsertPayment(w) PROVE IdleRuns'
  BY <1>1, <1>3 DEF InsertPayment, EndCharge
<1>4. ASSUME NEW w \in Runs, AdvancePeriod(w) PROVE IdleRuns'
  BY <1>1, <1>4 DEF AdvancePeriod, EndCharge
<1>5. CASE RunEnds
  BY <1>1, <1>5 DEF RunEnds, Redeliver, GiveUp, EndCharge, charges
<1>6. CASE UNCHANGED charges
  BY <1>6 DEF charges
<1>7. QED
  BY <1>2, <1>3, <1>4, <1>5, <1>6, Steps
     DEF vars, InsertSubscription, InsertFirstPayment, WriteCancel, Tick

\* The id of a listed job stays taken: a run that ends leaves it to the finished
\* jobs or to the queue, and no listed id is purged.
LEMMA TakenStays ==
  ASSUME TypeOK, TypeOK', IdleRuns, [Next]_vars, NEW x \in ChargeJobs, x \in listed', Taken(x)
  PROVE  Taken(x)'
<1>1. \A w \in Runs : job[w] = x => pc[w] # "idle"
  <2>1. x # <<NoSub, 0>>
    BY SubscriptionAssumption DEF ChargeJobs
  <2>2. QED
    BY <2>1 DEF IdleRuns
<1> USE DEF Taken
<1>2. ASSUME NEW w \in Runs, EndCharge(w), queued' = queued PROVE Taken(x)'
  BY <1>2 DEF EndCharge, Leave, TypeOK
<1>3. ASSUME NEW w \in Runs, NEW y \in queued, ReadSubscription(w, y) PROVE Taken(x)'
  <2>1. CASE MayRenew(y[1])
    <3>1. /\ kept' = kept /\ queued' = queued \ {y} /\ pc[w] = "idle"
          /\ job' = [job EXCEPT ![w] = y]
      BY <1>3, <2>1 DEF ReadSubscription
    <3>2. job'[w] = y /\ \A v \in Runs : v # w => job'[v] = job[v]
      BY <3>1 DEF TypeOK
    <3>3. QED
      BY <1>1, <3>1, <3>2
  <2>2. CASE ~MayRenew(y[1])
    BY <1>3, <2>2 DEF ReadSubscription, charges
  <2>3. QED
    BY <2>1, <2>2
<1>4. ASSUME NEW w \in Runs, InsertPayment(w) PROVE Taken(x)'
  <2>1. CASE Duplicate(w)
    BY <1>2, <1>4, <2>1 DEF InsertPayment
  <2>2. CASE ~Duplicate(w)
    BY <1>4, <2>2 DEF InsertPayment
  <2>3. QED
    BY <2>1, <2>2
<1>5. ASSUME NEW w \in Runs, AdvancePeriod(w) PROVE Taken(x)'
  BY <1>2, <1>5 DEF AdvancePeriod
<1>6. ASSUME NEW w \in Runs, NEW alive \in BOOLEAN, Redeliver(w, alive) PROVE Taken(x)'
  <2>1. /\ queued' = queued \union {job[w]} /\ kept' = kept
        /\ \A v \in Runs : v # w => job'[v] = job[v]
    BY <1>6 DEF Redeliver, Leave, charges, TypeOK
  <2>2. QED
    BY <2>1
<1>7. ASSUME NEW w \in Runs, GiveUp(w) PROVE Taken(x)'
  BY <1>2, <1>7 DEF GiveUp
<1>8. ASSUME NEW S \in SUBSET kept, Purge(S) PROVE Taken(x)'
  BY <1>8 DEF Purge, charges
<1>9. CASE StartScan \/ (\E y \in listed : AddCharge(y) \/ AddRefused(y)) \/ LoseScan
  BY <1>9 DEF StartScan, AddCharge, AddRefused, LoseScan, charges
<1>10. CASE UNCHANGED <<queue, charges>>
  BY <1>10 DEF queue, charges
<1>11. QED
  BY <1>3, <1>4, <1>5, <1>6, <1>7, <1>8, <1>9, <1>10, Steps
     DEF vars, RunEnds, QueueOnly, InsertSubscription, InsertFirstPayment, WriteCancel, Tick

\* What the lemmas on single steps rest on.
EarlyStep == IInv /\ IInv' /\ EarlyInv /\ JobsDue' /\ IdleRuns' /\ [Next]_vars

LEMMA EarlyStepTypes ==
  ASSUME EarlyStep, NEW s \in Subs
  PROVE  /\ TypeOK /\ TypeOK' /\ JobsDue /\ IdleRuns /\ RerunsCover(s) /\ PaymentCovered(s)
         /\ now \in Nat /\ now' \in Nat /\ periodEnd[s] \in Nat /\ periodEnd'[s] \in Nat
         /\ again[s] \in Nat /\ again'[s] \in Nat
  BY DEF EarlyStep, IInv, EarlyInv, IdleRuns, TypeOK

\* A job that was not taken before was not listed before, or is waited for as it was.
LEMMA WaitingKept ==
  ASSUME EarlyStep, NEW s \in Subs, NEW x \in Waiting(s)', x \in listed \union queued,
         x \in queued' => x \in Waiting(s)
  PROVE  x \in Waiting(s)
<1>1. CASE x \in queued'
  BY <1>1
<1>2. CASE x \in listed' /\ ~Taken(x)'
  <2>1. x \in ChargeJobs
    BY <1>2, EarlyStepTypes DEF TypeOK
  <2>2. ~Taken(x)
    BY <1>2, <2>1, EarlyStepTypes, TakenStays DEF EarlyStep
  <2>3. QED
    BY <2>2 DEF Waiting
<1>3. QED
  BY <1>1, <1>2 DEF Waiting

\* The scan lists the job of the present period, if its id is free.
LEMMA ScanCovers ==
  ASSUME EarlyStep, StartScan, NEW s \in Subs
  PROVE  RerunsCover(s)' /\ PaymentCovered(s)'
<1> DEFINE x == <<s, periodEnd[s]>>
<1>1. /\ listed = {} /\ UNCHANGED <<now, queued, kept, charges, periodEnd, ledger, again>>
      /\ listed' = {<<t, periodEnd[t]>> : t \in DueForRenewal}
  BY DEF StartScan, rows, history
<1>2. PaymentCovered(s)'
  BY <1>1, EarlyStepTypes DEF PaymentCovered
<1>3. Working(s)' = Working(s) /\ \A w \in Working(s)' : job'[w] = job[w]
  BY <1>1 DEF Working, charges
<1>4. \A y : Taken(y)' <=> Taken(y)
  BY <1>1 DEF Taken, charges
<1>5. Waiting(s)' \subseteq Waiting(s) \union {x}
  <2> SUFFICES ASSUME NEW y \in Waiting(s)' PROVE y \in Waiting(s) \union {x}
    OBVIOUS
  <2>1. CASE y \in queued'
    BY <1>1, <2>1 DEF Waiting
  <2>2. CASE y \in listed'
    BY <1>1, <2>2 DEF Waiting
  <2>3. QED
    BY <2>1, <2>2 DEF Waiting
<1>6. CASE x \in Waiting(s)' /\ x \notin Waiting(s)
  <2>1. x \notin queued /\ ~Taken(x)
    BY <1>1, <1>4, <1>6 DEF Waiting
  <2>2. ~HasDue(s)
    BY <1>6, <2>1 DEF HasDue, Taken, Working
  <2>3. HasDue(s)'
    BY <1>1, <1>6 DEF HasDue
  <2>4. /\ Cardinality(Waiting(s)') \in Nat /\ Cardinality(Waiting(s)) \in Nat
        /\ Cardinality(Waiting(s)') <= Cardinality(Waiting(s)) + 1
    BY <1>5, EarlyStepTypes, PendingFinite, OneMore
  <2>5. Cardinality(Working(s)') = Cardinality(Working(s)) /\ Cardinality(Working(s)) \in Nat
    BY <1>3, EarlyStepTypes, PendingFinite
  <2>6. again'[s] = again[s]
    BY <1>1
  <2>7. QED
    BY <1>2, <2>2, <2>3, <2>4, <2>5, <2>6, EarlyStepTypes DEF RerunsCover, Pending
<1>7. CASE ~(x \in Waiting(s)' /\ x \notin Waiting(s))
  <2>1. Waiting(s)' \subseteq Waiting(s)
    BY <1>5, <1>7
  <2>2. periodEnd'[s] = periodEnd[s] /\ again[s] <= again'[s] /\ now <= now'
    BY <1>1, EarlyStepTypes
  <2>3. QED
    BY <1>2, <1>3, <2>1, <2>2, EarlyStepTypes, CoverKept
<1>8. QED
  BY <1>6, <1>7

\* A run takes a job over from the queue.
LEMMA ReadCovers ==
  ASSUME EarlyStep, NEW w \in Runs, NEW x \in queued, ReadSubscription(w, x), NEW s \in Subs
  PROVE  RerunsCover(s)' /\ PaymentCovered(s)'
<1>1. /\ UNCHANGED <<now, listed, periodEnd, ledger, again>>
      /\ queued' = queued \ {x} /\ pc[w] = "idle"
  BY DEF ReadSubscription, rows, history
<1>2. PaymentCovered(s)'
  BY <1>1, EarlyStepTypes DEF PaymentCovered
<1>3. Taken(x)'
  <2>1. CASE MayRenew(x[1])
    BY <2>1, EarlyStepTypes DEF ReadSubscription, Taken, TypeOK
  <2>2. CASE ~MayRenew(x[1])
    BY <2>2 DEF ReadSubscription, Taken
  <2>3. QED
    BY <2>1, <2>2
<1>4. x \notin Waiting(s)'
  BY <1>1, <1>3 DEF Waiting
<1>5. Waiting(s)' \subseteq Waiting(s)
  <2> SUFFICES ASSUME NEW y \in Waiting(s)' PROVE y \in Waiting(s)
    OBVIOUS
  <2>1. y \in listed \union queued /\ (y \in queued' => y \in Waiting(s))
    BY <1>1 DEF Waiting
  <2>2. QED
    BY <2>1, WaitingKept
<1>6. periodEnd'[s] = periodEnd[s] /\ again'[s] = again[s] /\ now' = now
  BY <1>1
<1>7. CASE MayRenew(x[1]) /\ x[1] = s /\ periodEnd[s] \notin ledger[s]
  <2>1. /\ pc' = [pc EXCEPT ![w] = "insert"] /\ kept' = kept
        /\ job' = [job EXCEPT ![w] = x]
        /\ readEnd' = [readEnd EXCEPT ![w] = periodEnd[s]]
    BY <1>7 DEF ReadSubscription
  <2>2. /\ pc'[w] = "insert" /\ job'[w] = x /\ readEnd'[w] = periodEnd[s]
        /\ \A v \in Runs : v # w => pc'[v] = pc[v] /\ job'[v] = job[v] /\ readEnd'[v] = readEnd[v]
    BY <2>1, EarlyStepTypes DEF TypeOK
  <2>3. Working(s)' = Working(s) \union {w} /\ w \notin Working(s)
    BY <1>1, <1>7, <2>2 DEF Working
  <2>4. x \in Waiting(s)
    BY <1>7 DEF Waiting
  <2>5. Waiting(s) \subseteq Waiting(s)' \union {x}
    <3> SUFFICES ASSUME NEW y \in Waiting(s), y # x PROVE y \in Waiting(s)'
      OBVIOUS
    <3>1. CASE y \in queued
      BY <1>1, <3>1 DEF Waiting
    <3>2. CASE y \in listed /\ ~Taken(y)
      BY <1>1, <2>1, <2>2, <3>2, EarlyStepTypes DEF Waiting, Taken, TypeOK
    <3>3. QED
      BY <3>1, <3>2 DEF Waiting
  <2>6. HasDue(s) => HasDue(s)'
    <3>1. CASE <<s, periodEnd[s]>> \in Waiting(s)
      BY <1>6, <2>2, <2>3, <2>5, <3>1 DEF HasDue
    <3>2. CASE \E v \in Working(s) : job[v] = <<s, periodEnd[s]>>
      <4>1. PICK v \in Working(s) : job[v] = <<s, periodEnd[s]>>
        BY <3>2
      <4>2. v \in Working(s)' /\ job'[v] = job[v]
        BY <2>2, <2>3, <4>1 DEF Working
      <4>3. QED
        BY <1>6, <4>1, <4>2 DEF HasDue
    <3>3. QED
      BY <3>1, <3>2 DEF HasDue
  <2>7. Cardinality(Waiting(s)') + 1 <= Cardinality(Waiting(s))
    BY <1>4, <1>5, <2>4, EarlyStepTypes, PendingFinite, Part
  <2>8. Cardinality(Working(s)') <= Cardinality(Working(s)) + 1
    BY <2>3, EarlyStepTypes, PendingFinite, OneMore
  <2>9. /\ Cardinality(Waiting(s)') \in Nat /\ Cardinality(Waiting(s)) \in Nat
        /\ Cardinality(Working(s)') \in Nat /\ Cardinality(Working(s)) \in Nat
    <3>1. JobsDue'
      BY DEF EarlyStep
    <3>2. IsFiniteSet(Waiting(s)) /\ IsFiniteSet(Working(s))
      BY EarlyStepTypes, PendingFinite
    <3>3. IsFiniteSet(Waiting(s)') /\ IsFiniteSet(Working(s)')
      BY <1>5, <2>3, <3>2, FS_Subset, FS_AddElement
    <3>4. QED
      BY <3>2, <3>3, FS_CardinalityType
  <2>10. Pending(s)' <= Pending(s) /\ Pending(s)' \in Nat /\ Pending(s) \in Nat
    BY <2>7, <2>8, <2>9 DEF Pending
  <2>11. QED
    BY <1>2, <1>6, <2>6, <2>10, EarlyStepTypes DEF RerunsCover
<1>8. CASE ~(MayRenew(x[1]) /\ x[1] = s /\ periodEnd[s] \notin ledger[s])
  <2>1. Working(s)' \subseteq Working(s) /\ \A v \in Working(s)' : job'[v] = job[v]
    <3>1. CASE ~MayRenew(x[1])
      BY <1>1, <3>1 DEF ReadSubscription, Working, charges
    <3>2. CASE MayRenew(x[1])
      <4>1. /\ pc'[w] = "insert" /\ job'[w] = x
            /\ \A v \in Runs : v # w => pc'[v] = pc[v] /\ job'[v] = job[v] /\ readEnd'[v] = readEnd[v]
        BY <3>2, EarlyStepTypes DEF ReadSubscription, TypeOK
      <4>2. w \notin Working(s)'
        BY <1>1, <1>8, <3>2, <4>1 DEF Working
      <4>3. QED
        BY <1>1, <4>1, <4>2 DEF Working
    <3>3. QED
      BY <3>1, <3>2
  <2>2. again[s] <= again'[s] /\ now <= now'
    BY <1>6, EarlyStepTypes
  <2>3. QED
    BY <1>2, <1>5, <1>6, <2>1, <2>2, EarlyStepTypes, CoverKept
<1>9. QED
  BY <1>7, <1>8

\* A payment is inserted by a run that is counted, and no job is added.
LEMMA PaymentCovers ==
  ASSUME EarlyStep, NEW w \in Runs, InsertPayment(w), NEW s \in Subs
  PROVE  RerunsCover(s)' /\ PaymentCovered(s)'
<1>1. UNCHANGED <<now, listed, queued, periodEnd, again>>
  BY DEF InsertPayment, history
<1>2. Waiting(s)' \subseteq Waiting(s)
  <2> SUFFICES ASSUME NEW y \in Waiting(s)' PROVE y \in Waiting(s)
    OBVIOUS
  <2>1. y \in listed \union queued /\ (y \in queued' => y \in Waiting(s))
    BY <1>1 DEF Waiting
  <2>2. QED
    BY <2>1, WaitingKept
<1>3. Working(s)' \subseteq Working(s) /\ \A v \in Working(s)' : job'[v] = job[v]
  <2>1. ledger[s] \subseteq ledger'[s]
    BY EarlyStepTypes DEF InsertPayment, TypeOK
  <2>2. CASE Duplicate(w)
    <3>1. pc'[w] = "idle" /\ \A v \in Runs : v # w => pc'[v] = pc[v] /\ job'[v] = job[v]
                                                     /\ readEnd'[v] = readEnd[v]
      BY <2>2, EarlyStepTypes DEF InsertPayment, EndCharge, Leave, TypeOK
    <3>2. QED
      BY <1>1, <2>1, <3>1 DEF Working
  <2>3. CASE ~Duplicate(w)
    <3>1. /\ job' = job /\ readEnd' = readEnd /\ pc[w] = "insert" /\ pc' = [pc EXCEPT ![w] = "advance"]
          /\ \A v \in Runs : v # w => pc'[v] = pc[v]
      BY <2>3, EarlyStepTypes DEF InsertPayment, TypeOK
    <3>2. w \in Working(s)' => w \in Working(s)
      BY <1>1, <2>3, <3>1 DEF Working, Duplicate
    <3>3. QED
      BY <1>1, <2>1, <3>1, <3>2 DEF Working
  <2>4. QED
    BY <2>2, <2>3
<1>4. RerunsCover(s)'
  <2>1. periodEnd'[s] = periodEnd[s] /\ again[s] <= again'[s] /\ now <= now'
    BY <1>1, EarlyStepTypes
  <2>2. QED
    BY <1>2, <1>3, <2>1, EarlyStepTypes, CoverKept
<1>5. PaymentCovered(s)'
  <2>1. CASE ledger'[s] = ledger[s]
    BY <1>1, <2>1, EarlyStepTypes DEF PaymentCovered
  <2>2. CASE ledger'[s] # ledger[s] /\ periodEnd[s] \in ledger'[s] /\ periodEnd[s] \notin ledger[s]
    <3>1. /\ pc[w] = "insert" /\ job[w][1] = s /\ readEnd[w] = periodEnd[s]
      BY <2>2, EarlyStepTypes DEF InsertPayment, TypeOK
    <3>2. w \in Working(s)
      BY <2>2, <3>1 DEF Working
    <3>3. periodEnd[s] <= now + again[s]
      BY <3>2, EarlyStepTypes, WorkIsCovered
    <3>4. QED
      BY <1>1, <3>3 DEF PaymentCovered
  <2>3. CASE periodEnd[s] \in ledger'[s] => periodEnd[s] \in ledger[s]
    BY <1>1, <2>3, EarlyStepTypes DEF PaymentCovered
  <2>4. QED
    BY <2>1, <2>2, <2>3
<1>6. QED
  BY <1>4, <1>5

\* The row moves on by the job of the run that moves it.
LEMMA AdvanceCovers ==
  ASSUME EarlyStep, NEW w \in Runs, AdvancePeriod(w), NEW s \in Subs
  PROVE  RerunsCover(s)' /\ PaymentCovered(s)'
<1>1. /\ UNCHANGED <<now, listed, queued, ledger, again>> /\ pc[w] = "advance"
      /\ pc'[w] = "idle"
      /\ \A v \in Runs : v # w => pc'[v] = pc[v] /\ job'[v] = job[v] /\ readEnd'[v] = readEnd[v]
  BY EarlyStepTypes DEF AdvancePeriod, EndCharge, Leave, history, TypeOK
<1>2. PICK t \in Subs : t = job[w][1]
  BY <1>1, EarlyStepTypes, Targets
<1>3. readEnd[w] = periodEnd[t] /\ periodEnd[t] \in ledger[t]
  BY <1>1, <1>2 DEF EarlyStep, IInv, ChargesWellFormed
<1>4. periodEnd' = [periodEnd EXCEPT ![t] = periodEnd[t] + 1]
  BY <1>2, <1>3 DEF AdvancePeriod, NextEnd
<1>5. Waiting(s)' \subseteq Waiting(s)
  <2> SUFFICES ASSUME NEW y \in Waiting(s)' PROVE y \in Waiting(s)
    OBVIOUS
  <2>1. y \in listed \union queued /\ (y \in queued' => y \in Waiting(s))
    BY <1>1 DEF Waiting
  <2>2. QED
    BY <2>1, WaitingKept
<1>6. CASE s # t
  <2>1. periodEnd'[s] = periodEnd[s]
    BY <1>4, <1>6, EarlyStepTypes DEF TypeOK
  <2>2. Working(s)' \subseteq Working(s) /\ \A v \in Working(s)' : job'[v] = job[v]
    BY <1>1, <2>1 DEF Working
  <2>3. again[s] <= again'[s] /\ now <= now'
    BY <1>1, EarlyStepTypes
  <2>4. RerunsCover(s)'
    BY <1>5, <2>1, <2>2, <2>3, EarlyStepTypes, CoverKept
  <2>5. QED
    BY <1>1, <2>1, <2>4, EarlyStepTypes DEF PaymentCovered
<1>7. CASE s = t
  <2>1. periodEnd'[s] = periodEnd[s] + 1
    BY <1>4, <1>7, EarlyStepTypes DEF TypeOK
  <2>2. Working(s)' = {}
    <3> SUFFICES ASSUME NEW v \in Working(s)' PROVE FALSE
      OBVIOUS
    <3>1. v \in Runs /\ pc[v] # "idle" /\ job[v][1] = s /\ readEnd[v] = periodEnd[s] + 1
      BY <1>1, <2>1 DEF Working
    <3>2. readEnd[v] <= periodEnd[s]
      BY <3>1, EarlyStepTypes DEF EarlyStep, IInv, ChargesWellFormed, TypeOK
    <3>3. QED
      BY <3>1, <3>2, EarlyStepTypes
  <2>3. ~HasDue(s)'
    <3>1. <<s, periodEnd'[s]>> \notin Waiting(s)'
      <4> SUFFICES ASSUME <<s, periodEnd'[s]>> \in Waiting(s)' PROVE FALSE
        OBVIOUS
      <4>1. <<s, periodEnd[s] + 1>> \in listed \union queued
        BY <1>1, <2>1 DEF Waiting
      <4>2. periodEnd[s] + 1 <= periodEnd[s]
        BY <4>1, EarlyStepTypes DEF JobsDue
      <4>3. QED
        BY <4>2, EarlyStepTypes
    <3>2. QED
      BY <2>2, <3>1 DEF HasDue
  <2>4. w \in Working(s)
    BY <1>1, <1>2, <1>3, <1>7 DEF Working
  <2>5. /\ Cardinality(Waiting(s)') <= Cardinality(Waiting(s))
        /\ Cardinality(Waiting(s)') \in Nat /\ Cardinality(Waiting(s)) \in Nat
    BY <1>5, EarlyStepTypes, PendingFinite, Part
  <2>6. /\ Cardinality(Working(s)') = 0 /\ Cardinality(Working(s)) \in Nat
        /\ Cardinality(Working(s)) # 0
    BY <2>2, <2>4, EarlyStepTypes, PendingFinite, FS_EmptySet
  <2>7. Pending(s)' <= Pending(s) - 1 /\ Pending(s)' \in Nat /\ Pending(s) \in Nat
    BY <2>5, <2>6 DEF Pending
  <2>8. again'[s] = again[s] /\ now' = now
    BY <1>1
  <2>9. HasDue(s) => periodEnd[s] <= now
    BY EarlyStepTypes, DueIsOver
  <2>10. RerunsCover(s)'
    BY <2>1, <2>3, <2>7, <2>8, <2>9, EarlyStepTypes DEF RerunsCover
  <2>11. PaymentCovered(s)'
    <3>1. periodEnd[s] + 1 \notin ledger[s]
      <4>1. status[s] # "none"
        BY <1>1, <1>2, <1>7 DEF EarlyStep, IInv, JobsWellFormed, MayBeCharged
      <4>2. PICK first \in {started[s], started[s] + 1} :
              ledger[s] = first..(periodEnd[s] - 1) \/ ledger[s] = first..periodEnd[s]
        BY <4>1 DEF EarlyStep, IInv, LedgerWithoutGaps
      <4>3. first \in Nat /\ periodEnd[s] \in Nat
        BY EarlyStepTypes DEF TypeOK
      <4>4. /\ periodEnd[s] + 1 \notin first..(periodEnd[s] - 1)
            /\ periodEnd[s] + 1 \notin first..periodEnd[s]
        BY <4>3
      <4>5. QED
        BY <4>2, <4>4
    <3>2. QED
      BY <1>1, <2>1, <3>1 DEF PaymentCovered
  <2>12. QED
    BY <2>10, <2>11
<1>8. QED
  BY <1>6, <1>7

\* A job that is delivered again is one more job to be covered.
LEMMA RedeliveryCovers ==
  ASSUME EarlyStep, NEW w \in Runs, NEW alive \in BOOLEAN, Redeliver(w, alive), NEW s \in Subs
  PROVE  RerunsCover(s)' /\ PaymentCovered(s)'
<1>1. /\ UNCHANGED <<now, periodEnd, ledger, listed, kept>> /\ pc[w] # "idle"
      /\ queued' = queued \union {job[w]}
      /\ again' = [again EXCEPT ![job[w][1]] = @ + 1]
      /\ \A v \in Runs : v # w => pc'[v] = pc[v] /\ job'[v] = job[v] /\ readEnd'[v] = readEnd[v]
      /\ \/ UNCHANGED charges
         \/ pc'[w] = "idle" /\ job'[w] = <<NoSub, 0>>
  BY EarlyStepTypes DEF Redeliver, Leave, charges, rows, TypeOK
<1>2. again[s] <= again'[s] /\ now <= now' /\ periodEnd'[s] = periodEnd[s] /\ ledger'[s] = ledger[s]
  BY <1>1, EarlyStepTypes DEF TypeOK
<1>3. PaymentCovered(s)'
  BY <1>1, <1>2, EarlyStepTypes DEF PaymentCovered
<1>4. Working(s)' \subseteq Working(s) /\ \A v \in Working(s)' : job'[v] = job[v]
  BY <1>1 DEF Working, charges
<1>5. Waiting(s)' \subseteq Waiting(s) \union {job[w]}
  <2> SUFFICES ASSUME NEW y \in Waiting(s)', y # job[w] PROVE y \in Waiting(s)
    OBVIOUS
  <2>1. y \in listed \union queued /\ (y \in queued' => y \in Waiting(s))
    BY <1>1 DEF Waiting
  <2>2. QED
    BY <2>1, WaitingKept
<1>6. CASE job[w][1] # s
  <2>1. Waiting(s)' \subseteq Waiting(s)
    BY <1>5, <1>6 DEF Waiting
  <2>2. QED
    BY <1>2, <1>3, <1>4, <2>1, EarlyStepTypes, CoverKept
<1>7. CASE job[w][1] = s
  <2>1. again'[s] = again[s] + 1
    BY <1>1, <1>7, EarlyStepTypes DEF TypeOK
  <2>2. job[w] \in Waiting(s)'
    BY <1>1, <1>7 DEF Waiting
  <2>3. Waiting(s) \subseteq Waiting(s)'
    <3> SUFFICES ASSUME NEW y \in Waiting(s) PROVE y \in Waiting(s)'
      OBVIOUS
    <3>1. CASE y \in queued
      BY <1>1, <3>1 DEF Waiting
    <3>2. CASE y \in listed /\ ~Taken(y)
      <4>1. y \in ChargeJobs /\ y # <<NoSub, 0>>
        BY <3>2, SubscriptionAssumption, EarlyStepTypes DEF TypeOK, ChargeJobs
      <4>2. y # job[w] /\ ~Taken(y)'
        BY <1>1, <3>2, <4>1 DEF Taken, charges
      <4>3. QED
        BY <1>1, <3>2, <4>2 DEF Waiting
    <3>3. QED
      BY <3>1, <3>2 DEF Waiting
  <2>4. HasDue(s) => HasDue(s)'
    <3>1. CASE <<s, periodEnd[s]>> \in Waiting(s)
      BY <1>2, <2>3, <3>1 DEF HasDue
    <3>2. CASE \E v \in Working(s) : job[v] = <<s, periodEnd[s]>>
      <4>1. PICK v \in Working(s) : job[v] = <<s, periodEnd[s]>>
        BY <3>2
      <4>2. CASE v = w
        BY <1>2, <2>2, <4>1, <4>2 DEF HasDue
      <4>3. CASE v # w
        <5>1. v \in Working(s)' /\ job'[v] = job[v]
          BY <1>1, <1>2, <4>1, <4>3 DEF Working
        <5>2. QED
          BY <1>2, <4>1, <5>1 DEF HasDue
      <4>4. QED
        BY <4>2, <4>3
    <3>3. QED
      BY <3>1, <3>2 DEF HasDue
  <2>5. /\ Cardinality(Waiting(s)') <= Cardinality(Waiting(s)) + 1
        /\ Cardinality(Waiting(s)') \in Nat /\ Cardinality(Waiting(s)) \in Nat
    BY <1>5, EarlyStepTypes, PendingFinite, OneMore
  <2>6. /\ Cardinality(Working(s)') <= Cardinality(Working(s))
        /\ Cardinality(Working(s)') \in Nat /\ Cardinality(Working(s)) \in Nat
    BY <1>4, EarlyStepTypes, PendingFinite, Part
  <2>7. Pending(s)' <= Pending(s) + 1 /\ Pending(s)' \in Nat /\ Pending(s) \in Nat
    BY <2>5, <2>6 DEF Pending
  <2>8. QED
    BY <1>1, <1>2, <1>3, <2>1, <2>4, <2>7, EarlyStepTypes DEF RerunsCover
<1>8. QED
  BY <1>6, <1>7

\* A new row has no jobs and a first period that is not over.
LEMMA NewRowCovers ==
  ASSUME EarlyStep, NEW q \in Requests, NEW p \in Plans, InsertSubscription(q, p), NEW s \in Subs
  PROVE  RerunsCover(s)' /\ PaymentCovered(s)'
<1>1. PICK t \in Subs : t = target[q]
  BY EarlyStepTypes DEF InsertSubscription, TypeOK
<1>2. /\ UNCHANGED <<now, ledger, queue, charges, again>>
      /\ periodEnd' = [periodEnd EXCEPT ![t] = now + 1]
      /\ status[t] = "none"
  BY <1>1 DEF InsertSubscription, history, EarlyStep, IInv, RequestsWellFormed
<1>3. Waiting(s)' = Waiting(s)
  BY <1>2 DEF Waiting, Taken, queue, charges
<1>4. CASE s # t
  <2>1. periodEnd'[s] = periodEnd[s]
    BY <1>2, <1>4, EarlyStepTypes DEF TypeOK
  <2>2. Working(s)' \subseteq Working(s) /\ \A v \in Working(s)' : job'[v] = job[v]
    BY <1>2, <2>1 DEF Working, charges
  <2>3. again[s] <= again'[s] /\ now <= now'
    BY <1>2, EarlyStepTypes
  <2>4. RerunsCover(s)'
    BY <1>3, <2>1, <2>2, <2>3, EarlyStepTypes, CoverKept
  <2>5. QED
    BY <1>2, <2>1, <2>4, EarlyStepTypes DEF PaymentCovered
<1>5. CASE s = t
  <2>1. periodEnd'[s] = now + 1 /\ again'[s] = again[s] /\ now' = now
    BY <1>2, <1>5, EarlyStepTypes DEF TypeOK
  <2>2. ~MayBeCharged(s)
    BY <1>2, <1>5 DEF MayBeCharged
  <2>3. Waiting(s)' = {}
    BY <1>3, <2>2 DEF Waiting, EarlyStep, IInv, JobsWellFormed
  <2>4. Working(s)' = {}
    BY <1>2, <2>2 DEF Working, charges, EarlyStep, IInv, JobsWellFormed
  <2>5. ~HasDue(s)' /\ Pending(s)' = 0
    BY <2>3, <2>4, FS_EmptySet DEF HasDue, Pending
  <2>6. ledger'[s] = {}
    BY <1>2, <1>5 DEF EarlyStep, IInv, RowsWellFormed
  <2>7. QED
    BY <2>1, <2>5, <2>6, EarlyStepTypes DEF RerunsCover, PaymentCovered
<1>6. QED
  BY <1>4, <1>5

\* The other steps add no job, and at most the first payment.
LEMMA OthersCover ==
  ASSUME EarlyStep, NEW s \in Subs,
         periodEnd'[s] = periodEnd[s], again'[s] = again[s], now <= now',
         periodEnd[s] \in ledger'[s] <=> periodEnd[s] \in ledger[s],
         \A w \in Runs : pc'[w] # "idle" => pc'[w] = pc[w] /\ job'[w] = job[w] /\ readEnd'[w] = readEnd[w],
         listed' \subseteq listed, queued' \subseteq queued \union {x \in listed : ~Taken(x)}
  PROVE  RerunsCover(s)' /\ PaymentCovered(s)'
<1>1. Working(s)' \subseteq Working(s) /\ \A w \in Working(s)' : job'[w] = job[w]
  BY DEF Working
<1>2. Waiting(s)' \subseteq Waiting(s)
  <2> SUFFICES ASSUME NEW y \in Waiting(s)' PROVE y \in Waiting(s)
    OBVIOUS
  <2>1. y \in listed \union queued /\ (y \in queued' => y \in Waiting(s))
    BY DEF Waiting
  <2>2. QED
    BY <2>1, WaitingKept
<1>3. RerunsCover(s)'
  <2>1. again[s] <= again'[s]
    BY EarlyStepTypes
  <2>2. QED
    BY <1>1, <1>2, <2>1, EarlyStepTypes, CoverKept
<1>4. PaymentCovered(s)'
  BY EarlyStepTypes DEF PaymentCovered
<1>5. QED
  BY <1>3, <1>4

\* Periods are charged ahead of the clock by jobs delivered again only.
LEMMA NextEarly == IInv /\ IInv' /\ EarlyInv /\ [Next]_vars => EarlyInv'
<1> SUFFICES ASSUME IInv, IInv', EarlyInv, [Next]_vars PROVE EarlyInv'
  OBVIOUS
<1>1. JobsDue' /\ IdleRuns'
  BY NextDue, NextIdle DEF IInv, EarlyInv
<1>2. EarlyStep
  BY <1>1 DEF EarlyStep
<1>3. ASSUME NEW s \in Subs PROVE RerunsCover(s)' /\ PaymentCovered(s)'
  <2> DEFINE Quiet ==
        /\ periodEnd' = periodEnd /\ again' = again /\ now <= now'
        /\ periodEnd[s] \in ledger'[s] <=> periodEnd[s] \in ledger[s]
        /\ \A w \in Runs :
             pc'[w] # "idle" => pc'[w] = pc[w] /\ job'[w] = job[w] /\ readEnd'[w] = readEnd[w]
        /\ listed' \subseteq listed
        /\ queued' \subseteq queued \union {x \in listed : ~Taken(x)}
  <2>1. Quiet => RerunsCover(s)' /\ PaymentCovered(s)'
    BY <1>2, OthersCover
  <2>2. CASE RequestOnly \/ UNCHANGED vars
    BY <1>2, <2>1, <2>2, EarlyStepTypes
       DEF RequestOnly, FindNone, ReadRow, WriteSchedule, ClearSchedule, LoseRequest, rows, queue,
           charges, history, vars
  <2>3. CASE \/ \E x \in listed : AddCharge(x) \/ AddRefused(x)
             \/ LoseScan
             \/ \E S \in SUBSET kept : Purge(S)
    <3>1. Quiet
      BY <1>2, <2>3, EarlyStepTypes DEF AddCharge, AddRefused, LoseScan, Purge, rows, charges, history
    <3>2. QED
      BY <2>1, <3>1
  <2>4. ASSUME NEW w \in Runs, GiveUp(w) PROVE RerunsCover(s)' /\ PaymentCovered(s)'
    <3>1. Quiet
      BY <1>2, <2>4, EarlyStepTypes DEF GiveUp, EndCharge, Leave, rows, TypeOK
    <3>2. QED
      BY <2>1, <3>1
  <2>5. ASSUME NEW q \in Requests, InsertFirstPayment(q) PROVE RerunsCover(s)' /\ PaymentCovered(s)'
    <3>1. PICK t \in Subs : t = target[q]
      BY <1>2, <2>5, EarlyStepTypes DEF InsertFirstPayment, TypeOK
    <3>2. started[t] < periodEnd[t] /\ started[t] \in Nat
      BY <1>2, <2>5, <3>1, EarlyStepTypes
         DEF InsertFirstPayment, IInv, RequestsWellFormed, RowsWellFormed, TypeOK
    <3>3. ledger' = [ledger EXCEPT ![t] = @ \union {started[t]}]
      BY <2>5, <3>1 DEF InsertFirstPayment
    <3>4. periodEnd[s] \in ledger'[s] <=> periodEnd[s] \in ledger[s]
      BY <1>2, <3>2, <3>3, EarlyStepTypes DEF TypeOK
    <3>5. Quiet
      BY <1>2, <2>5, <3>4, EarlyStepTypes DEF InsertFirstPayment, queue, charges, history
    <3>6. QED
      BY <2>1, <3>5
  <2>6. ASSUME NEW q \in Requests, NEW effective \in {"immediate", "period_end"},
               WriteCancel(q, effective)
        PROVE  RerunsCover(s)' /\ PaymentCovered(s)'
    <3>1. Quiet
      BY <1>2, <2>6, EarlyStepTypes DEF WriteCancel, queue, charges
    <3>2. QED
      BY <2>1, <3>1
  <2>7. CASE Tick
    <3>1. Quiet
      BY <1>2, <2>7, EarlyStepTypes DEF Tick, rows, queue, charges, history
    <3>2. QED
      BY <2>1, <3>1
  <2>8. QED
    BY <1>2, <2>2, <2>3, <2>4, <2>5, <2>6, <2>7, ScanCovers, ReadCovers, PaymentCovers, AdvanceCovers,
       RedeliveryCovers, NewRowCovers, Steps DEF QueueOnly, RunEnds
<1>4. QED
  BY <1>1, <1>3 DEF EarlyInv

\* Nothing is pending, and nothing charged, at the start.
LEMMA InitEarly == Init => EarlyInv
<1> SUFFICES ASSUME Init PROVE EarlyInv
  OBVIOUS
<1>1. JobsDue /\ IdleRuns
  BY DEF Init, JobsDue, IdleRuns
<1>2. ASSUME NEW s \in Subs PROVE RerunsCover(s) /\ PaymentCovered(s)
  <2>1. Waiting(s) = {} /\ Working(s) = {}
    BY DEF Init, Waiting, Working
  <2>2. ~HasDue(s) /\ Pending(s) = 0
    BY <2>1, FS_EmptySet DEF HasDue, Pending
  <2>3. again[s] = 0 /\ periodEnd[s] = 0 /\ now = 0 /\ ledger[s] = {}
    BY DEF Init
  <2>4. QED
    BY <2>2, <2>3 DEF RerunsCover, PaymentCovered
<1>3. QED
  BY <1>1, <1>2 DEF EarlyInv

\* What is charged ahead of the clock lies between the clock and the period end.
LEMMA EarlyBounded == IInv /\ EarlyInv => EarlyChargesAreReruns
<1> SUFFICES ASSUME IInv, EarlyInv, NEW s \in Subs
             PROVE  Cardinality({p \in ledger[s] : p > now}) <= again[s]
  BY DEF EarlyChargesAreReruns
<1> DEFINE early == {p \in ledger[s] : p > now}
<1>1. /\ TypeOK /\ JobsDue /\ RerunsCover(s) /\ PaymentCovered(s)
      /\ now \in Nat /\ periodEnd[s] \in Nat /\ again[s] \in Nat /\ started[s] \in Nat
  BY DEF IInv, EarlyInv, TypeOK
<1>2. ASSUME NEW e \in Int, early \subseteq (now + 1)..e, e <= now + again[s]
      PROVE  Cardinality(early) <= again[s]
  <2>1. /\ IsFiniteSet((now + 1)..e)
        /\ Cardinality((now + 1)..e) = IF now + 1 > e THEN 0 ELSE e - (now + 1) + 1
    <3>1. now + 1 \in Int
      BY <1>1
    <3>2. QED
      BY <3>1, FS_Interval, Zenon
  <2>2. Cardinality(early) \in Nat /\ Cardinality(early) <= Cardinality((now + 1)..e)
    BY <1>2, <2>1, Part
  <2>3. QED
    BY <1>1, <1>2, <2>1, <2>2
<1>3. periodEnd[s] - 1 <= now + again[s]
  <2>1. Pending(s) \in Nat
    BY <1>1, PendingFinite DEF Pending
  <2>2. HasDue(s) => periodEnd[s] <= now
    BY <1>1, DueIsOver
  <2>3. QED
    BY <1>1, <2>1, <2>2 DEF RerunsCover
<1>4. CASE status[s] = "none"
  <2>1. early = {}
    BY <1>4 DEF IInv, RowsWellFormed
  <2>2. QED
    BY <1>1, <2>1, FS_EmptySet
<1>5. CASE status[s] # "none"
  <2>1. PICK first \in {started[s], started[s] + 1} :
          ledger[s] = first..(periodEnd[s] - 1) \/ ledger[s] = first..periodEnd[s]
    BY <1>5 DEF IInv, LedgerWithoutGaps
  <2>2. first \in Nat
    BY <1>1
  <2>3. CASE periodEnd[s] \in ledger[s]
    <3>1. early \subseteq (now + 1)..periodEnd[s]
      BY <1>1, <2>1, <2>2
    <3>2. periodEnd[s] <= now + again[s]
      BY <1>1, <2>3 DEF PaymentCovered
    <3>3. QED
      BY <1>1, <1>2, <3>1, <3>2
  <2>4. CASE periodEnd[s] \notin ledger[s]
    <3>1. early \subseteq (now + 1)..(periodEnd[s] - 1)
      BY <1>1, <2>1, <2>2, <2>4
    <3>2. periodEnd[s] - 1 \in Int
      BY <1>1
    <3>3. QED
      BY <1>2, <1>3, <3>1, <3>2
  <2>5. QED
    BY <2>3, <2>4
<1>6. QED
  BY <1>4, <1>5

\* Periods that have not begun are charged only by charge jobs that were
\* delivered again, each of them one at most.
THEOREM EarlyChargesBounded == Spec => []EarlyChargesAreReruns
<1>1. Init => EarlyInv
  BY InitEarly
<1>2. IInv /\ IInv' /\ EarlyInv /\ [Next]_vars => EarlyInv'
  BY NextEarly
<1>3. IInv /\ EarlyInv => EarlyChargesAreReruns
  BY EarlyBounded
<1>4. QED
  BY <1>1, <1>2, <1>3, Inductive, PTL DEF Spec

=============================================================================
