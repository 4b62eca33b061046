-------------------------- MODULE InvoiceLifecycle --------------------------
(***************************************************************************)
(* Invoices from draft to archive (packages/db/src/invoicing-repos.ts and  *)
(* the routes of apps/api/src/routes/tenant-invoicing.ts).  An operation   *)
(* reads the invoice, checks its status, and then writes by id; nothing is *)
(* in a transaction, so requests and the overdue job interleave statement  *)
(* by statement, and each may end after any of them.                       *)
(*                                                                         *)
(* A partial payment, a dispute discount and a dispute credit leave the    *)
(* invoice as it is and create a revision of it, a draft with a smaller    *)
(* total that is sent at once.                                             *)
(*                                                                         *)
(* Amounts are small numbers; lines, customers, numbers and the text of    *)
(* emails are left out, and so are audit events that no code reads.        *)
(***************************************************************************)
EXTENDS Integers, Sequences, FiniteSets

CONSTANTS
  Invoices,   \* invoice ids
  Roots,      \* those that were made from a quote or an offer
  NoInvoice,
  RootTotal,  \* RootTotal[i]: totalIncludingTaxMinor of a root
  Requests,   \* API requests and runs of the overdue job
  MaxEvents,  \* bound: no dispute once so many audit events are there
  MaxMishaps  \* bound: requests that begin on an invoice another works on, or
              \* that end between two statements

ASSUME InvoiceAssumption ==
  /\ Roots \subseteq Invoices
  /\ NoInvoice \notin Invoices
  /\ RootTotal \in [Roots -> Nat]
  /\ MaxEvents \in Nat
  /\ MaxMishaps \in Nat

VARIABLES
  \* the database
  status,     \* invoicing_invoices.status
  source,     \* source_invoice_id
  total,      \* total_including_tax_minor
  due,        \* due_date: none, still to come, or past
  collected,  \* sum of invoicing_invoice_payments of the invoice
  audit,      \* the audit events that are read, oldest first
  \* the requests
  pc, op, doc, to, amount,
  \* history, read by no guard but those of the bounds
  overlapped, \* invoices two requests worked on at once
  torn,       \* where a request ended between two statements: invoice, operation
  mishaps

database == <<status, source, total, due, collected, audit>>
requests == <<pc, op, doc, to, amount>>
history  == <<overlapped, torn, mishaps>>
vars     == <<database, requests, history>>

Absent   == "absent"
NoStatus == "none"

Status == {"draft", "sent", "overdue", "paid", "partially_paid", "disputed",
           "dispute_acknowledged", "accredited", "archived", "demoted"}

Operation == {"send", "pay", "dispute", "acknowledge", "deny", "discount", "credit",
              "sendCredit", "accredit", "archive", "demote", "overdue"}

Step == {"idle", "check", "payment", "email", "reread", "revise", "write", "record"}

Event == {"disputed", "denied", "ackEmail", "followUp"}

TypeOK ==
  /\ status    \in [Invoices -> Status \union {Absent}]
  /\ source    \in [Invoices -> Invoices \union {NoInvoice}]
  /\ total     \in [Invoices -> Nat]
  /\ due       \in [Invoices -> {"none", "open", "past"}]
  /\ collected \in [Invoices -> Nat]
  /\ audit     \in [Invoices -> Seq(Event)]
  /\ pc        \in [Requests -> Step]
  /\ op        \in [Requests -> Operation \union {"none"}]
  /\ doc       \in [Requests -> Invoices \union {NoInvoice}]
  /\ to        \in [Requests -> Status \union {NoStatus}]
  /\ amount    \in [Requests -> Nat]
  /\ overlapped \subseteq Invoices
  /\ torn       \subseteq Invoices \X Operation
  /\ mishaps     \in Nat

Init ==
  /\ status    = [i \in Invoices |-> IF i \in Roots THEN "draft" ELSE Absent]
  /\ source    = [i \in Invoices |-> NoInvoice]
  /\ total     = [i \in Invoices |-> IF i \in Roots THEN RootTotal[i] ELSE 0]
  /\ due       = [i \in Invoices |-> "none"]
  /\ collected = [i \in Invoices |-> 0]
  /\ audit     = [i \in Invoices |-> <<>>]
  /\ pc        = [q \in Requests |-> "idle"]
  /\ op        = [q \in Requests |-> "none"]
  /\ doc       = [q \in Requests |-> NoInvoice]
  /\ to        = [q \in Requests |-> NoStatus]
  /\ amount    = [q \in Requests |-> 0]
  /\ overlapped = {}
  /\ torn       = {}
  /\ mishaps    = 0

-----------------------------------------------------------------------------
(* What the operations look at *)

\* A request works on the invoice it writes to, and one that credits or
\* discounts an invoice by a revision comes back to the invoice itself.
Touches(q, i) ==
  /\ pc[q] # "idle"
  /\ \/ doc[q] = i
     \/ op[q] \in {"discount", "credit", "sendCredit"} /\ source[doc[q]] = i

\* Mutant: the rest of an invoice that was paid in part.
MayPayRest(i) == status[i] \in {"sent", "overdue", "partially_paid"}

\* canRegisterInvoicePayment
MayRegisterPayment(i) == status[i] \in {"sent", "overdue"}

\* Mutant: an invoice can be disputed whatever became of it.
MayDisputeAlways(i) == status[i] \notin {Absent, "disputed"}

\* canDisputeInvoice
MayDispute(i) == status[i] \in {"draft", "sent", "overdue"}

\* canArchiveInvoice
MayArchive(i) == status[i] \in {"paid", "partially_paid", "accredited"}

\* Mutant: draft invoices too.
MayBecomeOverdueUnsent(i) == status[i] \in {"draft", "sent"} /\ total[i] > 0

\* What markInvoiceOverdueById checks.
MayBecomeOverdue(i) == status[i] = "sent" /\ due[i] = "past" /\ total[i] > 0

\* Mutant: only a denial answers a dispute.
ResolvedIfDenied(i) ==
  \E n \in DOMAIN audit[i] :
    /\ audit[i][n] = "denied"
    /\ \A e \in DOMAIN audit[i] : e > n => audit[i][e] # "disputed"

\* Mutant: cycles of disputes are not told apart.
ResolvedInAnyCycle(i) == \E n \in DOMAIN audit[i] : audit[i][n] \in {"denied", "ackEmail"}

\* resolveInvoiceDisputeResolutionFromAuditEvents: an answer to the latest dispute.
Resolved(i) ==
  \E d, n \in DOMAIN audit[i] :
    /\ audit[i][d] = "disputed"
    /\ \A e \in DOMAIN audit[i] : e > d => audit[i][e] # "disputed"
    /\ n > d
    /\ audit[i][n] \in {"denied", "ackEmail"}

\* hasInvoiceDisputeAcknowledgmentFollowUp: something after the latest email.
HasFollowUp(i) ==
  \E e, n \in DOMAIN audit[i] :
    /\ audit[i][e] = "ackEmail"
    /\ \A f \in DOMAIN audit[i] : f > e => audit[i][f] # "ackEmail"
    /\ n > e
    /\ audit[i][n] = "followUp"

-----------------------------------------------------------------------------
(* How an operation begins: it has read the invoice and found it eligible.   *)

Begin(q, i, what, next, target) ==
  /\ pc[q] = "idle"
  /\ pc'  = [pc  EXCEPT ![q] = next]
  /\ op'  = [op  EXCEPT ![q] = what]
  /\ doc' = [doc EXCEPT ![q] = i]
  /\ to'  = [to  EXCEPT ![q] = target]
  /\ IF \E p \in Requests : Touches(p, i)
     THEN /\ mishaps < MaxMishaps
          /\ mishaps' = mishaps + 1
          /\ overlapped' = overlapped \union {i}
     ELSE UNCHANGED <<mishaps, overlapped>>
  /\ UNCHANGED <<database, torn>>

\* sendInvoice, by itself or from finalizeAndEmailInvoicingInvoice.
SendInvoice(q, i) ==
  /\ status[i] = "draft"
  /\ Begin(q, i, "send", "write", "sent")
  /\ UNCHANGED amount

\* registerInvoicePayment, of the total or of a part of it.
RegisterInvoicePayment(q, i, a) ==
  /\ MayRegisterPayment(i)
  /\ a \in 1 .. total[i]
  /\ Begin(q, i, "pay", "payment", IF a = total[i] THEN "paid" ELSE "partially_paid")
  /\ amount' = [amount EXCEPT ![q] = a]

DisputeInvoice(q, i) ==
  /\ MayDispute(i)
  /\ Len(audit[i]) < MaxEvents
  /\ Begin(q, i, "dispute", "write", "disputed")
  /\ UNCHANGED amount

\* acknowledgeInvoiceDispute and denyInvoiceDispute, which then look at the
\* audit events.
ResolveDispute(q, i, what) ==
  /\ status[i] = "disputed"
  /\ what \in {"acknowledge", "deny"}
  /\ Begin(q, i, what, "check", IF what = "deny" THEN "draft" ELSE NoStatus)
  /\ UNCHANGED amount

\* applyDisputeAcknowledgmentDiscount, applyDisputeAcknowledgmentFullCredit.
FollowUp(q, i, what, a) ==
  /\ status[i] = "dispute_acknowledged"
  /\ \/ what = "discount" /\ a \in 1 .. total[i]
     \/ what = "credit" /\ total[i] > 0 /\ a = total[i]
  /\ Begin(q, i, what, "check", NoStatus)
  /\ amount' = [amount EXCEPT ![q] = a]

ArchiveInvoice(q, i) ==
  /\ MayArchive(i)
  /\ Begin(q, i, "archive", "write", "archived")
  /\ UNCHANGED amount

\* demoteInvoiceToQuote; the quote it writes first is another document.
DemoteInvoice(q, i) ==
  /\ status[i] = "draft"
  /\ Begin(q, i, "demote", "write", "demoted")
  /\ UNCHANGED amount

\* markInvoiceOverdueById
MarkOverdue(q, i) ==
  /\ MayBecomeOverdue(i)
  /\ Begin(q, i, "overdue", "write", "overdue")
  /\ UNCHANGED amount

-----------------------------------------------------------------------------
(* How it goes on *)

Finish(q) ==
  /\ pc'     = [pc     EXCEPT ![q] = "idle"]
  /\ op'     = [op     EXCEPT ![q] = "none"]
  /\ doc'    = [doc    EXCEPT ![q] = NoInvoice]
  /\ to'     = [to     EXCEPT ![q] = NoStatus]
  /\ amount' = [amount EXCEPT ![q] = 0]

\* The request turns to another step, operation, document and target.
Turn(q, next, what, i, target) ==
  /\ pc'  = [pc  EXCEPT ![q] = next]
  /\ op'  = [op  EXCEPT ![q] = what]
  /\ doc' = [doc EXCEPT ![q] = i]
  /\ to'  = [to  EXCEPT ![q] = target]
  /\ UNCHANGED amount

\* The audit events decide whether the dispute, or the acknowledgment, is open.
CheckAudit(q) ==
  LET i == doc[q] IN
  /\ pc[q] = "check"
  /\ CASE op[q] = "acknowledge" /\ ~Resolved(i) -> Turn(q, "email", op[q], i, NoStatus)
       [] op[q] = "deny" /\ ~Resolved(i) -> Turn(q, "write", op[q], i, to[q])
       [] op[q] \in {"discount", "credit"} /\ ~HasFollowUp(i) ->
            Turn(q, "revise", op[q], i, NoStatus)
       [] OTHER -> Finish(q)
  /\ UNCHANGED <<database, history>>

\* insertInvoicePaymentRow
InsertPayment(q) ==
  /\ pc[q] = "payment"
  /\ collected' = [collected EXCEPT ![doc[q]] = @ + amount[q]]
  /\ Turn(q, "write", op[q], doc[q], to[q])
  /\ UNCHANGED <<status, source, total, due, audit, history>>

\* The acknowledgment is emailed, and recorded once it is; without an email
\* the request ends and the dispute stays open.
EmailAcknowledgment(q, ok) ==
  /\ pc[q] = "email"
  /\ IF ok THEN /\ audit' = [audit EXCEPT ![doc[q]] = Append(@, "ackEmail")]
                /\ Turn(q, "reread", op[q], doc[q], NoStatus)
           ELSE UNCHANGED audit /\ Finish(q)
  /\ UNCHANGED <<status, source, total, due, collected, history>>

\* What a request that reads a status again expects, and plans.
Expected(what) == CASE what = "acknowledge" -> "disputed"
                    [] what = "accredit"    -> "dispute_acknowledged"
                    [] OTHER                -> "draft"

Planned(what) == CASE what = "acknowledge" -> "dispute_acknowledged"
                   [] what = "accredit"    -> "accredited"
                   [] what = "sendCredit"  -> "accredited"
                   [] OTHER                -> "sent"

\* finalizeInvoiceDisputeAcknowledgment, markInvoiceAccredited and the
\* sending of a revision or of an invoice whose dispute was denied.
Reread(q) ==
  /\ pc[q] = "reread"
  /\ IF status[doc[q]] = Expected(op[q])
     THEN Turn(q, "write", op[q], doc[q], Planned(op[q]))
     ELSE Finish(q)
  /\ UNCHANGED <<database, history>>

\* Mutant: the whole of the total stays due on the revision.
RevisedTotalUnchanged(i, a) == total[i]

\* The lines of the invoice and one more with the amount to its credit.
RevisedTotal(i, a) == total[i] - a

\* createInvoiceRevisionWithExtraLines
InsertRevision(q, r) ==
  /\ pc[q] = "revise"
  /\ status[r] = Absent
  /\ status' = [status EXCEPT ![r] = "draft"]
  /\ source' = [source EXCEPT ![r] = doc[q]]
  /\ total'  = [total  EXCEPT ![r] = RevisedTotal(doc[q], amount[q])]
  /\ IF op[q] = "pay" THEN Turn(q, "reread", "send", r, NoStatus)
                      ELSE Turn(q, "record", op[q], r, NoStatus)
  /\ UNCHANGED <<due, collected, audit, history>>

\* The UPDATE of the status, by id.
WriteStatus(q) ==
  LET i == doc[q] IN
  /\ pc[q] = "write"
  /\ status' = [status EXCEPT ![i] = to[q]]
  /\ due' = CASE op[q] \in {"send", "sendCredit"} -> [due EXCEPT ![i] = "open"]
              [] op[q] = "deny"                   -> [due EXCEPT ![i] = "none"]
              [] OTHER                            -> due
  /\ \/ /\ op[q] = "pay" /\ to[q] = "partially_paid"
        /\ Turn(q, "revise", op[q], i, NoStatus)
     \/ /\ op[q] \in {"dispute", "deny"}
        /\ Turn(q, "record", op[q], i, NoStatus)
     \/ /\ op[q] = "sendCredit"              \* the invoice was emailed
        /\ Turn(q, "reread", "accredit", source[i], NoStatus)
     \/ /\ ~(op[q] = "pay" /\ to[q] = "partially_paid")
        /\ op[q] \notin {"dispute", "deny"}  \* also a credit whose email failed
        /\ Finish(q)
  /\ UNCHANGED <<source, total, collected, audit, history>>

\* The audit event that follows, and the email; if that cannot be sent, a
\* denied or credited invoice is left as it is.
RecordEvent(q, ok) ==
  LET i == doc[q] IN
  /\ pc[q] = "record"
  /\ audit' = CASE op[q] = "dispute" -> [audit EXCEPT ![i] = Append(@, "disputed")]
                [] op[q] = "deny"    -> [audit EXCEPT ![i] = Append(@, "denied")]
                [] OTHER             -> [audit EXCEPT ![source[i]] = Append(@, "followUp")]
  /\ CASE op[q] = "deny" /\ ok   -> Turn(q, "reread", "send", i, NoStatus)
       [] op[q] = "discount"     -> Turn(q, "reread", "send", i, NoStatus)
       [] op[q] = "credit" /\ ok -> Turn(q, "reread", "sendCredit", i, NoStatus)
       [] OTHER                  -> Finish(q)
  /\ UNCHANGED <<status, source, total, due, collected, history>>

\* A request ends where it is: the process dies, or a statement throws.
Die(q) ==
  /\ pc[q] # "idle"
  /\ mishaps < MaxMishaps
  /\ torn' = torn \union {<<i, op[q]>> : i \in {j \in Invoices : Touches(q, j)}}
  /\ mishaps' = mishaps + 1
  /\ Finish(q)
  /\ UNCHANGED <<database, overlapped>>

\* The due date goes by.
DueDatePasses(i) ==
  /\ due[i] = "open"
  /\ due' = [due EXCEPT ![i] = "past"]
  /\ UNCHANGED <<status, source, total, collected, audit, requests, history>>

Start(q, i) ==
  \/ SendInvoice(q, i)
  \/ \E a \in 1 .. total[i] : RegisterInvoicePayment(q, i, a)
  \/ DisputeInvoice(q, i)
  \/ \E what \in {"acknowledge", "deny"} : ResolveDispute(q, i, what)
  \/ \E what \in {"discount", "credit"}, a \in 1 .. total[i] : FollowUp(q, i, what, a)
  \/ ArchiveInvoice(q, i)
  \/ DemoteInvoice(q, i)
  \/ MarkOverdue(q, i)

Continue(q) ==
  \/ CheckAudit(q)
  \/ InsertPayment(q)
  \/ \E ok \in BOOLEAN : EmailAcknowledgment(q, ok)
  \/ Reread(q)
  \/ \E r \in Invoices : InsertRevision(q, r)
  \/ WriteStatus(q)
  \/ \E ok \in BOOLEAN : RecordEvent(q, ok)
  \/ Die(q)

Next ==
  \/ \E q \in Requests, i \in Invoices : Start(q, i)
  \/ \E q \in Requests : Continue(q)
  \/ \E i \in Invoices : DueDatePasses(i)

Spec == Init /\ [][Next]_vars

-----------------------------------------------------------------------------
(* Properties *)

Untouched(i) == \A q \in Requests : ~Touches(q, i)

Revisions(i) == {r \in Invoices : source[r] = i}

Torn(i) == \E what \in Operation : <<i, what>> \in torn

\* Money is accounted for: an invoice that is not settled has collected
\* nothing and was not revised, a paid one has collected its total, and what
\* was not collected of one that is paid in part is the total of its only
\* revision.  It fails where registerInvoicePayment overlaps another request
\* or ends between two of its statements (hence the premise).
MoneyAccounted ==
  \A i \in Invoices \ overlapped :
    Untouched(i) /\ ~Torn(i) =>
      /\ status[i] \in {"draft", "sent", "overdue", "disputed", "demoted"} =>
           collected[i] = 0 /\ Revisions(i) = {}
      /\ status[i] = "paid" => collected[i] = total[i] /\ Revisions(i) = {}
      /\ status[i] = "partially_paid" =>
           \E r \in Invoices : Revisions(i) = {r} /\ total[r] + collected[i] = total[i]

\* More than the total is collected only where requests overlap or end half way,
\* and then no more than the total once again for each time: whatever reopens an
\* invoice that has been paid (a dispute that began before, a status that was never
\* written) does so once.
OverpaidByMishapsOnly == \A i \in Invoices : collected[i] <= total[i] * (1 + mishaps)

\* The customer is never asked for the same money twice: an invoice that has a
\* revision accepts no payment, even if a request died on it; only requests
\* that overlap can bring that about.
NeverCollectibleTwice ==
  \A i \in Invoices \ overlapped :
    Revisions(i) # {} => status[i] \notin {"draft", "sent", "overdue"}

\* A dispute is answered once, by a denial or by the email that acknowledges it,
\* unless its own audit event was never written or two requests answer at once.
OneAnswerPerDispute ==
  \A i \in Invoices \ overlapped :
    <<i, "dispute">> \notin torn =>
      \A m, n \in DOMAIN audit[i] :
        /\ m < n
        /\ audit[i][m] \in {"denied", "ackEmail"}
        /\ audit[i][n] \in {"denied", "ackEmail"}
        => \E d \in m .. n : audit[i][d] = "disputed"

\* A disputed invoice can be answered: what acknowledgeInvoiceDispute and
\* denyInvoiceDispute refuse as resolved is not disputed any more, unless a
\* request died between the audit event and the status, or two overlapped.
NoDisputeIsStuck ==
  \A i \in Invoices \ overlapped :
    status[i] = "disputed" /\ Resolved(i) /\ Untouched(i) =>
      <<i, "dispute">> \in torn \/ <<i, "acknowledge">> \in torn

\* An invoice is revised once: neither discount nor credit nor a payment in part is
\* followed by a second revision, so nothing is credited twice, unless a request
\* ended between a revision and the audit event that tells of it, or two overlapped.
OneRevision ==
  \A i \in Invoices \ overlapped :
    <<i, "discount">> \notin torn /\ <<i, "credit">> \notin torn =>
      \A r, s \in Revisions(i) : r = s

\* The transitions the predicates above permit.
LegalNext ==
  [s \in Status |->
     CASE s = "draft"   -> {"sent", "accredited", "disputed", "demoted"}
       [] s = "sent"    -> {"paid", "partially_paid", "disputed", "overdue"}
       [] s = "overdue" -> {"paid", "partially_paid", "disputed"}
       [] s = "disputed" -> {"draft", "dispute_acknowledged"}
       [] s = "dispute_acknowledged" -> {"accredited"}
       [] s \in {"paid", "partially_paid", "accredited"} -> {"archived"}
       [] OTHER -> {}]

\* An invoice that no two requests work on at once follows that table, although
\* every status is written some steps after it was looked at, by id and without
\* a guard, and requests die, answer disputes and come back from revisions.
FollowsLegalTransitions ==
  [][\A i \in Invoices \ overlapped' :
       \/ status'[i] = status[i]
       \/ status[i] = Absent /\ status'[i] = "draft"
       \/ status[i] # Absent /\ status'[i] \in LegalNext[status[i]]]_vars

NoPlan == <<"no plan">>

DS == INSTANCE DocumentStatus WITH
        Documents <- Invoices, Writers <- Requests, Legal <- LegalNext, Initial <- {"draft"},
        plan <- [q \in Requests |-> IF to[q] = NoStatus THEN NoPlan ELSE <<doc[q], to[q]>>]

\* Whatever overlaps and dies, each status that is written was legal from one
\* the invoice had since its writer looked.
ImplementsDocumentStatus == DS!Spec

\* "Payment could not be registered. The invoice must be sent, the amount must
\* not exceed the outstanding total" (tenant-invoicing.ts:1432-1433): what is
\* registered never exceeds the total.
PaymentsWithinTotal == \A i \in Invoices : collected[i] <= total[i]
=============================================================================
