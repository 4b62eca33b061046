----------------------- MODULE InvoiceLifecycle_proofs -----------------------
(***************************************************************************)
(* Proofs about InvoiceLifecycle for every set of invoices and requests,   *)
(* and every number of audit events and mishaps.                           *)
(***************************************************************************)
EXTENDS InvoiceLifecycle, FiniteSetTheorems, TLAPS

-----------------------------------------------------------------------------
(* The types of requests and rows *)

\* Where an operation is, what it does, and what it is about to write.
Fits(step, what, target) ==
  \/ step = "idle"    /\ what = "none" /\ target = NoStatus
  \/ step = "check"   /\ what \in {"acknowledge", "discount", "credit"} /\ target = NoStatus
  \/ step = "check"   /\ what = "deny" /\ target = "draft"
  \/ step = "payment" /\ what = "pay" /\ target \in {"paid", "partially_paid"}
  \/ step = "email"   /\ what = "acknowledge" /\ target = NoStatus
  \/ step = "reread"  /\ what \in {"acknowledge", "accredit", "send", "sendCredit"}
                      /\ target = NoStatus
  \/ step = "revise"  /\ what \in {"pay", "discount", "credit"} /\ target = NoStatus
  \/ step = "record"  /\ what \in {"dispute", "deny", "discount", "credit"} /\ target = NoStatus
  \/ step = "write" /\ \/ what = "send"        /\ target = "sent"
                       \/ what = "pay"         /\ target \in {"paid", "partially_paid"}
                       \/ what = "dispute"     /\ target = "disputed"
                       \/ what = "acknowledge" /\ target = "dispute_acknowledged"
                       \/ what = "deny"        /\ target = "draft"
                       \/ what = "accredit"    /\ target = "accredited"
                       \/ what = "sendCredit"  /\ target = "accredited"
                       \/ what = "archive"     /\ target = "archived"
                       \/ what = "demote"      /\ target = "demoted"
                       \/ what = "overdue"     /\ target = "overdue"

\* The amount is still to be paid or to be credited.
Counts(q) ==
  \/ pc[q] \in {"payment", "revise"}
  \/ pc[q] = "write" /\ op[q] = "pay"
  \/ pc[q] = "check" /\ op[q] \in {"discount", "credit"}

\* The request has turned to the revision, and goes back to its source.
FollowsUp(q) ==
  \/ op[q] = "sendCredit"
  \/ op[q] \in {"discount", "credit"} /\ pc[q] = "record"

\* A request at work has an invoice that exists and an amount within its total.
Shape(q) ==
  /\ Fits(pc[q], op[q], to[q])
  /\ pc[q] = "idle" <=> doc[q] = NoInvoice
  /\ pc[q] # "idle" => status[doc[q]] # Absent
  /\ Counts(q) => /\ amount[q] <= total[doc[q]]
                  /\ to[q] = "paid" => amount[q] = total[doc[q]]
  /\ FollowsUp(q) => source[doc[q]] \in Invoices

\* An id that is not in use has nothing to it, and revisions have a source.
Row(i) ==
  /\ status[i] = Absent => source[i] = NoInvoice /\ collected[i] = 0 /\ audit[i] = <<>>
  /\ source[i] # NoInvoice => status[source[i]] # Absent

TypeInv == /\ TypeOK
           /\ \A q \in Requests : Shape(q)
           /\ \A i \in Invoices : Row(i)

-----------------------------------------------------------------------------
(* The inductive invariant *)

\* The invoices a request writes to, or will.
Works(q, i) ==
  pc[q] # "idle" /\ (doc[q] = i \/ (FollowsUp(q) /\ source[doc[q]] = i))

\* A request works alone on an invoice that is not overlapped.
AloneInv ==
  \A i \in Invoices \ overlapped : \A p, q \in Requests :
    Works(p, i) /\ Works(q, i) => p = q

\* What it saw is still so.
Current(q) ==
  /\ pc[q] \in {"write", "payment"} => to[q] \in LegalNext[status[doc[q]]]
  /\ pc[q] = "check" /\ op[q] \in {"acknowledge", "deny"} => status[doc[q]] = "disputed"
  /\ pc[q] = "record" /\ op[q] = "deny" => status[doc[q]] = "draft"
  /\ pc[q] = "check" /\ op[q] \in {"discount", "credit"} =>
       status[doc[q]] = "dispute_acknowledged"
  /\ pc[q] = "revise" =>
       status[doc[q]] = IF op[q] = "pay" THEN "partially_paid" ELSE "dispute_acknowledged"

CurrentInv == \A q \in Requests : pc[q] # "idle" /\ doc[q] \notin overlapped => Current(q)

\* Only an invoice that was paid in part or acknowledged to be wrong has
\* revisions, whatever became of it later.
RevisedInv ==
  \A r \in Invoices : source[r] # NoInvoice /\ source[r] \notin overlapped =>
    status[source[r]] \in {"partially_paid", "dispute_acknowledged", "accredited", "archived"}

\* A payment that was registered while the invoice does not tell yet.
Paying(q, i) == doc[q] = i /\ op[q] = "pay" /\ pc[q] \in {"write", "revise"}

Accounted(i) ==
  /\ status[i] \in {"draft", "sent", "overdue", "disputed", "demoted"} =>
       collected[i] = 0 /\ Revisions(i) = {}
  /\ status[i] = "paid" => collected[i] = total[i] /\ Revisions(i) = {}
  /\ status[i] = "partially_paid" =>
       \E r \in Invoices : Revisions(i) = {r} /\ total[r] + collected[i] = total[i]

MoneyInv ==
  \A i \in Invoices \ overlapped : ~Torn(i) =>
    /\ (\A q \in Requests : ~Paying(q, i)) => Accounted(i)
    /\ \A q \in Requests : Paying(q, i) => collected[i] = amount[q] /\ Revisions(i) = {}

IInv == TypeInv /\ AloneInv /\ CurrentInv /\ RevisedInv /\ MoneyInv

-----------------------------------------------------------------------------
(* What steps do to requests *)

\* The request, and no other, is somewhere else.
Moves(q, next, what, i, target, a) ==
  /\ pc'     = [pc     EXCEPT ![q] = next]
  /\ op'     = [op     EXCEPT ![q] = what]
  /\ doc'    = [doc    EXCEPT ![q] = i]
  /\ to'     = [to     EXCEPT ![q] = target]
  /\ amount' = [amount EXCEPT ![q] = a]

LEMMA TurnMoves ==
  ASSUME TypeInv, NEW q \in Requests, NEW next, NEW what, NEW i, NEW target,
         Turn(q, next, what, i, target)
  PROVE  Moves(q, next, what, i, target, amount[q])
<1>1. amount = [amount EXCEPT ![q] = amount[q]]
  BY DEF TypeInv, TypeOK
<1>2. QED
  BY <1>1 DEF Turn, Moves

LEMMA FinishMoves ==
  ASSUME NEW q \in Requests, Finish(q)
  PROVE  Moves(q, "idle", "none", NoInvoice, NoStatus, 0)
BY DEF Finish, Moves

\* Where everyone is after a move.
LEMMA MovedTo ==
  ASSUME TypeInv, NEW q \in Requests, NEW next, NEW what, NEW i, NEW target, NEW a,
         Moves(q, next, what, i, target, a)
  PROVE  /\ pc'[q] = next /\ op'[q] = what /\ doc'[q] = i /\ to'[q] = target /\ amount'[q] = a
         /\ \A p \in Requests : p # q =>
              /\ pc'[p] = pc[p] /\ op'[p] = op[p] /\ doc'[p] = doc[p] /\ to'[p] = to[p]
              /\ amount'[p] = amount[p]
BY DEF Moves, TypeInv, TypeOK

\* What the steps leave as it is of the invoices there are.
Grows ==
  \A i \in Invoices : status[i] # Absent =>
    status'[i] # Absent /\ total'[i] = total[i] /\ source'[i] = source[i]

LEMMA OthersShape ==
  ASSUME TypeInv, NEW q \in Requests, NEW next, NEW what, NEW i, NEW target, NEW a,
         Moves(q, next, what, i, target, a), Grows, NEW p \in Requests, p # q
  PROVE  Shape(p)'
<1>1. /\ pc'[p] = pc[p] /\ op'[p] = op[p] /\ doc'[p] = doc[p] /\ to'[p] = to[p]
      /\ amount'[p] = amount[p] /\ Shape(p)
  BY MovedTo DEF TypeInv
<1>2. pc[p] # "idle" => /\ status'[doc[p]] # Absent /\ total'[doc[p]] = total[doc[p]]
                        /\ source'[doc[p]] = source[doc[p]]
  BY <1>1 DEF Grows, Shape, TypeInv, TypeOK
<1>3. pc[p] = "idle" => ~Counts(p) /\ ~FollowsUp(p)
  BY <1>1 DEF Counts, FollowsUp, Shape, Fits
<1>4. QED
  BY <1>1, <1>2, <1>3 DEF Shape, Counts, FollowsUp

\* A request that moves keeps the invariant on types if it fits where it goes.
LEMMA MovesType ==
  ASSUME TypeInv, NEW q \in Requests, NEW next \in Step, NEW what \in Operation \union {"none"},
         NEW i \in Invoices \union {NoInvoice}, NEW target \in Status \union {NoStatus}, NEW a \in Nat,
         Moves(q, next, what, i, target, a), Grows, Shape(q)',
         status'    \in [Invoices -> Status \union {Absent}],
         source'    \in [Invoices -> Invoices \union {NoInvoice}],
         total'     \in [Invoices -> Nat],
         due'       \in [Invoices -> {"none", "open", "past"}],
         collected' \in [Invoices -> Nat],
         audit'     \in [Invoices -> Seq(Event)],
         overlapped' \subseteq Invoices, torn' \subseteq Invoices \X Operation, mishaps' \in Nat,
         \A j \in Invoices : Row(j)'
  PROVE  TypeInv'
<1>1. TypeOK'
  BY DEF Moves, TypeInv, TypeOK
<1>2. ASSUME NEW p \in Requests PROVE Shape(p)'
  BY <1>2, OthersShape
<1>3. QED
  BY <1>1, <1>2 DEF TypeInv

\* Rows whose sources and events are left alone, or are of invoices that exist.
LEMMA RowsKept ==
  ASSUME TypeInv, Grows, source' = source,
         \A i \in Invoices : status[i] = Absent =>
           status'[i] = Absent /\ collected'[i] = collected[i] /\ audit'[i] = audit[i]
  PROVE  \A j \in Invoices : Row(j)'
<1> SUFFICES ASSUME NEW j \in Invoices PROVE Row(j)'
  OBVIOUS
<1>1. Row(j) /\ source[j] \in Invoices \union {NoInvoice}
  BY DEF TypeInv, TypeOK
<1>2. QED
  BY <1>1 DEF Row, Grows

-----------------------------------------------------------------------------
(* How requests begin *)

\* What all the operations have in common when they begin.
Started(q, i, what, next, target, a) ==
  /\ pc[q] = "idle" /\ Moves(q, next, what, i, target, a) /\ UNCHANGED <<database, torn>>
  /\ next \in {"check", "payment", "write"} /\ Fits(next, what, target)
  /\ what \in Operation \ {"accredit", "sendCredit"}
  /\ ~(next = "write" /\ what \in {"pay", "acknowledge", "deny"})
  /\ status[i] \in Status
  /\ target # NoStatus => target \in Status /\ target \in LegalNext[status[i]]
  /\ a \in Nat
  /\ next = "payment" \/ what \in {"discount", "credit"} =>
       a <= total[i] /\ (target = "paid" => a = total[i])
  /\ what \in {"discount", "credit"} => status[i] = "dispute_acknowledged"
  /\ what \in {"acknowledge", "deny"} => status[i] = "disputed"
  /\ overlapped \subseteq overlapped' /\ overlapped' \subseteq overlapped \union {i}
  /\ (\E p \in Requests : Touches(p, i)) => i \in overlapped'
  /\ mishaps' \in Nat
  /\ mishaps' = mishaps + 1 \/ (mishaps' = mishaps /\ \A p \in Requests : ~Touches(p, i))

LEMMA BeginStarts ==
  ASSUME TypeInv, NEW q \in Requests, NEW i, NEW what, NEW next, NEW target,
         Begin(q, i, what, next, target)
  PROVE  /\ pc[q] = "idle" /\ UNCHANGED <<database, torn>>
         /\ pc'  = [pc  EXCEPT ![q] = next]
         /\ op'  = [op  EXCEPT ![q] = what]
         /\ doc' = [doc EXCEPT ![q] = i]
         /\ to'  = [to  EXCEPT ![q] = target]
         /\ overlapped \subseteq overlapped' /\ overlapped' \subseteq overlapped \union {i}
         /\ (\E p \in Requests : Touches(p, i)) => i \in overlapped'
         /\ mishaps' \in Nat
         /\ mishaps' = mishaps + 1 \/ (mishaps' = mishaps /\ \A p \in Requests : ~Touches(p, i))
BY DEF Begin, TypeInv, TypeOK

LEMMA StartStarts ==
  ASSUME TypeInv, NEW q \in Requests, NEW i \in Invoices, Start(q, i)
  PROVE  \E what, next, target, a : Started(q, i, what, next, target, a)
<1> USE DEF Status, NoStatus, Operation, LegalNext, Fits
<1>1. amount = [amount EXCEPT ![q] = amount[q]] /\ amount[q] \in Nat /\ total[i] \in Nat
  BY DEF TypeInv, TypeOK
<1>2. CASE SendInvoice(q, i)
  <2>1. Started(q, i, "send", "write", "sent", amount[q])
    BY <1>1, <1>2, BeginStarts DEF SendInvoice, Started, Moves
  <2>2. QED
    BY <2>1
<1>3. ASSUME NEW a \in 1 .. total[i], RegisterInvoicePayment(q, i, a)
      PROVE  \E what, next, target, b : Started(q, i, what, next, target, b)
  <2> DEFINE t == IF a = total[i] THEN "paid" ELSE "partially_paid"
  <2>1. Begin(q, i, "pay", "payment", t) /\ amount' = [amount EXCEPT ![q] = a]
        /\ status[i] \in {"sent", "overdue"}
    BY <1>3 DEF RegisterInvoicePayment, MayRegisterPayment
  <2>2. a \in Nat /\ a <= total[i]
    BY <1>1
  <2>3. t \in {"paid", "partially_paid"} /\ (t = "paid" => a = total[i])
    OBVIOUS
  <2>4. Started(q, i, "pay", "payment", t, a)
    BY <2>1, <2>2, <2>3, BeginStarts DEF Started, Moves
  <2>5. QED
    BY <2>4
<1>4. CASE DisputeInvoice(q, i)
  <2>1. Started(q, i, "dispute", "write", "disputed", amount[q])
    BY <1>1, <1>4, BeginStarts DEF DisputeInvoice, MayDispute, Started, Moves
  <2>2. QED
    BY <2>1
<1>5. CASE ResolveDispute(q, i, "acknowledge")
  <2>1. Started(q, i, "acknowledge", "check", NoStatus, amount[q])
    BY <1>1, <1>5, BeginStarts DEF ResolveDispute, Started, Moves
  <2>2. QED
    BY <2>1
<1>6. CASE ResolveDispute(q, i, "deny")
  <2>1. Started(q, i, "deny", "check", "draft", amount[q])
    BY <1>1, <1>6, BeginStarts DEF ResolveDispute, Started, Moves
  <2>2. QED
    BY <2>1
<1>7. ASSUME NEW what \in {"discount", "credit"}, NEW a \in 1 .. total[i], FollowUp(q, i, what, a)
      PROVE  \E w, next, target, b : Started(q, i, w, next, target, b)
  <2>1. Begin(q, i, what, "check", NoStatus) /\ amount' = [amount EXCEPT ![q] = a]
        /\ status[i] = "dispute_acknowledged"
    BY <1>7 DEF FollowUp
  <2>2. a \in Nat /\ a <= total[i]
    BY <1>1
  <2>3. Started(q, i, what, "check", NoStatus, a)
    BY <2>1, <2>2, BeginStarts DEF Started, Moves
  <2>4. QED
    BY <2>3
<1>8. CASE ArchiveInvoice(q, i)
  <2>1. Started(q, i, "archive", "write", "archived", amount[q])
    BY <1>1, <1>8, BeginStarts DEF ArchiveInvoice, MayArchive, Started, Moves
  <2>2. QED
    BY <2>1
<1>9. CASE DemoteInvoice(q, i)
  <2>1. Started(q, i, "demote", "write", "demoted", amount[q])
    BY <1>1, <1>9, BeginStarts DEF DemoteInvoice, Started, Moves
  <2>2. QED
    BY <2>1
<1>10. CASE MarkOverdue(q, i)
  <2>1. Started(q, i, "overdue", "write", "overdue", amount[q])
    BY <1>1, <1>10, BeginStarts DEF MarkOverdue, MayBecomeOverdue, Started, Moves
  <2>2. QED
    BY <2>1
<1>11. QED
  BY <1>2, <1>3, <1>4, <1>5, <1>6, <1>7, <1>8, <1>9, <1>10 DEF Start

-----------------------------------------------------------------------------
(* Types *)

LEMMA InitType == Init => TypeInv
<1> SUFFICES ASSUME Init PROVE TypeInv
  OBVIOUS
<1>1. NoInvoice \notin Invoices /\ Roots \subseteq Invoices /\ RootTotal \in [Roots -> Nat]
  BY InvoiceAssumption
<1>2. TypeOK
  BY <1>1 DEF Init, TypeOK, Status, Step
<1>3. ASSUME NEW q \in Requests PROVE Shape(q)
  BY DEF Init, Shape, Fits, Counts, FollowsUp
<1>4. ASSUME NEW i \in Invoices PROVE Row(i)
  BY <1>1 DEF Init, Row
<1>5. QED
  BY <1>2, <1>3, <1>4 DEF TypeInv

\* The rows of the database are of their types, which many steps leave alone.
LEMMA DatabaseType ==
  ASSUME TypeInv
  PROVE  /\ status    \in [Invoices -> Status \union {Absent}]
         /\ source    \in [Invoices -> Invoices \union {NoInvoice}]
         /\ total     \in [Invoices -> Nat]
         /\ due       \in [Invoices -> {"none", "open", "past"}]
         /\ collected \in [Invoices -> Nat]
         /\ audit     \in [Invoices -> Seq(Event)]
         /\ overlapped \subseteq Invoices /\ torn \subseteq Invoices \X Operation
         /\ mishaps \in Nat
         /\ NoInvoice \notin Invoices /\ MaxMishaps \in Nat /\ Absent \notin Status
BY InvoiceAssumption DEF TypeInv, TypeOK, Status, Absent

\* A request at work is on an invoice that exists.
LEMMA AtWork ==
  ASSUME TypeInv, NEW q \in Requests, pc[q] # "idle"
  PROVE  /\ doc[q] \in Invoices /\ status[doc[q]] \in Status
         /\ op[q] \in Operation /\ Shape(q) /\ amount[q] \in Nat
         /\ FollowsUp(q) => source[doc[q]] \in Invoices /\ status[source[doc[q]]] # Absent
<1>1. Shape(q) /\ op[q] \in Operation \union {"none"} /\ amount[q] \in Nat
      /\ doc[q] \in Invoices \union {NoInvoice}
  BY DEF TypeInv, TypeOK
<1>2. doc[q] \in Invoices /\ status[doc[q]] \in Status
  BY <1>1, DatabaseType DEF Shape
<1>3. op[q] # "none"
  BY <1>1 DEF Shape, Fits
<1>4. FollowsUp(q) => source[doc[q]] \in Invoices /\ status[source[doc[q]]] # Absent
  BY <1>1, <1>2, DatabaseType DEF Shape, Row, TypeInv
<1>5. QED
  BY <1>1, <1>2, <1>3, <1>4

LEMMA StartType ==
  ASSUME TypeInv, NEW q \in Requests, NEW i \in Invoices, NEW what, NEW next, NEW target, NEW a,
         Started(q, i, what, next, target, a)
  PROVE  TypeInv'
<1>1. /\ UNCHANGED <<status, source, total, due, collected, audit, torn>>
      /\ Moves(q, next, what, i, target, a)
  BY DEF Started, database
<1>2. Grows
  BY <1>1 DEF Grows
<1>3. \A j \in Invoices : Row(j)'
  BY <1>1, <1>2, RowsKept
<1>4. Shape(q)'
  BY <1>1, MovedTo, DatabaseType DEF Started, Shape, Fits, Counts, FollowsUp
<1>5. /\ next \in Step /\ what \in Operation /\ target \in Status \union {NoStatus} /\ a \in Nat
      /\ overlapped' \subseteq Invoices /\ mishaps' \in Nat
  BY DatabaseType DEF Started, Step
<1>6. QED
  BY <1>1, <1>2, <1>3, <1>4, <1>5, DatabaseType, MovesType

\* Steps that write nothing to the database.
LEMMA LookType ==
  ASSUME TypeInv, NEW q \in Requests, NEW next \in Step, NEW what \in Operation \union {"none"},
         NEW i \in Invoices \union {NoInvoice}, NEW target \in Status \union {NoStatus}, NEW a \in Nat,
         Moves(q, next, what, i, target, a), UNCHANGED database, Shape(q)',
         overlapped' \subseteq Invoices, torn' \subseteq Invoices \X Operation, mishaps' \in Nat
  PROVE  TypeInv'
<1>1. UNCHANGED <<status, source, total, due, collected, audit>>
  BY DEF database
<1>2. Grows
  BY <1>1 DEF Grows
<1>3. \A j \in Invoices : Row(j)'
  BY <1>1, <1>2, RowsKept
<1>4. QED
  BY <1>1, <1>2, <1>3, DatabaseType, MovesType

\* A request that is done fits anywhere.
LEMMA FinishShape ==
  ASSUME TypeInv, NEW q \in Requests, Finish(q)
  PROVE  Shape(q)' /\ Moves(q, "idle", "none", NoInvoice, NoStatus, 0)
         /\ "idle" \in Step /\ 0 \in Nat
<1>1. Moves(q, "idle", "none", NoInvoice, NoStatus, 0)
  BY FinishMoves
<1>2. /\ pc'[q] = "idle" /\ op'[q] = "none" /\ doc'[q] = NoInvoice /\ to'[q] = NoStatus
  BY <1>1, MovedTo
<1>3. Shape(q)'
  BY <1>2 DEF Shape, Fits, Counts, FollowsUp
<1>4. QED
  BY <1>1, <1>3 DEF Step

LEMMA FinishType ==
  ASSUME TypeInv, NEW q \in Requests, Finish(q), UNCHANGED database,
         overlapped' \subseteq Invoices, torn' \subseteq Invoices \X Operation, mishaps' \in Nat
  PROVE  TypeInv'
BY FinishShape, LookType

\* A request goes on with its invoice.
LEMMA GoesOn ==
  ASSUME TypeInv, NEW q \in Requests, pc[q] # "idle", NEW next, NEW what, NEW target,
         Turn(q, next, what, doc[q], target), Grows, Fits(next, what, target), next # "idle",
         next \in {"payment", "revise"} \/ (next = "write" /\ what = "pay")
           \/ (next = "check" /\ what \in {"discount", "credit"})
         => Counts(q) /\ (target = "paid" => to[q] = "paid"),
         what = "sendCredit" \/ (next = "record" /\ what \in {"discount", "credit"}) => FollowsUp(q)
  PROVE  Shape(q)' /\ Moves(q, next, what, doc[q], target, amount[q])
<1>1. Moves(q, next, what, doc[q], target, amount[q])
  BY TurnMoves
<1>2. /\ pc'[q] = next /\ op'[q] = what /\ doc'[q] = doc[q] /\ to'[q] = target /\ amount'[q] = amount[q]
  BY <1>1, MovedTo
<1>3. /\ doc[q] \in Invoices /\ status[doc[q]] # Absent /\ Shape(q) /\ NoInvoice \notin Invoices
  BY AtWork, DatabaseType DEF Shape
<1>4. status'[doc[q]] # Absent /\ total'[doc[q]] = total[doc[q]] /\ source'[doc[q]] = source[doc[q]]
  BY <1>3 DEF Grows
<1>5. Counts(q)' => Counts(q) /\ (target = "paid" => to[q] = "paid")
  BY <1>2 DEF Counts
<1>6. FollowsUp(q)' => FollowsUp(q)
  BY <1>2 DEF FollowsUp
<1>7. QED
  BY <1>1, <1>2, <1>3, <1>4, <1>5, <1>6 DEF Shape

LEMMA CheckType ==
  ASSUME TypeInv, NEW q \in Requests, CheckAudit(q)
  PROVE  TypeInv'
<1>1. pc[q] = "check" /\ UNCHANGED database /\ UNCHANGED <<overlapped, torn, mishaps>>
  BY DEF CheckAudit, history
<1>2. /\ doc[q] \in Invoices /\ op[q] \in Operation /\ amount[q] \in Nat
      /\ Fits("check", op[q], to[q])
  BY <1>1, AtWork DEF Shape
<1>3. Grows
  BY <1>1 DEF Grows, database
<1>4. CASE Finish(q)
  BY <1>1, <1>4, DatabaseType, FinishType
<1>5. CASE op[q] = "acknowledge" /\ Turn(q, "email", op[q], doc[q], NoStatus)
  <2>1. Shape(q)' /\ Moves(q, "email", op[q], doc[q], NoStatus, amount[q])
    BY <1>1, <1>3, <1>5, GoesOn DEF Fits, NoStatus
  <2>2. QED
    BY <1>1, <1>2, <2>1, DatabaseType, LookType DEF Step
<1>6. CASE op[q] = "deny" /\ Turn(q, "write", op[q], doc[q], to[q])
  <2>1. to[q] = "draft"
    BY <1>2, <1>6 DEF Fits
  <2>2. Shape(q)' /\ Moves(q, "write", op[q], doc[q], to[q], amount[q])
    BY <1>1, <1>3, <1>6, <2>1, GoesOn DEF Fits
  <2>3. QED
    BY <1>1, <1>2, <2>1, <2>2, DatabaseType, LookType DEF Step, Status
<1>7. CASE op[q] \in {"discount", "credit"} /\ Turn(q, "revise", op[q], doc[q], NoStatus)
  <2>1. Counts(q)
    BY <1>1, <1>7 DEF Counts
  <2>2. Shape(q)' /\ Moves(q, "revise", op[q], doc[q], NoStatus, amount[q])
    BY <1>1, <1>3, <1>7, <2>1, GoesOn DEF Fits, NoStatus
  <2>3. QED
    BY <1>1, <1>2, <2>2, DatabaseType, LookType DEF Step
<1>8. QED
  BY <1>4, <1>5, <1>6, <1>7 DEF CheckAudit

LEMMA PaymentType ==
  ASSUME TypeInv, NEW q \in Requests, InsertPayment(q)
  PROVE  TypeInv'
<1>1. /\ pc[q] = "payment" /\ UNCHANGED <<status, source, total, due, audit, overlapped, torn, mishaps>>
      /\ collected' = [collected EXCEPT ![doc[q]] = @ + amount[q]]
      /\ Turn(q, "write", op[q], doc[q], to[q])
  BY DEF InsertPayment, history
<1>2. /\ doc[q] \in Invoices /\ amount[q] \in Nat /\ Shape(q) /\ status[doc[q]] # Absent
      /\ op[q] = "pay" /\ to[q] \in {"paid", "partially_paid"}
  BY <1>1, AtWork DEF Shape, Fits
<1>3. Grows
  BY <1>1 DEF Grows
<1>4. collected' \in [Invoices -> Nat]
  BY <1>1, <1>2, DatabaseType
<1>5. \A j \in Invoices : Row(j)'
  <2>1. \A j \in Invoices : status[j] = Absent => collected'[j] = collected[j]
    BY <1>1, <1>2, DatabaseType
  <2>2. QED
    BY <1>1, <1>3, <2>1, RowsKept
<1>6. Counts(q)
  BY <1>1 DEF Counts
<1>7. Shape(q)' /\ Moves(q, "write", op[q], doc[q], to[q], amount[q])
  BY <1>1, <1>2, <1>3, <1>6, GoesOn DEF Fits
<1>8. "write" \in Step /\ op[q] \in Operation /\ to[q] \in Status
  BY <1>2 DEF Step, Operation, Status
<1>9. QED
  BY <1>1, <1>2, <1>3, <1>4, <1>5, <1>7, <1>8, DatabaseType, MovesType

LEMMA EmailType ==
  ASSUME TypeInv, NEW q \in Requests, NEW ok \in BOOLEAN, EmailAcknowledgment(q, ok)
  PROVE  TypeInv'
<1>1. pc[q] = "email" /\ UNCHANGED <<status, source, total, due, collected, overlapped, torn, mishaps>>
  BY DEF EmailAcknowledgment, history
<1>2. /\ doc[q] \in Invoices /\ amount[q] \in Nat /\ Shape(q) /\ status[doc[q]] # Absent
      /\ op[q] = "acknowledge"
  BY <1>1, AtWork DEF Shape, Fits
<1>3. CASE ok
  <2>1. /\ audit' = [audit EXCEPT ![doc[q]] = Append(@, "ackEmail")]
        /\ Turn(q, "reread", op[q], doc[q], NoStatus)
    BY <1>3 DEF EmailAcknowledgment
  <2>2. Grows
    BY <1>1 DEF Grows
  <2>3. audit' \in [Invoices -> Seq(Event)]
    BY <1>2, <2>1, DatabaseType DEF Event
  <2>4. \A j \in Invoices : Row(j)'
    <3>1. \A j \in Invoices : status[j] = Absent => audit'[j] = audit[j]
      BY <1>2, <2>1, DatabaseType
    <3>2. QED
      BY <1>1, <2>2, <3>1, RowsKept
  <2>5. Shape(q)' /\ Moves(q, "reread", op[q], doc[q], NoStatus, amount[q])
    BY <1>1, <1>2, <2>1, <2>2, GoesOn DEF Fits, NoStatus
  <2>6. "reread" \in Step /\ op[q] \in Operation
    BY <1>2 DEF Step, Operation
  <2>7. QED
    BY <1>1, <1>2, <2>2, <2>3, <2>4, <2>5, <2>6, DatabaseType, MovesType
<1>4. CASE ~ok
  BY <1>1, <1>4, DatabaseType, FinishType DEF EmailAcknowledgment, database
<1>5. QED
  BY <1>3, <1>4

LEMMA RereadType ==
  ASSUME TypeInv, NEW q \in Requests, Reread(q)
  PROVE  TypeInv'
<1>1. pc[q] = "reread" /\ UNCHANGED database /\ UNCHANGED <<overlapped, torn, mishaps>>
  BY DEF Reread, history
<1>2. /\ doc[q] \in Invoices /\ amount[q] \in Nat /\ op[q] \in Operation
      /\ op[q] \in {"acknowledge", "accredit", "send", "sendCredit"}
  BY <1>1, AtWork DEF Shape, Fits
<1>3. CASE Turn(q, "write", op[q], doc[q], Planned(op[q]))
  <2>1. Grows
    BY <1>1 DEF Grows, database
  <2>2. Fits("write", op[q], Planned(op[q])) /\ Planned(op[q]) \in Status
    BY <1>2 DEF Fits, Planned, Status
  <2>3. Shape(q)' /\ Moves(q, "write", op[q], doc[q], Planned(op[q]), amount[q])
    BY <1>1, <1>2, <1>3, <2>1, <2>2, GoesOn DEF FollowsUp
  <2>4. QED
    BY <1>1, <1>2, <2>2, <2>3, DatabaseType, LookType DEF Step
<1>4. CASE Finish(q)
  BY <1>1, <1>4, DatabaseType, FinishType
<1>5. QED
  BY <1>3, <1>4 DEF Reread

\* What the insertion of a revision does.
LEMMA Inserts ==
  ASSUME TypeInv, NEW q \in Requests, NEW r \in Invoices, InsertRevision(q, r),
         NEW i \in Invoices, i = doc[q]
  PROVE  /\ pc[q] = "revise" /\ status[r] = Absent /\ r # i /\ status[i] # Absent
         /\ op[q] \in {"pay", "discount", "credit"} /\ amount[q] <= total[i]
         /\ status'[r] = "draft" /\ source'[r] = i /\ total'[r] = total[i] - amount[q]
         /\ \A j \in Invoices : j # r =>
              status'[j] = status[j] /\ source'[j] = source[j] /\ total'[j] = total[j]
         /\ UNCHANGED <<due, collected, audit, overlapped, torn, mishaps>>
         /\ op[q] = "pay" => Moves(q, "reread", "send", r, NoStatus, amount[q])
         /\ op[q] # "pay" => Moves(q, "record", op[q], r, NoStatus, amount[q])
<1>1. pc[q] = "revise" /\ status[r] = Absent /\ UNCHANGED <<due, collected, audit, overlapped, torn, mishaps>>
  BY DEF InsertRevision, history
<1>2. Shape(q) /\ status[i] # Absent /\ op[q] \in {"pay", "discount", "credit"} /\ Counts(q)
  BY <1>1, AtWork DEF Shape, Fits, Counts
<1>3. amount[q] <= total[i]
  BY <1>2 DEF Shape
<1>4. /\ status'[r] = "draft" /\ source'[r] = i /\ total'[r] = total[i] - amount[q]
      /\ \A j \in Invoices : j # r =>
           status'[j] = status[j] /\ source'[j] = source[j] /\ total'[j] = total[j]
  BY DatabaseType DEF InsertRevision, RevisedTotal
<1>5. op[q] = "pay" => Moves(q, "reread", "send", r, NoStatus, amount[q])
  BY TurnMoves DEF InsertRevision
<1>6. op[q] # "pay" => Moves(q, "record", op[q], r, NoStatus, amount[q])
  BY TurnMoves DEF InsertRevision
<1>7. QED
  BY <1>1, <1>2, <1>3, <1>4, <1>5, <1>6

LEMMA InsertType ==
  ASSUME TypeInv, NEW q \in Requests, NEW r \in Invoices, InsertRevision(q, r)
  PROVE  TypeInv'
<1>1. PICK i \in Invoices : i = doc[q]
  BY AtWork DEF InsertRevision
<1>2. /\ status[r] = Absent /\ r # i /\ status[i] # Absent
      /\ op[q] \in {"pay", "discount", "credit"} /\ amount[q] <= total[i]
      /\ status'[r] = "draft" /\ source'[r] = i /\ total'[r] = total[i] - amount[q]
      /\ \A j \in Invoices : j # r =>
           status'[j] = status[j] /\ source'[j] = source[j] /\ total'[j] = total[j]
      /\ UNCHANGED <<due, collected, audit, overlapped, torn, mishaps>>
  BY <1>1, Inserts
<1>3. "draft" \in Status /\ "draft" # Absent /\ amount[q] \in Nat
  BY DEF Status, Absent, TypeInv, TypeOK
<1>4. Grows
  BY <1>2 DEF Grows
<1>5. /\ status' \in [Invoices -> Status \union {Absent}]
      /\ source' \in [Invoices -> Invoices \union {NoInvoice}]
      /\ total'  \in [Invoices -> Nat]
  <2>1. total[i] - amount[q] \in Nat
    BY <1>2, <1>3, DatabaseType
  <2>2. /\ status' = [status EXCEPT ![r] = "draft"]
        /\ source' = [source EXCEPT ![r] = i]
        /\ total'  = [total  EXCEPT ![r] = total[i] - amount[q]]
    BY <1>1 DEF InsertRevision, RevisedTotal
  <2>3. QED
    BY <1>3, <2>1, <2>2, DatabaseType
<1>6. ASSUME NEW j \in Invoices PROVE Row(j)'
  <2>1. Row(j) /\ source[j] \in Invoices \union {NoInvoice}
    BY DatabaseType DEF TypeInv
  <2>2. CASE j = r
    BY <1>2, <1>3, <2>2 DEF Row
  <2>3. CASE j # r
    <3>1. source[j] # NoInvoice => status'[source[j]] # Absent
      BY <1>2, <2>1 DEF Row
    <3>2. QED
      BY <1>2, <2>1, <2>3, <3>1 DEF Row
  <2>4. QED
    BY <2>2, <2>3
<1>7. CASE op[q] = "pay"
  <2>1. Moves(q, "reread", "send", r, NoStatus, amount[q])
    BY <1>1, <1>7, Inserts
  <2>2. Shape(q)'
    BY <1>2, <1>3, <2>1, MovedTo, DatabaseType DEF Shape, Fits, Counts, FollowsUp
  <2>3. "reread" \in Step /\ "send" \in Operation
    BY DEF Step, Operation
  <2>4. QED
    BY <1>2, <1>3, <1>4, <1>5, <1>6, <2>1, <2>2, <2>3, DatabaseType, MovesType
<1>8. CASE op[q] # "pay"
  <2>1. Moves(q, "record", op[q], r, NoStatus, amount[q])
    BY <1>1, <1>8, Inserts
  <2>2. Shape(q)'
    BY <1>2, <1>3, <1>8, <2>1, MovedTo, DatabaseType DEF Shape, Fits, Counts, FollowsUp
  <2>3. "record" \in Step /\ op[q] \in Operation
    BY <1>2 DEF Step, Operation
  <2>4. QED
    BY <1>2, <1>3, <1>4, <1>5, <1>6, <2>1, <2>2, <2>3, DatabaseType, MovesType
<1>9. QED
  BY <1>7, <1>8

\* What the write of a status does, and where the request goes from there.
LEMMA Writes ==
  ASSUME TypeInv, NEW q \in Requests, WriteStatus(q), NEW i \in Invoices, i = doc[q]
  PROVE  /\ pc[q] = "write" /\ to[q] \in Status /\ status[i] # Absent
         /\ status'[i] = to[q] /\ \A j \in Invoices : j # i => status'[j] = status[j]
         /\ status' = [status EXCEPT ![i] = to[q]]
         /\ UNCHANGED <<source, total, collected, audit, overlapped, torn, mishaps>>
         /\ \/ /\ op[q] = "pay" /\ to[q] = "partially_paid"
               /\ Moves(q, "revise", op[q], i, NoStatus, amount[q])
            \/ /\ op[q] \in {"dispute", "deny"}
               /\ Moves(q, "record", op[q], i, NoStatus, amount[q])
            \/ /\ op[q] = "sendCredit" /\ source[i] \in Invoices
               /\ Moves(q, "reread", "accredit", source[i], NoStatus, amount[q])
            \/ /\ ~(op[q] = "pay" /\ to[q] = "partially_paid") /\ op[q] \notin {"dispute", "deny"}
               /\ Finish(q)
<1>1. /\ pc[q] = "write" /\ status' = [status EXCEPT ![i] = to[q]]
      /\ UNCHANGED <<source, total, collected, audit, overlapped, torn, mishaps>>
  BY DEF WriteStatus, history
<1>2. to[q] \in Status /\ status[i] # Absent
  BY <1>1, AtWork DEF Shape, Fits, Status
<1>3. op[q] = "sendCredit" => source[i] \in Invoices
  BY <1>1, AtWork DEF FollowsUp
<1>4. \/ /\ op[q] = "pay" /\ to[q] = "partially_paid"
         /\ Turn(q, "revise", op[q], i, NoStatus)
      \/ /\ op[q] \in {"dispute", "deny"}
         /\ Turn(q, "record", op[q], i, NoStatus)
      \/ /\ op[q] = "sendCredit"
         /\ Turn(q, "reread", "accredit", source[i], NoStatus)
      \/ /\ ~(op[q] = "pay" /\ to[q] = "partially_paid") /\ op[q] \notin {"dispute", "deny"}
         /\ Finish(q)
  BY DEF WriteStatus
<1>5. QED
  BY <1>1, <1>2, <1>3, <1>4, TurnMoves, DatabaseType

LEMMA WriteType ==
  ASSUME TypeInv, NEW q \in Requests, WriteStatus(q)
  PROVE  TypeInv'
<1>1. PICK i \in Invoices : i = doc[q]
  BY AtWork DEF WriteStatus
<1>2. /\ pc[q] = "write" /\ to[q] \in Status /\ status[i] # Absent
      /\ status'[i] = to[q] /\ \A j \in Invoices : j # i => status'[j] = status[j]
      /\ status' = [status EXCEPT ![i] = to[q]]
      /\ UNCHANGED <<source, total, collected, audit, overlapped, torn, mishaps>>
  BY <1>1, Writes
<1>3. Grows
  BY <1>2, DatabaseType DEF Grows
<1>4. \A j \in Invoices : Row(j)'
  <2>1. \A j \in Invoices : status[j] = Absent => status'[j] = Absent
    BY <1>2
  <2>2. QED
    BY <1>2, <1>3, <2>1, RowsKept
<1>5. status' \in [Invoices -> Status \union {Absent}] /\ due' \in [Invoices -> {"none", "open", "past"}]
  BY <1>2, DatabaseType DEF WriteStatus
<1>6. op[q] \in Operation /\ amount[q] \in Nat /\ Shape(q)
  BY <1>2, AtWork
<1>7. ASSUME NEW next \in Step, NEW what \in Operation \union {"none"},
             NEW j \in Invoices \union {NoInvoice}, NEW a \in Nat,
             Moves(q, next, what, j, NoStatus, a), Shape(q)'
      PROVE  TypeInv'
  BY <1>2, <1>3, <1>4, <1>5, <1>7, DatabaseType, MovesType
<1>8. CASE op[q] = "pay" /\ Moves(q, "revise", op[q], i, NoStatus, amount[q])
  <2>1. Counts(q)
    BY <1>2, <1>8 DEF Counts
  <2>2. Shape(q)'
    BY <1>1, <1>2, <1>3, <1>6, <1>8, <2>1, MovedTo, DatabaseType
       DEF Shape, Fits, Counts, FollowsUp, Grows, NoStatus
  <2>3. QED
    BY <1>6, <1>7, <1>8, <2>2 DEF Step
<1>9. CASE op[q] \in {"dispute", "deny"} /\ Moves(q, "record", op[q], i, NoStatus, amount[q])
  <2>1. Shape(q)'
    BY <1>2, <1>3, <1>9, MovedTo, DatabaseType DEF Shape, Fits, Counts, FollowsUp, Grows
  <2>2. QED
    BY <1>6, <1>7, <1>9, <2>1 DEF Step
<1>10. CASE /\ op[q] = "sendCredit" /\ source[i] \in Invoices
            /\ Moves(q, "reread", "accredit", source[i], NoStatus, amount[q])
  <2>1. status[source[i]] # Absent
    BY <1>1, <1>2, <1>10, AtWork DEF FollowsUp
  <2>2. Shape(q)'
    BY <1>2, <1>3, <1>10, <2>1, MovedTo, DatabaseType DEF Shape, Fits, Counts, FollowsUp, Grows
  <2>3. "accredit" \in Operation /\ "reread" \in Step
    BY DEF Operation, Step
  <2>4. QED
    BY <1>6, <1>7, <1>10, <2>2, <2>3
<1>11. CASE Finish(q)
  BY <1>7, <1>11, FinishShape
<1>12. QED
  BY <1>1, <1>8, <1>9, <1>10, <1>11, Writes

\* What the write of an audit event does, and where the request goes.
LEMMA Records ==
  ASSUME TypeInv, NEW q \in Requests, NEW ok \in BOOLEAN, RecordEvent(q, ok)
  PROVE  /\ pc[q] = "record" /\ UNCHANGED <<status, source, total, due, collected, overlapped, torn, mishaps>>
         /\ audit' \in [Invoices -> Seq(Event)]
         /\ \A j \in Invoices : status[j] = Absent => audit'[j] = audit[j]
         /\ \/ op[q] = "deny" /\ Turn(q, "reread", "send", doc[q], NoStatus)
            \/ op[q] = "discount" /\ Turn(q, "reread", "send", doc[q], NoStatus)
            \/ op[q] = "credit" /\ Turn(q, "reread", "sendCredit", doc[q], NoStatus)
            \/ Finish(q)
<1>1. pc[q] = "record" /\ UNCHANGED <<status, source, total, due, collected, overlapped, torn, mishaps>>
  BY DEF RecordEvent, history
<1>2. /\ doc[q] \in Invoices /\ status[doc[q]] # Absent
      /\ op[q] \in {"discount", "credit"} => source[doc[q]] \in Invoices /\ status[source[doc[q]]] # Absent
      /\ op[q] \in {"dispute", "deny", "discount", "credit"}
  BY <1>1, AtWork DEF Shape, Fits, FollowsUp
<1>3. \E j \in Invoices, e \in Event : status[j] # Absent /\ audit' = [audit EXCEPT ![j] = Append(@, e)]
  <2>1. CASE op[q] = "dispute"
    BY <1>2, <2>1 DEF RecordEvent, Event
  <2>2. CASE op[q] = "deny"
    BY <1>2, <2>2 DEF RecordEvent, Event
  <2>3. CASE op[q] \in {"discount", "credit"}
    BY <1>2, <2>3 DEF RecordEvent, Event
  <2>4. QED
    BY <1>2, <2>1, <2>2, <2>3
<1>4. audit' \in [Invoices -> Seq(Event)] /\ \A j \in Invoices : status[j] = Absent => audit'[j] = audit[j]
  BY <1>3, DatabaseType
<1>5. \/ op[q] = "deny" /\ Turn(q, "reread", "send", doc[q], NoStatus)
      \/ op[q] = "discount" /\ Turn(q, "reread", "send", doc[q], NoStatus)
      \/ op[q] = "credit" /\ Turn(q, "reread", "sendCredit", doc[q], NoStatus)
      \/ Finish(q)
  BY DEF RecordEvent
<1>6. QED
  BY <1>1, <1>4, <1>5

LEMMA RecordType ==
  ASSUME TypeInv, NEW q \in Requests, NEW ok \in BOOLEAN, RecordEvent(q, ok)
  PROVE  TypeInv'
<1>1. /\ pc[q] = "record" /\ UNCHANGED <<status, source, total, due, collected, overlapped, torn, mishaps>>
      /\ audit' \in [Invoices -> Seq(Event)]
      /\ \A j \in Invoices : status[j] = Absent => audit'[j] = audit[j]
  BY Records
<1>2. Grows
  BY <1>1 DEF Grows
<1>3. \A j \in Invoices : Row(j)'
  BY <1>1, <1>2, RowsKept
<1>4. ASSUME NEW next \in Step, NEW what \in Operation \union {"none"},
             NEW j \in Invoices \union {NoInvoice}, NEW a \in Nat,
             Moves(q, next, what, j, NoStatus, a), Shape(q)'
      PROVE  TypeInv'
  BY <1>1, <1>2, <1>3, <1>4, DatabaseType, MovesType
<1>5. doc[q] \in Invoices /\ amount[q] \in Nat
  BY <1>1, AtWork
<1>6. "reread" \in Step /\ "send" \in Operation /\ "sendCredit" \in Operation
  BY DEF Step, Operation
<1>7. CASE Turn(q, "reread", "send", doc[q], NoStatus)
  <2>1. Shape(q)' /\ Moves(q, "reread", "send", doc[q], NoStatus, amount[q])
    BY <1>1, <1>2, <1>7, GoesOn DEF Fits, NoStatus
  <2>2. QED
    BY <1>4, <1>5, <1>6, <2>1
<1>8. CASE op[q] = "credit" /\ Turn(q, "reread", "sendCredit", doc[q], NoStatus)
  <2>1. FollowsUp(q)
    BY <1>1, <1>8 DEF FollowsUp
  <2>2. Shape(q)' /\ Moves(q, "reread", "sendCredit", doc[q], NoStatus, amount[q])
    BY <1>1, <1>2, <1>8, <2>1, GoesOn DEF Fits, NoStatus
  <2>3. QED
    BY <1>4, <1>5, <1>6, <2>2
<1>9. CASE Finish(q)
  BY <1>4, <1>9, FinishShape
<1>10. QED
  BY <1>7, <1>8, <1>9, Records

LEMMA DieType ==
  ASSUME TypeInv, NEW q \in Requests, Die(q)
  PROVE  TypeInv'
<1>1. /\ Finish(q) /\ UNCHANGED database /\ overlapped' = overlapped /\ mishaps' \in Nat
      /\ torn' = torn \union {<<i, op[q]>> : i \in {j \in Invoices : Touches(q, j)}}
  BY DatabaseType DEF Die
<1>2. op[q] \in Operation
  BY AtWork DEF Die
<1>3. torn' \subseteq Invoices \X Operation
  BY <1>1, <1>2, DatabaseType
<1>4. QED
  BY <1>1, <1>3, DatabaseType, FinishType

LEMMA NextType == TypeInv /\ [Next]_vars => TypeInv'
<1> SUFFICES ASSUME TypeInv, [Next]_vars PROVE TypeInv'
  OBVIOUS
<1>1. ASSUME NEW q \in Requests, NEW i \in Invoices, Start(q, i) PROVE TypeInv'
  BY <1>1, StartStarts, StartType
<1>2. ASSUME NEW q \in Requests, Continue(q) PROVE TypeInv'
  BY <1>2, CheckType, PaymentType, EmailType, RereadType, InsertType, WriteType, RecordType, DieType
     DEF Continue
<1>3. ASSUME UNCHANGED <<status, source, total, collected, audit, requests, history>>,
             due' \in [Invoices -> {"none", "open", "past"}]
      PROVE  TypeInv'
  <2>1. TypeOK'
    BY <1>3 DEF TypeInv, TypeOK, requests, history
  <2>2. \A q \in Requests : Shape(q)'
    BY <1>3 DEF TypeInv, Shape, Counts, FollowsUp, requests
  <2>3. \A i \in Invoices : Row(i)'
    BY <1>3 DEF TypeInv, Row
  <2>4. QED
    BY <2>1, <2>2, <2>3 DEF TypeInv
<1>4. ASSUME NEW i \in Invoices, DueDatePasses(i) PROVE TypeInv'
  BY <1>3, <1>4, DatabaseType DEF DueDatePasses
<1>5. CASE UNCHANGED vars
  BY <1>3, <1>5, DatabaseType DEF vars, database
<1>6. QED
  BY <1>1, <1>2, <1>4, <1>5 DEF Next

\* Every variable keeps its type; a credit never exceeds the total.
THEOREM TypeCorrect == Spec => []TypeOK
<1>1. TypeInv => TypeOK
  BY DEF TypeInv
<1>2. QED
  BY <1>1, InitType, NextType, PTL DEF Spec

-----------------------------------------------------------------------------
(* Steps that leave money and statuses alone *)

Safe == AloneInv /\ CurrentInv /\ RevisedInv /\ MoneyInv

\* The others work on what they worked on.
LEMMA OthersWork ==
  ASSUME TypeInv, NEW q \in Requests, NEW next, NEW what, NEW i, NEW target, NEW a,
         Moves(q, next, what, i, target, a), Grows,
         NEW p \in Requests, p # q, NEW j \in Invoices
  PROVE  Works(p, j)' <=> Works(p, j)
<1>1. /\ pc'[p] = pc[p] /\ op'[p] = op[p] /\ doc'[p] = doc[p]
  BY MovedTo
<1>2. pc[p] # "idle" => source'[doc[p]] = source[doc[p]]
  BY AtWork DEF Grows, Shape
<1>3. QED
  BY <1>1, <1>2 DEF Works, FollowsUp

LEMMA AloneKept ==
  ASSUME TypeInv, AloneInv, NEW q \in Requests, NEW next, NEW what, NEW i, NEW target, NEW a,
         Moves(q, next, what, i, target, a), Grows, overlapped \subseteq overlapped',
         \A j \in Invoices \ overlapped' : \A p \in Requests :
           p # q => ~(Works(q, j)' /\ Works(p, j))
  PROVE  AloneInv'
<1> SUFFICES ASSUME NEW j \in Invoices \ overlapped', NEW p \in Requests, NEW o \in Requests,
                    Works(p, j)', Works(o, j)'
             PROVE  p = o
  BY DEF AloneInv
<1>1. CASE p # q /\ o # q
  BY <1>1, OthersWork DEF AloneInv
<1>2. CASE p = q /\ o # q
  BY <1>2, OthersWork
<1>3. CASE p # q /\ o = q
  BY <1>3, OthersWork
<1>4. QED
  BY <1>1, <1>2, <1>3

\* What the others saw is still so, if only the invoice of the request changed.
LEMMA OthersCurrent ==
  ASSUME TypeInv, AloneInv, CurrentInv, NEW q \in Requests,
         NEW next, NEW what, NEW i, NEW target, NEW a, Moves(q, next, what, i, target, a),
         overlapped \subseteq overlapped',
         \A j \in Invoices : status[j] # Absent /\ status'[j] # status[j] => pc[q] # "idle" /\ doc[q] = j,
         pc'[q] # "idle" /\ doc'[q] \notin overlapped' => Current(q)'
  PROVE  CurrentInv'
<1> SUFFICES ASSUME NEW p \in Requests, p # q, pc'[p] # "idle", doc'[p] \notin overlapped'
             PROVE  Current(p)'
  BY DEF CurrentInv
<1>1. pc'[p] = pc[p] /\ op'[p] = op[p] /\ doc'[p] = doc[p] /\ to'[p] = to[p]
  BY MovedTo
<1>2. doc[p] \in Invoices \ overlapped /\ status[doc[p]] # Absent
  BY <1>1, AtWork DEF Shape
<1>3. Current(p)
  BY <1>1, <1>2 DEF CurrentInv
<1>4. status'[doc[p]] = status[doc[p]]
  BY <1>1, <1>2 DEF AloneInv, Works
<1>5. QED
  BY <1>1, <1>3, <1>4 DEF Current

LEMMA CalmKeeps ==
  ASSUME TypeInv, Safe, NEW q \in Requests, NEW next, NEW what, NEW i, NEW target, NEW a,
         Moves(q, next, what, i, target, a), UNCHANGED <<status, source, total, collected>>,
         overlapped \subseteq overlapped', torn \subseteq torn',
         \A j \in Invoices \ overlapped' : \A p \in Requests :
           p # q => ~(Works(q, j)' /\ Works(p, j)),
         pc'[q] # "idle" /\ doc'[q] \notin overlapped' => Current(q)',
         ~(op'[q] = "pay" /\ pc'[q] \in {"write", "revise"}),
         \A j \in Invoices : Paying(q, j) => Torn(j)'
  PROVE  Safe'
<1>1. Grows
  BY DEF Grows
<1>2. AloneInv'
  BY <1>1, AloneKept DEF Safe
<1>3. CurrentInv'
  BY OthersCurrent DEF Safe
<1>4. RevisedInv'
  BY DEF Safe, RevisedInv
<1>5. MoneyInv'
  <2> SUFFICES ASSUME NEW j \in Invoices \ overlapped', ~Torn(j)'
               PROVE  /\ (\A p \in Requests : ~Paying(p, j)') => Accounted(j)'
                      /\ \A p \in Requests : Paying(p, j)' => collected'[j] = amount'[p] /\ Revisions(j)' = {}
    BY DEF MoneyInv
  <2>1. j \notin overlapped /\ ~Torn(j)
    BY DEF Torn
  <2>2. \A p \in Requests : p # q => (Paying(p, j)' <=> Paying(p, j)) /\ amount'[p] = amount[p]
    BY MovedTo DEF Paying
  <2>3. ~Paying(q, j)' /\ ~Paying(q, j)
    BY DEF Paying
  <2>4. Revisions(j)' = Revisions(j) /\ (Accounted(j)' <=> Accounted(j))
    BY DEF Revisions, Accounted
  <2>5. QED
    BY <2>1, <2>2, <2>3, <2>4 DEF Safe, MoneyInv
<1>6. QED
  BY <1>2, <1>3, <1>4, <1>5 DEF Safe

LEMMA StartSafe ==
  ASSUME TypeInv, Safe, NEW q \in Requests, NEW i \in Invoices, NEW what, NEW next, NEW target, NEW a,
         Started(q, i, what, next, target, a)
  PROVE  Safe'
<1>1. /\ UNCHANGED <<status, source, total, collected>> /\ Moves(q, next, what, i, target, a)
      /\ overlapped \subseteq overlapped' /\ torn' = torn
      /\ pc'[q] = next /\ op'[q] = what /\ doc'[q] = i /\ to'[q] = target
  BY MovedTo DEF Started, database
<1>2. ~FollowsUp(q)'
  BY <1>1 DEF Started, FollowsUp
<1>3. ASSUME NEW j \in Invoices \ overlapped', NEW p \in Requests, p # q, Works(q, j)', Works(p, j)
      PROVE  FALSE
  <2>1. j = i
    BY <1>1, <1>2, <1>3 DEF Works
  <2>2. Touches(p, j)
    <3>1. FollowsUp(p) => op[p] \in {"discount", "credit", "sendCredit"}
      BY DEF FollowsUp
    <3>2. QED
      BY <1>3, <3>1 DEF Works, Touches
  <2>3. QED
    BY <1>3, <2>1, <2>2 DEF Started
<1>4. Current(q)'
  BY <1>1 DEF Started, Current, Fits, NoStatus
<1>5. ~(op'[q] = "pay" /\ pc'[q] \in {"write", "revise"}) /\ \A j \in Invoices : ~Paying(q, j)
  BY <1>1 DEF Started, Paying
<1>6. QED
  BY <1>1, <1>3, <1>4, <1>5, CalmKeeps

\* A request that ends.
LEMMA FinishSafe ==
  ASSUME TypeInv, Safe, NEW q \in Requests, Finish(q), UNCHANGED <<status, source, total, collected>>,
         overlapped' = overlapped, torn \subseteq torn',
         \A j \in Invoices : Paying(q, j) => Torn(j)'
  PROVE  Safe'
<1>1. Moves(q, "idle", "none", NoInvoice, NoStatus, 0)
  BY FinishMoves
<1>2. pc'[q] = "idle" /\ op'[q] = "none"
  BY <1>1, MovedTo
<1>3. QED
  BY <1>1, <1>2, CalmKeeps DEF Works

\* A request that goes on with its invoice, and neither pays nor paid.
LEMMA GoesOnSafe ==
  ASSUME TypeInv, Safe, NEW q \in Requests, pc[q] # "idle", NEW next, NEW what, NEW target,
         Turn(q, next, what, doc[q], target), UNCHANGED <<status, source, total, collected, overlapped, torn>>,
         what # "pay", op[q] # "pay", next \notin {"idle", "payment", "check", "record"},
         what = "sendCredit" => FollowsUp(q),
         next = "write" => doc[q] \in overlapped \/ target \in LegalNext[status[doc[q]]],
         next = "revise" => doc[q] \in overlapped \/ status[doc[q]] = "dispute_acknowledged"
  PROVE  Safe'
<1>1. Moves(q, next, what, doc[q], target, amount[q])
  BY TurnMoves
<1>2. pc'[q] = next /\ op'[q] = what /\ doc'[q] = doc[q] /\ to'[q] = target
  BY <1>1, MovedTo
<1>3. ASSUME NEW j \in Invoices \ overlapped', NEW p \in Requests, p # q, Works(q, j)', Works(p, j)
      PROVE  FALSE
  <2>1. FollowsUp(q)' => FollowsUp(q)
    BY <1>2 DEF FollowsUp
  <2>2. Works(q, j)
    BY <1>2, <1>3, <2>1 DEF Works
  <2>3. QED
    BY <1>3, <2>2 DEF Safe, AloneInv
<1>4. doc'[q] \notin overlapped' => Current(q)'
  BY <1>2 DEF Current
<1>5. QED
  BY <1>1, <1>2, <1>3, <1>4, CalmKeeps DEF Paying

LEMMA CheckSafe ==
  ASSUME TypeInv, Safe, NEW q \in Requests, CheckAudit(q)
  PROVE  Safe'
<1>1. /\ pc[q] = "check" /\ UNCHANGED <<status, source, total, collected, overlapped, torn>>
      /\ Fits("check", op[q], to[q]) /\ doc[q] \in Invoices
  BY AtWork DEF CheckAudit, database, history, Shape
<1>2. op[q] # "pay" /\ op[q] # "sendCredit" /\ \A j \in Invoices : ~Paying(q, j)
  BY <1>1 DEF Fits, Paying
<1>3. doc[q] \notin overlapped => Current(q)
  BY <1>1 DEF Safe, CurrentInv
<1>4. CASE Turn(q, "email", op[q], doc[q], NoStatus)
  BY <1>1, <1>2, <1>4, GoesOnSafe
<1>5. CASE op[q] = "deny" /\ Turn(q, "write", op[q], doc[q], to[q])
  <2>1. doc[q] \in overlapped \/ to[q] \in LegalNext[status[doc[q]]]
    BY <1>1, <1>3, <1>5 DEF Current, Fits, LegalNext, Status
  <2>2. QED
    BY SMTT(30), <1>1, <1>2, <1>5, <2>1, GoesOnSafe
<1>6. CASE op[q] \in {"discount", "credit"} /\ Turn(q, "revise", op[q], doc[q], NoStatus)
  <2>1. doc[q] \in overlapped \/ status[doc[q]] = "dispute_acknowledged"
    BY <1>1, <1>3, <1>6 DEF Current
  <2>2. QED
    BY <1>1, <1>2, <1>6, <2>1, GoesOnSafe
<1>7. CASE Finish(q)
  BY <1>1, <1>2, <1>7, FinishSafe
<1>8. QED
  BY <1>4, <1>5, <1>6, <1>7 DEF CheckAudit

LEMMA EmailSafe ==
  ASSUME TypeInv, Safe, NEW q \in Requests, NEW ok \in BOOLEAN, EmailAcknowledgment(q, ok)
  PROVE  Safe'
<1>1. /\ pc[q] = "email" /\ UNCHANGED <<status, source, total, collected, overlapped, torn>>
      /\ op[q] = "acknowledge" /\ \A j \in Invoices : ~Paying(q, j)
  BY AtWork DEF EmailAcknowledgment, history, Shape, Fits, Paying
<1>2. CASE Turn(q, "reread", op[q], doc[q], NoStatus)
  BY <1>1, <1>2, GoesOnSafe
<1>3. CASE Finish(q)
  BY <1>1, <1>3, FinishSafe
<1>4. QED
  BY <1>2, <1>3 DEF EmailAcknowledgment

LEMMA RereadSafe ==
  ASSUME TypeInv, Safe, NEW q \in Requests, Reread(q)
  PROVE  Safe'
<1>1. /\ pc[q] = "reread" /\ UNCHANGED <<status, source, total, collected, overlapped, torn>>
      /\ op[q] \in {"acknowledge", "accredit", "send", "sendCredit"} /\ \A j \in Invoices : ~Paying(q, j)
  BY AtWork DEF Reread, database, history, Shape, Fits, Paying
<1>2. CASE status[doc[q]] = Expected(op[q]) /\ Turn(q, "write", op[q], doc[q], Planned(op[q]))
  <2>1. Planned(op[q]) \in LegalNext[status[doc[q]]]
    BY <1>1, <1>2 DEF Expected, Planned, LegalNext, Status
  <2>2. op[q] = "sendCredit" => FollowsUp(q)
    BY DEF FollowsUp
  <2>3. op[q] # "pay"
    BY <1>1
  <2>4. QED
    BY <1>1, <1>2, <2>1, <2>2, <2>3, GoesOnSafe
<1>3. CASE Finish(q)
  BY <1>1, <1>3, FinishSafe
<1>4. QED
  BY <1>2, <1>3 DEF Reread

LEMMA RecordSafe ==
  ASSUME TypeInv, Safe, NEW q \in Requests, NEW ok \in BOOLEAN, RecordEvent(q, ok)
  PROVE  Safe'
<1>1. /\ pc[q] = "record" /\ UNCHANGED <<status, source, total, collected, overlapped, torn>>
  BY Records
<1>2. op[q] # "pay" /\ \A j \in Invoices : ~Paying(q, j)
  BY <1>1, AtWork DEF Shape, Fits, Paying
<1>3. CASE Turn(q, "reread", "send", doc[q], NoStatus)
  BY <1>1, <1>2, <1>3, GoesOnSafe
<1>4. CASE op[q] = "credit" /\ Turn(q, "reread", "sendCredit", doc[q], NoStatus)
  <2>1. FollowsUp(q)
    BY <1>1, <1>4 DEF FollowsUp
  <2>2. QED
    BY <1>1, <1>2, <1>4, <2>1, GoesOnSafe
<1>5. CASE Finish(q)
  BY <1>1, <1>2, <1>5, FinishSafe
<1>6. QED
  BY <1>3, <1>4, <1>5, Records

LEMMA DieSafe ==
  ASSUME TypeInv, Safe, NEW q \in Requests, Die(q)
  PROVE  Safe'
<1>1. /\ Finish(q) /\ pc[q] # "idle" /\ UNCHANGED <<status, source, total, collected, overlapped>>
      /\ torn' = torn \union {<<i, op[q]>> : i \in {j \in Invoices : Touches(q, j)}}
  BY DEF Die, database
<1>2. op[q] \in Operation
  BY <1>1, AtWork
<1>3. ASSUME NEW j \in Invoices, Paying(q, j) PROVE Torn(j)'
  BY <1>1, <1>2, <1>3 DEF Paying, Touches, Torn
<1>4. QED
  BY <1>1, <1>3, FinishSafe

-----------------------------------------------------------------------------
(* Payments, revisions and the write of a status *)

LEMMA PaymentSafe ==
  ASSUME TypeInv, Safe, NEW q \in Requests, InsertPayment(q)
  PROVE  Safe'
<1>1. PICK i \in Invoices : i = doc[q]
  BY AtWork DEF InsertPayment
<1>2. /\ pc[q] = "payment" /\ UNCHANGED <<status, source, total, overlapped, torn>>
      /\ op[q] = "pay" /\ to[q] \in {"paid", "partially_paid"} /\ amount[q] \in Nat
  BY AtWork DEF InsertPayment, history, Shape, Fits
<1>3. Moves(q, "write", "pay", i, to[q], amount[q])
  BY <1>1, <1>2, TurnMoves DEF InsertPayment
<1>4. /\ pc'[q] = "write" /\ op'[q] = "pay" /\ doc'[q] = i /\ to'[q] = to[q] /\ amount'[q] = amount[q]
      /\ \A p \in Requests : p # q =>
           pc'[p] = pc[p] /\ op'[p] = op[p] /\ doc'[p] = doc[p] /\ amount'[p] = amount[p]
  BY <1>3, MovedTo
<1>5. collected'[i] = collected[i] + amount[q] /\ \A j \in Invoices : j # i => collected'[j] = collected[j]
  BY <1>1, DatabaseType DEF InsertPayment
<1>6. Grows
  BY <1>2 DEF Grows
<1>7. Works(q, i)
  BY <1>1, <1>2 DEF Works
<1>8. AloneInv'
  <2>1. \A j \in Invoices : Works(q, j)' => j = i
    BY <1>4 DEF Works, FollowsUp
  <2>2. \A j \in Invoices \ overlapped' : \A p \in Requests : p # q => ~(Works(q, j)' /\ Works(p, j))
    BY <1>2, <1>7, <2>1 DEF Safe, AloneInv
  <2>3. overlapped \subseteq overlapped'
    BY <1>2
  <2>4. QED
    BY <1>3, <1>6, <2>2, <2>3, AloneKept DEF Safe
<1>9. i \notin overlapped => to[q] \in LegalNext[status[i]]
  BY <1>1, <1>2 DEF Safe, CurrentInv, Current
<1>10. CurrentInv'
  <2>1. i \notin overlapped => Current(q)'
    BY <1>2, <1>4, <1>9 DEF Current
  <2>2. QED
    BY <1>2, <1>3, <1>4, <2>1, OthersCurrent DEF Safe
<1>11. RevisedInv'
  BY <1>2 DEF Safe, RevisedInv
<1>12. MoneyInv'
  <2> SUFFICES ASSUME NEW j \in Invoices \ overlapped', ~Torn(j)'
               PROVE  /\ (\A p \in Requests : ~Paying(p, j)') => Accounted(j)'
                      /\ \A p \in Requests : Paying(p, j)' => collected'[j] = amount'[p] /\ Revisions(j)' = {}
    BY DEF MoneyInv
  <2>1. j \notin overlapped /\ ~Torn(j) /\ Revisions(j)' = Revisions(j)
    BY <1>2 DEF Torn, Revisions
  <2>2. \A p \in Requests : p # q => (Paying(p, j)' <=> Paying(p, j))
    BY <1>4 DEF Paying
  <2>3. CASE j = i
    <3>1. ASSUME NEW p \in Requests, p # q PROVE ~Paying(p, i)
      BY <1>7, <2>1, <2>3, <3>1 DEF Safe, AloneInv, Works, Paying
    <3>2. ~Paying(q, i)
      BY <1>2 DEF Paying
    <3>3. Accounted(i)
      BY <2>1, <2>3, <3>1, <3>2 DEF Safe, MoneyInv
    <3>4. status[i] \in {"sent", "overdue"}
      <4>1. status[i] \in Status
        BY <1>1, <1>2, AtWork
      <4>2. QED
        BY <1>2, <1>9, <2>1, <2>3, <4>1 DEF LegalNext, Status
    <3>5. collected[i] = 0 /\ Revisions(i) = {}
      BY <3>3, <3>4 DEF Accounted
    <3>6. collected'[i] = amount[q] /\ Paying(q, i)'
      BY <1>2, <1>4, <1>5, <3>5 DEF Paying
    <3>7. QED
      BY <1>4, <2>1, <2>2, <2>3, <3>1, <3>5, <3>6
  <2>4. CASE j # i
    <3>1. ~Paying(q, j)' /\ ~Paying(q, j)
      BY <1>1, <1>4, <2>4 DEF Paying
    <3>2. Accounted(j)' <=> Accounted(j)
      BY <1>2, <1>5, <2>1, <2>4 DEF Accounted
    <3>3. QED
      BY <1>4, <1>5, <2>1, <2>2, <2>4, <3>1, <3>2 DEF Safe, MoneyInv
  <2>5. QED
    BY <2>3, <2>4
<1>13. QED
  BY <1>8, <1>10, <1>11, <1>12 DEF Safe

LEMMA InsertSafe ==
  ASSUME TypeInv, Safe, NEW q \in Requests, NEW r \in Invoices, InsertRevision(q, r)
  PROVE  Safe'
<1>1. PICK i \in Invoices : i = doc[q]
  BY AtWork DEF InsertRevision
<1>2. /\ pc[q] = "revise" /\ status[r] = Absent /\ r # i /\ status[i] # Absent
      /\ op[q] \in {"pay", "discount", "credit"} /\ amount[q] <= total[i]
      /\ status'[r] = "draft" /\ source'[r] = i /\ total'[r] = total[i] - amount[q]
      /\ \A j \in Invoices : j # r =>
           status'[j] = status[j] /\ source'[j] = source[j] /\ total'[j] = total[j]
      /\ UNCHANGED <<collected, overlapped, torn>>
  BY <1>1, Inserts
<1>3. PICK next, what : /\ Moves(q, next, what, r, NoStatus, amount[q])
                        /\ next \in {"reread", "record"}
                        /\ op[q] = "pay" => next = "reread" /\ what = "send"
                        /\ op[q] # "pay" => next = "record" /\ what = op[q]
  BY <1>1, Inserts
<1>4. /\ pc'[q] = next /\ op'[q] = what /\ doc'[q] = r /\ to'[q] = NoStatus
      /\ \A p \in Requests : p # q =>
           pc'[p] = pc[p] /\ op'[p] = op[p] /\ doc'[p] = doc[p] /\ amount'[p] = amount[p]
  BY <1>3, MovedTo
<1>5. Grows /\ overlapped \subseteq overlapped'
  BY <1>2 DEF Grows
<1>6. Works(q, i)
  BY <1>1, <1>2 DEF Works
<1>7. ASSUME NEW j \in Invoices PROVE source[j] # r
  <2>1. Row(j) /\ source[j] \in Invoices \union {NoInvoice}
    BY DatabaseType DEF TypeInv
  <2>2. QED
    BY <1>2, <2>1, DatabaseType DEF Row
<1>8. source[r] = NoInvoice /\ collected[r] = 0 /\ NoInvoice \notin Invoices
  BY <1>2, DatabaseType DEF Row, TypeInv
<1>9. ASSUME NEW p \in Requests PROVE ~Works(p, r)
  <2>1. pc[p] # "idle" => doc[p] # r /\ doc[p] \in Invoices
    BY <1>2, AtWork DEF Shape
  <2>2. QED
    BY <1>7, <2>1 DEF Works
<1>10. AloneInv'
  <2>1. \A j \in Invoices : Works(q, j)' => j = r \/ j = i
    BY <1>2, <1>4 DEF Works
  <2>2. \A j \in Invoices \ overlapped' : \A p \in Requests : p # q => ~(Works(q, j)' /\ Works(p, j))
    BY <1>2, <1>6, <1>9, <2>1 DEF Safe, AloneInv
  <2>3. QED
    BY <1>3, <1>5, <2>2, AloneKept DEF Safe
<1>11. CurrentInv'
  <2>1. Current(q)'
    BY <1>2, <1>3, <1>4 DEF Current
  <2>2. \A j \in Invoices : status[j] # Absent /\ status'[j] # status[j] => FALSE
    BY <1>2
  <2>3. QED
    BY <1>3, <1>5, <2>1, <2>2, OthersCurrent DEF Safe
<1>12. i \notin overlapped =>
         status[i] = IF op[q] = "pay" THEN "partially_paid" ELSE "dispute_acknowledged"
  BY <1>1, <1>2 DEF Safe, CurrentInv, Current
<1>13. RevisedInv'
  <2> SUFFICES ASSUME NEW j \in Invoices, source'[j] # NoInvoice, source'[j] \notin overlapped'
               PROVE  status'[source'[j]] \in
                        {"partially_paid", "dispute_acknowledged", "accredited", "archived"}
    BY DEF RevisedInv
  <2>1. CASE j = r
    BY <1>2, <1>12, <2>1
  <2>2. CASE j # r
    <3>1. source'[j] = source[j] /\ source[j] \in Invoices /\ source[j] # r
      BY <1>2, <1>7, <2>2, DatabaseType
    <3>2. QED
      BY <1>2, <3>1 DEF Safe, RevisedInv
  <2>3. QED
    BY <2>1, <2>2
<1>14. MoneyInv'
  <2> SUFFICES ASSUME NEW j \in Invoices \ overlapped', ~Torn(j)'
               PROVE  /\ (\A p \in Requests : ~Paying(p, j)') => Accounted(j)'
                      /\ \A p \in Requests : Paying(p, j)' => collected'[j] = amount'[p] /\ Revisions(j)' = {}
    BY DEF MoneyInv
  <2>1. j \notin overlapped /\ ~Torn(j)
    BY <1>2 DEF Torn
  <2>2. \A p \in Requests : p # q => (Paying(p, j)' <=> Paying(p, j))
    BY <1>4 DEF Paying
  <2>3. ~Paying(q, j)'
    BY <1>3, <1>4 DEF Paying
  <2>4. CASE j = r
    <3>1. \A p \in Requests : ~Paying(p, r)
      BY <1>9 DEF Paying, Works
    <3>2. Revisions(r)' = {}
      BY <1>2, <1>7 DEF Revisions
    <3>3. Accounted(r)'
      BY <1>2, <1>8, <3>2 DEF Accounted
    <3>4. QED
      BY <2>2, <2>3, <2>4, <3>1, <3>3
  <2>5. CASE j = i
    <3>1. \A p \in Requests : ~Paying(p, i)'
      BY <1>6, <2>1, <2>2, <2>3, <2>5 DEF Safe, AloneInv, Works, Paying
    <3>2. CASE op[q] = "pay"
      <4>1. Paying(q, i)
        BY <1>1, <1>2, <3>2 DEF Paying
      <4>2. collected[i] = amount[q] /\ Revisions(i) = {}
        BY <2>1, <2>5, <4>1 DEF Safe, MoneyInv
      <4>3. Revisions(i)' = {r}
        BY <1>2, <4>2 DEF Revisions
      <4>4. status'[i] = "partially_paid"
        BY <1>2, <1>12, <2>1, <2>5, <3>2
      <4>5. total'[r] + collected'[i] = total'[i]
        BY <1>2, <4>2, DatabaseType
      <4>6. Accounted(i)'
        BY <4>3, <4>4, <4>5 DEF Accounted
      <4>7. QED
        BY <2>5, <3>1, <4>6
    <3>3. CASE op[q] # "pay"
      <4>1. status'[i] = "dispute_acknowledged"
        BY <1>2, <1>12, <2>1, <2>5, <3>3
      <4>2. Accounted(i)'
        BY <4>1 DEF Accounted
      <4>3. QED
        BY <2>5, <3>1, <4>2
    <3>4. QED
      BY <3>2, <3>3
  <2>6. CASE j # r /\ j # i
    <3>1. Revisions(j)' = Revisions(j)
      BY <1>2, <1>8, <2>6 DEF Revisions
    <3>2. r \notin Revisions(j)
      BY <1>8 DEF Revisions
    <3>3. Accounted(j)' <=> Accounted(j)
      BY <1>2, <2>6, <3>1, <3>2 DEF Accounted
    <3>4. ~Paying(q, j)
      BY <1>1, <2>6 DEF Paying
    <3>5. QED
      BY <1>2, <1>4, <2>1, <2>2, <2>3, <3>1, <3>3, <3>4 DEF Safe, MoneyInv
  <2>7. QED
    BY <2>4, <2>5, <2>6
<1>15. QED
  BY <1>10, <1>11, <1>13, <1>14 DEF Safe

\* The status that is written may follow the one it replaces.
LEMMA WritesLegal ==
  ASSUME TypeInv, Safe, NEW q \in Requests, WriteStatus(q), NEW i \in Invoices, i = doc[q],
         i \notin overlapped
  PROVE  /\ to[q] \in LegalNext[status[i]]
         /\ status[i] \in {"draft", "sent", "overdue", "disputed", "dispute_acknowledged", "paid",
                          "partially_paid", "accredited"}
         /\ \A p \in Requests : p # q => ~Works(p, i)
<1>1. pc[q] = "write"
  BY DEF WriteStatus
<1>2. to[q] \in LegalNext[status[i]]
  BY <1>1 DEF Safe, CurrentInv, Current
<1>3. status[i] \in Status
  BY <1>1, AtWork
<1>4. \A p \in Requests : p # q => ~Works(p, i)
  BY <1>1 DEF Safe, AloneInv, Works
<1>5. QED
  BY <1>2, <1>3, <1>4 DEF LegalNext, Status

LEMMA WriteSafe ==
  ASSUME TypeInv, Safe, NEW q \in Requests, WriteStatus(q)
  PROVE  Safe'
<1>1. PICK i \in Invoices : i = doc[q]
  BY AtWork DEF WriteStatus
<1>2. /\ pc[q] = "write" /\ to[q] \in Status /\ status[i] # Absent
      /\ status'[i] = to[q] /\ \A j \in Invoices : j # i => status'[j] = status[j]
      /\ UNCHANGED <<source, total, collected, overlapped, torn>>
  BY <1>1, Writes
<1>3. PICK next, what, k, a :
        /\ Moves(q, next, what, k, NoStatus, a)
        /\ \/ /\ op[q] = "pay" /\ to[q] = "partially_paid"
              /\ next = "revise" /\ what = "pay" /\ k = i /\ a = amount[q]
           \/ /\ op[q] \in {"dispute", "deny"} /\ next = "record" /\ what = op[q] /\ k = i
           \/ /\ op[q] = "sendCredit" /\ next = "reread" /\ what = "accredit" /\ k = source[i]
           \/ /\ ~(op[q] = "pay" /\ to[q] = "partially_paid") /\ next = "idle" /\ what = "none"
  <2>1. CASE op[q] = "pay" /\ to[q] = "partially_paid" /\ Moves(q, "revise", op[q], i, NoStatus, amount[q])
    BY <2>1
  <2>2. CASE op[q] \in {"dispute", "deny"} /\ Moves(q, "record", op[q], i, NoStatus, amount[q])
    BY <2>2
  <2>3. CASE op[q] = "sendCredit" /\ Moves(q, "reread", "accredit", source[i], NoStatus, amount[q])
    BY <2>3
  <2>4. CASE ~(op[q] = "pay" /\ to[q] = "partially_paid") /\ Finish(q)
    BY <2>4, FinishMoves
  <2>5. QED
    BY <1>1, <2>1, <2>2, <2>3, <2>4, Writes
<1>4. /\ pc'[q] = next /\ op'[q] = what /\ doc'[q] = k /\ to'[q] = NoStatus /\ amount'[q] = a
      /\ \A p \in Requests : p # q =>
           pc'[p] = pc[p] /\ op'[p] = op[p] /\ doc'[p] = doc[p] /\ amount'[p] = amount[p]
  BY <1>3, MovedTo
<1>5. Grows /\ overlapped \subseteq overlapped'
  BY <1>2, DatabaseType DEF Grows
<1>6. i \notin overlapped =>
        /\ to[q] \in LegalNext[status[i]]
        /\ status[i] \in {"draft", "sent", "overdue", "disputed", "dispute_acknowledged", "paid",
                         "partially_paid", "accredited"}
        /\ \A p \in Requests : p # q => ~Works(p, i)
  BY <1>1, WritesLegal
<1>7. Fits("write", op[q], to[q])
  BY <1>2, AtWork DEF Shape
<1>8. AloneInv'
  <2>1. ASSUME NEW j \in Invoices, Works(q, j)' PROVE Works(q, j)
    BY <1>1, <1>2, <1>3, <1>4, <2>1 DEF Works, FollowsUp
  <2>2. \A j \in Invoices \ overlapped' : \A p \in Requests : p # q => ~(Works(q, j)' /\ Works(p, j))
    BY <1>2, <2>1 DEF Safe, AloneInv
  <2>3. QED
    BY <1>3, <1>5, <2>2, AloneKept DEF Safe
<1>9. CurrentInv'
  <2>1. Current(q)'
    BY <1>2, <1>3, <1>4, <1>7 DEF Current, Fits
  <2>2. QED
    BY <1>1, <1>2, <1>3, <1>5, <2>1, OthersCurrent DEF Safe
<1>10. RevisedInv'
  <2> SUFFICES ASSUME NEW j \in Invoices, source'[j] # NoInvoice, source'[j] \notin overlapped'
               PROVE  status'[source'[j]] \in
                        {"partially_paid", "dispute_acknowledged", "accredited", "archived"}
    BY DEF RevisedInv
  <2>1. /\ source'[j] = source[j] /\ source[j] \in Invoices
        /\ status[source[j]] \in {"partially_paid", "dispute_acknowledged", "accredited", "archived"}
    BY <1>2, DatabaseType DEF Safe, RevisedInv
  <2>2. CASE source[j] = i
    <3>1. to[q] \in LegalNext[status[i]]
      BY <1>2, <1>6, <2>1, <2>2
    <3>2. QED
      BY <1>2, <2>1, <2>2, <3>1 DEF LegalNext, Status
  <2>3. CASE source[j] # i
    BY <1>2, <2>1, <2>3
  <2>4. QED
    BY <2>2, <2>3
<1>11. MoneyInv'
  <2> SUFFICES ASSUME NEW j \in Invoices \ overlapped', ~Torn(j)'
               PROVE  /\ (\A p \in Requests : ~Paying(p, j)') => Accounted(j)'
                      /\ \A p \in Requests : Paying(p, j)' => collected'[j] = amount'[p] /\ Revisions(j)' = {}
    BY DEF MoneyInv
  <2>1. j \notin overlapped /\ ~Torn(j) /\ Revisions(j)' = Revisions(j)
    BY <1>2 DEF Torn, Revisions
  <2>2. \A p \in Requests : p # q => (Paying(p, j)' <=> Paying(p, j))
    BY <1>4 DEF Paying
  <2>3. CASE j # i
    <3>1. ~Paying(q, j)' /\ ~Paying(q, j)
      BY <1>1, <1>3, <1>4, <2>3 DEF Paying
    <3>2. Accounted(j)' <=> Accounted(j)
      BY <1>2, <2>1, <2>3 DEF Accounted
    <3>3. QED
      BY <1>2, <1>4, <2>1, <2>2, <3>1, <3>2 DEF Safe, MoneyInv
  <2>4. CASE j = i
    <3>1. \A p \in Requests : p # q => ~Paying(p, i) /\ ~Paying(p, i)'
      BY <1>6, <2>1, <2>2, <2>4 DEF Works, Paying
    <3>2. CASE op[q] = "pay"
      <4>1. Paying(q, i)
        BY <1>1, <1>2, <3>2 DEF Paying
      <4>2. collected[i] = amount[q] /\ Revisions(i) = {}
        BY <2>1, <2>4, <4>1 DEF Safe, MoneyInv
      <4>3. CASE to[q] = "partially_paid"
        <5>1. Paying(q, i)' /\ amount'[q] = amount[q]
          BY <1>3, <1>4, <3>2, <4>3 DEF Paying
        <5>2. QED
          BY <1>2, <2>1, <2>4, <3>1, <4>2, <5>1
      <4>4. CASE to[q] = "paid"
        <5>1. amount[q] = total[i]
          <6>1. Counts(q) /\ Shape(q)
            BY <1>2, <3>2, AtWork DEF Counts
          <6>2. QED
            BY <1>1, <4>4, <6>1 DEF Shape
        <5>2. ~Paying(q, i)'
          BY <1>3, <1>4, <3>2, <4>4 DEF Paying
        <5>3. Accounted(i)'
          BY <1>2, <2>1, <2>4, <4>2, <4>4, <5>1 DEF Accounted
        <5>4. QED
          BY <2>4, <3>1, <5>2, <5>3
      <4>5. QED
        BY <1>7, <3>2, <4>3, <4>4 DEF Fits
    <3>3. CASE op[q] # "pay"
      <4>1. ~Paying(q, i)' /\ ~Paying(q, i)
        BY <1>3, <1>4, <3>3 DEF Paying
      <4>2. Accounted(i)
        BY <2>1, <2>4, <3>1, <4>1 DEF Safe, MoneyInv
      <4>3. to[q] \notin {"paid", "partially_paid"}
        BY <1>7, <3>3 DEF Fits
      <4>4. to[q] \in {"draft", "sent", "overdue", "disputed", "demoted"} =>
              status[i] \in {"draft", "sent", "overdue", "disputed"}
        BY <1>6, <2>1, <2>4 DEF LegalNext, Status
      <4>5. Accounted(i)'
        BY <1>2, <2>1, <2>4, <4>2, <4>3, <4>4 DEF Accounted
      <4>6. QED
        BY <2>4, <3>1, <4>1, <4>5
    <3>4. QED
      BY <3>2, <3>3
  <2>5. QED
    BY <2>3, <2>4
<1>12. QED
  BY <1>8, <1>9, <1>10, <1>11 DEF Safe

-----------------------------------------------------------------------------
(* The invariant, and what follows from it *)

LEMMA InitInv == Init => IInv
<1> SUFFICES ASSUME Init PROVE IInv
  OBVIOUS
<1>1. TypeInv
  BY InitType
<1>2. \A q \in Requests : pc[q] = "idle"
  BY DEF Init
<1>3. \A i \in Invoices : /\ source[i] = NoInvoice /\ collected[i] = 0 /\ Revisions(i) = {}
                         /\ status[i] \in {"draft", Absent}
  <2>1. NoInvoice \notin Invoices
    BY InvoiceAssumption
  <2>2. QED
    BY <2>1 DEF Init, Revisions
<1>4. AloneInv /\ CurrentInv /\ RevisedInv
  BY <1>2, <1>3 DEF AloneInv, Works, CurrentInv, RevisedInv
<1>5. MoneyInv
  BY <1>2, <1>3 DEF MoneyInv, Paying, Accounted, Absent
<1>6. QED
  BY <1>1, <1>4, <1>5 DEF IInv

LEMMA NextInv == IInv /\ [Next]_vars => IInv'
<1> SUFFICES ASSUME TypeInv, Safe, [Next]_vars PROVE TypeInv' /\ Safe'
  BY DEF IInv, Safe
<1>1. TypeInv'
  BY NextType
<1>2. ASSUME NEW q \in Requests, NEW i \in Invoices, Start(q, i) PROVE Safe'
  BY <1>2, StartStarts, StartSafe
<1>3. ASSUME NEW q \in Requests, Continue(q) PROVE Safe'
  BY <1>3, CheckSafe, PaymentSafe, EmailSafe, RereadSafe, InsertSafe, WriteSafe, RecordSafe, DieSafe
     DEF Continue
<1>4. ASSUME UNCHANGED <<status, source, total, collected, audit>>, UNCHANGED requests, UNCHANGED history
      PROVE  Safe'
  <2>1. AloneInv'
    BY <1>4 DEF Safe, AloneInv, Works, FollowsUp, requests, history
  <2>2. CurrentInv'
    BY <1>4 DEF Safe, CurrentInv, Current, requests, history
  <2>3. RevisedInv'
    BY <1>4 DEF Safe, RevisedInv, history
  <2>4. MoneyInv'
    BY <1>4 DEF Safe, MoneyInv, Paying, Accounted, Revisions, Torn, requests, history
  <2>5. QED
    BY <2>1, <2>2, <2>3, <2>4 DEF Safe
<1>5. ASSUME NEW i \in Invoices, DueDatePasses(i) PROVE Safe'
  BY <1>4, <1>5 DEF DueDatePasses
<1>6. CASE UNCHANGED vars
  BY <1>1, <1>4, <1>6 DEF vars, database
<1>7. QED
  BY <1>1, <1>2, <1>3, <1>5, <1>6 DEF Next

\* The invariant is inductive.
THEOREM Inductive == Spec => []IInv
BY InitInv, NextInv, PTL DEF Spec

\* What an invoice collected, its status and its revision account for its
\* total, except in the middle of a request and after two requests overlapped
\* on it or one ended half way.
THEOREM Money == Spec => []MoneyAccounted
<1>1. IInv => MoneyAccounted
  <2> SUFFICES ASSUME IInv, NEW i \in Invoices \ overlapped, Untouched(i), ~Torn(i)
               PROVE  Accounted(i)
    BY DEF MoneyAccounted, Accounted
  <2>1. \A q \in Requests : ~Paying(q, i)
    BY DEF Untouched, Touches, Paying
  <2>2. QED
    BY <2>1 DEF IInv, MoneyInv
<1>2. QED
  BY <1>1, Inductive, PTL

\* An invoice that has a revision accepts no payment, even if a request died on
\* it; only requests that overlap can bring that about.
THEOREM CollectOnce == Spec => []NeverCollectibleTwice
<1>1. IInv => NeverCollectibleTwice
  <2> SUFFICES ASSUME IInv, NEW i \in Invoices \ overlapped, NEW r \in Invoices, source[r] = i
               PROVE  status[i] \notin {"draft", "sent", "overdue"}
    BY DEF NeverCollectibleTwice, Revisions
  <2>1. i # NoInvoice
    BY DatabaseType DEF IInv
  <2>2. QED
    BY <2>1 DEF IInv, RevisedInv
<1>2. QED
  BY <1>1, Inductive, PTL

\* A step gives an invoice that did not overlap a status that may follow its own.
LegalStep(i) ==
  \/ status'[i] = status[i]
  \/ status[i] = Absent /\ status'[i] = "draft"
  \/ status[i] # Absent /\ status'[i] \in LegalNext[status[i]]

LEMMA StepsLegal ==
  ASSUME IInv, Next, NEW i \in Invoices \ overlapped'
  PROVE  LegalStep(i)
<1> USE DEF LegalStep
<1>1. TypeInv /\ Safe
  BY DEF IInv, Safe
<1>2. ASSUME NEW q \in Requests, NEW j \in Invoices, Start(q, j) PROVE status' = status
  BY <1>1, <1>2, StartStarts DEF Started, database
<1>3. ASSUME NEW q \in Requests, NEW r \in Invoices, InsertRevision(q, r) PROVE LegalStep(i)
  <2>1. status[r] = Absent /\ status' = [status EXCEPT ![r] = "draft"]
    BY <1>3 DEF InsertRevision
  <2>2. QED
    BY <1>1, <2>1, DatabaseType
<1>4. ASSUME NEW q \in Requests, WriteStatus(q) PROVE LegalStep(i)
  <2>1. overlapped' = overlapped
    BY <1>4 DEF WriteStatus, history
  <2>2. PICK j \in Invoices : j = doc[q]
    BY <1>1, <1>4, AtWork DEF WriteStatus
  <2>3. status'[j] = to[q] /\ (i # j => status'[i] = status[i])
    BY <1>1, <1>4, <2>2, Writes
  <2>4. i = j => to[q] \in LegalNext[status[i]] /\ status[i] # Absent
    BY <1>1, <1>4, <2>1, <2>2, WritesLegal DEF Absent
  <2>5. QED
    BY <2>3, <2>4
<1>5. ASSUME NEW q \in Requests, Continue(q) PROVE LegalStep(i)
  <2>1. CASE CheckAudit(q) \/ Reread(q) \/ Die(q)
    BY <2>1 DEF CheckAudit, Reread, Die, database
  <2>2. CASE InsertPayment(q)
    BY <2>2 DEF InsertPayment
  <2>3. ASSUME NEW ok \in BOOLEAN, EmailAcknowledgment(q, ok) \/ RecordEvent(q, ok)
        PROVE  status' = status
    BY <2>3 DEF EmailAcknowledgment, RecordEvent
  <2>4. QED
    BY <1>3, <1>4, <1>5, <2>1, <2>2, <2>3 DEF Continue
<1>6. ASSUME NEW j \in Invoices, DueDatePasses(j) PROVE status' = status
  BY <1>6 DEF DueDatePasses
<1>7. QED
  BY <1>2, <1>5, <1>6 DEF Next

\* Whatever requests do to it in turn, dying or not, the status of an invoice that
\* no two of them worked on at once follows the table of legal transitions.
THEOREM LegalInvoices == Spec => FollowsLegalTransitions
<1> DEFINE A == \A i \in Invoices \ overlapped' :
                  \/ status'[i] = status[i]
                  \/ status[i] = Absent /\ status'[i] = "draft"
                  \/ status[i] # Absent /\ status'[i] \in LegalNext[status[i]]
<1>1. IInv /\ [Next]_vars => [A]_vars
  BY StepsLegal DEF LegalStep
<1>2. Spec => [][A]_vars
  BY <1>1, Inductive, PTL DEF Spec
<1>3. QED
  BY <1>2 DEF FollowsLegalTransitions

-----------------------------------------------------------------------------
(* How much more than the total may be collected *)

\* A request that may collect money of its invoice yet, or have others collect it
\* again: it has not paid so far, or will write a status that payments follow.
MayCollect(q) ==
  \/ op[q] \in {"send", "dispute", "deny", "overdue"}
  \/ op[q] = "pay" /\ pc[q] = "payment"
  \/ op[q] = "discount" /\ pc[q] = "record"

Collectors(i) == {q \in Requests : doc[q] = i /\ MayCollect(q)}

\* It has paid, and the status does not tell yet.
Untold(q) == op[q] = "pay" /\ pc[q] = "write"

\* No payment follows these, whoever begins.
Ended == {"paid", "partially_paid", "dispute_acknowledged", "accredited", "archived", "demoted"}

\* Each collector may collect the total once; and an invoice nobody works on that
\* may be paid has collected no more than the mishaps account for.
Bounded(i) ==
  /\ IsFiniteSet(Collectors(i))
  /\ collected[i] + total[i] * Cardinality(Collectors(i)) <= total[i] * (1 + mishaps)
  /\ /\ Collectors(i) = {} /\ status[i] \notin Ended
     /\ \A q \in Requests : doc[q] = i => ~Untold(q)
     => collected[i] <= total[i] * mishaps

PaidInv == \A i \in Invoices : Bounded(i)

\* The arithmetic of one collector or mishap more or less.
LEMMA Shares ==
  ASSUME NEW c \in Nat, NEW t \in Nat, NEW n \in Nat, NEW m \in Nat, c + t * n <= t * (1 + m)
  PROVE  /\ c + t * n <= t * (1 + (m + 1))
         /\ c + t * (n + 1) <= t * (1 + (m + 1))
         /\ c <= t * (m + 1)
         /\ n >= 1 => c + t + t * (n - 1) <= t * (1 + m) /\ c + t * (n - 1) <= t * (1 + (m + 1))
         /\ n = 1 => c <= t * m /\ c <= t * (m + 1)
<1>1. t * n \in Nat /\ t * m \in Nat
  OBVIOUS
<1>2. t * (1 + m) = t + t * m /\ t * (m + 1) = t + t * m /\ t * (1 + (m + 1)) = t + t + t * m
  OBVIOUS
<1>3. t * (n + 1) = t * n + t /\ t * (n - 1) = t * n - t
  OBVIOUS
<1>4. n = 1 => t * n = t
  OBVIOUS
<1>5. QED
  BY <1>1, <1>2, <1>3, <1>4

\* Who collects after one request has moved.
LEMMA CollectorsMove ==
  ASSUME TypeInv, NEW q \in Requests, NEW next, NEW what, NEW i, NEW target, NEW a,
         Moves(q, next, what, i, target, a), NEW j \in Invoices
  PROVE  /\ Collectors(j)' = IF q \in Collectors(j)' THEN Collectors(j) \union {q}
                                                     ELSE Collectors(j) \ {q}
         /\ \A p \in Requests : p # q => doc'[p] = doc[p] /\ (Untold(p)' <=> Untold(p))
<1>1. \A p \in Requests : p # q => /\ p \in Collectors(j)' <=> p \in Collectors(j)
                                   /\ doc'[p] = doc[p] /\ (Untold(p)' <=> Untold(p))
  BY MovedTo DEF Collectors, MayCollect, Untold
<1>2. Collectors(j) \subseteq Requests /\ Collectors(j)' \subseteq Requests
  BY DEF Collectors
<1>3. QED
  BY <1>1, <1>2

\* A move after which nobody collects who did not before.
LEMMA BoundedKept ==
  ASSUME TypeInv, TypeInv', NEW q \in Requests, NEW next, NEW what, NEW i, NEW target, NEW a,
         Moves(q, next, what, i, target, a), NEW j \in Invoices, Bounded(j),
         total'[j] = total[j], collected'[j] = collected[j], mishaps' \in {mishaps, mishaps + 1},
         q \in Collectors(j)' => q \in Collectors(j),
         status'[j] = status[j] \/ status'[j] \in Ended \/ q \in Collectors(j),
         Untold(q) /\ doc[q] = j => status'[j] \in Ended \/ mishaps' = mishaps + 1
  PROVE  Bounded(j)'
<1> DEFINE n == Cardinality(Collectors(j))
<1>1. /\ collected[j] \in Nat /\ total[j] \in Nat /\ mishaps \in Nat
      /\ IsFiniteSet(Collectors(j)) /\ n \in Nat
      /\ collected[j] + total[j] * n <= total[j] * (1 + mishaps)
  BY DatabaseType, FS_CardinalityType DEF Bounded
<1>2. CASE q \in Collectors(j) /\ q \notin Collectors(j)'
  <2>1. Collectors(j)' = Collectors(j) \ {q}
    BY <1>2, CollectorsMove
  <2>2. IsFiniteSet(Collectors(j)') /\ Cardinality(Collectors(j)') = n - 1
    BY <1>1, <1>2, <2>1, FS_RemoveElement
  <2>3. n >= 1
    BY <1>1, <1>2, FS_EmptySet
  <2>4. collected'[j] + total'[j] * Cardinality(Collectors(j)') <= total'[j] * (1 + mishaps')
    BY <1>1, <2>2, <2>3, Shares
  <2>5. Collectors(j)' = {} => n = 1
    BY <1>1, <2>2, FS_EmptySet
  <2>6. Collectors(j)' = {} => collected'[j] <= total'[j] * mishaps'
    BY <1>1, <2>5, Shares
  <2>7. QED
    BY <2>2, <2>4, <2>6 DEF Bounded
<1>3. CASE ~(q \in Collectors(j) /\ q \notin Collectors(j)')
  <2>1. Collectors(j)' = Collectors(j)
    <3>1. q \in Collectors(j)' <=> q \in Collectors(j)
      BY <1>3
    <3>2. Collectors(j)' = IF q \in Collectors(j)' THEN Collectors(j) \union {q}
                                                   ELSE Collectors(j) \ {q}
      BY CollectorsMove
    <3>3. QED
      BY <3>1, <3>2
  <2>2. collected'[j] + total'[j] * Cardinality(Collectors(j)') <= total'[j] * (1 + mishaps')
    BY <1>1, <2>1, Shares
  <2>3. ASSUME Collectors(j)' = {}, status'[j] \notin Ended,
               \A p \in Requests : doc'[p] = j => ~Untold(p)'
        PROVE  collected'[j] <= total'[j] * mishaps'
    <3>1. Collectors(j) = {} /\ status[j] \notin Ended
      BY <2>1, <2>3
    <3>2. CASE Untold(q) /\ doc[q] = j
      BY <1>1, <2>3, <3>2, Shares
    <3>3. CASE ~(Untold(q) /\ doc[q] = j)
      <4>1. \A p \in Requests : doc[p] = j => ~Untold(p)
        BY <2>3, <3>3, CollectorsMove
      <4>2. collected[j] <= total[j] * mishaps
        BY <3>1, <4>1 DEF Bounded
      <4>3. total[j] * mishaps <= total[j] * (mishaps + 1)
        BY <1>1
      <4>4. QED
        BY <1>1, <4>2, <4>3
    <3>4. QED
      BY <3>2, <3>3
  <2>4. QED
    BY <1>1, <2>1, <2>2, <2>3 DEF Bounded
<1>4. QED
  BY <1>2, <1>3

\* Steps that write neither a status nor money.
LEMMA QuietPaid ==
  ASSUME TypeInv, TypeInv', PaidInv, NEW q \in Requests,
         NEW next, NEW what, NEW i, NEW target, NEW a, Moves(q, next, what, i, target, a),
         UNCHANGED <<status, total, collected>>, mishaps' \in {mishaps, mishaps + 1},
         Untold(q) => mishaps' = mishaps + 1,
         MayCollect(q)' => MayCollect(q) /\ i = doc[q]
  PROVE  PaidInv'
<1> SUFFICES ASSUME NEW j \in Invoices PROVE Bounded(j)'
  BY DEF PaidInv
<1>1. q \in Collectors(j)' => q \in Collectors(j)
  BY MovedTo DEF Collectors
<1>2. QED
  BY <1>1, BoundedKept DEF PaidInv

\* A request that begins may collect the total, or has met another.
LEMMA StartPaid ==
  ASSUME TypeInv, TypeInv', PaidInv, NEW q \in Requests, NEW i \in Invoices,
         NEW what, NEW next, NEW target, NEW a, Started(q, i, what, next, target, a)
  PROVE  PaidInv'
<1>1. /\ pc[q] = "idle" /\ Moves(q, next, what, i, target, a)
      /\ UNCHANGED <<status, total, collected>> /\ mishaps' \in {mishaps, mishaps + 1}
      /\ Shape(q)
  BY DEF Started, database, TypeInv
<1>2. ~MayCollect(q) /\ ~Untold(q) /\ doc[q] = NoInvoice /\ NoInvoice \notin Invoices
  BY <1>1, DatabaseType DEF MayCollect, Untold, Shape, Fits
<1> SUFFICES ASSUME NEW j \in Invoices PROVE Bounded(j)'
  BY DEF PaidInv
<1>3. q \notin Collectors(j)
  BY <1>2 DEF Collectors
<1>4. CASE q \notin Collectors(j)'
  BY <1>1, <1>2, <1>4, BoundedKept DEF PaidInv
<1>5. CASE q \in Collectors(j)'
  <2> DEFINE n == Cardinality(Collectors(j))
  <2>1. i = j /\ MayCollect(q)'
    BY <1>1, <1>5, MovedTo DEF Collectors
  <2>2. what \in {"send", "dispute", "deny", "overdue"} \/ (what = "pay" /\ next = "payment")
    BY <1>1, <2>1, MovedTo DEF MayCollect, Started
  <2>3. status[j] \notin Ended
    BY <2>1, <2>2 DEF Started, Fits, LegalNext, Status, NoStatus, Ended
  <2>4. /\ collected[j] \in Nat /\ total[j] \in Nat /\ mishaps \in Nat
        /\ IsFiniteSet(Collectors(j)) /\ n \in Nat
        /\ collected[j] + total[j] * n <= total[j] * (1 + mishaps)
    BY DatabaseType, FS_CardinalityType DEF Bounded, PaidInv
  <2>5. Collectors(j)' = Collectors(j) \union {q}
    BY <1>1, <1>5, CollectorsMove
  <2>6. IsFiniteSet(Collectors(j)') /\ Cardinality(Collectors(j)') = n + 1
    BY <1>3, <2>4, <2>5, FS_AddElement
  <2>7. CASE mishaps' = mishaps + 1
    BY <1>1, <1>5, <2>4, <2>6, <2>7, Shares DEF Bounded
  <2>8. CASE mishaps' = mishaps /\ \A p \in Requests : ~Touches(p, j)
    <3>1. \A p \in Requests : doc[p] = j => pc[p] = "idle"
      BY <2>8 DEF Touches
    <3>2. \A p \in Requests : doc[p] # j
      BY <3>1, DatabaseType DEF TypeInv, Shape
    <3>3. Collectors(j) = {}
      BY <3>2 DEF Collectors
    <3>4. collected[j] <= total[j] * mishaps
      BY <2>3, <3>2, <3>3 DEF PaidInv, Bounded
    <3>5. n = 0
      BY <3>3, FS_EmptySet
    <3>6. total[j] * (n + 1) = total[j] /\ total[j] * (1 + mishaps) = total[j] + total[j] * mishaps
          /\ total[j] * mishaps \in Nat
      BY SMTT(30), <2>4, <3>5
    <3>7. collected[j] + total[j] * (n + 1) <= total[j] * (1 + mishaps)
      BY <2>4, <3>4, <3>6
    <3>8. QED
      BY <1>1, <1>5, <2>6, <2>8, <3>7 DEF Bounded
  <2>9. QED
    BY <2>1, <2>7, <2>8 DEF Started
<1>6. QED
  BY <1>4, <1>5

LEMMA FinishPaid ==
  ASSUME TypeInv, TypeInv', PaidInv, NEW q \in Requests, Finish(q),
         UNCHANGED <<status, total, collected>>, mishaps' \in {mishaps, mishaps + 1},
         Untold(q) => mishaps' = mishaps + 1
  PROVE  PaidInv'
<1>1. Moves(q, "idle", "none", NoInvoice, NoStatus, 0)
  BY FinishMoves
<1>2. ~MayCollect(q)'
  BY <1>1, MovedTo DEF MayCollect
<1>3. QED
  BY <1>1, <1>2, QuietPaid

LEMMA CheckPaid ==
  ASSUME TypeInv, TypeInv', PaidInv, NEW q \in Requests, CheckAudit(q)
  PROVE  PaidInv'
<1>1. /\ UNCHANGED <<status, total, collected, mishaps>> /\ pc[q] = "check" /\ ~Untold(q)
  BY DEF CheckAudit, database, history, Untold
<1>2. CASE Finish(q)
  BY <1>1, <1>2, FinishPaid
<1>3. ASSUME NEW next \in {"email", "write", "revise"}, NEW target,
             Turn(q, next, op[q], doc[q], target)
      PROVE  PaidInv'
  <2>1. Moves(q, next, op[q], doc[q], target, amount[q])
    BY <1>3, TurnMoves
  <2>2. MayCollect(q)' => MayCollect(q)
    BY <2>1, MovedTo DEF MayCollect
  <2>3. QED
    BY <1>1, <2>1, <2>2, QuietPaid
<1>4. QED
  BY <1>2, <1>3 DEF CheckAudit

LEMMA PaymentPaid ==
  ASSUME TypeInv, TypeInv', PaidInv, NEW q \in Requests, InsertPayment(q)
  PROVE  PaidInv'
<1>1. PICK i \in Invoices : i = doc[q]
  BY AtWork DEF InsertPayment
<1>2. /\ pc[q] = "payment" /\ UNCHANGED <<status, total, mishaps>>
      /\ collected' = [collected EXCEPT ![i] = @ + amount[q]]
      /\ Turn(q, "write", op[q], i, to[q])
  BY <1>1 DEF InsertPayment, history
<1>3. /\ Moves(q, "write", op[q], i, to[q], amount[q])
      /\ amount[q] \in Nat /\ amount[q] <= total[i] /\ op[q] = "pay"
  BY <1>1, <1>2, TurnMoves, AtWork DEF Shape, Counts, Fits
<1>4. ~MayCollect(q)' /\ ~Untold(q) /\ MayCollect(q) /\ Untold(q)' /\ doc'[q] = i
  BY <1>2, <1>3, MovedTo DEF MayCollect, Untold
<1> SUFFICES ASSUME NEW j \in Invoices PROVE Bounded(j)'
  BY DEF PaidInv
<1>5. q \notin Collectors(j)'
  BY <1>4 DEF Collectors
<1>6. CASE j # i
  <2>1. collected'[j] = collected[j]
    BY <1>2, <1>6, DatabaseType
  <2>2. QED
    BY <1>2, <1>3, <1>4, <1>5, <2>1, BoundedKept DEF PaidInv
<1>7. CASE j = i
  <2> DEFINE n == Cardinality(Collectors(j))
  <2>1. /\ collected[j] \in Nat /\ total[j] \in Nat /\ mishaps \in Nat
        /\ IsFiniteSet(Collectors(j)) /\ n \in Nat
        /\ collected[j] + total[j] * n <= total[j] * (1 + mishaps)
    BY DatabaseType, FS_CardinalityType DEF Bounded, PaidInv
  <2>2. q \in Collectors(j)
    BY <1>1, <1>4, <1>7 DEF Collectors
  <2>3. Collectors(j)' = Collectors(j) \ {q}
    BY <1>3, <1>5, CollectorsMove
  <2>4. IsFiniteSet(Collectors(j)') /\ Cardinality(Collectors(j)') = n - 1 /\ n >= 1
    BY <2>1, <2>2, <2>3, FS_RemoveElement, FS_EmptySet
  <2>5. collected[j] + total[j] + total[j] * (n - 1) <= total[j] * (1 + mishaps)
    BY <2>1, <2>4, Shares
  <2>6. collected'[j] = collected[j] + amount[q]
    BY <1>2, <1>7, DatabaseType
  <2>7. total[j] * (n - 1) \in Int /\ total[j] * (1 + mishaps) \in Int
    BY <2>1
  <2>8. collected'[j] + total[j] * (n - 1) <= total[j] * (1 + mishaps)
    BY <1>3, <1>7, <2>1, <2>5, <2>6, <2>7
  <2>9. QED
    BY <1>2, <1>4, <1>7, <2>4, <2>8 DEF Bounded
<1>8. QED
  BY <1>6, <1>7

LEMMA EmailPaid ==
  ASSUME TypeInv, TypeInv', PaidInv, NEW q \in Requests, NEW ok \in BOOLEAN,
         EmailAcknowledgment(q, ok)
  PROVE  PaidInv'
<1>1. /\ UNCHANGED <<status, total, collected, mishaps>> /\ pc[q] = "email" /\ ~Untold(q)
  BY DEF EmailAcknowledgment, history, Untold
<1>2. CASE Finish(q)
  BY <1>1, <1>2, FinishPaid
<1>3. CASE Turn(q, "reread", op[q], doc[q], NoStatus)
  <2>1. Moves(q, "reread", op[q], doc[q], NoStatus, amount[q])
    BY <1>3, TurnMoves
  <2>2. MayCollect(q)' => MayCollect(q)
    BY <2>1, MovedTo DEF MayCollect
  <2>3. QED
    BY <1>1, <2>1, <2>2, QuietPaid
<1>4. QED
  BY <1>2, <1>3 DEF EmailAcknowledgment

LEMMA RereadPaid ==
  ASSUME TypeInv, TypeInv', PaidInv, NEW q \in Requests, Reread(q)
  PROVE  PaidInv'
<1>1. /\ UNCHANGED <<status, total, collected, mishaps>> /\ pc[q] = "reread" /\ ~Untold(q)
  BY DEF Reread, database, history, Untold
<1>2. CASE Finish(q)
  BY <1>1, <1>2, FinishPaid
<1>3. CASE Turn(q, "write", op[q], doc[q], Planned(op[q]))
  <2>1. Moves(q, "write", op[q], doc[q], Planned(op[q]), amount[q])
    BY <1>3, TurnMoves
  <2>2. MayCollect(q)' => MayCollect(q)
    BY <2>1, MovedTo DEF MayCollect
  <2>3. QED
    BY <1>1, <2>1, <2>2, QuietPaid
<1>4. QED
  BY <1>2, <1>3 DEF Reread

\* A revision begins with nothing collected and one collector at most.
LEMMA InsertPaid ==
  ASSUME TypeInv, TypeInv', PaidInv, NEW q \in Requests, NEW r \in Invoices, InsertRevision(q, r)
  PROVE  PaidInv'
<1>1. PICK i \in Invoices : i = doc[q]
  BY AtWork DEF InsertRevision
<1>2. /\ pc[q] = "revise" /\ status[r] = Absent /\ UNCHANGED <<collected, mishaps>>
      /\ \A j \in Invoices : j # r => status'[j] = status[j] /\ total'[j] = total[j]
      /\ op[q] \in {"pay", "discount", "credit"}
  BY <1>1, Inserts
<1>3. PICK next, what : Moves(q, next, what, r, NoStatus, amount[q])
  BY <1>1, Inserts
<1>4. ~MayCollect(q) /\ ~Untold(q)
  BY <1>2 DEF MayCollect, Untold
<1> SUFFICES ASSUME NEW j \in Invoices PROVE Bounded(j)'
  BY DEF PaidInv
<1>5. CASE j # r
  <2>1. q \notin Collectors(j)'
    BY <1>3, <1>5, MovedTo DEF Collectors
  <2>2. QED
    BY <1>2, <1>3, <1>4, <1>5, <2>1, BoundedKept DEF PaidInv
<1>6. CASE j = r
  <2>1. Collectors(j) = {}
    BY <1>2, <1>6, DatabaseType, AtWork DEF Collectors, MayCollect, Shape, Fits, TypeInv
  <2>2. Collectors(j)' \subseteq {q}
    BY <1>3, <2>1, CollectorsMove
  <2>3. /\ IsFiniteSet({q}) /\ Cardinality({q}) = 1 /\ IsFiniteSet({}) /\ Cardinality({}) = 0
    BY FS_Singleton, FS_EmptySet
  <2>4. IsFiniteSet(Collectors(j)') /\ Cardinality(Collectors(j)') \in {0, 1}
    <3>1. Collectors(j)' = {} \/ Collectors(j)' = {q}
      BY <2>2
    <3>2. QED
      BY <2>3, <3>1
  <2>5. collected'[j] = 0 /\ total'[j] \in Nat /\ mishaps' \in Nat
    BY <1>2, <1>6, DatabaseType DEF Row, TypeInv, TypeOK
  <2>6. total'[j] * mishaps' \in Nat /\ total'[j] * (1 + mishaps') = total'[j] + total'[j] * mishaps'
        /\ total'[j] * 0 = 0 /\ total'[j] * 1 = total'[j]
    BY <2>5
  <2>7. QED
    BY <2>4, <2>5, <2>6 DEF Bounded
<1>7. QED
  BY <1>5, <1>6

\* A status that payments follow is written by a collector.
LEMMA WritePaid ==
  ASSUME TypeInv, TypeInv', PaidInv, NEW q \in Requests, WriteStatus(q)
  PROVE  PaidInv'
<1>1. PICK i \in Invoices : i = doc[q]
  BY AtWork DEF WriteStatus
<1>2. /\ pc[q] = "write" /\ status'[i] = to[q]
      /\ \A j \in Invoices : j # i => status'[j] = status[j]
      /\ UNCHANGED <<total, collected, mishaps>> /\ Fits("write", op[q], to[q])
  BY <1>1, Writes, AtWork DEF Shape
<1>3. to[q] \in Ended \/ MayCollect(q)
  BY <1>2 DEF Fits, Ended, MayCollect
<1>4. Untold(q) => to[q] \in Ended
  BY <1>2 DEF Fits, Ended, Untold
<1>5. ASSUME NEW next, NEW what, NEW k, NEW a, Moves(q, next, what, k, NoStatus, a),
             MayCollect(q)' => MayCollect(q) /\ k = i
      PROVE  PaidInv'
  <2> SUFFICES ASSUME NEW j \in Invoices PROVE Bounded(j)'
    BY DEF PaidInv
  <2>1. q \in Collectors(j)' => q \in Collectors(j)
    BY <1>1, <1>5, MovedTo DEF Collectors
  <2>2. j = i => status'[j] \in Ended \/ q \in Collectors(j)
    BY <1>1, <1>2, <1>3 DEF Collectors
  <2>3. Untold(q) /\ doc[q] = j => status'[j] \in Ended
    BY <1>1, <1>2, <1>4
  <2>4. QED
    BY <1>2, <1>5, <2>1, <2>2, <2>3, BoundedKept DEF PaidInv
<1>6. CASE op[q] = "pay" /\ Moves(q, "revise", op[q], i, NoStatus, amount[q])
  <2>1. ~MayCollect(q)'
    BY <1>6, MovedTo DEF MayCollect
  <2>2. QED
    BY <1>5, <1>6, <2>1
<1>7. CASE op[q] \in {"dispute", "deny"} /\ Moves(q, "record", op[q], i, NoStatus, amount[q])
  <2>1. MayCollect(q)
    BY <1>7 DEF MayCollect
  <2>2. QED
    BY <1>5, <1>7, <2>1
<1>8. CASE Moves(q, "reread", "accredit", source[i], NoStatus, amount[q])
  <2>1. ~MayCollect(q)'
    BY <1>8, MovedTo DEF MayCollect
  <2>2. QED
    BY <1>5, <1>8, <2>1
<1>9. CASE Finish(q)
  <2>1. Moves(q, "idle", "none", NoInvoice, NoStatus, 0)
    BY <1>9, FinishMoves
  <2>2. ~MayCollect(q)'
    BY <2>1, MovedTo DEF MayCollect
  <2>3. QED
    BY <1>5, <2>1, <2>2
<1>10. QED
  BY <1>1, <1>6, <1>7, <1>8, <1>9, Writes

LEMMA RecordPaid ==
  ASSUME TypeInv, TypeInv', PaidInv, NEW q \in Requests, NEW ok \in BOOLEAN, RecordEvent(q, ok)
  PROVE  PaidInv'
<1>1. UNCHANGED <<status, total, collected, mishaps>> /\ pc[q] = "record" /\ ~Untold(q)
  BY Records DEF Untold
<1>2. CASE Finish(q)
  BY <1>1, <1>2, FinishPaid
<1>3. CASE op[q] \in {"deny", "discount"} /\ Turn(q, "reread", "send", doc[q], NoStatus)
  <2>1. Moves(q, "reread", "send", doc[q], NoStatus, amount[q]) /\ MayCollect(q)
    BY <1>1, <1>3, TurnMoves DEF MayCollect
  <2>2. QED
    BY <1>1, <2>1, QuietPaid
<1>4. CASE Turn(q, "reread", "sendCredit", doc[q], NoStatus)
  <2>1. Moves(q, "reread", "sendCredit", doc[q], NoStatus, amount[q])
    BY <1>4, TurnMoves
  <2>2. ~MayCollect(q)'
    BY <2>1, MovedTo DEF MayCollect
  <2>3. QED
    BY <1>1, <2>1, <2>2, QuietPaid
<1>5. QED
  BY <1>2, <1>3, <1>4, Records

LEMMA DiePaid ==
  ASSUME TypeInv, TypeInv', PaidInv, NEW q \in Requests, Die(q)
  PROVE  PaidInv'
<1>1. Finish(q) /\ UNCHANGED <<status, total, collected>> /\ mishaps' = mishaps + 1
  BY DEF Die, database
<1>2. QED
  BY <1>1, FinishPaid

LEMMA NextPaid == TypeInv /\ TypeInv' /\ PaidInv /\ [Next]_vars => PaidInv'
<1> SUFFICES ASSUME TypeInv, TypeInv', PaidInv, [Next]_vars PROVE PaidInv'
  OBVIOUS
<1>1. ASSUME NEW q \in Requests, NEW i \in Invoices, Start(q, i) PROVE PaidInv'
  BY <1>1, StartStarts, StartPaid
<1>2. ASSUME NEW q \in Requests, Continue(q) PROVE PaidInv'
  BY <1>2, CheckPaid, PaymentPaid, EmailPaid, RereadPaid, InsertPaid, WritePaid, RecordPaid, DiePaid
     DEF Continue
<1>3. ASSUME UNCHANGED <<status, total, collected, pc, op, doc, mishaps>> PROVE PaidInv'
  BY <1>3 DEF PaidInv, Bounded, Collectors, MayCollect, Untold
<1>4. ASSUME NEW i \in Invoices, DueDatePasses(i) PROVE PaidInv'
  BY <1>3, <1>4 DEF DueDatePasses, requests, history
<1>5. CASE UNCHANGED vars
  BY <1>3, <1>5 DEF vars, database, requests, history
<1>6. QED
  BY <1>1, <1>2, <1>4, <1>5 DEF Next

LEMMA InitPaid == Init => PaidInv
<1> SUFFICES ASSUME Init, NEW i \in Invoices PROVE Bounded(i)
  BY DEF PaidInv
<1>1. TypeInv /\ collected[i] = 0 /\ mishaps = 0 /\ \A q \in Requests : op[q] = "none"
  BY InitType DEF Init
<1>2. Collectors(i) = {}
  BY <1>1 DEF Collectors, MayCollect
<1>3. IsFiniteSet(Collectors(i)) /\ Cardinality(Collectors(i)) = 0 /\ total[i] \in Nat
  BY <1>1, <1>2, FS_EmptySet, DatabaseType
<1>4. total[i] * 0 = 0 /\ total[i] * (1 + 0) = total[i]
  BY <1>3
<1>5. QED
  BY <1>1, <1>3, <1>4 DEF Bounded

\* More than the total is collected once for each overlap and each request that
\* ended half way, at most.
THEOREM OverpaidOncePerMishap == Spec => []OverpaidByMishapsOnly
<1>1. TypeInv /\ PaidInv => OverpaidByMishapsOnly
  <2> SUFFICES ASSUME TypeInv, PaidInv, NEW i \in Invoices
               PROVE  collected[i] <= total[i] * (1 + mishaps)
    BY DEF OverpaidByMishapsOnly
  <2> DEFINE n == Cardinality(Collectors(i))
  <2>1. /\ collected[i] \in Nat /\ total[i] \in Nat /\ mishaps \in Nat /\ n \in Nat
        /\ collected[i] + total[i] * n <= total[i] * (1 + mishaps)
    BY DatabaseType, FS_CardinalityType DEF PaidInv, Bounded
  <2>2. total[i] * n \in Nat /\ total[i] * (1 + mishaps) \in Nat
    BY <2>1
  <2>3. QED
    BY <2>1, <2>2
<1>2. QED
  BY <1>1, InitType, InitPaid, NextType, NextPaid, PTL DEF Spec

-----------------------------------------------------------------------------
(* Disputes and their answers *)

Answer == {"denied", "ackEmail"}

\* No answer follows another without a dispute between them.
AnsweredOnce(s) ==
  \A m, n \in DOMAIN s : m < n /\ s[m] \in Answer /\ s[n] \in Answer =>
    \E d \in m .. n : s[d] = "disputed"

\* There is a latest dispute, answered or not.
Disputed(s) ==
  \E d \in DOMAIN s : s[d] = "disputed" /\ \A n \in DOMAIN s : n > d => s[n] # "disputed"

\* A dispute waits for its answer.
Open(s) ==
  \E d \in DOMAIN s : s[d] = "disputed" /\ \A n \in DOMAIN s : n > d => s[n] \notin Answer

\* Requests between a status and its audit event, and those that have seen an
\* open dispute, or have answered one.
Disputing(q, i)    == doc[q] = i /\ op[q] = "dispute" /\ pc[q] = "record"
Answering(q, i)    == doc[q] = i /\ (pc[q] = "email" \/ (op[q] = "deny" /\ pc[q] \in {"write", "record"}))
Acknowledged(q, i) == doc[q] = i /\ op[q] = "acknowledge" /\ pc[q] \in {"reread", "write"}

\* A disputed invoice has its dispute recorded, who answers it has seen it
\* open, and if it is answered its status is about to tell.
DisputeInv(i) ==
  i \notin overlapped /\ <<i, "dispute">> \notin torn =>
    /\ AnsweredOnce(audit[i])
    /\ status[i] = "disputed" /\ (\A q \in Requests : ~Disputing(q, i)) => Disputed(audit[i])
    /\ \A q \in Requests : Answering(q, i) => Open(audit[i])
    /\ status[i] = "disputed" /\ Resolved(i) =>
         <<i, "acknowledge">> \in torn \/ \E q \in Requests : Disputing(q, i) \/ Acknowledged(q, i)

DisputesInv == \A i \in Invoices : DisputeInv(i)

\* What an event adds to the history of an invoice.
LEMMA Appends ==
  ASSUME NEW s \in Seq(Event), NEW e \in Event
  PROVE  /\ Append(s, e) \in Seq(Event) /\ DOMAIN s = 1 .. Len(s) /\ Len(s) \in Nat
         /\ DOMAIN Append(s, e) = 1 .. Len(s) + 1 /\ Append(s, e)[Len(s) + 1] = e
         /\ \A n \in DOMAIN s : n \in DOMAIN Append(s, e) /\ Append(s, e)[n] = s[n]
         /\ \A n \in DOMAIN Append(s, e) : n \in DOMAIN s \/ n = Len(s) + 1
OBVIOUS

LEMMA AppendDispute ==
  ASSUME NEW s \in Seq(Event), AnsweredOnce(s)
  PROVE  /\ AnsweredOnce(Append(s, "disputed")) /\ Disputed(Append(s, "disputed"))
<1> DEFINE t == Append(s, "disputed")
<1>1. "disputed" \in Event /\ "disputed" \notin Answer
  BY DEF Event, Answer
<1>2. /\ DOMAIN s = 1 .. Len(s) /\ Len(s) \in Nat
      /\ DOMAIN t = 1 .. Len(s) + 1 /\ t[Len(s) + 1] = "disputed"
      /\ \A n \in DOMAIN s : n \in DOMAIN t /\ t[n] = s[n]
      /\ \A n \in DOMAIN t : n \in DOMAIN s \/ n = Len(s) + 1
  BY <1>1, Appends
<1> HIDE DEF t
<1>3. AnsweredOnce(t)
  <2> SUFFICES ASSUME NEW m \in DOMAIN t, NEW n \in DOMAIN t, m < n, t[m] \in Answer, t[n] \in Answer
               PROVE  \E d \in m .. n : t[d] = "disputed"
    BY DEF AnsweredOnce
  <2>1. m \in DOMAIN s /\ n \in DOMAIN s
    BY <1>1, <1>2
  <2>2. PICK d \in m .. n : s[d] = "disputed"
    BY <1>2, <2>1 DEF AnsweredOnce
  <2>3. d \in DOMAIN s
    BY <1>2, <2>1
  <2>4. QED
    BY <1>2, <2>2, <2>3
<1>4. Disputed(t)
  BY <1>2 DEF Disputed
<1>5. QED
  BY <1>3, <1>4 DEF t

LEMMA AppendOther ==
  ASSUME NEW s \in Seq(Event), NEW e \in Event, e # "disputed", AnsweredOnce(s),
         e \in Answer => Open(s)
  PROVE  /\ AnsweredOnce(Append(s, e))
         /\ Disputed(s) => Disputed(Append(s, e))
<1> DEFINE t == Append(s, e)
<1>1. /\ DOMAIN s = 1 .. Len(s) /\ Len(s) \in Nat
      /\ DOMAIN t = 1 .. Len(s) + 1 /\ t[Len(s) + 1] = e
      /\ \A n \in DOMAIN s : n \in DOMAIN t /\ t[n] = s[n]
      /\ \A n \in DOMAIN t : n \in DOMAIN s \/ n = Len(s) + 1
  BY Appends
<1> HIDE DEF t
<1>2. AnsweredOnce(t)
  <2> SUFFICES ASSUME NEW m \in DOMAIN t, NEW n \in DOMAIN t, m < n, t[m] \in Answer, t[n] \in Answer
               PROVE  \E d \in m .. n : t[d] = "disputed"
    BY DEF AnsweredOnce
  <2>1. m \in DOMAIN s
    BY <1>1
  <2>2. CASE n \in DOMAIN s
    <3>1. PICK d \in m .. n : s[d] = "disputed"
      BY <1>1, <2>1, <2>2 DEF AnsweredOnce
    <3>2. d \in DOMAIN s
      BY <1>1, <2>1, <2>2
    <3>3. QED
      BY <1>1, <3>1, <3>2
  <2>3. CASE n = Len(s) + 1
    <3>1. PICK d \in DOMAIN s : s[d] = "disputed" /\ \A k \in DOMAIN s : k > d => s[k] \notin Answer
      BY <1>1, <2>3 DEF Open
    <3>2. d \in m .. n
      BY <1>1, <2>1, <2>3, <3>1
    <3>3. QED
      BY <1>1, <3>1, <3>2
  <2>4. QED
    BY <1>1, <2>2, <2>3
<1>3. ASSUME Disputed(s) PROVE Disputed(t)
  <2>1. PICK d \in DOMAIN s : s[d] = "disputed" /\ \A n \in DOMAIN s : n > d => s[n] # "disputed"
    BY <1>3 DEF Disputed
  <2>2. \A n \in DOMAIN t : n > d => t[n] # "disputed"
    BY <1>1, <2>1
  <2>3. QED
    BY <1>1, <2>1, <2>2 DEF Disputed
<1>4. QED
  BY <1>2, <1>3 DEF t

\* A dispute that is recorded and not resolved is open.
LEMMA UnresolvedOpen ==
  ASSUME NEW i \in Invoices, Disputed(audit[i]), ~Resolved(i)
  PROVE  Open(audit[i])
BY DEF Disputed, Resolved, Open, Answer

\* A new dispute is not resolved, and a follow-up resolves none.
LEMMA DisputeUnresolved ==
  ASSUME TypeInv, NEW i \in Invoices, audit'[i] = Append(audit[i], "disputed")
  PROVE  ~Resolved(i)'
<1>1. audit[i] \in Seq(Event) /\ "disputed" \in Event
  BY DatabaseType DEF Event
<1>2. QED
  BY <1>1, Appends DEF Resolved

LEMMA FollowUpResolves ==
  ASSUME TypeInv, NEW i \in Invoices, audit'[i] = Append(audit[i], "followUp"), Resolved(i)'
  PROVE  Resolved(i)
<1> DEFINE s == audit[i]  t == audit'[i]
<1>1. s \in Seq(Event) /\ "followUp" \in Event
  BY DatabaseType DEF Event
<1>2. /\ DOMAIN s = 1 .. Len(s) /\ Len(s) \in Nat /\ t[Len(s) + 1] = "followUp"
      /\ \A n \in DOMAIN s : n \in DOMAIN t /\ t[n] = s[n]
      /\ \A n \in DOMAIN t : n \in DOMAIN s \/ n = Len(s) + 1
  BY <1>1, Appends
<1>3. PICK d \in DOMAIN t, n \in DOMAIN t :
        /\ t[d] = "disputed" /\ \A e \in DOMAIN t : e > d => t[e] # "disputed"
        /\ n > d /\ t[n] \in {"denied", "ackEmail"}
  BY DEF Resolved
<1>4. d \in DOMAIN s /\ n \in DOMAIN s
  BY <1>2, <1>3
<1>5. QED
  BY <1>2, <1>3, <1>4 DEF Resolved

\* Steps that leave the events of an invoice alone, and what its requests are at.
LEMMA DisputeKept ==
  ASSUME NEW i \in Invoices, DisputeInv(i), audit'[i] = audit[i],
         status'[i] = status[i] \/ status'[i] # "disputed",
         overlapped \subseteq overlapped', torn \subseteq torn',
         \A p \in Requests :
           /\ Disputing(p, i) => Disputing(p, i)' \/ <<i, "dispute">> \in torn'
           /\ Answering(p, i)' => Answering(p, i)
           /\ Acknowledged(p, i) =>
                Acknowledged(p, i)' \/ <<i, "acknowledge">> \in torn' \/ status'[i] # "disputed"
  PROVE  DisputeInv(i)'
<1> SUFFICES ASSUME i \notin overlapped', <<i, "dispute">> \notin torn'
             PROVE  /\ AnsweredOnce(audit[i])
                    /\ status'[i] = "disputed" /\ (\A q \in Requests : ~Disputing(q, i)') =>
                         Disputed(audit[i])
                    /\ \A q \in Requests : Answering(q, i)' => Open(audit[i])
                    /\ status'[i] = "disputed" /\ Resolved(i)' =>
                         <<i, "acknowledge">> \in torn' \/
                           \E q \in Requests : Disputing(q, i)' \/ Acknowledged(q, i)'
  BY DEF DisputeInv
<1>1. i \notin overlapped /\ <<i, "dispute">> \notin torn
  OBVIOUS
<1>2. Resolved(i)' => Resolved(i)
  BY DEF Resolved
<1>3. QED
  BY <1>1, <1>2 DEF DisputeInv

\* What the others are at stays, as does what no request is at.
LEMMA OthersDispute ==
  ASSUME TypeInv, NEW q \in Requests, NEW next, NEW what, NEW k, NEW target, NEW a,
         Moves(q, next, what, k, target, a), NEW p \in Requests, p # q, NEW i \in Invoices
  PROVE  /\ Disputing(p, i)' <=> Disputing(p, i)
         /\ Answering(p, i)' <=> Answering(p, i)
         /\ Acknowledged(p, i)' <=> Acknowledged(p, i)
<1>1. pc'[p] = pc[p] /\ op'[p] = op[p] /\ doc'[p] = doc[p]
  BY MovedTo
<1>2. QED
  BY <1>1 DEF Disputing, Answering, Acknowledged

\* The only request on an invoice is the only one that answers or disputes it.
LEMMA AloneDispute ==
  ASSUME TypeInv, AloneInv, NEW q \in Requests, NEW i \in Invoices, Works(q, i), i \notin overlapped,
         NEW p \in Requests, p # q
  PROVE  ~Disputing(p, i) /\ ~Answering(p, i) /\ ~Acknowledged(p, i)
<1>1. ~Works(p, i)
  BY DEF AloneInv
<1>2. QED
  BY <1>1 DEF Works, Disputing, Answering, Acknowledged

\* Moves that write no status and no event.
LEMMA DisputeLook ==
  ASSUME TypeInv, NEW q \in Requests, NEW next, NEW what, NEW k, NEW target, NEW a,
         Moves(q, next, what, k, target, a), UNCHANGED <<status, audit>>,
         overlapped \subseteq overlapped', torn \subseteq torn', NEW i \in Invoices, DisputeInv(i),
         Disputing(q, i) => <<i, "dispute">> \in torn',
         Answering(q, i)' => Answering(q, i),
         Acknowledged(q, i) => Acknowledged(q, i)' \/ <<i, "acknowledge">> \in torn' \/ status[i] # "disputed"
  PROVE  DisputeInv(i)'
BY OthersDispute, DisputeKept

LEMMA StartDispute ==
  ASSUME TypeInv, NEW q \in Requests, NEW k \in Invoices, Start(q, k), NEW i \in Invoices, DisputeInv(i)
  PROVE  DisputeInv(i)'
<1>1. PICK what, next, target, a : Started(q, k, what, next, target, a)
  BY StartStarts
<1>2. /\ Moves(q, next, what, k, target, a) /\ UNCHANGED <<status, audit>>
      /\ overlapped \subseteq overlapped' /\ torn \subseteq torn'
      /\ pc[q] = "idle" /\ next \in {"check", "payment", "write"} /\ Fits(next, what, target)
      /\ (next = "write" => what # "deny")
  BY <1>1 DEF Started, database
<1>3. ~Disputing(q, i) /\ ~Acknowledged(q, i)
  BY <1>2 DEF Disputing, Acknowledged
<1>4. ~Answering(q, i)'
  BY <1>2, MovedTo DEF Answering
<1>5. QED
  BY <1>2, <1>3, <1>4, DisputeLook

\* The request alone decides for the invoice it works on.
LEMMA DisputeAnew ==
  ASSUME TypeInv, AloneInv, NEW q \in Requests, NEW next, NEW what, NEW k, NEW target, NEW a,
         Moves(q, next, what, k, target, a), NEW i \in Invoices, Works(q, i), i \notin overlapped,
         AnsweredOnce(audit[i])',
         (status[i])' # "disputed" \/ Disputing(q, i)' \/ Disputed(audit[i])',
         ~Answering(q, i)' \/ Open(audit[i])',
         \/ (status[i])' # "disputed"
         \/ Disputing(q, i)' \/ Acknowledged(q, i)' \/ <<i, "acknowledge">> \in torn'
         \/ ~Resolved(i)'
  PROVE  DisputeInv(i)'
<1>1. \A p \in Requests : p # q => ~Answering(p, i)'
  BY AloneDispute, OthersDispute
<1>2. QED
  BY <1>1 DEF DisputeInv

LEMMA CheckDispute ==
  ASSUME TypeInv, Safe, NEW q \in Requests, CheckAudit(q), NEW i \in Invoices, DisputeInv(i)
  PROVE  DisputeInv(i)'
<1>1. /\ pc[q] = "check" /\ UNCHANGED <<status, audit, overlapped, torn>>
      /\ overlapped \subseteq overlapped' /\ torn \subseteq torn'
  BY DEF CheckAudit, database, history
<1>2. ~Disputing(q, i) /\ ~Acknowledged(q, i)
  BY <1>1 DEF Disputing, Acknowledged
<1>3. ASSUME NEW next, NEW what, NEW k, NEW target, NEW a, Moves(q, next, what, k, target, a),
             ~Answering(q, i)'
      PROVE  DisputeInv(i)'
  BY <1>1, <1>2, <1>3, DisputeLook
<1>4. CASE Finish(q)
  <2>1. Moves(q, "idle", "none", NoInvoice, NoStatus, 0)
    BY <1>4, FinishMoves
  <2>2. ~Answering(q, i)'
    BY <2>1, MovedTo DEF Answering
  <2>3. QED
    BY <1>3, <2>1, <2>2
<1>5. CASE Turn(q, "revise", op[q], doc[q], NoStatus)
  <2>1. Moves(q, "revise", op[q], doc[q], NoStatus, amount[q])
    BY <1>5, TurnMoves
  <2>2. ~Answering(q, i)'
    BY <2>1, MovedTo DEF Answering
  <2>3. QED
    BY <1>3, <2>1, <2>2
<1>6. ASSUME op[q] \in {"acknowledge", "deny"}, ~Resolved(doc[q]), NEW next, NEW target,
             Turn(q, next, op[q], doc[q], target)
      PROVE  DisputeInv(i)'
  <2>1. Moves(q, next, op[q], doc[q], target, amount[q])
    BY <1>6, TurnMoves
  <2>2. CASE i # doc[q]
    <3>1. ~Answering(q, i)'
      BY <2>1, <2>2, MovedTo DEF Answering
    <3>2. QED
      BY <1>3, <2>1, <3>1
  <2>3. CASE i = doc[q] /\ i \in overlapped
    BY <1>1, <2>3 DEF DisputeInv
  <2>4. CASE <<i, "dispute">> \in torn
    BY <1>1, <2>4 DEF DisputeInv
  <2>5. CASE i = doc[q] /\ i \notin overlapped /\ <<i, "dispute">> \notin torn
    <3>1. Works(q, i)
      BY <1>1, <2>5 DEF Works
    <3>2. status[i] = "disputed"
      BY <1>1, <1>6, <2>5 DEF Safe, CurrentInv, Current
    <3>3. \A p \in Requests : ~Disputing(p, i)
      BY <1>2, <2>5, <3>1, AloneDispute DEF Safe
    <3>4. AnsweredOnce(audit[i]) /\ Disputed(audit[i])
      BY <2>5, <3>2, <3>3 DEF DisputeInv
    <3>5. Open(audit[i])
      BY <1>6, <2>5, <3>4, UnresolvedOpen
    <3>6. audit'[i] = audit[i] /\ ~Resolved(i)'
      BY <1>1, <1>6, <2>5 DEF Resolved
    <3>7. AnsweredOnce(audit'[i]) /\ Disputed(audit'[i]) /\ Open(audit'[i])
      BY <3>4, <3>5, <3>6
    <3>8. QED
      BY <2>1, <2>5, <3>1, <3>6, <3>7, DisputeAnew DEF Safe
  <2>6. QED
    BY <2>2, <2>3, <2>4, <2>5
<1>7. QED
  BY <1>4, <1>5, <1>6 DEF CheckAudit

LEMMA PaymentDispute ==
  ASSUME TypeInv, NEW q \in Requests, InsertPayment(q), NEW i \in Invoices, DisputeInv(i)
  PROVE  DisputeInv(i)'
<1>1. /\ pc[q] = "payment" /\ UNCHANGED <<status, audit>>
      /\ overlapped \subseteq overlapped' /\ torn \subseteq torn'
      /\ Moves(q, "write", op[q], doc[q], to[q], amount[q])
  BY TurnMoves DEF InsertPayment, history
<1>2. op[q] = "pay"
  BY <1>1, AtWork DEF Shape, Fits
<1>3. ~Disputing(q, i) /\ ~Acknowledged(q, i)
  BY <1>1 DEF Disputing, Acknowledged
<1>4. ~Answering(q, i)'
  BY <1>1, <1>2, MovedTo DEF Answering
<1>5. QED
  BY <1>1, <1>3, <1>4, DisputeLook

LEMMA EmailDispute ==
  ASSUME TypeInv, Safe, NEW q \in Requests, NEW ok \in BOOLEAN, EmailAcknowledgment(q, ok),
         NEW i \in Invoices, DisputeInv(i)
  PROVE  DisputeInv(i)'
<1>1. /\ pc[q] = "email" /\ status' = status /\ overlapped' = overlapped /\ torn' = torn
      /\ op[q] = "acknowledge"
  BY AtWork DEF EmailAcknowledgment, history, Shape, Fits
<1>2. ~Disputing(q, i) /\ ~Acknowledged(q, i)
  BY <1>1 DEF Disputing, Acknowledged
<1>3. CASE ~ok
  <2>1. Moves(q, "idle", "none", NoInvoice, NoStatus, 0) /\ UNCHANGED <<status, audit>>
    BY <1>1, <1>3, FinishMoves DEF EmailAcknowledgment
  <2>2. ~Answering(q, i)'
    BY <2>1, MovedTo DEF Answering
  <2>3. QED
    BY <1>1, <1>2, <2>1, <2>2, DisputeLook
<1>4. CASE ok
  <2>1. /\ Moves(q, "reread", op[q], doc[q], NoStatus, amount[q])
        /\ audit' = [audit EXCEPT ![doc[q]] = Append(@, "ackEmail")]
    BY <1>4, TurnMoves DEF EmailAcknowledgment
  <2>2. ~Answering(q, i)'
    BY <1>1, <2>1, MovedTo DEF Answering
  <2>3. CASE i # doc[q]
    <3>1. audit'[i] = audit[i]
      BY <2>1, <2>3, DatabaseType
    <3>2. QED
      BY <1>1, <1>2, <2>1, <2>2, <3>1, OthersDispute, DisputeKept
  <2>4. CASE i \in overlapped \/ <<i, "dispute">> \in torn
    BY <1>1, <2>4 DEF DisputeInv
  <2>5. CASE i = doc[q] /\ i \notin overlapped /\ <<i, "dispute">> \notin torn
    <3>1. Works(q, i)
      BY <1>1, <2>5 DEF Works
    <3>2. \A p \in Requests : ~Disputing(p, i)
      BY <1>2, <2>5, <3>1, AloneDispute DEF Safe
    <3>3. Answering(q, i)
      BY <1>1, <2>5 DEF Answering
    <3>4. /\ AnsweredOnce(audit[i]) /\ Open(audit[i])
          /\ status[i] = "disputed" => Disputed(audit[i])
      BY <2>5, <3>2, <3>3 DEF DisputeInv
    <3>5. audit'[i] = Append(audit[i], "ackEmail") /\ audit[i] \in Seq(Event) /\ "ackEmail" \in Event
          /\ "ackEmail" # "disputed"
      BY <2>1, <2>5, DatabaseType DEF Event
    <3>6. AnsweredOnce(audit'[i]) /\ (Disputed(audit[i]) => Disputed(audit'[i]))
      BY <3>4, <3>5, AppendOther
    <3>7. Acknowledged(q, i)'
      BY <1>1, <2>1, <2>5, MovedTo DEF Acknowledged
    <3>8. (status[i])' # "disputed" \/ Disputed(audit'[i])
      BY <1>1, <3>4, <3>6
    <3>9. QED
      BY <2>1, <2>2, <2>5, <3>1, <3>6, <3>7, <3>8, DisputeAnew DEF Safe
  <2>6. QED
    BY <2>3, <2>4, <2>5
<1>5. QED
  BY <1>3, <1>4

LEMMA RereadDispute ==
  ASSUME TypeInv, NEW q \in Requests, Reread(q), NEW i \in Invoices, DisputeInv(i)
  PROVE  DisputeInv(i)'
<1>1. /\ pc[q] = "reread" /\ UNCHANGED <<status, audit>>
      /\ overlapped \subseteq overlapped' /\ torn \subseteq torn'
      /\ op[q] \in {"acknowledge", "accredit", "send", "sendCredit"}
  BY AtWork DEF Reread, database, history, Shape, Fits
<1>2. ~Disputing(q, i)
  BY <1>1 DEF Disputing
<1>3. CASE Turn(q, "write", op[q], doc[q], Planned(op[q]))
  <2>1. Moves(q, "write", op[q], doc[q], Planned(op[q]), amount[q])
    BY <1>3, TurnMoves
  <2>2. ~Answering(q, i)' /\ (Acknowledged(q, i) => Acknowledged(q, i)')
    BY <1>1, <2>1, MovedTo DEF Answering, Acknowledged
  <2>3. QED
    BY <1>1, <1>2, <2>1, <2>2, DisputeLook
<1>4. CASE status[doc[q]] # Expected(op[q]) /\ Finish(q)
  <2>1. Moves(q, "idle", "none", NoInvoice, NoStatus, 0)
    BY <1>4, FinishMoves
  <2>2. ~Answering(q, i)' /\ (Acknowledged(q, i) => status[i] # "disputed")
    BY <1>4, <2>1, MovedTo DEF Answering, Acknowledged, Expected
  <2>3. QED
    BY <1>1, <1>2, <2>1, <2>2, DisputeLook
<1>5. QED
  BY <1>3, <1>4 DEF Reread

LEMMA InsertDispute ==
  ASSUME TypeInv, NEW q \in Requests, NEW r \in Invoices, InsertRevision(q, r),
         NEW i \in Invoices, DisputeInv(i)
  PROVE  DisputeInv(i)'
<1>1. PICK k \in Invoices : k = doc[q]
  BY AtWork DEF InsertRevision
<1>2. /\ pc[q] = "revise" /\ status'[r] = "draft" /\ op[q] \in {"pay", "discount", "credit"}
      /\ \A j \in Invoices : j # r => status'[j] = status[j]
      /\ UNCHANGED <<audit, overlapped, torn>>
  BY <1>1, Inserts
<1>3. PICK next, what : /\ Moves(q, next, what, r, NoStatus, amount[q])
                        /\ next \in {"reread", "record"} /\ what \in {"send", "discount", "credit"}
  BY <1>1, <1>2, Inserts
<1>4. ~Disputing(q, i) /\ ~Acknowledged(q, i)
  BY <1>2 DEF Disputing, Acknowledged
<1>5. ~Answering(q, i)'
  BY <1>3, MovedTo DEF Answering
<1>6. status'[i] = status[i] \/ status'[i] # "disputed"
  BY <1>2
<1>7. QED
  BY <1>2, <1>3, <1>4, <1>5, <1>6, OthersDispute, DisputeKept

LEMMA WriteDispute ==
  ASSUME TypeInv, Safe, NEW q \in Requests, WriteStatus(q), NEW i \in Invoices, DisputeInv(i)
  PROVE  DisputeInv(i)'
<1>1. PICK k \in Invoices : k = doc[q]
  BY AtWork DEF WriteStatus
<1>2. /\ pc[q] = "write" /\ status'[k] = to[q] /\ \A j \in Invoices : j # k => status'[j] = status[j]
      /\ UNCHANGED <<audit, overlapped, torn>>
  BY <1>1, Writes
<1>3. Fits("write", op[q], to[q])
  BY <1>2, AtWork DEF Shape
<1>4. ~Disputing(q, i)
  BY <1>2 DEF Disputing
<1>5. CASE op[q] = "dispute"
  <2>1. Moves(q, "record", op[q], k, NoStatus, amount[q])
    BY <1>1, <1>5, Writes
  <2>2. Disputing(q, k)' /\ ~Answering(q, i)' /\ ~Acknowledged(q, i)
    BY <1>5, <2>1, MovedTo DEF Disputing, Answering, Acknowledged
  <2>3. CASE i # k
    BY <1>2, <1>4, <2>1, <2>2, <2>3, OthersDispute, DisputeKept
  <2>4. CASE i \in overlapped \/ <<i, "dispute">> \in torn
    BY <1>2, <2>4 DEF DisputeInv
  <2>5. CASE i = k /\ i \notin overlapped /\ <<i, "dispute">> \notin torn
    <3>1. Works(q, i)
      BY <1>1, <1>2, <2>5 DEF Works
    <3>2. AnsweredOnce(audit[i]) /\ audit'[i] = audit[i]
      BY <1>2, <2>5 DEF DisputeInv
    <3>3. AnsweredOnce(audit'[i])
      BY <3>2
    <3>4. QED
      BY <2>1, <2>2, <2>5, <3>1, <3>3, DisputeAnew DEF Safe
  <2>6. QED
    BY <2>3, <2>4, <2>5
<1>6. CASE op[q] = "deny"
  <2>1. Moves(q, "record", op[q], k, NoStatus, amount[q])
    BY <1>1, <1>6, Writes
  <2>2. (Answering(q, i)' => Answering(q, i)) /\ ~Acknowledged(q, i)
    BY <1>1, <1>2, <1>6, <2>1, MovedTo DEF Answering, Acknowledged
  <2>3. status'[i] = status[i] \/ status'[i] # "disputed"
    BY <1>2, <1>3, <1>6 DEF Fits
  <2>4. QED
    BY <1>2, <1>4, <2>1, <2>2, <2>3, OthersDispute, DisputeKept
<1>7. CASE op[q] \notin {"dispute", "deny"}
  <2>1. PICK next, what, j, a : /\ Moves(q, next, what, j, NoStatus, a)
                                /\ next \in {"idle", "revise", "reread"}
    <3>1. CASE Finish(q)
      BY <3>1, FinishMoves
    <3>2. CASE ~Finish(q)
      BY <1>1, <1>7, <3>2, Writes
    <3>3. QED
      BY <3>1, <3>2
  <2>2. ~Answering(q, i)'
    BY <2>1, MovedTo DEF Answering
  <2>3. status'[k] # "disputed"
    BY <1>2, <1>3, <1>7 DEF Fits
  <2>4. Acknowledged(q, i) => status'[i] # "disputed"
    BY <1>1, <2>3 DEF Acknowledged
  <2>5. status'[i] = status[i] \/ status'[i] # "disputed"
    BY <1>2, <2>3
  <2>6. QED
    BY <1>2, <1>4, <2>1, <2>2, <2>4, <2>5, OthersDispute, DisputeKept
<1>8. QED
  BY <1>5, <1>6, <1>7

LEMMA RecordDispute ==
  ASSUME TypeInv, Safe, NEW q \in Requests, NEW ok \in BOOLEAN, RecordEvent(q, ok),
         NEW i \in Invoices, DisputeInv(i)
  PROVE  DisputeInv(i)'
<1>1. /\ pc[q] = "record" /\ UNCHANGED <<status, overlapped, torn>>
      /\ op[q] \in {"dispute", "deny", "discount", "credit"} /\ doc[q] \in Invoices
  BY Records, AtWork DEF Shape, Fits
<1>2. PICK next, what, target, a : /\ Moves(q, next, what, doc'[q], target, a)
                                   /\ next \in {"idle", "reread"} /\ what \in {"none", "send", "sendCredit"}
  <2>1. CASE Finish(q)
    <3>1. Moves(q, "idle", "none", NoInvoice, NoStatus, 0)
      BY <2>1, FinishMoves
    <3>2. QED
      BY <3>1, MovedTo
  <2>2. CASE ~Finish(q)
    <3>1. \E what : Moves(q, "reread", what, doc[q], NoStatus, amount[q]) /\ what \in {"send", "sendCredit"}
      BY <2>2, Records, TurnMoves
    <3>2. QED
      BY <3>1, MovedTo
  <2>3. QED
    BY <2>1, <2>2
<1>3. ~Answering(q, i)' /\ ~Acknowledged(q, i)
  BY <1>1, <1>2, MovedTo DEF Answering, Acknowledged
<1>4. CASE i \in overlapped \/ <<i, "dispute">> \in torn
  BY <1>1, <1>4 DEF DisputeInv
<1>5. ASSUME ~Disputing(q, i), audit'[i] = audit[i]
      PROVE  DisputeInv(i)'
  BY <1>1, <1>2, <1>3, <1>5, OthersDispute, DisputeKept
<1>6. ASSUME Works(q, i), i \notin overlapped, AnsweredOnce(audit[i])',
             (status[i])' # "disputed" \/ Disputed(audit[i])',
             (status[i])' # "disputed" \/ <<i, "acknowledge">> \in torn' \/ ~Resolved(i)'
      PROVE  DisputeInv(i)'
  BY <1>2, <1>3, <1>6, DisputeAnew DEF Safe
<1>7. audit[i] \in Seq(Event) /\ {"denied", "followUp"} \subseteq Event /\ "followUp" \notin Answer
  BY DatabaseType DEF Event, Answer
<1>8. CASE op[q] = "dispute" /\ i \notin overlapped /\ <<i, "dispute">> \notin torn
  <2>1. audit' = [audit EXCEPT ![doc[q]] = Append(@, "disputed")]
    BY <1>8 DEF RecordEvent
  <2>2. CASE i # doc[q]
    BY <1>5, <2>1, <2>2, DatabaseType DEF Disputing
  <2>3. CASE i = doc[q]
    <3>1. Works(q, i)
      BY <1>1, <2>3 DEF Works
    <3>2. audit'[i] = Append(audit[i], "disputed")
      BY <1>1, <2>1, <2>3, DatabaseType
    <3>3. AnsweredOnce(audit[i])
      BY <1>8 DEF DisputeInv
    <3>4. AnsweredOnce(audit'[i]) /\ Disputed(audit'[i])
      BY <1>7, <3>2, <3>3, AppendDispute
    <3>5. ~Resolved(i)'
      BY <3>2, DisputeUnresolved
    <3>6. QED
      BY <1>6, <1>8, <3>1, <3>4, <3>5
  <2>4. QED
    BY <2>2, <2>3
<1>9. CASE op[q] = "deny" /\ i \notin overlapped /\ <<i, "dispute">> \notin torn
  <2>1. audit' = [audit EXCEPT ![doc[q]] = Append(@, "denied")]
    BY <1>9 DEF RecordEvent
  <2>2. CASE i # doc[q]
    BY <1>5, <1>9, <2>1, <2>2, DatabaseType DEF Disputing
  <2>3. CASE i = doc[q]
    <3>1. Works(q, i)
      BY <1>1, <2>3 DEF Works
    <3>2. audit'[i] = Append(audit[i], "denied")
      BY <1>1, <2>1, <2>3, DatabaseType
    <3>3. Answering(q, i)
      BY <1>1, <1>9, <2>3 DEF Answering
    <3>4. AnsweredOnce(audit[i]) /\ Open(audit[i])
      BY <1>9, <3>3 DEF DisputeInv
    <3>5. AnsweredOnce(audit'[i])
      BY <1>7, <3>2, <3>4, AppendOther
    <3>6. (status[i])' # "disputed"
      BY <1>1, <1>9, <2>3 DEF Safe, CurrentInv, Current
    <3>7. QED
      BY <1>6, <1>9, <3>1, <3>5, <3>6
  <2>4. QED
    BY <2>2, <2>3
<1>10. CASE op[q] \in {"discount", "credit"} /\ i \notin overlapped /\ <<i, "dispute">> \notin torn
  <2>1. audit' = [audit EXCEPT ![source[doc[q]]] = Append(@, "followUp")]
    BY <1>10 DEF RecordEvent
  <2>2. CASE i # source[doc[q]]
    BY <1>5, <1>10, <2>1, <2>2, DatabaseType DEF Disputing
  <2>3. CASE i = source[doc[q]]
    <3>1. Works(q, i)
      BY <1>1, <1>10, <2>3 DEF Works, FollowsUp
    <3>2. audit'[i] = Append(audit[i], "followUp")
      BY <1>1, <2>1, <2>3, DatabaseType
    <3>3. \A p \in Requests : ~Disputing(p, i) /\ ~Acknowledged(p, i)
      BY <1>3, <1>10, <3>1, AloneDispute DEF Safe, Disputing
    <3>4. /\ AnsweredOnce(audit[i])
          /\ status[i] = "disputed" => Disputed(audit[i])
          /\ status[i] = "disputed" /\ Resolved(i) => <<i, "acknowledge">> \in torn
      BY <1>10, <3>3 DEF DisputeInv
    <3>5. AnsweredOnce(audit'[i]) /\ (Disputed(audit[i]) => Disputed(audit'[i]))
      BY <1>7, <3>2, <3>4, AppendOther
    <3>6. Resolved(i)' => Resolved(i)
      BY <3>2, FollowUpResolves
    <3>7. (status[i])' = status[i] /\ torn' = torn
      BY <1>1
    <3>8. QED
      BY <1>6, <1>10, <3>1, <3>4, <3>5, <3>6, <3>7
  <2>4. QED
    BY <2>2, <2>3
<1>11. QED
  BY <1>1, <1>4, <1>8, <1>9, <1>10

LEMMA DieDispute ==
  ASSUME TypeInv, NEW q \in Requests, Die(q), NEW i \in Invoices, DisputeInv(i)
  PROVE  DisputeInv(i)'
<1>1. /\ Finish(q) /\ pc[q] # "idle" /\ UNCHANGED <<status, audit>> /\ overlapped \subseteq overlapped'
      /\ torn' = torn \union {<<j, op[q]>> : j \in {k \in Invoices : Touches(q, k)}}
  BY DEF Die, database
<1>2. Moves(q, "idle", "none", NoInvoice, NoStatus, 0) /\ torn \subseteq torn'
  BY <1>1, FinishMoves
<1>3. doc[q] = i => <<i, op[q]>> \in torn'
  BY <1>1 DEF Touches
<1>4. /\ Disputing(q, i) => <<i, "dispute">> \in torn'
      /\ Acknowledged(q, i) => <<i, "acknowledge">> \in torn'
  BY <1>3 DEF Disputing, Acknowledged
<1>5. ~Answering(q, i)'
  BY <1>2, MovedTo DEF Answering
<1>6. QED
  BY <1>1, <1>2, <1>4, <1>5, DisputeLook

LEMMA NextDisputes == IInv /\ DisputesInv /\ [Next]_vars => DisputesInv'
<1> SUFFICES ASSUME TypeInv, Safe, [Next]_vars, NEW i \in Invoices, DisputeInv(i) PROVE DisputeInv(i)'
  BY DEF IInv, Safe, DisputesInv
<1>1. ASSUME NEW q \in Requests, NEW k \in Invoices, Start(q, k) PROVE DisputeInv(i)'
  BY <1>1, StartDispute
<1>2. ASSUME NEW q \in Requests, Continue(q) PROVE DisputeInv(i)'
  BY <1>2, CheckDispute, PaymentDispute, EmailDispute, RereadDispute, InsertDispute, WriteDispute,
     RecordDispute, DieDispute DEF Continue
<1>3. ASSUME UNCHANGED <<status, audit>>, UNCHANGED requests, UNCHANGED history PROVE DisputeInv(i)'
  BY <1>3, DisputeKept DEF Disputing, Answering, Acknowledged, requests, history
<1>4. ASSUME NEW k \in Invoices, DueDatePasses(k) PROVE DisputeInv(i)'
  BY <1>3, <1>4 DEF DueDatePasses
<1>5. CASE UNCHANGED vars
  BY <1>3, <1>5 DEF vars, database
<1>6. QED
  BY <1>1, <1>2, <1>4, <1>5 DEF Next

LEMMA InitDisputes == Init => DisputesInv
<1> SUFFICES ASSUME Init, NEW i \in Invoices PROVE DisputeInv(i)
  BY DEF DisputesInv
<1>1. /\ audit[i] = <<>> /\ status[i] # "disputed" /\ \A q \in Requests : pc[q] = "idle"
  BY DEF Init, Absent
<1>2. AnsweredOnce(audit[i])
  BY <1>1 DEF AnsweredOnce
<1>3. \A q \in Requests : ~Answering(q, i)
  BY <1>1 DEF Answering
<1>4. QED
  BY <1>1, <1>2, <1>3 DEF DisputeInv

\* What holds of the disputes of every invoice is inductive with the invariant.
THEOREM Disputes == Spec => []DisputesInv
BY InitDisputes, NextDisputes, Inductive, PTL DEF Spec

\* A dispute is answered once, by a denial or by the email that acknowledges
\* it, unless it was never recorded or two requests answer at once.
THEOREM OneAnswer == Spec => []OneAnswerPerDispute
<1>1. DisputesInv => OneAnswerPerDispute
  BY DEF DisputesInv, DisputeInv, AnsweredOnce, Answer, OneAnswerPerDispute
<1>2. QED
  BY <1>1, Disputes, PTL

\* A disputed invoice can be answered, unless a request died between its audit
\* event and its status or two overlapped.
THEOREM NoneStuck == Spec => []NoDisputeIsStuck
<1>1. DisputesInv => NoDisputeIsStuck
  <2> SUFFICES ASSUME DisputesInv, NEW i \in Invoices \ overlapped, status[i] = "disputed", Resolved(i),
                      Untouched(i), <<i, "dispute">> \notin torn
               PROVE  <<i, "acknowledge">> \in torn
    BY DEF NoDisputeIsStuck
  <2>1. DisputeInv(i)
    BY DEF DisputesInv
  <2>2. \A q \in Requests : ~Disputing(q, i) /\ ~Acknowledged(q, i)
    BY DEF Untouched, Touches, Disputing, Acknowledged
  <2>3. QED
    BY <2>1, <2>2 DEF DisputeInv
<1>2. QED
  BY <1>1, Disputes, PTL

-----------------------------------------------------------------------------
(* Revisions and the follow-ups that are recorded for them *)

\* There is a latest email that acknowledges a dispute.
Acked(s) ==
  \E e \in DOMAIN s : s[e] = "ackEmail" /\ \A f \in DOMAIN s : f > e => s[f] # "ackEmail"

\* Only an invoice whose acknowledgment was emailed is acknowledged.
AckedInv ==
  /\ \A i \in Invoices : status[i] = "dispute_acknowledged" => Acked(audit[i])
  /\ \A q \in Requests : op[q] = "acknowledge" /\ pc[q] \in {"reread", "write"} => Acked(audit[doc[q]])

\* Requests that found the invoice without a revision, and those that have
\* inserted one and are about to record it.
Unrevised(q, i) == doc[q] = i /\ pc[q] \in {"email", "revise"}
Recording(q, i) == pc[q] = "record" /\ op[q] \in {"discount", "credit"} /\ source[doc[q]] = i

\* An acknowledged invoice that was revised says so, or is about to.
Intact(i) == i \notin overlapped /\ <<i, "discount">> \notin torn /\ <<i, "credit">> \notin torn

RevisedOnce(i) ==
  Intact(i) =>
    /\ \A r, s \in Revisions(i) : r = s
    /\ \A q \in Requests : Unrevised(q, i) => Revisions(i) = {}
    /\ status[i] = "dispute_acknowledged" /\ Revisions(i) # {} =>
         HasFollowUp(i) \/ \E q \in Requests : Recording(q, i)

RevisionsInv == AckedInv /\ \A i \in Invoices : RevisedOnce(i)

\* An event that is added to the history of an invoice leaves its acknowledgment
\* there, and a follow-up follows it up.
LEMMA AppendAcked ==
  ASSUME NEW s \in Seq(Event), NEW e \in Event, Acked(s) \/ e = "ackEmail"
  PROVE  Acked(Append(s, e))
<1> DEFINE t == Append(s, e)
<1>1. /\ DOMAIN s = 1 .. Len(s) /\ Len(s) \in Nat
      /\ DOMAIN t = 1 .. Len(s) + 1 /\ t[Len(s) + 1] = e
      /\ \A n \in DOMAIN s : n \in DOMAIN t /\ t[n] = s[n]
      /\ \A n \in DOMAIN t : n \in DOMAIN s \/ n = Len(s) + 1
  BY Appends
<1> HIDE DEF t
<1>2. CASE e = "ackEmail"
  <2>1. Len(s) + 1 \in DOMAIN t /\ \A f \in DOMAIN t : ~(f > Len(s) + 1)
    BY <1>1
  <2>2. QED
    BY <1>1, <1>2, <2>1 DEF Acked
<1>3. CASE e # "ackEmail"
  <2>1. PICK n \in DOMAIN s : s[n] = "ackEmail" /\ \A f \in DOMAIN s : f > n => s[f] # "ackEmail"
    BY <1>3 DEF Acked
  <2>2. \A f \in DOMAIN t : f > n => t[f] # "ackEmail"
    BY <1>1, <1>3, <2>1
  <2>3. QED
    BY <1>1, <2>1, <2>2 DEF Acked
<1>4. QED
  BY <1>2, <1>3 DEF t

LEMMA FollowUpStays ==
  ASSUME TypeInv, NEW i \in Invoices, NEW e \in Event \ {"ackEmail"}, HasFollowUp(i),
         audit'[i] = Append(audit[i], e)
  PROVE  HasFollowUp(i)'
<1> DEFINE s == audit[i]  t == audit'[i]
<1>1. s \in Seq(Event)
  BY DatabaseType
<1>2. /\ DOMAIN s = 1 .. Len(s) /\ Len(s) \in Nat /\ t[Len(s) + 1] = e
      /\ \A n \in DOMAIN s : n \in DOMAIN t /\ t[n] = s[n]
      /\ \A n \in DOMAIN t : n \in DOMAIN s \/ n = Len(s) + 1
  BY <1>1, Appends
<1>3. PICK k \in DOMAIN s, n \in DOMAIN s :
        /\ s[k] = "ackEmail" /\ \A f \in DOMAIN s : f > k => s[f] # "ackEmail"
        /\ n > k /\ s[n] = "followUp"
  BY DEF HasFollowUp
<1>4. \A f \in DOMAIN t : f > k => t[f] # "ackEmail"
  BY <1>2, <1>3
<1>5. QED
  BY <1>2, <1>3, <1>4 DEF HasFollowUp

LEMMA FollowUpFollows ==
  ASSUME TypeInv, NEW i \in Invoices, Acked(audit[i]), audit'[i] = Append(audit[i], "followUp")
  PROVE  HasFollowUp(i)'
<1> DEFINE s == audit[i]  t == audit'[i]
<1>1. s \in Seq(Event) /\ "followUp" \in Event
  BY DatabaseType DEF Event
<1>2. /\ DOMAIN s = 1 .. Len(s) /\ Len(s) \in Nat /\ t[Len(s) + 1] = "followUp"
      /\ DOMAIN t = 1 .. Len(s) + 1
      /\ \A n \in DOMAIN s : n \in DOMAIN t /\ t[n] = s[n]
      /\ \A n \in DOMAIN t : n \in DOMAIN s \/ n = Len(s) + 1
  BY <1>1, Appends
<1>3. PICK k \in DOMAIN s : s[k] = "ackEmail" /\ \A f \in DOMAIN s : f > k => s[f] # "ackEmail"
  BY DEF Acked
<1>4. \A f \in DOMAIN t : f > k => t[f] # "ackEmail"
  BY <1>2, <1>3
<1>5. Len(s) + 1 \in DOMAIN t /\ Len(s) + 1 > k
  BY <1>2
<1>6. QED
  BY <1>2, <1>3, <1>4, <1>5 DEF HasFollowUp

\* What an audit event that follows a write adds to which history.
LEMMA RecordAppends ==
  ASSUME TypeInv, NEW q \in Requests, NEW ok \in BOOLEAN, RecordEvent(q, ok)
  PROVE  /\ \A i \in Invoices :
              audit'[i] = audit[i] \/ \E e \in Event \ {"ackEmail"} : audit'[i] = Append(audit[i], e)
         /\ op[q] \in {"discount", "credit"} =>
              /\ source[doc[q]] \in Invoices
              /\ audit'[source[doc[q]]] = Append(audit[source[doc[q]]], "followUp")
<1>1. pc[q] = "record" /\ op[q] \in {"dispute", "deny", "discount", "credit"} /\ doc[q] \in Invoices
  BY AtWork DEF RecordEvent, Shape, Fits
<1>2. op[q] \in {"discount", "credit"} => source[doc[q]] \in Invoices
  BY <1>1, AtWork DEF FollowsUp
<1>3. {"disputed", "denied", "followUp"} \subseteq Event \ {"ackEmail"}
  BY DEF Event
<1>4. CASE op[q] = "dispute"
  <2>1. audit' = [audit EXCEPT ![doc[q]] = Append(@, "disputed")]
    BY <1>4 DEF RecordEvent
  <2>2. QED
    BY <1>1, <1>3, <1>4, <2>1, DatabaseType
<1>5. CASE op[q] = "deny"
  <2>1. audit' = [audit EXCEPT ![doc[q]] = Append(@, "denied")]
    BY <1>5 DEF RecordEvent
  <2>2. QED
    BY <1>1, <1>3, <1>5, <2>1, DatabaseType
<1>6. CASE op[q] \in {"discount", "credit"}
  <2>1. audit' = [audit EXCEPT ![source[doc[q]]] = Append(@, "followUp")]
    BY <1>6 DEF RecordEvent
  <2>2. QED
    BY <1>2, <1>3, <1>6, <2>1, DatabaseType
<1>7. QED
  BY <1>1, <1>4, <1>5, <1>6

\* A move after which every acknowledgment still has its email.
LEMMA AckedKept ==
  ASSUME TypeInv, AckedInv, NEW q \in Requests, NEW next, NEW what, NEW k, NEW target, NEW a,
         Moves(q, next, what, k, target, a),
         \A i \in Invoices : Acked(audit[i]) => Acked(audit'[i]),
         \A i \in Invoices : status'[i] = "dispute_acknowledged" =>
           status[i] = "dispute_acknowledged" \/ Acked(audit'[i]),
         what = "acknowledge" /\ next \in {"reread", "write"} => Acked(audit'[k])
  PROVE  AckedInv'
<1>1. ASSUME NEW i \in Invoices, status'[i] = "dispute_acknowledged" PROVE Acked(audit'[i])
  BY <1>1 DEF AckedInv
<1>2. ASSUME NEW p \in Requests, op'[p] = "acknowledge", pc'[p] \in {"reread", "write"}
      PROVE  Acked(audit'[doc'[p]])
  <2>1. CASE p = q
    BY <1>2, <2>1, MovedTo
  <2>2. CASE p # q
    <3>1. pc'[p] = pc[p] /\ op'[p] = op[p] /\ doc'[p] = doc[p]
      BY <2>2, MovedTo
    <3>2. Acked(audit[doc[p]]) /\ doc[p] \in Invoices
      BY <1>2, <3>1, AtWork DEF AckedInv
    <3>3. QED
      BY <3>1, <3>2
  <2>3. QED
    BY <2>1, <2>2
<1>3. QED
  BY <1>1, <1>2 DEF AckedInv

\* Steps that write neither status nor event.
LEMMA AckedLook ==
  ASSUME TypeInv, AckedInv, NEW q \in Requests, NEW next, NEW what, NEW k, NEW target, NEW a,
         Moves(q, next, what, k, target, a), UNCHANGED <<status, audit>>,
         what # "acknowledge" \/ next \notin {"reread", "write"}
  PROVE  AckedInv'
BY AckedKept

LEMMA NextAcked == TypeInv /\ AckedInv /\ [Next]_vars => AckedInv'
<1> SUFFICES ASSUME TypeInv, AckedInv, [Next]_vars PROVE AckedInv'
  OBVIOUS
<1>1. ASSUME NEW q \in Requests, NEW k \in Invoices, Start(q, k) PROVE AckedInv'
  <2>1. PICK what, next, target, a : Started(q, k, what, next, target, a)
    BY <1>1, StartStarts
  <2>2. /\ Moves(q, next, what, k, target, a) /\ UNCHANGED <<status, audit>>
        /\ what # "acknowledge" \/ next \notin {"reread", "write"}
    BY <2>1 DEF Started, database
  <2>3. QED
    BY <2>2, AckedLook
<1>2. ASSUME NEW q \in Requests, Finish(q), UNCHANGED <<status, audit>> PROVE AckedInv'
  <2>1. Moves(q, "idle", "none", NoInvoice, NoStatus, 0)
    BY <1>2, FinishMoves
  <2>2. QED
    BY <1>2, <2>1, AckedLook
<1>3. ASSUME NEW q \in Requests, CheckAudit(q) PROVE AckedInv'
  <2>1. UNCHANGED <<status, audit>>
    BY <1>3 DEF CheckAudit, database
  <2>2. CASE ~Finish(q)
    <3>1. PICK next, target : /\ Turn(q, next, op[q], doc[q], target)
                              /\ op[q] # "acknowledge" \/ next \notin {"reread", "write"}
      BY <1>3, <2>2 DEF CheckAudit
    <3>2. Moves(q, next, op[q], doc[q], target, amount[q])
      BY <3>1, TurnMoves
    <3>3. QED
      BY <2>1, <3>1, <3>2, AckedLook
  <2>3. QED
    BY <1>2, <2>1, <2>2
<1>4. ASSUME NEW q \in Requests, InsertPayment(q) PROVE AckedInv'
  <2>1. pc[q] = "payment" /\ UNCHANGED <<status, audit>> /\ Moves(q, "write", op[q], doc[q], to[q], amount[q])
    BY <1>4, TurnMoves DEF InsertPayment
  <2>2. op[q] = "pay"
    BY <2>1, AtWork DEF Shape, Fits
  <2>3. QED
    BY <2>1, <2>2, AckedLook
<1>5. ASSUME NEW q \in Requests, NEW ok \in BOOLEAN, EmailAcknowledgment(q, ok) PROVE AckedInv'
  <2>1. CASE ~ok
    BY <1>2, <1>5, <2>1 DEF EmailAcknowledgment
  <2>2. CASE ok
    <3>1. /\ Moves(q, "reread", op[q], doc[q], NoStatus, amount[q]) /\ status' = status /\ pc[q] = "email"
          /\ audit' = [audit EXCEPT ![doc[q]] = Append(@, "ackEmail")]
      BY <1>5, <2>2, TurnMoves DEF EmailAcknowledgment
    <3>2. doc[q] \in Invoices /\ audit \in [Invoices -> Seq(Event)] /\ "ackEmail" \in Event
      BY <3>1, AtWork, DatabaseType DEF Event
    <3>3. audit'[doc[q]] = Append(audit[doc[q]], "ackEmail") /\ \A i \in Invoices : i # doc[q] => audit'[i] = audit[i]
      BY <3>1, <3>2
    <3>4. Acked(Append(audit[doc[q]], "ackEmail"))
      BY <3>2, AppendAcked
    <3>5. Acked(audit'[doc[q]])
      BY <3>3, <3>4
    <3>6. \A i \in Invoices : Acked(audit[i]) => Acked(audit'[i])
      BY <3>3, <3>5
    <3>7. QED
      BY <3>1, <3>5, <3>6, AckedKept
  <2>3. QED
    BY <2>1, <2>2
<1>6. ASSUME NEW q \in Requests, Reread(q) PROVE AckedInv'
  <2>1. UNCHANGED <<status, audit>> /\ pc[q] = "reread"
    BY <1>6 DEF Reread, database
  <2>2. CASE ~Finish(q)
    <3>1. Moves(q, "write", op[q], doc[q], Planned(op[q]), amount[q])
      BY <1>6, <2>2, TurnMoves DEF Reread
    <3>2. op[q] = "acknowledge" => Acked(audit'[doc[q]])
      BY <2>1 DEF AckedInv
    <3>3. QED
      BY <2>1, <3>1, <3>2, AckedKept
  <2>3. QED
    BY <1>2, <2>1, <2>2
<1>7. ASSUME NEW q \in Requests, NEW r \in Invoices, InsertRevision(q, r) PROVE AckedInv'
  <2>1. PICK k \in Invoices : k = doc[q]
    BY <1>7, AtWork DEF InsertRevision
  <2>2. /\ status'[r] = "draft" /\ \A j \in Invoices : j # r => status'[j] = status[j]
        /\ audit' = audit /\ op[q] \in {"pay", "discount", "credit"}
    BY <1>7, <2>1, Inserts
  <2>3. PICK next, what : Moves(q, next, what, r, NoStatus, amount[q]) /\ what # "acknowledge"
    BY <1>7, <2>1, <2>2, Inserts
  <2>4. QED
    BY <2>2, <2>3, AckedKept
<1>8. ASSUME NEW q \in Requests, WriteStatus(q) PROVE AckedInv'
  <2>1. PICK k \in Invoices : k = doc[q]
    BY <1>8, AtWork DEF WriteStatus
  <2>2. /\ pc[q] = "write" /\ status'[k] = to[q] /\ \A j \in Invoices : j # k => status'[j] = status[j]
        /\ audit' = audit
    BY <1>8, <2>1, Writes
  <2>3. to[q] = "dispute_acknowledged" => op[q] = "acknowledge"
    BY <2>2, AtWork DEF Shape, Fits
  <2>4. to[q] = "dispute_acknowledged" => Acked(audit'[k])
    BY <2>1, <2>2, <2>3 DEF AckedInv
  <2>5. PICK next, what, j, a : Moves(q, next, what, j, NoStatus, a) /\ next \in {"idle", "revise", "record", "reread"}
                                /\ (next = "reread" => what = "accredit")
    <3>1. CASE Finish(q)
      BY <3>1, FinishMoves
    <3>2. CASE ~Finish(q)
      BY <1>8, <2>1, <3>2, Writes
    <3>3. QED
      BY <3>1, <3>2
  <2>6. QED
    BY <2>2, <2>4, <2>5, AckedKept
<1>9. ASSUME NEW q \in Requests, NEW ok \in BOOLEAN, RecordEvent(q, ok) PROVE AckedInv'
  <2>1. status' = status
    BY <1>9, Records
  <2>2. ASSUME NEW i \in Invoices, Acked(audit[i]) PROVE Acked(audit'[i])
    <3>1. CASE audit'[i] = audit[i]
      BY <2>2, <3>1
    <3>2. ASSUME NEW e \in Event \ {"ackEmail"}, audit'[i] = Append(audit[i], e) PROVE Acked(audit'[i])
      <4>1. Acked(Append(audit[i], e))
        BY <2>2, DatabaseType, AppendAcked
      <4>2. QED
        BY <3>2, <4>1
    <3>3. QED
      BY <1>9, <3>1, <3>2, RecordAppends
  <2>3. PICK next, what, j, target, a : Moves(q, next, what, j, target, a) /\ what # "acknowledge"
    <3>1. CASE Finish(q)
      BY <3>1, FinishMoves
    <3>2. CASE ~Finish(q)
      BY <1>9, <3>2, Records, TurnMoves
    <3>3. QED
      BY <3>1, <3>2
  <2>4. QED
    BY <2>1, <2>2, <2>3, AckedKept
<1>10. ASSUME NEW q \in Requests, Die(q) PROVE AckedInv'
  BY <1>2, <1>10 DEF Die, database
<1>11. ASSUME UNCHANGED <<status, audit>>, UNCHANGED requests PROVE AckedInv'
  BY <1>11 DEF AckedInv, requests
<1>12. ASSUME NEW k \in Invoices, DueDatePasses(k) PROVE AckedInv'
  BY <1>11, <1>12 DEF DueDatePasses
<1>13. CASE UNCHANGED vars
  BY <1>11, <1>13 DEF vars, database
<1>14. QED
  BY <1>1, <1>3, <1>4, <1>5, <1>6, <1>7, <1>8, <1>9, <1>10, <1>12, <1>13 DEF Next, Continue

\* What the others are at stays.
LEMMA OthersRevising ==
  ASSUME TypeInv, NEW q \in Requests, NEW next, NEW what, NEW k, NEW target, NEW a,
         Moves(q, next, what, k, target, a), Grows, NEW p \in Requests, p # q, NEW i \in Invoices
  PROVE  /\ Unrevised(p, i)' <=> Unrevised(p, i)
         /\ Recording(p, i)' <=> Recording(p, i)
<1>1. pc'[p] = pc[p] /\ op'[p] = op[p] /\ doc'[p] = doc[p]
  BY MovedTo
<1>2. pc[p] # "idle" => source'[doc[p]] = source[doc[p]]
  BY AtWork DEF Grows, Shape
<1>3. QED
  BY <1>1, <1>2 DEF Unrevised, Recording

\* Moves that insert no revision of the invoice.
LEMMA RevisedKept ==
  ASSUME TypeInv, NEW q \in Requests, NEW next, NEW what, NEW k, NEW target, NEW a,
         Moves(q, next, what, k, target, a), Grows, NEW i \in Invoices, RevisedOnce(i),
         Revisions(i)' = Revisions(i),
         overlapped \subseteq overlapped', torn \subseteq torn',
         Intact(i)' =>
           /\ \/ status'[i] = status[i] \/ status'[i] # "dispute_acknowledged"
              \/ Revisions(i) = {}
           /\ HasFollowUp(i) => HasFollowUp(i)' \/ Revisions(i) = {}
           /\ Unrevised(q, i)' => Unrevised(q, i) \/ Revisions(i) = {}
           /\ Recording(q, i) /\ status'[i] = "dispute_acknowledged" => Recording(q, i)' \/ HasFollowUp(i)'
  PROVE  RevisedOnce(i)'
<1> SUFFICES ASSUME Intact(i)'
             PROVE  /\ \A r, s \in Revisions(i)' : r = s
                    /\ \A p \in Requests : Unrevised(p, i)' => Revisions(i)' = {}
                    /\ status'[i] = "dispute_acknowledged" /\ Revisions(i)' # {} =>
                         HasFollowUp(i)' \/ \E p \in Requests : Recording(p, i)'
  BY DEF RevisedOnce
<1>1. Intact(i)
  BY DEF Intact
<1>2. \A r, s \in Revisions(i)' : r = s
  BY <1>1 DEF RevisedOnce
<1>3. ASSUME NEW p \in Requests, Unrevised(p, i)' PROVE Revisions(i)' = {}
  <2>1. Unrevised(p, i) \/ Revisions(i) = {}
    BY <1>3, OthersRevising
  <2>2. QED
    BY <1>1, <2>1 DEF RevisedOnce
<1>4. ASSUME status'[i] = "dispute_acknowledged", Revisions(i)' # {}, ~HasFollowUp(i)'
      PROVE  \E p \in Requests : Recording(p, i)'
  <2>1. status[i] = "dispute_acknowledged" /\ Revisions(i) # {} /\ ~HasFollowUp(i)
    BY <1>4
  <2>2. PICK p \in Requests : Recording(p, i)
    BY <1>1, <2>1 DEF RevisedOnce
  <2>3. Recording(p, i)'
    BY <1>4, <2>2, OthersRevising
  <2>4. QED
    BY <2>3
<1>5. QED
  BY <1>2, <1>3, <1>4

\* Only a status that a revision leads to has one.
LEMMA NotRevised ==
  ASSUME RevisedInv, NEW i \in Invoices, i \notin overlapped,
         status[i] \notin {"partially_paid", "dispute_acknowledged", "accredited", "archived"}
  PROVE  Revisions(i) = {}
<1> SUFFICES ASSUME NEW r \in Revisions(i) PROVE FALSE
  OBVIOUS
<1>1. r \in Invoices /\ source[r] = i /\ source[r] # NoInvoice
  BY InvoiceAssumption DEF Revisions
<1>2. QED
  BY <1>1 DEF RevisedInv

\* Steps that write neither status, source nor event.
LEMMA RevisedLook ==
  ASSUME TypeInv, NEW q \in Requests, NEW next, NEW what, NEW k, NEW target, NEW a,
         Moves(q, next, what, k, target, a), UNCHANGED <<status, source, total, audit>>,
         overlapped \subseteq overlapped', torn \subseteq torn', NEW i \in Invoices, RevisedOnce(i),
         Intact(i)' => /\ Unrevised(q, i)' => Unrevised(q, i) \/ Revisions(i) = {}
                       /\ ~Recording(q, i)
  PROVE  RevisedOnce(i)'
<1>1. Grows /\ Revisions(i)' = Revisions(i) /\ (HasFollowUp(i)' <=> HasFollowUp(i))
  BY DEF Grows, Revisions, HasFollowUp
<1>2. QED
  BY <1>1, RevisedKept

LEMMA StartRevised ==
  ASSUME TypeInv, NEW q \in Requests, NEW k \in Invoices, Start(q, k), NEW i \in Invoices, RevisedOnce(i)
  PROVE  RevisedOnce(i)'
<1>1. PICK what, next, target, a : Started(q, k, what, next, target, a)
  BY StartStarts
<1>2. /\ Moves(q, next, what, k, target, a) /\ UNCHANGED <<status, source, total, audit>>
      /\ overlapped \subseteq overlapped' /\ torn \subseteq torn'
      /\ pc[q] = "idle" /\ next \in {"check", "payment", "write"}
  BY <1>1 DEF Started, database
<1>3. ~Unrevised(q, i)' /\ ~Recording(q, i)
  BY <1>2, MovedTo DEF Unrevised, Recording
<1>4. QED
  BY <1>2, <1>3, RevisedLook

\* A request that ends, and did not have to record a revision.
LEMMA FinishRevised ==
  ASSUME TypeInv, NEW q \in Requests, Finish(q), UNCHANGED <<status, source, total, audit>>,
         overlapped \subseteq overlapped', torn \subseteq torn', NEW i \in Invoices, RevisedOnce(i),
         Intact(i)' => ~Recording(q, i)
  PROVE  RevisedOnce(i)'
<1>1. Moves(q, "idle", "none", NoInvoice, NoStatus, 0)
  BY FinishMoves
<1>2. ~Unrevised(q, i)'
  BY <1>1, MovedTo DEF Unrevised
<1>3. QED
  BY <1>1, <1>2, RevisedLook

LEMMA CheckRevised ==
  ASSUME TypeInv, Safe, NEW q \in Requests, CheckAudit(q), NEW i \in Invoices, RevisedOnce(i)
  PROVE  RevisedOnce(i)'
<1>1. /\ pc[q] = "check" /\ UNCHANGED <<status, source, total, audit, overlapped, torn>>
      /\ ~Recording(q, i)
  BY DEF CheckAudit, database, history, Recording
<1>2. CASE Finish(q)
  BY <1>1, <1>2, FinishRevised
<1>3. CASE ~Finish(q)
  <2>1. PICK next, target : /\ Turn(q, next, op[q], doc[q], target)
                            /\ \/ op[q] = "acknowledge" /\ next = "email"
                               \/ op[q] = "deny" /\ next = "write"
                               \/ op[q] \in {"discount", "credit"} /\ next = "revise" /\ ~HasFollowUp(doc[q])
    BY <1>3 DEF CheckAudit
  <2>2. Moves(q, next, op[q], doc[q], target, amount[q])
    BY <2>1, TurnMoves
  <2>3. ASSUME Intact(i)', Unrevised(q, i)' PROVE Revisions(i) = {}
    <3>1. doc[q] = i /\ next \in {"email", "revise"} /\ Intact(i) /\ i \notin overlapped
      BY <1>1, <2>2, <2>3, MovedTo DEF Unrevised, Intact
    <3>2. CASE op[q] = "acknowledge"
      <4>1. status[i] = "disputed"
        BY <1>1, <3>1, <3>2 DEF Safe, CurrentInv, Current
      <4>2. QED
        BY <3>1, <4>1, NotRevised DEF Safe
    <3>3. CASE op[q] \in {"discount", "credit"} /\ ~HasFollowUp(i)
      <4>1. status[i] = "dispute_acknowledged" /\ Works(q, i)
        BY <1>1, <3>1, <3>3 DEF Safe, CurrentInv, Current, Works
      <4>2. ASSUME NEW p \in Requests, Recording(p, i) PROVE FALSE
        <5>1. Works(p, i) /\ p # q
          BY <1>1, <4>2 DEF Works, Recording, FollowsUp
        <5>2. QED
          BY <3>1, <4>1, <5>1 DEF Safe, AloneInv
      <4>3. QED
        BY <3>1, <3>3, <4>1, <4>2 DEF RevisedOnce
    <3>4. QED
      BY <2>1, <3>1, <3>2, <3>3
  <2>4. QED
    BY <1>1, <2>2, <2>3, RevisedLook
<1>4. QED
  BY <1>2, <1>3

LEMMA PaymentRevised ==
  ASSUME TypeInv, NEW q \in Requests, InsertPayment(q), NEW i \in Invoices, RevisedOnce(i)
  PROVE  RevisedOnce(i)'
<1>1. /\ pc[q] = "payment" /\ UNCHANGED <<status, source, total, audit, overlapped, torn>>
      /\ Moves(q, "write", op[q], doc[q], to[q], amount[q])
  BY TurnMoves DEF InsertPayment, history
<1>2. ~Unrevised(q, i)' /\ ~Recording(q, i)
  BY <1>1, MovedTo DEF Unrevised, Recording
<1>3. QED
  BY <1>1, <1>2, RevisedLook

LEMMA EmailRevised ==
  ASSUME TypeInv, NEW q \in Requests, NEW ok \in BOOLEAN, EmailAcknowledgment(q, ok),
         NEW i \in Invoices, RevisedOnce(i)
  PROVE  RevisedOnce(i)'
<1>1. /\ pc[q] = "email" /\ UNCHANGED <<status, source, total, overlapped, torn>> /\ ~Recording(q, i)
  BY DEF EmailAcknowledgment, history, Recording
<1>2. CASE ~ok
  BY <1>1, <1>2, FinishRevised DEF EmailAcknowledgment
<1>3. CASE ok
  <2>1. /\ Moves(q, "reread", op[q], doc[q], NoStatus, amount[q])
        /\ audit' = [audit EXCEPT ![doc[q]] = Append(@, "ackEmail")]
    BY <1>3, TurnMoves DEF EmailAcknowledgment
  <2>2. ~Unrevised(q, i)' /\ Grows /\ Revisions(i)' = Revisions(i)
    BY <1>1, <2>1, MovedTo DEF Unrevised, Grows, Revisions
  <2>3. ASSUME Intact(i)', HasFollowUp(i), ~HasFollowUp(i)' PROVE Revisions(i) = {}
    <3>1. audit'[i] # audit[i]
      BY <2>3 DEF HasFollowUp
    <3>2. Unrevised(q, i)
      BY <1>1, <2>1, <3>1, DatabaseType DEF Unrevised
    <3>3. Intact(i)
      BY <1>1, <2>3 DEF Intact
    <3>4. QED
      BY <3>2, <3>3 DEF RevisedOnce
  <2>4. QED
    BY <1>1, <2>1, <2>2, <2>3, RevisedKept
<1>4. QED
  BY <1>2, <1>3

LEMMA RereadRevised ==
  ASSUME TypeInv, NEW q \in Requests, Reread(q), NEW i \in Invoices, RevisedOnce(i)
  PROVE  RevisedOnce(i)'
<1>1. /\ pc[q] = "reread" /\ UNCHANGED <<status, source, total, audit, overlapped, torn>>
      /\ ~Recording(q, i)
  BY DEF Reread, database, history, Recording
<1>2. CASE Finish(q)
  BY <1>1, <1>2, FinishRevised
<1>3. CASE ~Finish(q)
  <2>1. Moves(q, "write", op[q], doc[q], Planned(op[q]), amount[q])
    BY <1>3, TurnMoves DEF Reread
  <2>2. ~Unrevised(q, i)'
    BY <2>1, MovedTo DEF Unrevised
  <2>3. QED
    BY <1>1, <2>1, <2>2, RevisedLook
<1>4. QED
  BY <1>2, <1>3

LEMMA InsertRevised ==
  ASSUME TypeInv, Safe, NEW q \in Requests, NEW r \in Invoices, InsertRevision(q, r),
         NEW i \in Invoices, RevisedOnce(i)
  PROVE  RevisedOnce(i)'
<1>1. PICK k \in Invoices : k = doc[q]
  BY AtWork DEF InsertRevision
<1>2. /\ pc[q] = "revise" /\ status[r] = Absent /\ status'[r] = "draft" /\ r # k /\ source'[r] = k
      /\ op[q] \in {"pay", "discount", "credit"}
      /\ \A j \in Invoices : j # r =>
           status'[j] = status[j] /\ source'[j] = source[j] /\ total'[j] = total[j]
      /\ UNCHANGED <<audit, overlapped, torn>>
  BY <1>1, Inserts
<1>3. PICK next, what : /\ Moves(q, next, what, r, NoStatus, amount[q])
                        /\ next \in {"reread", "record"}
                        /\ op[q] # "pay" => next = "record" /\ what = op[q]
  BY <1>1, <1>2, Inserts
<1>4. Grows /\ source[r] = NoInvoice /\ NoInvoice \notin Invoices
  BY <1>2, DatabaseType DEF Grows, TypeInv, Row
<1>5. ~Unrevised(q, i)' /\ ~Recording(q, i)
  BY <1>2, <1>3, MovedTo DEF Unrevised, Recording
<1>6. CASE i # k
  <2>1. Revisions(i)' = Revisions(i)
    <3>1. \A j \in Invoices : source'[j] = i <=> source[j] = i
      BY <1>2, <1>4, <1>6
    <3>2. QED
      BY <3>1 DEF Revisions
  <2>2. status'[i] = status[i] \/ status'[i] # "dispute_acknowledged"
    BY <1>2
  <2>3. HasFollowUp(i)' <=> HasFollowUp(i)
    BY <1>2 DEF HasFollowUp
  <2>4. QED
    BY <1>2, <1>3, <1>4, <1>5, <2>1, <2>2, <2>3, RevisedKept
<1>7. CASE i = k /\ ~Intact(i)
  BY <1>2, <1>7 DEF RevisedOnce, Intact
<1>8. CASE i = k /\ Intact(i)
  <2>1. Revisions(i) = {}
    BY <1>1, <1>2, <1>8 DEF RevisedOnce, Unrevised
  <2>2. \A s \in Revisions(i)' : s = r
    BY <1>2, <2>1 DEF Revisions
  <2>3. ASSUME NEW p \in Requests PROVE ~Unrevised(p, i)'
    <3>1. CASE p # q
      <4>1. Works(q, i) /\ i \notin overlapped
        BY <1>1, <1>2, <1>8 DEF Works, Intact
      <4>2. ~Works(p, i)
        BY <3>1, <4>1 DEF Safe, AloneInv
      <4>3. ~Unrevised(p, i)
        BY <4>2 DEF Unrevised, Works
      <4>4. QED
        BY <1>3, <1>4, <3>1, <4>3, OthersRevising
    <3>2. QED
      BY <1>5, <3>1
  <2>4. status'[i] = "dispute_acknowledged" => Recording(q, i)'
    <3>1. op[q] = "pay" => status[i] = "partially_paid"
      BY <1>1, <1>2, <1>8 DEF Safe, CurrentInv, Current, Intact
    <3>2. op[q] # "pay" => Recording(q, i)'
      BY <1>2, <1>3, <1>8, MovedTo DEF Recording
    <3>3. status'[i] = status[i]
      BY <1>2, <1>8
    <3>4. QED
      BY <3>1, <3>2, <3>3
  <2>5. QED
    BY <2>2, <2>3, <2>4 DEF RevisedOnce
<1>9. QED
  BY <1>6, <1>7, <1>8

LEMMA WriteRevised ==
  ASSUME TypeInv, Safe, NEW q \in Requests, WriteStatus(q), NEW i \in Invoices, RevisedOnce(i)
  PROVE  RevisedOnce(i)'
<1>1. PICK k \in Invoices : k = doc[q]
  BY AtWork DEF WriteStatus
<1>2. /\ pc[q] = "write" /\ status'[k] = to[q] /\ status[k] # Absent /\ to[q] \in Status
      /\ \A j \in Invoices : j # k => status'[j] = status[j]
      /\ UNCHANGED <<source, total, audit, overlapped, torn>>
  BY <1>1, Writes
<1>3. Grows /\ Revisions(i)' = Revisions(i) /\ (HasFollowUp(i)' <=> HasFollowUp(i)) /\ ~Recording(q, i)
  BY <1>2, DatabaseType DEF Grows, Revisions, HasFollowUp, Recording
<1>4. PICK next, what, j, a : /\ Moves(q, next, what, j, NoStatus, a)
                              /\ next \in {"idle", "record", "reread"} \/
                                   (next = "revise" /\ j = k /\ to[q] = "partially_paid")
  <2>1. CASE Finish(q)
    BY <2>1, FinishMoves
  <2>2. CASE ~Finish(q)
    BY <1>1, <2>2, Writes
  <2>3. QED
    BY <2>1, <2>2
<1>5. ASSUME k \notin overlapped, to[q] \in {"partially_paid", "dispute_acknowledged"}
      PROVE  Revisions(k) = {}
  <2>1. to[q] \in LegalNext[status[k]] /\ status[k] \in Status
    BY <1>1, <1>2, <1>5, WritesLegal, DatabaseType
  <2>2. status[k] \in {"sent", "overdue", "disputed"}
    BY <1>5, <2>1 DEF LegalNext, Status
  <2>3. QED
    BY <1>5, <2>2, NotRevised DEF Safe
<1>6. ASSUME Intact(i)'
      PROVE  /\ \/ status'[i] = status[i] \/ status'[i] # "dispute_acknowledged"
                \/ Revisions(i) = {}
             /\ Unrevised(q, i)' => Revisions(i) = {}
  <2>1. i \notin overlapped
    BY <1>2, <1>6 DEF Intact
  <2>2. Unrevised(q, i)' => i = k /\ to[q] = "partially_paid"
    BY <1>4, MovedTo DEF Unrevised
  <2>3. QED
    BY <1>2, <1>5, <2>1, <2>2
<1>7. QED
  BY <1>2, <1>3, <1>4, <1>6, RevisedKept

LEMMA RecordRevised ==
  ASSUME TypeInv, AckedInv, NEW q \in Requests, NEW ok \in BOOLEAN, RecordEvent(q, ok),
         NEW i \in Invoices, RevisedOnce(i)
  PROVE  RevisedOnce(i)'
<1>1. pc[q] = "record" /\ UNCHANGED <<status, source, total, overlapped, torn>>
  BY Records
<1>2. Grows /\ Revisions(i)' = Revisions(i)
  BY <1>1 DEF Grows, Revisions
<1>3. PICK next, what, j, target, a : Moves(q, next, what, j, target, a) /\ next \in {"idle", "reread"}
  <2>1. CASE Finish(q)
    BY <2>1, FinishMoves
  <2>2. CASE ~Finish(q)
    BY <2>2, Records, TurnMoves
  <2>3. QED
    BY <2>1, <2>2
<1>4. ~Unrevised(q, i)'
  BY <1>3, MovedTo DEF Unrevised
<1>5. HasFollowUp(i) => HasFollowUp(i)'
  <2>1. CASE audit'[i] = audit[i]
    BY <2>1 DEF HasFollowUp
  <2>2. CASE audit'[i] # audit[i]
    BY <2>2, RecordAppends, FollowUpStays
  <2>3. QED
    BY <2>1, <2>2
<1>6. ASSUME Recording(q, i), status'[i] = "dispute_acknowledged" PROVE HasFollowUp(i)'
  <2>1. audit'[i] = Append(audit[i], "followUp")
    BY <1>6, RecordAppends DEF Recording
  <2>2. Acked(audit[i])
    BY <1>1, <1>6 DEF AckedInv
  <2>3. QED
    BY <2>1, <2>2, FollowUpFollows
<1>7. QED
  BY <1>1, <1>2, <1>3, <1>4, <1>5, <1>6, RevisedKept

LEMMA DieRevised ==
  ASSUME TypeInv, NEW q \in Requests, Die(q), NEW i \in Invoices, RevisedOnce(i)
  PROVE  RevisedOnce(i)'
<1>1. /\ Finish(q) /\ UNCHANGED <<status, source, total, audit, overlapped>>
      /\ torn' = torn \union {<<j, op[q]>> : j \in {k \in Invoices : Touches(q, k)}}
  BY DEF Die, database
<1>2. Recording(q, i) => ~Intact(i)'
  <2>1. Recording(q, i) => Touches(q, i) /\ op[q] \in {"discount", "credit"}
    BY DEF Recording, Touches
  <2>2. QED
    BY <1>1, <2>1 DEF Intact
<1>3. QED
  BY <1>1, <1>2, FinishRevised

LEMMA NextRevisions == IInv /\ RevisionsInv /\ [Next]_vars => RevisionsInv'
<1> SUFFICES ASSUME TypeInv, Safe, AckedInv, [Next]_vars, NEW i \in Invoices, RevisedOnce(i)
             PROVE  RevisedOnce(i)'
  BY NextAcked DEF IInv, Safe, RevisionsInv
<1>1. ASSUME NEW q \in Requests, NEW k \in Invoices, Start(q, k) PROVE RevisedOnce(i)'
  BY <1>1, StartRevised
<1>2. ASSUME NEW q \in Requests, Continue(q) PROVE RevisedOnce(i)'
  BY <1>2, CheckRevised, PaymentRevised, EmailRevised, RereadRevised, InsertRevised, WriteRevised,
     RecordRevised, DieRevised DEF Continue
<1>3. ASSUME UNCHANGED <<status, source, audit>>, UNCHANGED requests, UNCHANGED history
      PROVE  RevisedOnce(i)'
  BY <1>3 DEF RevisedOnce, Intact, Revisions, Unrevised, Recording, HasFollowUp, requests, history
<1>4. ASSUME NEW k \in Invoices, DueDatePasses(k) PROVE RevisedOnce(i)'
  BY <1>3, <1>4 DEF DueDatePasses
<1>5. CASE UNCHANGED vars
  BY <1>3, <1>5 DEF vars, database
<1>6. QED
  BY <1>1, <1>2, <1>4, <1>5 DEF Next

LEMMA InitRevisions == Init => RevisionsInv
<1> SUFFICES ASSUME Init PROVE RevisionsInv
  OBVIOUS
<1>1. AckedInv
  BY DEF Init, AckedInv, Absent
<1>2. ASSUME NEW i \in Invoices PROVE RevisedOnce(i)
  BY InvoiceAssumption DEF Init, RevisedOnce, Revisions, Unrevised
<1>3. QED
  BY <1>1, <1>2 DEF RevisionsInv

\* An invoice is revised once, unless a request ended between a revision and the
\* audit event that tells of it, or two requests overlapped.
THEOREM RevisedOnlyOnce == Spec => []OneRevision
<1>1. RevisionsInv => OneRevision
  BY DEF RevisionsInv, RevisedOnce, Intact, OneRevision
<1>2. QED
  BY <1>1, InitRevisions, NextRevisions, Inductive, PTL DEF Spec

-----------------------------------------------------------------------------
(* The refinement of DocumentStatus *)

\* What the mapping makes of the requests.
Mapped == [q \in Requests |-> IF to[q] = NoStatus THEN NoPlan ELSE <<doc[q], to[q]>>]

LEMMA MappedInit == Init => DS!Init
<1> SUFFICES ASSUME Init PROVE DS!Init
  OBVIOUS
<1>1. status \in [Invoices -> {"draft"} \union {Absent}]
  BY DEF Init
<1>2. [q \in Requests |-> IF to[q] = NoStatus THEN NoPlan ELSE <<doc[q], to[q]>>] = [w \in Requests |-> NoPlan]
  BY DEF Init
<1>3. QED
  BY <1>1, <1>2 DEF DS!Init

\* How a move looks from there.
LEMMA MappedMove ==
  ASSUME TypeInv, NEW q \in Requests, NEW next, NEW what, NEW i, NEW target, NEW a,
         Moves(q, next, what, i, target, a)
  PROVE  Mapped' = [Mapped EXCEPT ![q] = IF target = NoStatus THEN NoPlan ELSE <<i, target>>]
<1> DEFINE plan == IF target = NoStatus THEN NoPlan ELSE <<i, target>>
<1>1. /\ doc'[q] = i /\ to'[q] = target
      /\ \A p \in Requests : p # q => doc'[p] = doc[p] /\ to'[p] = to[p]
  BY MovedTo
<1>2. Mapped' = [p \in Requests |-> IF to'[p] = NoStatus THEN NoPlan ELSE <<doc'[p], to'[p]>>]
  BY DEF Mapped, NoPlan
<1>3. \A p \in Requests : Mapped'[p] = IF p = q THEN plan ELSE Mapped[p]
  BY <1>1, <1>2 DEF Mapped
<1>4. QED
  BY <1>2, <1>3 DEF Mapped

\* Moves that leave the statuses alone: they plan, give the plan up, or keep it.
LEMMA MappedLook ==
  ASSUME TypeInv, NEW q \in Requests, NEW next, NEW what, NEW i, NEW target, NEW a,
         Moves(q, next, what, i, target, a), status' = status,
         \/ target = NoStatus
         \/ target = to[q] /\ i = doc[q]
         \/ /\ to[q] = NoStatus /\ i \in Invoices /\ status[i] \in Status
            /\ target \in Status /\ target \in LegalNext[status[i]]
  PROVE  [DS!Next]_(DS!vars)
<1>1. Mapped' = [Mapped EXCEPT ![q] = IF target = NoStatus THEN NoPlan ELSE <<i, target>>]
  BY MappedMove
<1>2. Mapped[q] = IF to[q] = NoStatus THEN NoPlan ELSE <<doc[q], to[q]>>
  BY DEF Mapped
<1>3. CASE Mapped[q] = IF target = NoStatus THEN NoPlan ELSE <<i, target>>
  <2>1. Mapped' = Mapped
    BY <1>1, <1>3 DEF Mapped
  <2>2. QED
    BY <2>1 DEF DS!vars, Mapped
<1>4. CASE target = NoStatus /\ Mapped[q] # NoPlan
  <2>1. Mapped' = [Mapped EXCEPT ![q] = NoPlan]
    BY <1>1, <1>4
  <2>2. DS!Drop(q)
    BY <1>4, <2>1 DEF DS!Drop, Mapped
  <2>3. QED
    BY <2>2 DEF DS!Next
<1>5. CASE to[q] = NoStatus /\ i \in Invoices /\ status[i] \in Status
           /\ target \in Status /\ target \in LegalNext[status[i]]
  <2>1. target # NoStatus
    BY <1>5 DEF Status, NoStatus
  <2>2. Mapped' = [Mapped EXCEPT ![q] = <<i, target>>]
    BY <1>1, <2>1
  <2>3. Mapped[q] = NoPlan
    BY <1>2, <1>5
  <2>4. DS!Plan(q, i, target)
    BY <1>5, <2>2, <2>3 DEF DS!Plan, Mapped
  <2>5. QED
    BY <1>5, <2>4 DEF DS!Next
<1>6. QED
  BY <1>2, <1>3, <1>4, <1>5

LEMMA MappedFinish ==
  ASSUME TypeInv, NEW q \in Requests, Finish(q), status' = status
  PROVE  [DS!Next]_(DS!vars)
BY FinishMoves, MappedLook

LEMMA MappedTurn ==
  ASSUME TypeInv, NEW q \in Requests, pc[q] # "idle", NEW next, NEW what, NEW i, NEW target,
         Turn(q, next, what, i, target), status' = status,
         \/ target = NoStatus
         \/ target = to[q] /\ i = doc[q]
         \/ /\ to[q] = NoStatus /\ i = doc[q]
            /\ target \in Status /\ target \in LegalNext[status[i]]
  PROVE  [DS!Next]_(DS!vars)
<1>1. doc[q] \in Invoices /\ status[doc[q]] \in Status
  BY AtWork
<1>2. QED
  BY <1>1, TurnMoves, MappedLook

LEMMA MappedWrite ==
  ASSUME TypeInv, NEW q \in Requests, WriteStatus(q)
  PROVE  DS!Write(q)
<1>1. PICK i \in Invoices : i = doc[q]
  BY AtWork DEF WriteStatus
<1>2. to[q] \in Status /\ status' = [status EXCEPT ![i] = to[q]]
  BY <1>1, Writes
<1>3. PICK next, what, k, a : Moves(q, next, what, k, NoStatus, a)
  BY <1>1, FinishMoves, Writes
<1>4. Mapped' = [Mapped EXCEPT ![q] = NoPlan]
  BY <1>3, MappedMove
<1>5. Mapped[q] = <<i, to[q]>> /\ Mapped[q] # NoPlan
  BY <1>1, <1>2 DEF Mapped, Status, NoStatus, NoPlan
<1>6. status' = [status EXCEPT ![Mapped[q][1]] = Mapped[q][2]]
  BY <1>2, <1>5
<1>7. QED
  BY <1>4, <1>5, <1>6 DEF DS!Write, Mapped

LEMMA MappedInsert ==
  ASSUME TypeInv, NEW q \in Requests, NEW r \in Invoices, InsertRevision(q, r)
  PROVE  DS!Create(r)
<1>1. PICK i \in Invoices : i = doc[q]
  BY AtWork DEF InsertRevision
<1>2. status[r] = Absent /\ status' = [status EXCEPT ![r] = "draft"] /\ pc[q] = "revise"
  BY DEF InsertRevision
<1>3. to[q] = NoStatus
  BY <1>2, AtWork DEF Shape, Fits
<1>4. PICK next, what, a : Moves(q, next, what, r, NoStatus, a)
  BY <1>1, Inserts
<1>5. Mapped' = Mapped
  <2>1. Mapped' = [Mapped EXCEPT ![q] = NoPlan]
    BY <1>4, MappedMove
  <2>2. QED
    BY <1>3, <2>1 DEF Mapped
<1>6. QED
  BY <1>2, <1>5 DEF DS!Create, Mapped

LEMMA MappedNext == TypeInv /\ [Next]_vars => [DS!Next]_(DS!vars)
<1> SUFFICES ASSUME TypeInv, [Next]_vars PROVE [DS!Next]_(DS!vars)
  OBVIOUS
<1>1. ASSUME NEW q \in Requests, NEW i \in Invoices, Start(q, i) PROVE [DS!Next]_(DS!vars)
  <2>1. PICK what, next, target, a : Started(q, i, what, next, target, a)
    BY <1>1, StartStarts
  <2>2. to[q] = NoStatus
    BY <2>1 DEF Started, TypeInv, Shape, Fits
  <2>3. Moves(q, next, what, i, target, a) /\ status' = status /\ status[i] \in Status
        /\ (target # NoStatus => target \in Status /\ target \in LegalNext[status[i]])
    BY <2>1 DEF Started, database
  <2>4. QED
    BY <2>2, <2>3, MappedLook
<1>2. ASSUME NEW q \in Requests, Continue(q) PROVE [DS!Next]_(DS!vars)
  <2>1. CASE CheckAudit(q)
    <3>1. pc[q] # "idle" /\ status' = status
      BY <2>1 DEF CheckAudit, database
    <3>2. QED
      BY <2>1, <3>1, MappedTurn, MappedFinish DEF CheckAudit
  <2>2. CASE InsertPayment(q)
    BY <2>2, MappedTurn DEF InsertPayment
  <2>3. ASSUME NEW ok \in BOOLEAN, EmailAcknowledgment(q, ok) PROVE [DS!Next]_(DS!vars)
    BY <2>3, MappedTurn, MappedFinish DEF EmailAcknowledgment
  <2>4. CASE Reread(q)
    <3>1. /\ pc[q] # "idle" /\ status' = status /\ to[q] = NoStatus
          /\ op[q] \in {"acknowledge", "accredit", "send", "sendCredit"}
      BY <2>4, AtWork DEF Reread, database, Shape, Fits
    <3>2. CASE status[doc[q]] = Expected(op[q]) /\ Turn(q, "write", op[q], doc[q], Planned(op[q]))
      <4>1. Planned(op[q]) \in LegalNext[status[doc[q]]] /\ Planned(op[q]) \in Status
        BY <3>1, <3>2 DEF Expected, Planned, LegalNext, Status
      <4>2. QED
        BY <3>1, <3>2, <4>1, MappedTurn
    <3>3. CASE Finish(q)
      BY <3>1, <3>3, MappedFinish
    <3>4. QED
      BY <2>4, <3>2, <3>3 DEF Reread
  <2>5. ASSUME NEW r \in Invoices, InsertRevision(q, r) PROVE [DS!Next]_(DS!vars)
    BY <2>5, MappedInsert DEF DS!Next
  <2>6. CASE WriteStatus(q)
    BY <2>6, MappedWrite DEF DS!Next
  <2>7. ASSUME NEW ok \in BOOLEAN, RecordEvent(q, ok) PROVE [DS!Next]_(DS!vars)
    BY <2>7, Records, MappedTurn, MappedFinish
  <2>8. CASE Die(q)
    BY <2>8, MappedFinish DEF Die, database
  <2>9. QED
    BY <1>2, <2>1, <2>2, <2>3, <2>4, <2>5, <2>6, <2>7, <2>8 DEF Continue
<1>3. ASSUME UNCHANGED <<status, doc, to>> PROVE [DS!Next]_(DS!vars)
  BY <1>3 DEF DS!vars
<1>4. ASSUME NEW i \in Invoices, DueDatePasses(i) PROVE [DS!Next]_(DS!vars)
  BY <1>3, <1>4 DEF DueDatePasses, requests
<1>5. CASE UNCHANGED vars
  BY <1>3, <1>5 DEF vars, database, requests
<1>6. QED
  BY <1>1, <1>2, <1>4, <1>5 DEF Next

\* Payments, disputes, credits and the overdue job implement DocumentStatus:
\* whatever overlaps and dies, each status that is written was legal from one
\* the invoice had since its writer looked.
THEOREM Refines == Spec => ImplementsDocumentStatus
<1>1. Spec => []TypeInv
  BY InitType, NextType, PTL DEF Spec
<1>2. Spec => DS!Spec
  BY <1>1, MappedInit, MappedNext, PTL DEF Spec, DS!Spec
<1>3. QED
  BY <1>2 DEF ImplementsDocumentStatus
=============================================================================
