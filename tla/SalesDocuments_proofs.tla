------------------------ MODULE SalesDocuments_proofs ------------------------
(***************************************************************************)
(* Proofs about SalesDocuments for every set of documents and requests and *)
(* every number of quotes and mishaps.                                     *)
(***************************************************************************)
EXTENDS SalesDocuments, TLAPS

-----------------------------------------------------------------------------
(* The inductive invariant *)

\* A request at work has a document, and knows what to write; documents that
\* exist belong to a deal.
RequestsFit ==
  /\ \A r \in Requests :
       /\ pc[r] = "idle" <=> to[r] = None
       /\ pc[r] = "idle" <=> doc[r] = NoDocument
       /\ pc[r] = "idle" => makes[r] = None
       /\ pc[r] = "insert" => makes[r] \in Drafts
       /\ pc[r] # "idle" => status[doc[r]] # Absent
  /\ \A d \in Documents : status[d] = Absent <=> deal[d] = NoDocument

TypeInv == TypeOK /\ RequestsFit

\* The successor of the document is there, and its status is about to tell.
Superseded(d) == \E r \in Requests : doc[r] = d /\ pc[r] = "write" /\ makes[r] # None

\* The document the deal is at.
Head(d) == status[d] \in Live /\ deal[d] \notin troubled /\ ~Superseded(d)

\* A deal begins with a quote that exists, and is at one document.
DealsInv ==
  /\ \A d \in Documents : status[d] # Absent => status[deal[d]] # Absent
  /\ \A d, e \in Documents : Head(d) /\ Head(e) /\ deal[d] = deal[e] => d = e

\* A request on a document is the only one; what it writes is of the same kind
\* as the document, and brings no document back to life.
WorkInv ==
  /\ \A r, q \in Requests :
       doc[r] = doc[q] /\ doc[r] # NoDocument /\ deal[doc[r]] \notin troubled => r = q
  /\ \A r \in Requests : pc[r] # "idle" =>
       /\ makes[r] # None => to[r] \notin Live
       /\ deal[doc[r]] \notin troubled =>
            (pc[r] = "insert" \/ to[r] \in Live => status[doc[r]] \in Live)
       /\ to[r] \in OfferStatus <=> status[doc[r]] \in OfferStatus
       /\ makes[r] = "offer_draft" => to[r] \notin OfferStatus

\* The offer whose revision the next offer of the document counts on.
LastOffer(d) == IF status[d] \in OfferStatus THEN d ELSE offerOf[d]

\* Offers have numbers of their own deal, and the last offer of a deal has the
\* highest revision of its number.
NumberInv ==
  \A d \in Documents :
    /\ number[d] # NoNumber =>
         number[d][1] \in Documents /\ deal[number[d][1]] = deal[d] /\ status[d] # Absent
    /\ status[d] \in OfferStatus => number[d] # NoNumber
    /\ offerOf[d] # NoDocument =>
         /\ number[offerOf[d]] # NoNumber
         /\ deal[offerOf[d]] = deal[d] /\ status[d] # Absent
    /\ Head(d) /\ LastOffer(d) # NoDocument =>
         \A e \in Documents : number[e][1] = number[LastOffer(d)][1] =>
           number[e][2] <= number[LastOffer(d)][2]

IInv == TypeInv /\ DealsInv /\ WorkInv /\ NumberInv /\ RevisionsUnique

-----------------------------------------------------------------------------
(* How requests begin *)

\* What all the operations have in common when they begin: the document is
\* there, the status they plan is legal from what they saw and of the same
\* kind, and only a live document gets a successor or a live status.
Planned(r, d, next, target, successor) ==
  /\ Begin(r, d, next, target, successor)
  /\ status[d] # Absent /\ target \in Status /\ target \in LegalNext[status[d]]
  /\ successor \in Drafts \union {None}
  /\ (next = "insert" /\ successor # None) \/ (next = "write" /\ successor = None)
  /\ target \in OfferStatus <=> status[d] \in OfferStatus
  /\ successor = "offer_draft" => target \notin OfferStatus
  /\ successor # None => target \notin Live /\ status[d] \in Live
  /\ target \in Live => status[d] \in Live

\* Every operation begins with a plan of that kind.
LEMMA StartPlans ==
  ASSUME TypeInv, NEW r \in Requests, NEW d \in Documents, Start(r, d)
  PROVE  \E next, target, successor : Planned(r, d, next, target, successor)
<1> USE DEF Planned, Convert, Rewrite, Status, QuoteStatus, OfferStatus, InvoiceStatus, Drafts, Live,
            Absent, None, LegalNext
<1>1. CASE PromoteQuoteToOffer(r, d)
  BY <1>1 DEF PromoteQuoteToOffer, Convertible
<1>2. CASE PromoteQuoteToInvoice(r, d)
  BY <1>2 DEF PromoteQuoteToInvoice, Convertible
<1>3. CASE PromoteOfferToInvoice(r, d)
  BY <1>3 DEF PromoteOfferToInvoice
<1>4. CASE DemoteOfferToQuote(r, d)
  BY <1>4 DEF DemoteOfferToQuote
<1>5. CASE DemoteInvoiceToQuote(r, d)
  BY <1>5 DEF DemoteInvoiceToQuote
<1>6. CASE ArchiveQuote(r, d)
  BY <1>6 DEF ArchiveQuote
<1>7. CASE DeleteQuote(r, d)
  BY <1>7 DEF DeleteQuote
<1>8. CASE SendOffer(r, d)
  BY <1>8 DEF SendOffer
<1>9. ASSUME NEW target \in OfferStatus,
             DecideOffer(r, d, target) \/ DecideOfferFromCustomerLink(r, d, target)
      PROVE  \E next, t, successor : Planned(r, d, next, t, successor)
  BY <1>9 DEF DecideOffer, DecideOfferFromCustomerLink, AwaitsDecision
<1>10. CASE ExpireOffer(r, d)
  BY <1>10 DEF ExpireOffer, MayExpire
<1>11. CASE SendInvoice(r, d)
  BY <1>11 DEF SendInvoice
<1>12. CASE DenyDispute(r, d)
  BY <1>12 DEF DenyDispute
<1>13. QED
  BY <1>1, <1>2, <1>3, <1>4, <1>5, <1>6, <1>7, <1>8, <1>9, <1>10, <1>11, <1>12 DEF Start

-----------------------------------------------------------------------------
(* Types *)

LEMMA InitType == Init => TypeInv
<1> SUFFICES ASSUME Init PROVE TypeInv
  OBVIOUS
<1>1. NoDocument \notin Documents /\ MaxMishaps \in Nat
  BY DocumentsAssumption
<1>2. TypeOK
  BY <1>1 DEF Init, TypeOK, NoNumber
<1>3. RequestsFit
  BY <1>1 DEF Init, RequestsFit
<1>4. QED
  BY <1>2, <1>3 DEF TypeInv

\* A request begins.
LEMMA StartType ==
  ASSUME TypeInv, NEW r \in Requests, NEW d \in Documents,
         NEW next, NEW target, NEW successor,
         Planned(r, d, next, target, successor)
  PROVE  TypeInv'
<1>1. NoDocument \notin Documents /\ MaxMishaps \in Nat
  BY DocumentsAssumption
<1>2. TypeOK'
  <2>1. troubled' \subseteq Documents /\ mishaps' \in Nat
    BY <1>1 DEF TypeInv, TypeOK, RequestsFit, Planned, Begin
  <2>2. UNCHANGED <<database, deal>>
    BY DEF Planned, Begin
  <2>3. QED
    BY <2>1, <2>2 DEF TypeInv, TypeOK, Planned, Begin, database
<1>3. RequestsFit'
  <2>1. UNCHANGED <<status, deal>>
    BY DEF Planned, Begin, database
  <2>2. target # None
    BY DEF Planned, Status, QuoteStatus, OfferStatus, InvoiceStatus, None
  <2>3. QED
    BY <1>1, <2>1, <2>2 DEF TypeInv, TypeOK, RequestsFit, Planned, Begin
<1>4. QED
  BY <1>2, <1>3 DEF TypeInv

\* A request ends.
LEMMA FinishType ==
  ASSUME TypeInv, NEW r \in Requests, Finish(r)
  PROVE  /\ pc'    \in [Requests -> {"idle", "insert", "write"}]
         /\ doc'   \in [Requests -> Documents \union {NoDocument}]
         /\ to'    \in [Requests -> Status \union {None}]
         /\ makes' \in [Requests -> Drafts \union {None}]
         /\ \A q \in Requests :
              \/ q = r /\ pc'[q] = "idle" /\ doc'[q] = NoDocument /\ to'[q] = None /\ makes'[q] = None
              \/ q # r /\ pc'[q] = pc[q] /\ doc'[q] = doc[q] /\ to'[q] = to[q] /\ makes'[q] = makes[q]
BY DEF TypeInv, TypeOK, Finish

\* A request at work is on a document that exists.
LEMMA AtWorkExists ==
  ASSUME TypeInv, NEW r \in Requests, pc[r] # "idle"
  PROVE  /\ doc[r] \in Documents /\ status[doc[r]] \in Status /\ deal[doc[r]] \in Documents
         /\ to[r] \in Status
BY DocumentsAssumption DEF TypeInv, TypeOK, RequestsFit

\* The successor is inserted, or the request ends.
LEMMA InsertType ==
  ASSUME TypeInv, NEW r \in Requests, NEW n \in Documents, InsertSuccessor(r, n)
  PROVE  TypeInv'
<1> DEFINE d == doc[r]
<1>1. NoDocument \notin Documents
  BY DocumentsAssumption
<1>2. pc[r] = "insert" /\ status[n] = Absent /\ UNCHANGED <<expiry, linked, troubled, mishaps>>
  BY DEF InsertSuccessor
<1>3. d \in Documents /\ status[d] \in Status /\ deal[d] \in Documents
  BY <1>2, AtWorkExists
<1>4. CASE status[d] = "deleted"
  <2>1. Finish(r) /\ UNCHANGED <<status, offerOf, number, deal>>
    BY <1>4 DEF InsertSuccessor
  <2>2. TypeOK'
    BY <1>2, <2>1, FinishType DEF TypeInv, TypeOK
  <2>3. RequestsFit'
    BY <1>1, <2>1, FinishType DEF TypeInv, RequestsFit
  <2>4. QED
    BY <2>2, <2>3 DEF TypeInv
<1>5. CASE status[d] # "deleted"
  <2>1. /\ status' = [status EXCEPT ![n] = makes[r]]
        /\ deal'   = [deal EXCEPT ![n] = deal[d]]
        /\ pc'     = [pc EXCEPT ![r] = "write"]
        /\ UNCHANGED <<doc, to, makes>>
    BY <1>5 DEF InsertSuccessor
  <2>2. makes[r] \in Drafts /\ Drafts \subseteq Status /\ Absent \notin Drafts
    BY <1>2 DEF TypeInv, RequestsFit, Drafts, Status, QuoteStatus, OfferStatus, InvoiceStatus, Absent
  <2>3. offerOf' \in [Documents -> Documents \union {NoDocument}]
    <3>1. SourceOffer(d) \in Documents \union {NoDocument}
      BY <1>3 DEF TypeInv, TypeOK, SourceOffer
    <3>2. QED
      BY <1>5, <3>1 DEF InsertSuccessor, TypeInv, TypeOK
  <2>4. number' \in [Documents -> (Documents \union {NoDocument}) \X Nat]
    <3>1. OfferNumber(d, n) \in (Documents \union {NoDocument}) \X Nat
      BY <1>3 DEF TypeInv, TypeOK, OfferNumber, NextRevision
    <3>2. QED
      BY <1>5, <3>1 DEF InsertSuccessor, TypeInv, TypeOK
  <2>5. TypeOK'
    BY <1>2, <1>3, <2>1, <2>2, <2>3, <2>4 DEF TypeInv, TypeOK
  <2>6. RequestsFit'
    <3>1. ASSUME NEW q \in Requests
          PROVE  /\ pc'[q] = "idle" <=> to'[q] = None
                 /\ pc'[q] = "idle" <=> doc'[q] = NoDocument
                 /\ pc'[q] = "idle" => makes'[q] = None
                 /\ pc'[q] = "insert" => makes'[q] \in Drafts
                 /\ pc'[q] # "idle" => status'[doc'[q]] # Absent
      <4>1. pc[q] = "idle" <=> pc'[q] = "idle"
        BY <1>2, <2>1 DEF TypeInv, TypeOK
      <4>2. pc'[q] = "insert" => pc[q] = "insert"
        BY <1>2, <2>1 DEF TypeInv, TypeOK
      <4>3. pc[q] # "idle" => status'[doc[q]] # Absent
        BY <2>1, <2>2, AtWorkExists DEF TypeInv, TypeOK, RequestsFit
      <4>4. QED
        BY <2>1, <4>1, <4>2, <4>3 DEF TypeInv, RequestsFit
    <3>2. ASSUME NEW e \in Documents PROVE status'[e] = Absent <=> deal'[e] = NoDocument
      BY <1>1, <1>3, <2>1, <2>2 DEF TypeInv, TypeOK, RequestsFit
    <3>3. QED
      BY <3>1, <3>2 DEF RequestsFit
  <2>7. QED
    BY <2>5, <2>6 DEF TypeInv
<1>6. QED
  BY <1>4, <1>5

\* The status is written, and the request ends.
LEMMA WriteType ==
  ASSUME TypeInv, NEW r \in Requests, WriteStatus(r)
  PROVE  TypeInv'
<1> DEFINE d == doc[r]
<1>1. /\ pc[r] = "write" /\ Finish(r) /\ UNCHANGED <<offerOf, number, linked, deal, troubled, mishaps>>
      /\ status' = IF status[d] = "deleted" THEN status ELSE [status EXCEPT ![d] = to[r]]
      /\ expiry' = IF to[r] = "offer_sent" THEN [expiry EXCEPT ![d] = "open"] ELSE expiry
  BY DEF WriteStatus, history
<1>2. d \in Documents /\ status[d] # Absent /\ to[r] \in Status
  BY <1>1, AtWorkExists DEF TypeInv, RequestsFit
<1>3. Absent \notin Status
  BY DEF Status, QuoteStatus, OfferStatus, InvoiceStatus, Absent
<1>4. TypeOK'
  BY <1>1, <1>2, FinishType DEF TypeInv, TypeOK
<1>5. \A e \in Documents : status'[e] = Absent <=> status[e] = Absent
  BY <1>1, <1>2, <1>3 DEF TypeInv, TypeOK
<1>6. RequestsFit'
  BY <1>1, <1>5, FinishType, AtWorkExists, DocumentsAssumption DEF TypeInv, RequestsFit
<1>7. QED
  BY <1>4, <1>6 DEF TypeInv

\* A request dies.
LEMMA DieType ==
  ASSUME TypeInv, NEW r \in Requests, Die(r)
  PROVE  TypeInv'
<1>1. /\ pc[r] # "idle" /\ Finish(r) /\ UNCHANGED <<status, offerOf, number, expiry, linked, deal>>
      /\ mishaps' = mishaps + 1 /\ troubled' = troubled \union {deal[doc[r]]}
  BY DEF Die, database
<1>2. deal[doc[r]] \in Documents
  BY <1>1, AtWorkExists
<1>3. TypeOK'
  BY <1>1, <1>2, FinishType DEF TypeInv, TypeOK
<1>4. RequestsFit'
  BY <1>1, FinishType, DocumentsAssumption DEF TypeInv, RequestsFit
<1>5. QED
  BY <1>3, <1>4 DEF TypeInv

\* A quote is created.
LEMMA CreateType ==
  ASSUME TypeInv, NEW d \in Documents, CreateQuote(d)
  PROVE  TypeInv'
<1>1. /\ status[d] = Absent /\ status' = [status EXCEPT ![d] = "quote_draft"]
      /\ deal' = [deal EXCEPT ![d] = d]
      /\ UNCHANGED <<offerOf, number, expiry, linked, pc, doc, to, makes, troubled, mishaps>>
  BY DEF CreateQuote, requests
<1>2. "quote_draft" \in Status /\ "quote_draft" # Absent
  BY DEF Status, QuoteStatus, Absent
<1>3. TypeOK'
  BY <1>1, <1>2 DEF TypeInv, TypeOK
<1>4. \A e \in Documents : status'[e] = Absent => status[e] = Absent
  BY <1>1, <1>2 DEF TypeInv, TypeOK
<1>5. RequestsFit'
  <2>1. \A q \in Requests : pc[q] # "idle" => status'[doc[q]] # Absent
    BY <1>4, AtWorkExists DEF TypeInv, RequestsFit
  <2>2. \A e \in Documents : status'[e] = Absent <=> deal'[e] = NoDocument
    BY <1>1, <1>2, DocumentsAssumption DEF TypeInv, TypeOK, RequestsFit
  <2>3. QED
    BY <1>1, <2>1, <2>2 DEF TypeInv, RequestsFit
<1>6. QED
  BY <1>3, <1>5 DEF TypeInv

\* Nothing else touches what RequestsFit is about.
LEMMA QuietType ==
  ASSUME TypeInv, NEW d \in Documents, IssueResponseLink(d) \/ ValidityEnds(d)
  PROVE  TypeInv'
<1>1. /\ UNCHANGED <<status, offerOf, number, pc, doc, to, makes, deal, troubled, mishaps>>
      /\ expiry' \in [Documents -> {"none", "open", "past"}] /\ linked' \subseteq Documents
  BY DEF TypeInv, TypeOK, IssueResponseLink, ValidityEnds, requests, history
<1>2. TypeOK'
  BY <1>1 DEF TypeInv, TypeOK
<1>3. RequestsFit'
  BY <1>1 DEF TypeInv, RequestsFit
<1>4. QED
  BY <1>2, <1>3 DEF TypeInv

LEMMA NextType == TypeInv /\ [Next]_vars => TypeInv'
<1> SUFFICES ASSUME TypeInv, [Next]_vars PROVE TypeInv'
  OBVIOUS
<1>1. ASSUME NEW r \in Requests, NEW d \in Documents, Start(r, d) PROVE TypeInv'
  BY <1>1, StartPlans, StartType
<1>2. ASSUME NEW r \in Requests, Continue(r) PROVE TypeInv'
  BY <1>2, InsertType, WriteType, DieType DEF Continue
<1>3. ASSUME NEW d \in Documents, CreateQuote(d) \/ IssueResponseLink(d) \/ ValidityEnds(d)
      PROVE  TypeInv'
  BY <1>3, CreateType, QuietType
<1>4. CASE UNCHANGED vars
  BY <1>4 DEF vars, database, requests, history, TypeInv, TypeOK, RequestsFit
<1>5. QED
  BY <1>1, <1>2, <1>3, <1>4 DEF Next

\* Every variable keeps its type.
THEOREM TypeCorrect == Spec => []TypeOK
<1>1. TypeInv => TypeOK
  BY DEF TypeInv
<1>2. QED
  BY <1>1, InitType, NextType, PTL DEF Spec

-----------------------------------------------------------------------------
(* Steps that insert no document *)

\* What every such step leaves alone: deals and numbers, which documents there
\* are and of which kind, and no document becomes the head of its deal.
Quiet ==
  /\ UNCHANGED <<deal, number, offerOf>> /\ troubled \subseteq troubled'
  /\ \A e \in Documents :
       /\ status'[e] = Absent <=> status[e] = Absent
       /\ status'[e] \in OfferStatus <=> status[e] \in OfferStatus
       /\ Head(e)' => Head(e)

LEMMA QuietKeeps ==
  ASSUME TypeInv, DealsInv, NumberInv, RevisionsUnique, Quiet
  PROVE  DealsInv' /\ NumberInv' /\ RevisionsUnique'
<1>1. DealsInv'
  <2>1. ASSUME NEW d \in Documents, status'[d] # Absent PROVE status'[deal'[d]] # Absent
    <3>1. status[d] # Absent /\ deal'[d] = deal[d] /\ deal[d] \in Documents
      BY <2>1 DEF Quiet, TypeInv, TypeOK, RequestsFit
    <3>2. QED
      BY <3>1 DEF Quiet, DealsInv
  <2>2. ASSUME NEW d \in Documents, NEW e \in Documents, Head(d)', Head(e)', deal'[d] = deal'[e]
        PROVE  d = e
    BY <2>2 DEF Quiet, DealsInv
  <2>3. QED
    BY <2>1, <2>2 DEF DealsInv
<1>2. NumberInv'
  <2>1. ASSUME NEW d \in Documents
        PROVE  /\ number'[d] # NoNumber =>
                    number'[d][1] \in Documents /\ deal'[number'[d][1]] = deal'[d] /\ status'[d] # Absent
               /\ status'[d] \in OfferStatus => number'[d] # NoNumber
               /\ offerOf'[d] # NoDocument =>
                    /\ number'[offerOf'[d]] # NoNumber
                    /\ deal'[offerOf'[d]] = deal'[d] /\ status'[d] # Absent
    BY DEF Quiet, NumberInv
  <2>2. ASSUME NEW d \in Documents, Head(d)', LastOffer(d)' # NoDocument,
               NEW e \in Documents, number'[e][1] = number'[LastOffer(d)'][1]
        PROVE  number'[e][2] <= number'[LastOffer(d)'][2]
    <3>1. LastOffer(d)' = LastOffer(d)
      BY DEF Quiet, LastOffer
    <3>2. Head(d)
      BY <2>2 DEF Quiet
    <3>3. QED
      BY <2>2, <3>1, <3>2 DEF Quiet, NumberInv
  <2>3. QED
    BY <2>1, <2>2 DEF NumberInv, LastOffer
<1>3. RevisionsUnique'
  BY DEF Quiet, RevisionsUnique
<1>4. QED
  BY <1>1, <1>2, <1>3

\* A request begins.
LEMMA StartKeeps ==
  ASSUME IInv, NEW r \in Requests, NEW d \in Documents, NEW next, NEW target, NEW successor,
         Planned(r, d, next, target, successor)
  PROVE  Quiet /\ WorkInv'
<1>1. TypeInv /\ WorkInv
  BY DEF IInv
<1>2. /\ UNCHANGED <<status, deal, number, offerOf>> /\ troubled \subseteq troubled'
      /\ pc[r] = "idle" /\ doc[r] = NoDocument
      /\ ~(next = "write" /\ successor # None) /\ next \in {"insert", "write"}
  BY <1>1 DEF Planned, Begin, database, TypeInv, RequestsFit
<1>3. /\ pc'[r] = next /\ doc'[r] = d /\ to'[r] = target /\ makes'[r] = successor
      /\ \A q \in Requests : q # r =>
           pc'[q] = pc[q] /\ doc'[q] = doc[q] /\ to'[q] = to[q] /\ makes'[q] = makes[q]
  BY <1>1 DEF Planned, Begin, TypeInv, TypeOK
<1>4. \A e \in Documents : Superseded(e) => Superseded(e)'
  BY <1>2, <1>3 DEF Superseded
<1>5. Quiet
  BY <1>2, <1>4 DEF Quiet, Head
<1>6. WorkInv'
  <2>1. ASSUME NEW q \in Requests, NEW p \in Requests,
               doc'[q] = doc'[p], doc'[q] # NoDocument, deal'[doc'[q]] \notin troubled'
        PROVE  q = p
    <3>1. ASSUME NEW x \in Requests, x # r, doc[x] = d PROVE deal[d] \in troubled'
      BY <3>1 DEF Planned, Begin
    <3>2. QED
      BY <1>1, <1>2, <1>3, <2>1, <3>1 DEF WorkInv
  <2>2. ASSUME NEW q \in Requests, pc'[q] # "idle"
        PROVE  /\ makes'[q] # None => to'[q] \notin Live
               /\ deal'[doc'[q]] \notin troubled' =>
                    (pc'[q] = "insert" \/ to'[q] \in Live => status'[doc'[q]] \in Live)
               /\ to'[q] \in OfferStatus <=> status'[doc'[q]] \in OfferStatus
               /\ makes'[q] = "offer_draft" => to'[q] \notin OfferStatus
    <3>1. CASE q = r
      BY <1>2, <1>3, <3>1 DEF Planned
    <3>2. CASE q # r
      BY <1>1, <1>2, <1>3, <2>2, <3>2 DEF WorkInv
    <3>3. QED
      BY <3>1, <3>2
  <2>3. QED
    BY <2>1, <2>2 DEF WorkInv
<1>7. QED
  BY <1>5, <1>6

\* A request ends that has not inserted its successor, and leaves its document
\* and the others' as they are, or dies, which makes its deal a troubled one.
LEMMA EndKeeps ==
  ASSUME IInv, NEW r \in Requests, Finish(r), pc[r] # "idle",
         UNCHANGED <<status, deal, number, offerOf>>,
         \/ pc[r] = "insert" /\ troubled' = troubled
         \/ troubled' = troubled \union {deal[doc[r]]}
  PROVE  Quiet /\ WorkInv'
<1>1. TypeInv /\ WorkInv
  BY DEF IInv
<1>2. ASSUME NEW e \in Documents, Head(e)' PROVE Head(e)
  <2>1. status[e] \in Live /\ deal[e] \notin troubled /\ ~Superseded(e)'
    BY <1>2 DEF Head
  <2>2. ASSUME NEW q \in Requests, doc[q] = e, pc[q] = "write", makes[q] # None PROVE FALSE
    <3>1. CASE q = r
      BY <1>2, <2>2, <3>1 DEF Head
    <3>2. CASE q # r
      BY <1>1, <2>1, <2>2, <3>2, FinishType DEF Superseded
    <3>3. QED
      BY <3>1, <3>2
  <2>3. QED
    BY <2>1, <2>2 DEF Head, Superseded
<1>3. Quiet
  BY <1>2 DEF Quiet
<1>4. WorkInv'
  BY <1>1, FinishType DEF WorkInv
<1>5. QED
  BY <1>3, <1>4

\* The status is written.
LEMMA WriteKeeps ==
  ASSUME IInv, NEW r \in Requests, WriteStatus(r)
  PROVE  Quiet /\ WorkInv'
<1> DEFINE d == doc[r]
<1>1. TypeInv /\ WorkInv
  BY DEF IInv
<1>2. /\ pc[r] = "write" /\ Finish(r) /\ UNCHANGED <<offerOf, number, deal, troubled>>
      /\ status' = IF status[d] = "deleted" THEN status ELSE [status EXCEPT ![d] = to[r]]
  BY DEF WriteStatus, history
<1>3. d \in Documents /\ d # NoDocument /\ status[d] # Absent /\ to[r] \in Status
  BY <1>1, <1>2, AtWorkExists, DocumentsAssumption DEF TypeInv, RequestsFit
<1>4. Absent \notin Status /\ "deleted" \notin Live
  BY DEF Status, QuoteStatus, OfferStatus, InvoiceStatus, Absent, Live
<1>5. \A e \in Documents : e # d => status'[e] = status[e]
  BY <1>1, <1>2 DEF TypeInv, TypeOK
<1>6. status'[d] = status[d] \/ status'[d] = to[r]
  BY <1>1, <1>2, <1>3 DEF TypeInv, TypeOK
<1>7. \A e \in Documents : /\ status'[e] = Absent <=> status[e] = Absent
                           /\ status'[e] \in OfferStatus <=> status[e] \in OfferStatus
  BY <1>1, <1>2, <1>3, <1>4, <1>5, <1>6 DEF WorkInv
<1>8. ASSUME NEW e \in Documents, Head(e)' PROVE Head(e)
  <2>1. status'[e] \in Live /\ deal[e] \notin troubled /\ ~Superseded(e)'
    BY <1>2, <1>8 DEF Head
  <2>2. CASE e # d
    <3>1. Superseded(e) => Superseded(e)'
      BY <1>1, <1>2, <2>2, FinishType DEF Superseded
    <3>2. QED
      BY <1>5, <2>1, <2>2, <3>1 DEF Head
  <2>3. CASE e = d
    <3>1. status[d] # "deleted" /\ status'[d] = to[r]
      BY <1>1, <1>2, <1>3, <1>4, <2>1, <2>3 DEF TypeInv, TypeOK
    <3>2. status[d] \in Live /\ makes[r] = None
      BY <1>1, <1>2, <2>1, <2>3, <3>1 DEF WorkInv
    <3>3. \A q \in Requests : doc[q] = d => q = r
      BY <1>1, <1>3, <2>1, <2>3 DEF WorkInv
    <3>4. QED
      BY <2>1, <2>3, <3>2, <3>3 DEF Head, Superseded
  <2>4. QED
    BY <2>2, <2>3
<1>9. Quiet
  <2>1. UNCHANGED <<deal, number, offerOf>> /\ troubled \subseteq troubled'
    BY <1>2
  <2>2. \A e \in Documents : Head(e)' => Head(e)
    BY <1>8
  <2>3. QED
    BY <1>7, <2>1, <2>2 DEF Quiet
<1>10. WorkInv'
  <2>1. ASSUME NEW q \in Requests, NEW p \in Requests,
               doc'[q] = doc'[p], doc'[q] # NoDocument, deal'[doc'[q]] \notin troubled'
        PROVE  q = p
    BY <1>1, <1>2, <2>1, FinishType DEF WorkInv
  <2>2. ASSUME NEW q \in Requests, pc'[q] # "idle"
        PROVE  /\ makes'[q] # None => to'[q] \notin Live
               /\ deal'[doc'[q]] \notin troubled' =>
                    (pc'[q] = "insert" \/ to'[q] \in Live => status'[doc'[q]] \in Live)
               /\ to'[q] \in OfferStatus <=> status'[doc'[q]] \in OfferStatus
               /\ makes'[q] = "offer_draft" => to'[q] \notin OfferStatus
    <3>1. /\ q # r /\ pc'[q] = pc[q] /\ doc'[q] = doc[q] /\ to'[q] = to[q] /\ makes'[q] = makes[q]
          /\ pc[q] # "idle"
      BY <1>1, <1>2, <2>2, FinishType
    <3>2. doc[q] \in Documents
      BY <1>1, <3>1, AtWorkExists
    <3>3. deal[doc[q]] \notin troubled => status'[doc[q]] = status[doc[q]]
      BY <1>1, <1>3, <1>5, <3>1, <3>2 DEF WorkInv
    <3>4. QED
      BY <1>1, <1>2, <1>7, <3>1, <3>2, <3>3 DEF WorkInv
  <2>3. QED
    BY <2>1, <2>2 DEF WorkInv
<1>11. QED
  BY <1>9, <1>10

-----------------------------------------------------------------------------
(* Steps that insert a document *)

\* Bases of numbers, like documents, belong to one deal.
LEMMA BaseExists ==
  ASSUME TypeInv, NumberInv, NEW e \in Documents, number[e][1] \in Documents
  PROVE  status[number[e][1]] # Absent /\ deal[number[e][1]] = deal[e] /\ status[e] # Absent
<1>1. number[e] # NoNumber
  BY DocumentsAssumption DEF NoNumber
<1>2. QED
  BY <1>1, DocumentsAssumption DEF NumberInv, TypeInv, RequestsFit

\* A quote begins a deal.
LEMMA CreateKeeps ==
  ASSUME IInv, NEW d \in Documents, CreateQuote(d)
  PROVE  DealsInv' /\ WorkInv' /\ NumberInv' /\ RevisionsUnique'
<1>1. TypeInv /\ DealsInv /\ WorkInv /\ NumberInv /\ RevisionsUnique
  BY DEF IInv
<1>2. /\ status[d] = Absent /\ status' = [status EXCEPT ![d] = "quote_draft"]
      /\ deal' = [deal EXCEPT ![d] = d]
      /\ UNCHANGED <<offerOf, number, pc, doc, to, makes, troubled>>
  BY DEF CreateQuote, requests
<1>3. /\ status'[d] = "quote_draft" /\ deal'[d] = d
      /\ \A e \in Documents : e # d => status'[e] = status[e] /\ deal'[e] = deal[e]
  BY <1>1, <1>2 DEF TypeInv, TypeOK
<1>4. "quote_draft" # Absent /\ "quote_draft" \notin OfferStatus /\ "quote_draft" \in Live
  BY DEF Absent, OfferStatus, Live
<1>5. \A e \in Documents : status[e] # Absent => deal[e] \in Documents /\ deal[e] # d
  BY <1>1, <1>2 DEF TypeInv, TypeOK, RequestsFit, DealsInv
<1>6. \A e \in Documents : e # d /\ Head(e)' => Head(e) /\ status[e] # Absent
  <2>1. Absent \notin Live
    BY DEF Absent, Live
  <2>2. QED
    BY <1>2, <1>3, <2>1 DEF Head, Superseded
<1>7. DealsInv'
  <2>1. ASSUME NEW e \in Documents, status'[e] # Absent PROVE status'[deal'[e]] # Absent
    BY <1>1, <1>3, <1>4, <1>5, <2>1 DEF DealsInv
  <2>2. ASSUME NEW e \in Documents, NEW f \in Documents, Head(e)', Head(f)', deal'[e] = deal'[f]
        PROVE  e = f
    BY <1>1, <1>3, <1>5, <1>6, <2>2 DEF DealsInv
  <2>3. QED
    BY <2>1, <2>2 DEF DealsInv
<1>8. WorkInv'
  <2>1. \A q \in Requests : doc[q] # NoDocument => doc[q] \in Documents /\ doc[q] # d
    BY <1>1, <1>2 DEF TypeInv, TypeOK, RequestsFit
  <2>2. \A q \in Requests : pc[q] # "idle" => doc[q] # NoDocument
    BY <1>1 DEF TypeInv, RequestsFit
  <2>3. ASSUME NEW q \in Requests, NEW p \in Requests,
               doc'[q] = doc'[p], doc'[q] # NoDocument, deal'[doc'[q]] \notin troubled'
        PROVE  q = p
    BY <1>1, <1>2, <1>3, <2>1, <2>3 DEF WorkInv
  <2>4. ASSUME NEW q \in Requests, pc'[q] # "idle"
        PROVE  /\ makes'[q] # None => to'[q] \notin Live
               /\ deal'[doc'[q]] \notin troubled' =>
                    (pc'[q] = "insert" \/ to'[q] \in Live => status'[doc'[q]] \in Live)
               /\ to'[q] \in OfferStatus <=> status'[doc'[q]] \in OfferStatus
               /\ makes'[q] = "offer_draft" => to'[q] \notin OfferStatus
    <3>1. pc[q] # "idle" /\ status'[doc[q]] = status[doc[q]] /\ deal'[doc[q]] = deal[doc[q]]
      BY <1>2, <1>3, <2>1, <2>2, <2>4
    <3>2. QED
      BY <1>1, <1>2, <3>1 DEF WorkInv
  <2>5. QED
    BY <2>3, <2>4 DEF WorkInv
<1>9. number[d] = NoNumber /\ offerOf[d] = NoDocument
  BY <1>1, <1>2 DEF NumberInv
<1>10. NumberInv'
  <2>1. ASSUME NEW e \in Documents, number'[e] # NoNumber
        PROVE  number'[e][1] \in Documents /\ deal'[number'[e][1]] = deal'[e] /\ status'[e] # Absent
    <3>1. number[e][1] \in Documents /\ deal[number[e][1]] = deal[e] /\ status[e] # Absent
      BY <1>1, <1>2, <2>1 DEF NumberInv
    <3>2. status[number[e][1]] # Absent
      BY <1>1, <3>1, BaseExists
    <3>3. QED
      BY <1>2, <1>3, <3>1, <3>2
  <2>2. ASSUME NEW e \in Documents, status'[e] \in OfferStatus PROVE number'[e] # NoNumber
    BY <1>1, <1>2, <1>3, <1>4, <2>2 DEF NumberInv
  <2>3. ASSUME NEW e \in Documents, offerOf'[e] # NoDocument
        PROVE  /\ number'[offerOf'[e]] # NoNumber
               /\ deal'[offerOf'[e]] = deal'[e] /\ status'[e] # Absent
    <3>1. /\ offerOf[e] \in Documents /\ number[offerOf[e]] # NoNumber
          /\ deal[offerOf[e]] = deal[e] /\ status[e] # Absent
      BY <1>1, <1>2, <2>3 DEF NumberInv, TypeInv, TypeOK
    <3>2. status[offerOf[e]] # Absent
      BY <1>1, <3>1 DEF NumberInv
    <3>3. QED
      BY <1>2, <1>3, <3>1, <3>2
  <2>4. ASSUME NEW f \in Documents, Head(f)', LastOffer(f)' # NoDocument,
               NEW e \in Documents, number'[e][1] = number'[LastOffer(f)'][1]
        PROVE  number'[e][2] <= number'[LastOffer(f)'][2]
    <3>1. f # d
      BY <1>2, <1>3, <1>4, <1>9, <2>4 DEF LastOffer
    <3>2. Head(f) /\ LastOffer(f)' = LastOffer(f)
      BY <1>2, <1>3, <1>6, <2>4, <3>1 DEF LastOffer
    <3>3. QED
      BY <1>1, <1>2, <2>4, <3>2 DEF NumberInv
  <2>5. QED
    BY <2>1, <2>2, <2>3, <2>4 DEF NumberInv, LastOffer
<1>11. RevisionsUnique'
  <2>1. ASSUME NEW e \in Documents, NEW f \in Documents,
               e # f, number'[e] # NoNumber, deal'[e] \notin troubled'
        PROVE  number'[e] # number'[f]
    BY <1>1, <1>2, <1>3, <1>9, <2>1 DEF RevisionsUnique
  <2>2. QED
    BY <2>1 DEF RevisionsUnique
<1>12. QED
  BY <1>7, <1>8, <1>10, <1>11

\* The document whose successor is inserted is the head of its deal, and hands
\* this on to the successor.
LEMMA InsertHeads ==
  ASSUME IInv, NEW r \in Requests, NEW n \in Documents, InsertSuccessor(r, n),
         NEW d \in Documents, d = doc[r], status[d] # "deleted"
  PROVE  /\ deal[d] \notin troubled => Head(d)
         /\ ~Head(d)'
         /\ \A e \in Documents : e # n /\ Head(e)' =>
              Head(e) /\ status[e] # Absent /\ deal[e] # deal[d]
<1>1. TypeInv /\ DealsInv /\ WorkInv
  BY DEF IInv
<1>2. /\ pc[r] = "insert" /\ status[n] = Absent
      /\ status' = [status EXCEPT ![n] = makes[r]]
      /\ deal' = [deal EXCEPT ![n] = deal[d]]
      /\ pc' = [pc EXCEPT ![r] = "write"]
      /\ UNCHANGED <<doc, to, makes, troubled>>
  BY DEF InsertSuccessor
<1>3. /\ d \in Documents /\ status[d] # Absent /\ deal[d] \in Documents /\ d # n
      /\ makes[r] # None
  <2>1. makes[r] \in Drafts
    BY <1>1, <1>2 DEF TypeInv, RequestsFit
  <2>2. QED
    BY <1>1, <1>2, <2>1, AtWorkExists DEF TypeInv, RequestsFit, Drafts, None
<1>4. /\ pc'[r] = "write" /\ \A q \in Requests : q # r => pc'[q] = pc[q]
      /\ \A e \in Documents : e # n => status'[e] = status[e] /\ deal'[e] = deal[e]
  BY <1>1, <1>2 DEF TypeInv, TypeOK
<1>5. deal[d] \notin troubled => Head(d)
  <2>1. SUFFICES ASSUME deal[d] \notin troubled PROVE Head(d)
    OBVIOUS
  <2>2. status[d] \in Live
    BY <1>1, <1>2, <2>1 DEF WorkInv
  <2>3. \A q \in Requests : doc[q] = d => q = r
    BY <1>1, <1>3, <2>1, DocumentsAssumption DEF WorkInv
  <2>4. QED
    BY <1>2, <2>1, <2>2, <2>3 DEF Head, Superseded
<1>6. ~Head(d)'
  BY <1>2, <1>3, <1>4 DEF Head, Superseded
<1>7. ASSUME NEW e \in Documents, e # n, Head(e)'
      PROVE  Head(e) /\ status[e] # Absent /\ deal[e] # deal[d]
  <2>1. Superseded(e) => Superseded(e)'
    BY <1>2, <1>4 DEF Superseded
  <2>2. Head(e) /\ deal[e] \notin troubled
    BY <1>2, <1>4, <1>7, <2>1 DEF Head
  <2>3. status[e] # Absent
    BY <2>2 DEF Head, Live, Absent
  <2>4. ASSUME deal[e] = deal[d] PROVE FALSE
    <3>1. e = d
      BY <1>1, <1>3, <1>5, <2>2, <2>4 DEF DealsInv
    <3>2. QED
      BY <1>6, <1>7, <3>1
  <2>5. QED
    BY <2>2, <2>3, <2>4
<1>8. QED
  BY <1>5, <1>6, <1>7

\* The number of a new offer is higher than the others of its base, and no
\* other deal has its base.
LEMMA NewNumber ==
  ASSUME IInv, NEW d \in Documents, NEW n \in Documents,
         status[d] # Absent, status[d] \notin OfferStatus, status[n] = Absent
  PROVE  LET m == OfferNumber(d, n) IN
         /\ m # NoNumber /\ m[1] \in Documents /\ m[2] \in Nat
         /\ m[1] = n \/ (status[m[1]] # Absent /\ deal[m[1]] = deal[d])
         /\ Head(d) => \A e \in Documents : number[e][1] = m[1] => number[e][2] < m[2]
<1> DEFINE o == offerOf[d]
<1>1. TypeInv /\ NumberInv /\ NoDocument \notin Documents
  BY DocumentsAssumption DEF IInv
<1>2. \A e \in Documents : number[e][1] # n
  BY <1>1, BaseExists
<1>3. CASE o = NoDocument
  <2>1. OfferNumber(d, n) = <<n, 0>>
    BY <1>3 DEF OfferNumber
  <2>2. QED
    BY <1>1, <1>2, <2>1 DEF NoNumber
<1>4. CASE o # NoDocument
  <2>1. OfferNumber(d, n) = <<number[o][1], number[o][2] + 1>>
    BY <1>4 DEF OfferNumber, NextRevision
  <2>2. /\ o \in Documents /\ number[o] # NoNumber /\ deal[o] = deal[d]
        /\ number[o][1] \in Documents /\ number[o][2] \in Nat
    BY <1>1, <1>4 DEF NumberInv, TypeInv, TypeOK
  <2>3. status[number[o][1]] # Absent /\ deal[number[o][1]] = deal[d]
    BY <1>1, <2>2, BaseExists
  <2>4. ASSUME Head(d), NEW e \in Documents, number[e][1] = number[o][1]
        PROVE  number[e][2] < number[o][2] + 1
    <3>1. LastOffer(d) = o
      BY DEF LastOffer
    <3>2. number[e][2] <= number[o][2]
      BY <1>1, <1>4, <2>4, <3>1 DEF NumberInv
    <3>3. number[e][2] \in Nat
      BY <1>1 DEF TypeInv, TypeOK
    <3>4. QED
      BY <2>2, <3>2, <3>3
  <2>5. QED
    BY <1>1, <2>1, <2>2, <2>3, <2>4 DEF NoNumber
<1>5. QED
  BY <1>3, <1>4

LEMMA InsertKeeps ==
  ASSUME IInv, NEW r \in Requests, NEW n \in Documents, InsertSuccessor(r, n),
         NEW d \in Documents, d = doc[r], status[d] # "deleted"
  PROVE  DealsInv' /\ WorkInv' /\ NumberInv' /\ RevisionsUnique'
<1>1. TypeInv /\ DealsInv /\ WorkInv /\ NumberInv /\ RevisionsUnique /\ NoDocument \notin Documents
  BY DocumentsAssumption DEF IInv
<1>2. /\ pc[r] = "insert" /\ status[n] = Absent
      /\ status' = [status EXCEPT ![n] = makes[r]]
      /\ deal' = [deal EXCEPT ![n] = deal[d]]
      /\ pc' = [pc EXCEPT ![r] = "write"]
      /\ offerOf' = IF makes[r] = "offer_draft" THEN offerOf ELSE [offerOf EXCEPT ![n] = SourceOffer(d)]
      /\ number' = IF makes[r] = "offer_draft" THEN [number EXCEPT ![n] = OfferNumber(d, n)] ELSE number
      /\ UNCHANGED <<doc, to, makes, troubled>>
  BY DEF InsertSuccessor
<1>3. /\ status[d] # Absent /\ deal[d] \in Documents /\ d # n
      /\ makes[r] \in Drafts /\ makes[r] # None /\ makes[r] # Absent
  BY <1>1, <1>2, AtWorkExists DEF TypeInv, RequestsFit, Drafts, None, Absent
<1>4. /\ status'[n] = makes[r] /\ deal'[n] = deal[d]
      /\ \A e \in Documents : e # n => status'[e] = status[e] /\ deal'[e] = deal[e]
      /\ \A q \in Requests : pc'[q] = "insert" => pc[q] = "insert"
      /\ \A q \in Requests : pc'[q] = "idle" <=> pc[q] = "idle"
  BY <1>1, <1>2 DEF TypeInv, TypeOK
<1>5. /\ deal[d] \notin troubled => Head(d)
      /\ ~Head(d)'
      /\ \A e \in Documents : e # n /\ Head(e)' =>
           Head(e) /\ status[e] # Absent /\ deal[e] # deal[d]
  BY InsertHeads
<1>6. /\ number[n] = NoNumber /\ offerOf[n] = NoDocument /\ deal[n] = NoDocument
      /\ \A e \in Documents : number[e][1] # n /\ offerOf[e] # n /\ deal[e] # n
  <2>1. number[n] = NoNumber /\ offerOf[n] = NoDocument /\ deal[n] = NoDocument
    BY <1>1, <1>2 DEF NumberInv, TypeInv, RequestsFit
  <2>2. ASSUME NEW e \in Documents PROVE number[e][1] # n /\ offerOf[e] # n
    BY <1>1, <1>2, <2>1, BaseExists DEF NumberInv
  <2>3. ASSUME NEW e \in Documents PROVE deal[e] # n
    BY <1>1, <1>2 DEF DealsInv, TypeInv, RequestsFit
  <2>4. QED
    BY <2>1, <2>2, <2>3
<1>7. DealsInv'
  <2>1. ASSUME NEW e \in Documents, status'[e] # Absent PROVE status'[deal'[e]] # Absent
    <3>1. CASE e = n
      <4>1. status[deal[d]] # Absent
        BY <1>1, <1>3 DEF DealsInv
      <4>2. QED
        BY <1>3, <1>4, <3>1, <4>1
    <3>2. CASE e # n
      <4>1. status[deal[e]] # Absent /\ deal[e] \in Documents /\ deal[e] # n
        BY <1>1, <1>4, <1>6, <2>1, <3>2 DEF DealsInv, TypeInv, TypeOK, RequestsFit
      <4>2. QED
        BY <1>4, <3>2, <4>1
    <3>3. QED
      BY <3>1, <3>2
  <2>2. ASSUME NEW e \in Documents, NEW f \in Documents, Head(e)', Head(f)', deal'[e] = deal'[f]
        PROVE  e = f
    BY <1>1, <1>4, <1>5, <2>2 DEF DealsInv
  <2>3. QED
    BY <2>1, <2>2 DEF DealsInv
<1>8. WorkInv'
  <2>1. \A q \in Requests : doc[q] # NoDocument => doc[q] \in Documents /\ doc[q] # n
    BY <1>1, <1>2 DEF TypeInv, TypeOK, RequestsFit
  <2>2. ASSUME NEW q \in Requests, NEW p \in Requests,
               doc'[q] = doc'[p], doc'[q] # NoDocument, deal'[doc'[q]] \notin troubled'
        PROVE  q = p
    BY <1>1, <1>2, <1>4, <2>1, <2>2 DEF WorkInv
  <2>3. ASSUME NEW q \in Requests, pc'[q] # "idle"
        PROVE  /\ makes'[q] # None => to'[q] \notin Live
               /\ deal'[doc'[q]] \notin troubled' =>
                    (pc'[q] = "insert" \/ to'[q] \in Live => status'[doc'[q]] \in Live)
               /\ to'[q] \in OfferStatus <=> status'[doc'[q]] \in OfferStatus
               /\ makes'[q] = "offer_draft" => to'[q] \notin OfferStatus
    <3>1. pc[q] # "idle" /\ doc[q] # NoDocument
      BY <1>1, <1>4, <2>3 DEF TypeInv, RequestsFit
    <3>2. status'[doc[q]] = status[doc[q]] /\ deal'[doc[q]] = deal[doc[q]]
      BY <1>4, <2>1, <3>1
    <3>3. QED
      BY <1>1, <1>2, <1>4, <3>1, <3>2 DEF WorkInv
  <2>4. QED
    BY <2>2, <2>3 DEF WorkInv
<1>9. CASE makes[r] = "offer_draft"
  <2> DEFINE m == OfferNumber(d, n)
  <2>1. offerOf' = offerOf /\ number'[n] = m /\ \A e \in Documents : e # n => number'[e] = number[e]
    BY <1>1, <1>2, <1>9 DEF TypeInv, TypeOK
  <2>2. status[d] \notin OfferStatus
    BY <1>1, <1>2, <1>9 DEF WorkInv
  <2>3. /\ m # NoNumber /\ m[1] \in Documents /\ m[2] \in Nat
        /\ m[1] = n \/ (status[m[1]] # Absent /\ deal[m[1]] = deal[d])
        /\ Head(d) => \A e \in Documents : number[e][1] = m[1] => number[e][2] < m[2]
    BY <1>1, <1>2, <1>3, <2>2, NewNumber
  <2>4. deal'[m[1]] = deal[d]
    BY <1>2, <1>4, <2>3
  <2>5. NumberInv'
    <3>1. ASSUME NEW e \in Documents, number'[e] # NoNumber
          PROVE  number'[e][1] \in Documents /\ deal'[number'[e][1]] = deal'[e] /\ status'[e] # Absent
      <4>1. CASE e = n
        BY <1>3, <1>4, <2>1, <2>3, <2>4, <4>1
      <4>2. CASE e # n
        <5>1. number[e][1] \in Documents /\ deal[number[e][1]] = deal[e] /\ status[e] # Absent
          BY <1>1, <2>1, <3>1, <4>2 DEF NumberInv
        <5>2. QED
          BY <1>4, <1>6, <2>1, <4>2, <5>1
      <4>3. QED
        BY <4>1, <4>2
    <3>2. ASSUME NEW e \in Documents, status'[e] \in OfferStatus PROVE number'[e] # NoNumber
      BY <1>1, <1>4, <2>1, <2>3, <3>2 DEF NumberInv
    <3>3. ASSUME NEW e \in Documents, offerOf'[e] # NoDocument
          PROVE  /\ number'[offerOf'[e]] # NoNumber
                 /\ deal'[offerOf'[e]] = deal'[e] /\ status'[e] # Absent
      <4>1. /\ offerOf[e] \in Documents /\ offerOf[e] # n /\ e # n
            /\ number[offerOf[e]] # NoNumber
            /\ deal[offerOf[e]] = deal[e] /\ status[e] # Absent
        BY <1>1, <1>6, <2>1, <3>3 DEF NumberInv, TypeInv, TypeOK
      <4>2. QED
        BY <1>4, <2>1, <4>1
    <3>4. ASSUME NEW f \in Documents, Head(f)', LastOffer(f)' # NoDocument,
                 NEW e \in Documents, number'[e][1] = number'[LastOffer(f)'][1]
          PROVE  number'[e][2] <= number'[LastOffer(f)'][2]
      <4>1. CASE f = n
        <5>1. LastOffer(f)' = n
          BY <1>4, <1>9, <4>1 DEF LastOffer, OfferStatus
        <5>2. deal[d] \notin troubled
          BY <1>2, <1>4, <3>4, <4>1 DEF Head
        <5>3. CASE e = n
          BY <2>1, <2>3, <5>1, <5>3
        <5>4. CASE e # n
          <6>1. number[e][2] < m[2]
            BY <1>5, <2>1, <2>3, <3>4, <5>1, <5>2, <5>4
          <6>2. number[e][2] \in Nat
            BY <1>1 DEF TypeInv, TypeOK
          <6>3. QED
            BY <2>1, <2>3, <5>1, <5>4, <6>1, <6>2
        <5>5. QED
          BY <5>3, <5>4
      <4>2. CASE f # n
        <5>1. Head(f) /\ deal[f] # deal[d] /\ LastOffer(f)' = LastOffer(f)
          BY <1>4, <1>5, <2>1, <3>4, <4>2 DEF LastOffer
        <5>2. /\ LastOffer(f) \in Documents /\ LastOffer(f) # n
              /\ number[LastOffer(f)] # NoNumber /\ deal[LastOffer(f)] = deal[f]
          BY <1>1, <1>6, <3>4, <4>2, <5>1 DEF LastOffer, NumberInv, TypeInv, TypeOK
        <5>3. /\ number[LastOffer(f)][1] \in Documents /\ number[LastOffer(f)][1] # n
              /\ deal[number[LastOffer(f)][1]] = deal[f]
          BY <1>1, <1>6, <5>2 DEF NumberInv
        <5>4. e # n
          BY <1>4, <2>1, <2>4, <3>4, <5>1, <5>2, <5>3
        <5>5. QED
          BY <1>1, <2>1, <3>4, <5>1, <5>2, <5>4 DEF NumberInv
      <4>3. QED
        BY <4>1, <4>2
    <3>5. QED
      BY <3>1, <3>2, <3>3, <3>4 DEF NumberInv, LastOffer
  <2>6. RevisionsUnique'
    <3>1. ASSUME NEW e \in Documents, e # n, deal'[e] \notin troubled' \/ deal'[n] \notin troubled'
          PROVE  number[e] # m
      <4>1. SUFFICES ASSUME number[e] = m PROVE FALSE
        OBVIOUS
      <4>2. m[1] # n /\ deal[m[1]] = deal[e] /\ deal[m[1]] = deal[d]
        BY <1>1, <1>6, <2>3, <4>1, BaseExists
      <4>3. deal[d] \notin troubled
        <5>1. troubled' = troubled /\ deal'[e] = deal[d] /\ deal'[n] = deal[d]
          BY <1>2, <1>4, <3>1, <4>2
        <5>2. QED
          BY <3>1, <5>1
      <4>4. number[e][2] < m[2] /\ m[2] \in Nat
        BY <1>5, <2>3, <4>1, <4>3
      <4>5. QED
        BY <4>1, <4>4
    <3>2. ASSUME NEW e \in Documents, NEW f \in Documents,
                 e # f, number'[e] # NoNumber, deal'[e] \notin troubled'
          PROVE  number'[e] # number'[f]
      <4>1. CASE e = n \/ f = n
        BY <2>1, <3>1, <3>2, <4>1
      <4>2. CASE e # n /\ f # n
        BY <1>1, <1>2, <1>4, <2>1, <3>2, <4>2 DEF RevisionsUnique
      <4>3. QED
        BY <4>1, <4>2
    <3>3. QED
      BY <3>2 DEF RevisionsUnique
  <2>7. QED
    BY <1>7, <1>8, <2>5, <2>6
<1>10. CASE makes[r] # "offer_draft"
  <2> DEFINE o == SourceOffer(d)
  <2>1. /\ number' = number /\ offerOf'[n] = o
        /\ \A e \in Documents : e # n => offerOf'[e] = offerOf[e]
    BY <1>1, <1>2, <1>10 DEF TypeInv, TypeOK
  <2>2. makes[r] \notin OfferStatus
    BY <1>3, <1>10 DEF Drafts, OfferStatus
  <2>3. o # NoDocument =>
          /\ o = LastOffer(d) /\ o \in Documents /\ o # n
          /\ number[o] # NoNumber /\ deal[o] = deal[d]
    <3>1. o # NoDocument => o = LastOffer(d)
      BY DEF SourceOffer, LastOffer, OfferStatus, InvoiceStatus
    <3>2. o # NoDocument => o \in Documents /\ o # n
      BY <1>1, <1>3, <1>6 DEF SourceOffer, TypeInv, TypeOK
    <3>3. o # NoDocument => number[o] # NoNumber /\ deal[o] = deal[d]
      BY <1>1 DEF NumberInv, SourceOffer
    <3>4. QED
      BY <3>1, <3>2, <3>3
  <2>4. NumberInv'
    <3>1. ASSUME NEW e \in Documents, number'[e] # NoNumber
          PROVE  number'[e][1] \in Documents /\ deal'[number'[e][1]] = deal'[e] /\ status'[e] # Absent
      <4>1. number[e][1] \in Documents /\ deal[number[e][1]] = deal[e] /\ status[e] # Absent
        BY <1>1, <2>1, <3>1 DEF NumberInv
      <4>2. QED
        BY <1>2, <1>4, <1>6, <2>1, <4>1
    <3>2. ASSUME NEW e \in Documents, status'[e] \in OfferStatus PROVE number'[e] # NoNumber
      BY <1>1, <1>4, <2>1, <2>2, <3>2 DEF NumberInv
    <3>3. ASSUME NEW e \in Documents, offerOf'[e] # NoDocument
          PROVE  /\ number'[offerOf'[e]] # NoNumber
                 /\ deal'[offerOf'[e]] = deal'[e] /\ status'[e] # Absent
      <4>1. CASE e = n
        BY <1>3, <1>4, <2>1, <2>3, <3>3, <4>1
      <4>2. CASE e # n
        <5>1. /\ offerOf[e] \in Documents /\ offerOf[e] # n
              /\ number[offerOf[e]] # NoNumber
              /\ deal[offerOf[e]] = deal[e] /\ status[e] # Absent
          BY <1>1, <1>6, <2>1, <3>3, <4>2 DEF NumberInv, TypeInv, TypeOK
        <5>2. QED
          BY <1>4, <2>1, <4>2, <5>1
      <4>3. QED
        BY <4>1, <4>2
    <3>4. ASSUME NEW f \in Documents, Head(f)', LastOffer(f)' # NoDocument,
                 NEW e \in Documents, number'[e][1] = number'[LastOffer(f)'][1]
          PROVE  number'[e][2] <= number'[LastOffer(f)'][2]
      <4>1. CASE f = n
        <5>1. LastOffer(f)' = o
          BY <1>4, <2>1, <2>2, <4>1 DEF LastOffer
        <5>2. Head(d)
          BY <1>2, <1>4, <1>5, <3>4, <4>1 DEF Head
        <5>3. o # NoDocument /\ LastOffer(d) = o
          BY <2>3, <3>4, <5>1
        <5>4. number[e][1] = number[LastOffer(d)][1]
          BY <2>1, <3>4, <5>1, <5>3
        <5>5. number[e][2] <= number[LastOffer(d)][2]
          BY <1>1, <5>2, <5>3, <5>4 DEF NumberInv
        <5>6. QED
          BY <2>1, <5>1, <5>3, <5>5
      <4>2. CASE f # n
        <5>1. Head(f) /\ LastOffer(f)' = LastOffer(f)
          BY <1>4, <1>5, <2>1, <3>4, <4>2 DEF LastOffer
        <5>2. QED
          BY <1>1, <2>1, <3>4, <5>1 DEF NumberInv
      <4>3. QED
        BY <4>1, <4>2
    <3>5. QED
      BY <3>1, <3>2, <3>3, <3>4 DEF NumberInv, LastOffer
  <2>5. RevisionsUnique'
    <3>1. ASSUME NEW e \in Documents, NEW f \in Documents,
                 e # f, number'[e] # NoNumber, deal'[e] \notin troubled'
          PROVE  number'[e] # number'[f]
      <4>1. e # n
        BY <1>6, <2>1, <3>1
      <4>2. QED
        BY <1>1, <1>2, <1>4, <2>1, <3>1, <4>1 DEF RevisionsUnique
    <3>2. QED
      BY <3>1 DEF RevisionsUnique
  <2>6. QED
    BY <1>7, <1>8, <2>4, <2>5
<1>11. QED
  BY <1>9, <1>10

-----------------------------------------------------------------------------
(* The invariant, and what follows from it *)

LEMMA InitInv == Init => IInv
<1> SUFFICES ASSUME Init PROVE IInv
  OBVIOUS
<1>1. TypeInv
  BY InitType
<1>2. \A d \in Documents : /\ status[d] = Absent /\ number[d] = NoNumber
                           /\ offerOf[d] = NoDocument /\ status[d] \notin Live
                           /\ status[d] \notin OfferStatus
  BY DEF Init, Absent, Live, OfferStatus
<1>3. DealsInv /\ NumberInv /\ RevisionsUnique
  BY <1>2 DEF DealsInv, NumberInv, RevisionsUnique, Head
<1>4. WorkInv
  BY DEF Init, WorkInv
<1>5. QED
  BY <1>1, <1>3, <1>4 DEF IInv

LEMMA NextInv == IInv /\ [Next]_vars => IInv'
<1> SUFFICES ASSUME IInv, [Next]_vars PROVE IInv'
  OBVIOUS
<1>1. TypeInv /\ TypeInv' /\ DealsInv /\ NumberInv /\ RevisionsUnique
  BY NextType DEF IInv
<1>2. ASSUME Quiet, WorkInv' PROVE IInv'
  BY <1>1, <1>2, QuietKeeps DEF IInv
<1>3. ASSUME NEW r \in Requests, NEW d \in Documents, Start(r, d) PROVE IInv'
  BY <1>1, <1>2, <1>3, StartPlans, StartKeeps
<1>4. ASSUME NEW r \in Requests, NEW n \in Documents, InsertSuccessor(r, n) PROVE IInv'
  <2>1. PICK d \in Documents : d = doc[r]
    BY <1>1, <1>4, AtWorkExists DEF InsertSuccessor
  <2>2. CASE status[d] = "deleted"
    <3>1. /\ Finish(r) /\ pc[r] = "insert"
          /\ UNCHANGED <<status, deal, number, offerOf, troubled>>
      BY <1>4, <2>1, <2>2 DEF InsertSuccessor
    <3>2. QED
      BY <1>2, <3>1, EndKeeps
  <2>3. CASE status[d] # "deleted"
    BY <1>1, <1>4, <2>1, <2>3, InsertKeeps DEF IInv
  <2>4. QED
    BY <2>2, <2>3
<1>5. ASSUME NEW r \in Requests, WriteStatus(r) PROVE IInv'
  BY <1>2, <1>5, WriteKeeps
<1>6. ASSUME NEW r \in Requests, Die(r) PROVE IInv'
  <2>1. /\ Finish(r) /\ pc[r] # "idle" /\ UNCHANGED <<status, deal, number, offerOf>>
        /\ troubled' = troubled \union {deal[doc[r]]}
    BY <1>6 DEF Die, database
  <2>2. QED
    BY <1>2, <2>1, EndKeeps
<1>7. ASSUME NEW d \in Documents, CreateQuote(d) PROVE IInv'
  BY <1>1, <1>7, CreateKeeps DEF IInv
<1>8. ASSUME UNCHANGED <<status, deal, number, offerOf, troubled, pc, doc, to, makes>> PROVE IInv'
  <2>1. Quiet
    BY <1>8 DEF Quiet, Head, Superseded
  <2>2. WorkInv'
    BY <1>8 DEF IInv, WorkInv
  <2>3. QED
    BY <1>2, <2>1, <2>2
<1>9. ASSUME NEW d \in Documents, IssueResponseLink(d) \/ ValidityEnds(d) PROVE IInv'
  BY <1>8, <1>9 DEF IssueResponseLink, ValidityEnds, requests, history
<1>10. CASE UNCHANGED vars
  BY <1>8, <1>10 DEF vars, database, requests, history
<1>11. QED
  BY <1>3, <1>4, <1>5, <1>6, <1>7, <1>9, <1>10 DEF Next, Continue

\* The invariant is inductive.
THEOREM Inductive == Spec => []IInv
BY InitInv, NextInv, PTL DEF Spec

\* However deals are promoted and demoted, one document of each is live, except
\* in the middle of a request and after two requests met or one ended half way.
THEOREM OneLive == Spec => []OneLiveDocument
<1>1. IInv => OneLiveDocument
  <2> SUFFICES ASSUME IInv, NEW d \in Documents, NEW e \in Documents, d # e,
                      deal[d] = deal[e], deal[d] \notin troubled, ~AtWork(d), ~AtWork(e),
                      status[d] \in Live, status[e] \in Live
               PROVE  FALSE
    BY DEF OneLiveDocument
  <2>1. Head(d) /\ Head(e)
    BY DEF Head, Superseded, AtWork
  <2>2. QED
    BY <2>1 DEF IInv, DealsInv
<1>2. QED
  BY <1>1, Inductive, PTL

\* No two offers bear one number and revision, along whatever path of demotions
\* they descend from one offer.
THEOREM UniqueRevisions == Spec => []RevisionsUnique
<1>1. IInv => RevisionsUnique
  BY DEF IInv
<1>2. QED
  BY <1>1, Inductive, PTL

-----------------------------------------------------------------------------
(* Legal transitions *)

\* What a request is about to write is still legal, although the document was
\* looked at some steps ago, but in deals with trouble.
LegalInv ==
  \A r \in Requests :
    pc[r] # "idle" /\ deal[doc[r]] \notin troubled => to[r] \in LegalNext[status[doc[r]]]

LEMMA InitLegal == Init => LegalInv
BY DEF Init, LegalInv

\* A step keeps it that disturbs no document with a request on it.
LEMMA UndisturbedLegal ==
  ASSUME LegalInv, troubled \subseteq troubled',
         \A q \in Requests : pc'[q] # "idle" =>
           /\ pc[q] # "idle" /\ doc'[q] = doc[q] /\ to'[q] = to[q]
           /\ deal'[doc[q]] = deal[doc[q]]
           /\ status'[doc[q]] = status[doc[q]] \/ deal[doc[q]] \in troubled
  PROVE  LegalInv'
BY DEF LegalInv

LEMMA NextLegal == IInv /\ LegalInv /\ [Next]_vars => LegalInv'
<1> SUFFICES ASSUME IInv, LegalInv, [Next]_vars PROVE LegalInv'
  OBVIOUS
<1>1. TypeInv
  BY DEF IInv
<1>2. ASSUME NEW r \in Requests, NEW d \in Documents, Start(r, d) PROVE LegalInv'
  <2>1. PICK next, target, successor : Planned(r, d, next, target, successor)
    BY <1>1, <1>2, StartPlans
  <2>2. /\ target \in LegalNext[status[d]] /\ status' = status /\ deal' = deal
        /\ troubled \subseteq troubled'
    BY <2>1 DEF Planned, Begin, database
  <2>3. \A q \in Requests :
          \/ q = r /\ doc'[q] = d /\ to'[q] = target
          \/ q # r /\ pc'[q] = pc[q] /\ doc'[q] = doc[q] /\ to'[q] = to[q]
    BY <1>1, <2>1 DEF Planned, Begin, TypeInv, TypeOK
  <2>4. QED
    BY <2>2, <2>3 DEF LegalInv
<1>3. ASSUME NEW r \in Requests, Finish(r), status' = status, deal' = deal,
             troubled \subseteq troubled'
      PROVE  LegalInv'
  BY <1>1, <1>3, FinishType, UndisturbedLegal
<1>4. ASSUME NEW r \in Requests, NEW n \in Documents, InsertSuccessor(r, n) PROVE LegalInv'
  <2>1. CASE status[doc[r]] = "deleted"
    BY <1>3, <1>4, <2>1 DEF InsertSuccessor
  <2>2. CASE status[doc[r]] # "deleted"
    <3>1. /\ pc[r] = "insert" /\ pc' = [pc EXCEPT ![r] = "write"] /\ status[n] = Absent
          /\ status' = [status EXCEPT ![n] = makes[r]] /\ deal' = [deal EXCEPT ![n] = deal[doc[r]]]
          /\ UNCHANGED <<doc, to, troubled>>
      BY <1>4, <2>2 DEF InsertSuccessor
    <3>2. ASSUME NEW q \in Requests, pc'[q] # "idle"
          PROVE  /\ pc[q] # "idle" /\ status'[doc[q]] = status[doc[q]]
                 /\ deal'[doc[q]] = deal[doc[q]]
      <4>1. pc[q] # "idle"
        BY <1>1, <3>1, <3>2 DEF TypeInv, TypeOK
      <4>2. doc[q] \in Documents /\ doc[q] # n
        BY <1>1, <3>1, <4>1, AtWorkExists DEF TypeInv, RequestsFit
      <4>3. QED
        BY <1>1, <3>1, <4>1, <4>2 DEF TypeInv, TypeOK
    <3>3. QED
      BY <3>1, <3>2, UndisturbedLegal
  <2>3. QED
    BY <2>1, <2>2
<1>5. ASSUME NEW r \in Requests, WriteStatus(r) PROVE LegalInv'
  <2>1. /\ pc[r] = "write" /\ Finish(r) /\ UNCHANGED <<deal, troubled>>
        /\ status' = IF status[doc[r]] = "deleted" THEN status ELSE [status EXCEPT ![doc[r]] = to[r]]
    BY <1>5 DEF WriteStatus, history
  <2>2. ASSUME NEW q \in Requests, pc'[q] # "idle"
        PROVE  /\ pc[q] # "idle" /\ doc'[q] = doc[q] /\ to'[q] = to[q]
               /\ status'[doc[q]] = status[doc[q]] \/ deal[doc[q]] \in troubled
    <3>1. q # r /\ pc[q] # "idle" /\ doc'[q] = doc[q] /\ to'[q] = to[q]
      BY <1>1, <2>1, <2>2, FinishType
    <3>2. doc[q] \in Documents /\ doc[q] # NoDocument
      BY <1>1, <3>1, AtWorkExists, DocumentsAssumption
    <3>3. doc[q] # doc[r] \/ deal[doc[q]] \in troubled
      BY <3>1, <3>2 DEF IInv, WorkInv
    <3>4. QED
      BY <1>1, <2>1, <3>1, <3>2, <3>3 DEF TypeInv, TypeOK
  <2>3. QED
    BY <2>1, <2>2, UndisturbedLegal
<1>6. ASSUME NEW r \in Requests, Die(r) PROVE LegalInv'
  BY <1>3, <1>6 DEF Die, database
<1>7. ASSUME NEW d \in Documents, CreateQuote(d) PROVE LegalInv'
  <2>1. /\ status[d] = Absent /\ status' = [status EXCEPT ![d] = "quote_draft"]
        /\ deal' = [deal EXCEPT ![d] = d] /\ UNCHANGED <<pc, doc, to, troubled>>
    BY <1>7 DEF CreateQuote, requests
  <2>2. ASSUME NEW q \in Requests, pc[q] # "idle"
        PROVE  status'[doc[q]] = status[doc[q]] /\ deal'[doc[q]] = deal[doc[q]]
    <3>1. doc[q] \in Documents /\ doc[q] # d
      BY <1>1, <2>1, <2>2, AtWorkExists DEF TypeInv, RequestsFit
    <3>2. QED
      BY <1>1, <2>1, <3>1 DEF TypeInv, TypeOK
  <2>3. QED
    BY <2>1, <2>2, UndisturbedLegal
<1>8. ASSUME UNCHANGED <<status, deal, troubled, pc, doc, to>> PROVE LegalInv'
  BY <1>8 DEF LegalInv
<1>9. ASSUME NEW d \in Documents, IssueResponseLink(d) \/ ValidityEnds(d) PROVE LegalInv'
  BY <1>8, <1>9 DEF IssueResponseLink, ValidityEnds, requests, history
<1>10. CASE UNCHANGED vars
  BY <1>8, <1>10 DEF vars, database, requests, history
<1>11. QED
  BY <1>2, <1>4, <1>5, <1>6, <1>7, <1>9, <1>10 DEF Next, Continue

\* A step gives a document of an untroubled deal a status that may follow its own.
LegalStep(d) ==
  \/ status'[d] = status[d]
  \/ status[d] = Absent /\ status'[d] \in Drafts
  \/ status[d] # Absent /\ status'[d] \in LegalNext[status[d]]

LEMMA StepsLegal ==
  ASSUME IInv, LegalInv, Next, NEW d \in Documents, deal'[d] \notin troubled'
  PROVE  LegalStep(d)
<1> USE DEF LegalStep
<1>1. TypeInv
  BY DEF IInv
<1>2. ASSUME NEW r \in Requests, NEW e \in Documents, Start(r, e) PROVE LegalStep(d)
  BY <1>1, <1>2, StartPlans DEF Planned, Begin, database
<1>3. ASSUME NEW n \in Documents, NEW s \in Drafts, status[n] = Absent,
             status' = [status EXCEPT ![n] = s]
      PROVE  LegalStep(d)
  BY <1>1, <1>3 DEF TypeInv, TypeOK
<1>4. ASSUME NEW r \in Requests, NEW n \in Documents, InsertSuccessor(r, n) PROVE LegalStep(d)
  <2>1. CASE status[doc[r]] = "deleted"
    BY <1>4, <2>1 DEF InsertSuccessor
  <2>2. CASE status[doc[r]] # "deleted"
    <3>1. makes[r] \in Drafts /\ status[n] = Absent /\ status' = [status EXCEPT ![n] = makes[r]]
      BY <1>1, <1>4, <2>2 DEF InsertSuccessor, TypeInv, RequestsFit
    <3>2. QED
      BY <1>3, <3>1
  <2>3. QED
    BY <2>1, <2>2
<1>5. ASSUME NEW r \in Requests, WriteStatus(r) PROVE LegalStep(d)
  <2>1. /\ pc[r] = "write" /\ UNCHANGED <<deal, troubled>>
        /\ status' = IF status[doc[r]] = "deleted" THEN status ELSE [status EXCEPT ![doc[r]] = to[r]]
    BY <1>5 DEF WriteStatus, history
  <2>2. d = doc[r] => to[r] \in LegalNext[status[d]] /\ status[d] # Absent
    BY <1>1, <2>1 DEF LegalInv, TypeInv, RequestsFit
  <2>3. status'[d] = status[d] \/ (d = doc[r] /\ status'[d] = to[r])
    BY <1>1, <2>1 DEF TypeInv, TypeOK
  <2>4. QED
    BY <2>2, <2>3
<1>6. ASSUME NEW r \in Requests, Die(r) PROVE LegalStep(d)
  BY <1>6 DEF Die, database
<1>7. ASSUME NEW e \in Documents, CreateQuote(e) PROVE LegalStep(d)
  BY <1>3, <1>7 DEF CreateQuote, Drafts
<1>8. ASSUME NEW e \in Documents, IssueResponseLink(e) \/ ValidityEnds(e) PROVE LegalStep(d)
  BY <1>8 DEF IssueResponseLink, ValidityEnds
<1>9. QED
  BY <1>2, <1>4, <1>5, <1>6, <1>7, <1>8 DEF Next, Continue

\* The documents of a deal in which no two requests met and none ended half way
\* follow the table of legal transitions, although every status is written some
\* steps after it was looked at, by id and without a guard.
THEOREM LegalDocuments == Spec => FollowsLegalTransitions
<1> DEFINE A == \A d \in Documents : deal'[d] \notin troubled' =>
                  \/ status'[d] = status[d]
                  \/ status[d] = Absent /\ status'[d] \in Drafts
                  \/ status[d] # Absent /\ status'[d] \in LegalNext[status[d]]
<1>1. IInv /\ LegalInv /\ [Next]_vars => [A]_vars
  BY StepsLegal DEF LegalStep
<1>2. Spec => []LegalInv
  BY Inductive, InitLegal, NextLegal, PTL DEF Spec
<1>3. Spec => [][A]_vars
  BY <1>1, <1>2, Inductive, PTL DEF Spec
<1>4. QED
  BY <1>3 DEF FollowsLegalTransitions

-----------------------------------------------------------------------------
(* The refinement of DocumentStatus *)

\* What the mapping makes of the requests.
Mapped == [r \in Requests |-> IF to[r] = None THEN NoPlan ELSE <<doc[r], to[r]>>]

LEMMA MappedInit == Init => DS!Init
<1> SUFFICES ASSUME Init PROVE DS!Init
  OBVIOUS
<1>1. status \in [Documents -> Drafts \union {Absent}]
  BY DEF Init
<1>2. [r \in Requests |-> IF to[r] = None THEN NoPlan ELSE <<doc[r], to[r]>>] = [w \in Requests |-> NoPlan]
  BY DEF Init
<1>3. QED
  BY <1>1, <1>2 DEF DS!Init

\* A request at work maps to a writer with a plan, and the others to none.
LEMMA MappedPlan ==
  ASSUME TypeInv, NEW r \in Requests
  PROVE  /\ pc[r] = "idle" => Mapped[r] = NoPlan
         /\ pc[r] # "idle" => Mapped[r] = <<doc[r], to[r]>> /\ Mapped[r] # NoPlan
BY DEF TypeInv, RequestsFit, Mapped, NoPlan

LEMMA MappedFinish ==
  ASSUME TypeInv, NEW r \in Requests, Finish(r)
  PROVE  Mapped' = [Mapped EXCEPT ![r] = NoPlan]
BY FinishType DEF Mapped, NoPlan

LEMMA MappedSame ==
  ASSUME UNCHANGED <<status, doc, to>>
  PROVE  UNCHANGED DS!vars
BY DEF DS!vars

LEMMA MappedNext == TypeInv /\ [Next]_vars => [DS!Next]_(DS!vars)
<1> SUFFICES ASSUME TypeInv, [Next]_vars PROVE [DS!Next]_(DS!vars)
  OBVIOUS
<1>1. ASSUME NEW r \in Requests, NEW d \in Documents, NEW next, NEW target, NEW successor,
             Planned(r, d, next, target, successor)
      PROVE  DS!Plan(r, d, target)
  <2>1. /\ pc[r] = "idle" /\ status' = status /\ status[d] \in Status /\ target \in LegalNext[status[d]]
        /\ target \in Status
    BY <1>1 DEF Planned, Begin, database, TypeInv, TypeOK
  <2>2. Mapped[r] = NoPlan
    BY <2>1, MappedPlan
  <2>3. target # None
    BY <2>1 DEF Status, QuoteStatus, OfferStatus, InvoiceStatus, None
  <2>4. Mapped' = [Mapped EXCEPT ![r] = <<d, target>>]
    <3>1. \A q \in Requests : Mapped'[q] = IF q = r THEN <<d, target>> ELSE Mapped[q]
      BY <1>1, <2>3 DEF Planned, Begin, Mapped, TypeInv, TypeOK
    <3>2. QED
      BY <3>1 DEF Mapped
  <2>5. QED
    BY <2>1, <2>2, <2>4 DEF DS!Plan, Mapped
<1>2. ASSUME NEW r \in Requests, Finish(r), pc[r] # "idle", status' = status PROVE DS!Drop(r)
  BY <1>2, MappedPlan, MappedFinish DEF DS!Drop, Mapped
<1>3. ASSUME NEW r \in Requests, NEW n \in Documents, InsertSuccessor(r, n), status[doc[r]] # "deleted"
      PROVE  DS!Create(n)
  <2>1. /\ status[n] = Absent /\ makes[r] \in Drafts /\ status' = [status EXCEPT ![n] = makes[r]]
        /\ UNCHANGED <<doc, to>>
    BY <1>3 DEF InsertSuccessor, TypeInv, RequestsFit
  <2>2. QED
    BY <2>1 DEF DS!Create
<1>4. ASSUME NEW r \in Requests, WriteStatus(r), status[doc[r]] # "deleted" PROVE DS!Write(r)
  <2>1. /\ pc[r] # "idle" /\ Finish(r) /\ status' = [status EXCEPT ![doc[r]] = to[r]]
    BY <1>4 DEF WriteStatus
  <2>2. Mapped[r] = <<doc[r], to[r]>> /\ Mapped[r] # NoPlan
    BY <2>1, MappedPlan
  <2>3. Mapped' = [Mapped EXCEPT ![r] = NoPlan]
    BY <2>1, MappedFinish
  <2>4. status' = [status EXCEPT ![Mapped[r][1]] = Mapped[r][2]]
    BY <2>1, <2>2
  <2>5. QED
    BY <2>2, <2>3, <2>4 DEF DS!Write, Mapped
<1>5. ASSUME NEW d \in Documents, CreateQuote(d) PROVE DS!Create(d)
  <2>1. /\ status[d] = Absent /\ "quote_draft" \in Drafts /\ status' = [status EXCEPT ![d] = "quote_draft"]
        /\ UNCHANGED <<doc, to>>
    BY <1>5 DEF CreateQuote, requests, Drafts
  <2>2. QED
    BY <2>1 DEF DS!Create
<1>6. ASSUME NEW d \in Documents, IssueResponseLink(d) \/ ValidityEnds(d) PROVE UNCHANGED DS!vars
  BY <1>6, MappedSame DEF IssueResponseLink, ValidityEnds, requests
<1>7. CASE UNCHANGED vars
  BY <1>7, MappedSame DEF vars, database, requests
<1>8. ASSUME NEW r \in Requests, NEW d \in Documents, Start(r, d) PROVE DS!Next
  <2>1. PICK next, target, successor : Planned(r, d, next, target, successor)
    BY <1>8, StartPlans
  <2>2. target \in Status
    BY <2>1 DEF Planned
  <2>3. DS!Plan(r, d, target)
    BY <1>1, <2>1
  <2>4. QED
    BY <2>2, <2>3 DEF DS!Next
<1>9. ASSUME NEW r \in Requests, Continue(r) PROVE DS!Next
  <2>1. ASSUME NEW n \in Documents, InsertSuccessor(r, n) PROVE DS!Next
    <3>1. CASE status[doc[r]] = "deleted"
      <4>1. Finish(r) /\ pc[r] # "idle" /\ status' = status
        BY <2>1, <3>1 DEF InsertSuccessor
      <4>2. QED
        BY <1>2, <4>1 DEF DS!Next
    <3>2. CASE status[doc[r]] # "deleted"
      BY <1>3, <2>1, <3>2 DEF DS!Next
    <3>3. QED
      BY <3>1, <3>2
  <2>2. CASE WriteStatus(r)
    <3>1. CASE status[doc[r]] = "deleted"
      <4>1. Finish(r) /\ pc[r] # "idle" /\ status' = status
        BY <2>2, <3>1 DEF WriteStatus
      <4>2. QED
        BY <1>2, <4>1 DEF DS!Next
    <3>2. CASE status[doc[r]] # "deleted"
      BY <1>4, <2>2, <3>2 DEF DS!Next
    <3>3. QED
      BY <3>1, <3>2
  <2>3. CASE Die(r)
    <3>1. Finish(r) /\ pc[r] # "idle" /\ status' = status
      BY <2>3 DEF Die, database
    <3>2. QED
      BY <1>2, <3>1 DEF DS!Next
  <2>4. QED
    BY <1>9, <2>1, <2>2, <2>3 DEF Continue
<1>10. QED
  BY <1>5, <1>6, <1>7, <1>8, <1>9 DEF Next, DS!Next

\* Conversions, decisions and expiries implement DocumentStatus: whatever
\* overlaps and dies, each status that is written was legal from one the
\* document had since its writer looked.
THEOREM Refines == Spec => ImplementsDocumentStatus
<1>1. Spec => []TypeInv
  BY InitType, NextType, PTL DEF Spec
<1>2. Spec => DS!Spec
  BY <1>1, MappedInit, MappedNext, PTL DEF Spec, DS!Spec
<1>3. QED
  BY <1>2 DEF ImplementsDocumentStatus

=============================================================================
