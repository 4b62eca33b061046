--------------------------- MODULE SalesDocuments ---------------------------
(***************************************************************************)
(* Quotes, the offers made from them and the invoices made from either     *)
(* (packages/db/src/invoicing-repos.ts), and the decisions of customers by *)
(* emailed link (apps/api/src/routes/public-invoicing.ts).                 *)
(*                                                                         *)
(* A conversion reads a document, inserts its successor, and then writes   *)
(* the document's status, by id; a decision, an expiry and an archive read *)
(* and write.  Nothing is in a transaction: requests and the expiry job    *)
(* interleave, and each may end after any of its statements.               *)
(*                                                                         *)
(* The content of documents is left out.  Of an invoice only what matters  *)
(* here is kept: it is a draft, was sent (InvoiceLifecycle has the rest),  *)
(* or was demoted to a quote.                                              *)
(***************************************************************************)
EXTENDS Integers, FiniteSets

CONSTANTS
  Documents,  \* ids of quotes, offers and invoices
  NoDocument,
  Requests,   \* API requests and runs of the expiry job
  MaxQuotes,  \* bound: quotes that are created, not demoted to
  MaxMishaps  \* bound: requests that begin on a document another works on, or
              \* that end between two statements

ASSUME DocumentsAssumption ==
  /\ NoDocument \notin Documents
  /\ MaxQuotes \in Nat
  /\ MaxMishaps \in Nat

VARIABLES
  \* the database
  status,    \* invoicing_quotes.status, invoicing_offers.status, ...
  offerOf,   \* source_offer_id of a quote or an invoice
  number,    \* document_number and revision of an offer
  expiry,    \* offer_expiry_date: none, still to come, or past
  linked,    \* offers with a row in invoicing_offer_response_tokens
  \* the requests
  pc, doc, to, makes,
  \* history, read by no guard but those of the bounds
  deal,      \* the quote it all began with
  troubled,  \* deals where two requests met or one ended half way
  mishaps

database == <<status, offerOf, number, expiry, linked>>
requests == <<pc, doc, to, makes>>
history  == <<deal, troubled, mishaps>>
vars     == <<database, requests, history>>

Absent == "absent"
None   == "none"

QuoteStatus == {"quote_draft", "quote_archived", "quote_converted_to_offer",
                "quote_converted_to_invoice"}

OfferStatus == {"offer_draft", "offer_sent", "offer_accepted", "offer_rejected",
                "offer_expired", "offer_demoted", "offer_converted_to_invoice"}

InvoiceStatus == {"invoice_draft", "invoice_sent", "invoice_demoted"}

Status == QuoteStatus \union OfferStatus \union InvoiceStatus \union {"deleted"}

\* The statuses documents are created with.
Drafts == {"quote_draft", "offer_draft", "invoice_draft"}

\* An offer's number: the offer it was allocated for, and the revision.
NoNumber == <<NoDocument, 0>>

TypeOK ==
  /\ status  \in [Documents -> Status \union {Absent}]
  /\ offerOf \in [Documents -> Documents \union {NoDocument}]
  /\ number  \in [Documents -> (Documents \union {NoDocument}) \X Nat]
  /\ expiry  \in [Documents -> {"none", "open", "past"}]
  /\ linked  \subseteq Documents
  /\ pc      \in [Requests -> {"idle", "insert", "write"}]
  /\ doc     \in [Requests -> Documents \union {NoDocument}]
  /\ to      \in [Requests -> Status \union {None}]
  /\ makes   \in [Requests -> Drafts \union {None}]
  /\ deal    \in [Documents -> Documents \union {NoDocument}]
  /\ troubled \subseteq Documents
  /\ mishaps  \in Nat

Init ==
  /\ status  = [d \in Documents |-> Absent]
  /\ offerOf = [d \in Documents |-> NoDocument]
  /\ number  = [d \in Documents |-> NoNumber]
  /\ expiry  = [d \in Documents |-> "none"]
  /\ linked  = {}
  /\ pc      = [r \in Requests |-> "idle"]
  /\ doc     = [r \in Requests |-> NoDocument]
  /\ to      = [r \in Requests |-> None]
  /\ makes   = [r \in Requests |-> None]
  /\ deal    = [d \in Documents |-> NoDocument]
  /\ troubled = {}
  /\ mishaps  = 0

-----------------------------------------------------------------------------
(* What the operations look at *)

\* Mutant: a quote that was converted can be converted again.
ConvertibleUnlessArchived(d) == status[d] \in QuoteStatus \ {"quote_archived"}

\* What promoteQuoteToOffer and promoteQuoteToInvoice check.
Convertible(d) == status[d] = "quote_draft"

\* isOfferPastValidity
PastValidity(d) == expiry[d] = "past"

\* isOfferPendingDecision, within the offer's validity.
AwaitsDecision(d) == status[d] \in {"offer_draft", "offer_sent"} /\ ~PastValidity(d)

\* Mutant: whatever is past its validity.
ExpiresWhateverStatus(d) == status[d] \in OfferStatus /\ PastValidity(d)

\* What expireOfferById checks.
MayExpire(d) == status[d] \in {"offer_draft", "offer_sent"} /\ PastValidity(d)

\* Mutant: a demotion keeps the revision.
SameRevision(n) == n

\* nextInvoicingOfferRevision
NextRevision(n) == <<n[1], n[2] + 1>>

-----------------------------------------------------------------------------
(* How an operation begins: it has read the document and found it eligible.  *)

Begin(r, d, next, target, successor) ==
  /\ pc[r] = "idle"
  /\ pc'    = [pc    EXCEPT ![r] = next]
  /\ doc'   = [doc   EXCEPT ![r] = d]
  /\ to'    = [to    EXCEPT ![r] = target]
  /\ makes' = [makes EXCEPT ![r] = successor]
  /\ IF \E q \in Requests : doc[q] = d
     THEN /\ mishaps < MaxMishaps
          /\ mishaps' = mishaps + 1
          /\ troubled' = troubled \union {deal[d]}
     ELSE UNCHANGED <<mishaps, troubled>>
  /\ UNCHANGED <<database, deal>>

Convert(r, d, target, successor) == Begin(r, d, "insert", target, successor)
Rewrite(r, d, target)            == Begin(r, d, "write", target, None)

PromoteQuoteToOffer(r, d) ==
  Convertible(d) /\ Convert(r, d, "quote_converted_to_offer", "offer_draft")

\* It needs allowDirectQuoteToInvoice, which the tenant can switch.
PromoteQuoteToInvoice(r, d) ==
  Convertible(d) /\ Convert(r, d, "quote_converted_to_invoice", "invoice_draft")

PromoteOfferToInvoice(r, d) ==
  /\ status[d] = "offer_accepted"
  /\ Convert(r, d, "offer_converted_to_invoice", "invoice_draft")

DemoteOfferToQuote(r, d) ==
  status[d] = "offer_draft" /\ Convert(r, d, "offer_demoted", "quote_draft")

DemoteInvoiceToQuote(r, d) ==
  status[d] = "invoice_draft" /\ Convert(r, d, "invoice_demoted", "quote_draft")

\* A quote is archived whatever became of it.
ArchiveQuote(r, d) ==
  status[d] \in QuoteStatus \ {"quote_archived"} /\ Rewrite(r, d, "quote_archived")

DeleteQuote(r, d) == status[d] = "quote_archived" /\ Rewrite(r, d, "deleted")

SendOffer(r, d) == status[d] = "offer_draft" /\ Rewrite(r, d, "offer_sent")

\* acceptOffer, rejectOffer: staff record what the customer said.
DecideOffer(r, d, target) ==
  /\ AwaitsDecision(d)
  /\ target \in {"offer_accepted", "offer_rejected"}
  /\ Rewrite(r, d, target)

\* acceptOfferFromCustomerLink, rejectOfferFromCustomerLink
DecideOfferFromCustomerLink(r, d, target) == d \in linked /\ DecideOffer(r, d, target)

ExpireOffer(r, d) == MayExpire(d) /\ Rewrite(r, d, "offer_expired")

\* Of InvoiceLifecycle: an invoice is sent, and a denied dispute of a sent
\* invoice makes it a draft again.
SendInvoice(r, d) == status[d] = "invoice_draft" /\ Rewrite(r, d, "invoice_sent")
DenyDispute(r, d) == status[d] = "invoice_sent"  /\ Rewrite(r, d, "invoice_draft")

-----------------------------------------------------------------------------
(* How it goes on *)

Finish(r) ==
  /\ pc'    = [pc    EXCEPT ![r] = "idle"]
  /\ doc'   = [doc   EXCEPT ![r] = NoDocument]
  /\ to'    = [to    EXCEPT ![r] = None]
  /\ makes' = [makes EXCEPT ![r] = None]

\* The source offer of what is made from d: copyOfferToQuote and
\* promoteOfferToInvoice name the offer itself, copyInvoiceToQuote the
\* invoice's source; a quote passes nothing on to its invoice.
SourceOffer(d) ==
  CASE status[d] \in OfferStatus   -> d
    [] status[d] \in InvoiceStatus -> offerOf[d]
    [] OTHER                       -> NoDocument

\* copyQuoteToOffer: the number of the source offer with the next revision,
\* or a new number (allocateInvoicingDocumentNumber).
OfferNumber(d, n) ==
  IF offerOf[d] # NoDocument THEN NextRevision(number[offerOf[d]]) ELSE <<n, 0>>

\* copyQuoteToOffer, createInvoiceFromSource, copyOfferToQuote and
\* copyInvoiceToQuote; nothing can be made from a quote that was deleted (its
\* id is a foreign key of the successor).
InsertSuccessor(r, n) ==
  LET d == doc[r] IN
  /\ pc[r] = "insert"
  /\ status[n] = Absent
  /\ IF status[d] = "deleted"
     THEN Finish(r) /\ UNCHANGED <<status, offerOf, number, deal>>
     ELSE /\ status'  = [status  EXCEPT ![n] = makes[r]]
          /\ offerOf' = IF makes[r] = "offer_draft" THEN offerOf
                        ELSE [offerOf EXCEPT ![n] = SourceOffer(d)]
          /\ number'  = IF makes[r] = "offer_draft"
                        THEN [number EXCEPT ![n] = OfferNumber(d, n)] ELSE number
          /\ deal'    = [deal EXCEPT ![n] = deal[d]]
          /\ pc'      = [pc EXCEPT ![r] = "write"]
          /\ UNCHANGED <<doc, to, makes>>
  /\ UNCHANGED <<expiry, linked, troubled, mishaps>>

\* The UPDATE of the status, or the DELETE, by id: of a quote that was deleted
\* it matches nothing.
WriteStatus(r) ==
  LET d == doc[r] IN
  /\ pc[r] = "write"
  /\ status' = IF status[d] = "deleted" THEN status ELSE [status EXCEPT ![d] = to[r]]
  /\ expiry' = IF to[r] = "offer_sent" THEN [expiry EXCEPT ![d] = "open"] ELSE expiry
  /\ Finish(r)
  /\ UNCHANGED <<offerOf, number, linked, history>>

\* A request ends where it is: the process dies, or a statement throws.
Die(r) ==
  /\ pc[r] # "idle"
  /\ mishaps < MaxMishaps
  /\ mishaps'  = mishaps + 1
  /\ troubled' = troubled \union {deal[doc[r]]}
  /\ Finish(r)
  /\ UNCHANGED <<database, deal>>

-----------------------------------------------------------------------------
(* Single statements *)

\* insertQuote
CreateQuote(d) ==
  /\ status[d] = Absent
  /\ Cardinality({q \in Documents : deal[q] = q}) < MaxQuotes
  /\ status' = [status EXCEPT ![d] = "quote_draft"]
  /\ deal'   = [deal   EXCEPT ![d] = d]
  /\ UNCHANGED <<offerOf, number, expiry, linked, requests, troubled, mishaps>>

\* issueInvoicingOfferResponseToken, when a sent offer is emailed.
IssueResponseLink(d) ==
  /\ status[d] = "offer_sent" /\ ~PastValidity(d)
  /\ linked' = linked \union {d}
  /\ UNCHANGED <<status, offerOf, number, expiry, requests, history>>

\* The last day of the offer's validity goes by.
ValidityEnds(d) ==
  /\ expiry[d] = "open"
  /\ expiry' = [expiry EXCEPT ![d] = "past"]
  /\ UNCHANGED <<status, offerOf, number, linked, requests, history>>

Start(r, d) ==
  \/ PromoteQuoteToOffer(r, d)
  \/ PromoteQuoteToInvoice(r, d)
  \/ PromoteOfferToInvoice(r, d)
  \/ DemoteOfferToQuote(r, d)
  \/ DemoteInvoiceToQuote(r, d)
  \/ ArchiveQuote(r, d)
  \/ DeleteQuote(r, d)
  \/ SendOffer(r, d)
  \/ \E target \in OfferStatus : DecideOffer(r, d, target)
  \/ \E target \in OfferStatus : DecideOfferFromCustomerLink(r, d, target)
  \/ ExpireOffer(r, d)
  \/ SendInvoice(r, d)
  \/ DenyDispute(r, d)

Continue(r) ==
  \/ \E n \in Documents : InsertSuccessor(r, n)
  \/ WriteStatus(r)
  \/ Die(r)

Next ==
  \/ \E r \in Requests, d \in Documents : Start(r, d)
  \/ \E r \in Requests : Continue(r)
  \/ \E d \in Documents : CreateQuote(d) \/ IssueResponseLink(d) \/ ValidityEnds(d)

Spec == Init /\ [][Next]_vars

-----------------------------------------------------------------------------
(* Properties *)

\* What the customer can still act on, or be billed by.
Live == {"quote_draft", "offer_draft", "offer_sent", "offer_accepted",
         "invoice_draft", "invoice_sent"}

AtWork(d) == \E r \in Requests : doc[r] = d

\* However a deal is promoted and demoted, one document of it at most is live,
\* so that it is neither offered twice nor invoiced twice, except while a
\* request is between the successor and the status, and in deals where two
\* requests met on a document or one ended half way.
OneLiveDocument ==
  \A d, e \in Documents :
    /\ d # e
    /\ deal[d] = deal[e] /\ deal[d] \notin troubled
    /\ ~AtWork(d) /\ ~AtWork(e)
    => status[d] \notin Live \/ status[e] \notin Live

\* No two offers bear one number and revision, along whatever path of
\* demotions they descend from one offer, but in deals with such trouble.
RevisionsUnique ==
  \A d, e \in Documents :
    /\ d # e
    /\ number[d] # NoNumber
    /\ deal[d] \notin troubled
    => number[d] # number[e]

\* The transitions the checks above permit.
LegalNext ==
  [s \in Status |->
     CASE s = "quote_draft" -> QuoteStatus \ {"quote_draft"}
       [] s \in {"quote_converted_to_offer", "quote_converted_to_invoice"} -> {"quote_archived"}
       [] s = "quote_archived" -> {"deleted"}
       [] s = "offer_draft"    -> {"offer_sent", "offer_accepted", "offer_rejected",
                                   "offer_expired", "offer_demoted"}
       [] s = "offer_sent"     -> {"offer_accepted", "offer_rejected", "offer_expired"}
       [] s = "offer_accepted" -> {"offer_converted_to_invoice"}
       [] s = "invoice_draft"  -> {"invoice_sent", "invoice_demoted"}
       [] s = "invoice_sent"   -> {"invoice_draft"}
       [] OTHER -> {}]

\* The documents of a deal without such trouble follow that table, although every
\* status is written some steps after it was looked at, by id and without a
\* guard: what was decided, expired or converted is never decided again.
FollowsLegalTransitions ==
  [][\A d \in Documents : deal'[d] \notin troubled' =>
       \/ status'[d] = status[d]
       \/ status[d] = Absent /\ status'[d] \in Drafts
       \/ status[d] # Absent /\ status'[d] \in LegalNext[status[d]]]_vars

NoPlan == <<"no plan">>

DS == INSTANCE DocumentStatus WITH
        Writers <- Requests, Legal <- LegalNext, Initial <- Drafts,
        plan <- [r \in Requests |-> IF to[r] = None THEN NoPlan ELSE <<doc[r], to[r]>>]

\* Whatever overlaps and dies, each status that is written was legal from one
\* the document had since its writer looked.
ImplementsDocumentStatus == DS!Spec
=============================================================================
