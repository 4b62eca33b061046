---------------------------- MODULE SalesFunnel ----------------------------
(***************************************************************************)
(* The sales funnel of a tenant: leads on the lanes of the BDR board,      *)
(* deals on the lanes of the Sales board, and the promotion of a lead to a *)
(* deal (packages/db/src/sales-funnel-repos.ts,                            *)
(* sales-funnel-bdr-lead-repos.ts, sales-funnel-sales-deal-repos.ts).      *)
(*                                                                         *)
(* Every request reads the rows it needs, decides, and writes by id; some  *)
(* write twice.  No statement is in a transaction with another and no      *)
(* index stands behind the checks, so requests interleave between their    *)
(* reads and writes and may end after any of them.                         *)
(*                                                                         *)
(* Left out: texts, owners, contacts and the timeline; the order of lanes  *)
(* (the lane a card goes to by default may be any of its board); the       *)
(* outcome of a deal (won and lost archive it, as the user does); and a    *)
(* deal's patch with archived: false, which tells only on a deal that is   *)
(* archived between its look and its write.                                *)
(***************************************************************************)
EXTENDS Integers

CONSTANTS
  Leads,      \* ids of leads; a new row takes one that nothing refers to
  Deals,      \* ids of deals, likewise
  NoCard,
  BdrLanes,   \* stage keys of the BDR board, those still to come included
  SalesLanes, \* stage keys of the Sales board
  NoLane,
  SeedLanes,  \* the lanes the tenant starts with
  SeedReady,  \* the one of them that is ready for sales
  Named,      \* what a deal made by hand may name: a lead, or none (NoCard)
  Requests,
  MaxMishaps  \* bound: requests that begin while another is at work, or that
              \* end between two statements

Lanes == BdrLanes \union SalesLanes
Cards == Leads \union Deals

ASSUME FunnelAssumption ==
  /\ Leads \intersect Deals = {} /\ NoCard \notin Cards
  /\ Named \subseteq Leads \union {NoCard}
  /\ BdrLanes \intersect SalesLanes = {} /\ NoLane \notin Lanes
  /\ SeedLanes \subseteq Lanes
  /\ SeedReady \in BdrLanes \intersect SeedLanes
  /\ MaxMishaps \in Nat

VARIABLES
  \* the database
  lanes,     \* rows of sales_funnel_stages
  ready,     \* those with ready_for_sales
  lane,      \* stage_key of a card, NoLane without a row
  active,    \* cards with active
  archived,  \* cards with archived_at
  from,      \* promoted_from_lead_id of a deal
  \* the requests
  doing, card, target,
  \* history, read by no guard but that of the bound
  promoted,  \* deals made by a promotion, not by hand
  together,  \* leads two requests were promoting at once
  torn,      \* leads whose promotion ended before they were archived, and
             \* that were not archived since
  revived,   \* leads promoted while a request was about to make them active
  stranded,  \* lanes deleted under a card that was on its way to them, or to
             \* which a hidden card came back unasked
  mishaps

board    == <<lanes, ready>>
cards    == <<lane, active, archived, from>>
requests == <<doing, card, target>>
history  == <<promoted, together, torn, revived, stranded, mishaps>>
vars     == <<board, cards, requests, history>>

Doing == {"nothing", "insert lead", "move lead", "look at lead", "promote",
          "retire lead", "reactivate lead", "keep lead", "hide lead",
          "delete lead", "insert deal", "move deal",
          "reactivate deal", "delete deal", "clear ready",
          "delete lane"}

\* The steps that write a card onto a lane.
Placing == {"insert lead", "move lead", "reactivate lead", "promote",
            "insert deal", "move deal", "reactivate deal"}

TypeOK ==
  /\ lanes    \subseteq Lanes
  /\ ready    \subseteq lanes \intersect BdrLanes
  /\ lane     \in [Cards -> Lanes \union {NoLane}]
  /\ \A l \in Leads : lane[l] \in BdrLanes \union {NoLane}
  /\ \A d \in Deals : lane[d] \in SalesLanes \union {NoLane}
  /\ active   \subseteq Cards
  /\ archived \subseteq Cards
  /\ from     \in [Deals -> Leads \union {NoCard}]
  /\ doing    \in [Requests -> Doing]
  /\ card     \in [Requests -> Cards \union {NoCard}]
  /\ target   \in [Requests -> Lanes \union {NoLane}]
  /\ promoted \subseteq Deals
  /\ together \subseteq Leads
  /\ torn     \subseteq Leads
  /\ revived  \subseteq Leads
  /\ stranded \subseteq Lanes
  /\ mishaps  \in Nat

Init ==
  /\ lanes    = SeedLanes
  /\ ready    = {SeedReady}
  /\ lane     = [c \in Cards |-> NoLane]
  /\ active   = {}
  /\ archived = {}
  /\ from     = [d \in Deals |-> NoCard]
  /\ doing    = [q \in Requests |-> "nothing"]
  /\ card     = [q \in Requests |-> NoCard]
  /\ target   = [q \in Requests |-> NoLane]
  /\ promoted = {}
  /\ together = {}
  /\ torn     = {}
  /\ revived  = {}
  /\ stranded = {}
  /\ mishaps  = 0

-----------------------------------------------------------------------------
(* What the requests look at, and the shapes of their steps *)

Present(c) == lane[c] # NoLane

\* An id for a new row.
Fresh(c) == ~Present(c) /\ \A r \in Requests : card[r] # c

\* The card is on its board.
Shown(c) == c \in active \ archived

\* tenantHasDealPromotedFromLead, getSalesFunnelSalesDealByPromotedLeadId
HasDeal(l) == \E d \in Deals : Present(d) /\ from[d] = l

\* countSalesFunnelStageUsage
InUse(s) == \E c \in Cards : lane[c] = s /\ Shown(c)

\* Mutant: of whichever board.
AnyLane(c) == lanes

\* stageKeyValidForPipeline
LanesOf(c) == lanes \intersect (IF c \in Leads THEN BdrLanes ELSE SalesLanes)

\* A request has read and decided; what it writes next.
Goes(q, what, c, s) ==
  /\ doing'  = [doing EXCEPT ![q] = what]
  /\ card'   = [card EXCEPT ![q] = c]
  /\ target' = [target EXCEPT ![q] = s]

\* Beginning while another request is at work is a mishap.
Meets ==
  \/ /\ \A r \in Requests : doing[r] = "nothing"
     /\ mishaps' = mishaps
  \/ /\ \E r \in Requests : doing[r] # "nothing"
     /\ mishaps < MaxMishaps
     /\ mishaps' = mishaps + 1

Begins(q, what, c, s) ==
  /\ Goes(q, what, c, s)
  /\ Meets
  /\ UNCHANGED <<board, cards, promoted, together, torn, revived, stranded>>

Ends(q) == Goes(q, "nothing", NoCard, NoLane)

BeingDeleted(s) == \E r \in Requests : doing[r] = "delete lane" /\ target[r] = s

\* The card is written onto the target while the lane is being deleted: its
\* cards are counted already.
Strands(s) == stranded' = IF BeingDeleted(s) THEN stranded \union {s} ELSE stranded

\* The card is shown again on the lane it was left on, without a look at it.
StrandsHidden(c) ==
  stranded' = IF /\ Present(c) /\ ~Shown(c)
                 /\ lane[c] \notin lanes \/ BeingDeleted(lane[c])
              THEN stranded \union {lane[c]} ELSE stranded

\* The UPDATE of a row that may be gone by now.
Put(c, s) == lane' = IF Present(c) THEN [lane EXCEPT ![c] = s] ELSE lane

-----------------------------------------------------------------------------
(* Leads *)

\* insertSalesFunnelBdrLead: the lane is validated, then the row inserted.
BeginInsertLead(q, l, s) ==
  /\ Fresh(l)
  /\ s \in LanesOf(l)
  /\ Begins(q, "insert lead", l, s)

InsertLead(q) ==
  LET l == card[q] IN
  /\ doing[q] = "insert lead"
  /\ lane'    = [lane EXCEPT ![l] = target[q]]
  /\ active'  = active \union {l}
  /\ Strands(target[q])
  /\ Ends(q)
  /\ UNCHANGED <<board, archived, from, promoted, together, torn, revived, mishaps>>

\* updateSalesFunnelBdrLead with a new stage key.
BeginMoveLead(q, l, s) ==
  /\ Present(l) /\ l \notin archived
  /\ s \in LanesOf(l) \ {lane[l]}
  /\ Begins(q, "move lead", l, s)

MoveLead(q) ==
  LET l == card[q] IN
  /\ doing[q] = "move lead"
  /\ Put(l, target[q])
  /\ Strands(target[q])
  /\ Goes(q, "look at lead", l, target[q])
  /\ UNCHANGED <<board, active, archived, from, promoted, together,
                 torn, revived, mishaps>>

\* Mutant: a lead is promoted as often as it is asked for.
MayPromoteAgain(l) == Present(l) /\ Shown(l) /\ lane[l] \in ready

\* What promoteSalesFunnelBdrLeadToDeal reads before it inserts the deal.
MayPromote(l) ==
  /\ Present(l) /\ Shown(l)
  /\ ~HasDeal(l)
  /\ lane[l] \in ready

\* promoteSalesFunnelBdrLeadToDeal, up to the insert of the deal.
BeginPromote(q, l, s) ==
  /\ MayPromote(l)
  /\ s \in lanes \intersect SalesLanes
  /\ Begins(q, "promote", l, s)

\* maybeAutoPromoteLeadFromReadyStage, after a move.
AutoPromote(q, s) ==
  /\ doing[q] = "look at lead"
  /\ target[q] \in ready
  /\ MayPromote(card[q])
  /\ s \in lanes \intersect SalesLanes
  /\ Goes(q, "promote", card[q], s)
  /\ UNCHANGED <<board, cards, history>>

\* The lane is not one for promotion, or the lead not one to promote, or there
\* is no lane for the deal.
LeaveAsMoved(q) ==
  /\ doing[q] = "look at lead"
  /\ \/ target[q] \notin ready
     \/ ~MayPromote(card[q])
     \/ lanes \intersect SalesLanes = {}
  /\ Ends(q)
  /\ UNCHANGED <<board, cards, history>>

\* The deal's row; its lead must still be there (foreign key).
InsertPromotedDeal(q, d) ==
  LET l == card[q] IN
  /\ doing[q] = "promote"
  /\ Present(l)
  /\ Fresh(d)
  /\ lane'     = [lane EXCEPT ![d] = target[q]]
  /\ active'   = active \union {d}
  /\ from'     = [from EXCEPT ![d] = l]
  /\ promoted' = promoted \union {d}
  /\ together' = IF \E r \in Requests \ {q} : doing[r] = "promote" /\ card[r] = l
                 THEN together \union {l} ELSE together
  /\ revived'  = IF \E r \in Requests :
                      doing[r] \in {"reactivate lead", "keep lead"} /\ card[r] = l
                 THEN revived \union {l} ELSE revived
  /\ Strands(target[q])
  /\ Goes(q, "retire lead", l, NoLane)
  /\ UNCHANGED <<board, archived, torn, mishaps>>

\* The lead of a deal was deleted: the insert is refused.
InsertRefused(q) ==
  /\ doing[q] \in {"promote", "insert deal"}
  /\ card[q] # NoCard
  /\ ~Present(card[q])
  /\ Ends(q)
  /\ UNCHANGED <<board, cards, history>>

\* The lead leaves the board.
RetireLead(q) ==
  /\ doing[q] = "retire lead"
  /\ active'   = active \ {card[q]}
  /\ archived' = IF Present(card[q]) THEN archived \union {card[q]} ELSE archived
  /\ torn'     = torn \ {card[q]}
  /\ Ends(q)
  /\ UNCHANGED <<board, lane, from, promoted, together, revived, stranded,
                 mishaps>>

\* updateSalesFunnelBdrLead with archived: as one step, for it writes nothing
\* that depends on what it read.
ArchiveLead(l) ==
  /\ Present(l) /\ l \notin archived
  /\ active'   = active \ {l}
  /\ archived' = archived \union {l}
  /\ torn'     = torn \ {l}
  /\ UNCHANGED <<board, lane, from, requests, promoted, together, revived,
                 stranded, mishaps>>

\* Mutant: promoted leads too.
MayReactivateAny(l) == Present(l) /\ ~Shown(l)

\* reactivateSalesFunnelBdrLead: not for promoted leads.
MayReactivate(l) == Present(l) /\ ~Shown(l) /\ ~HasDeal(l)

BeginReactivateLead(q, l, s) ==
  /\ MayReactivate(l)
  /\ s \in LanesOf(l)
  /\ Begins(q, "reactivate lead", l, s)

ReactivateLead(q) ==
  LET l == card[q] IN
  /\ doing[q] = "reactivate lead"
  /\ Put(l, target[q])
  /\ active'   = IF Present(l) THEN active \union {l} ELSE active
  /\ archived' = archived \ {l}
  /\ Strands(target[q])
  /\ Ends(q)
  /\ UNCHANGED <<board, from, promoted, together, torn, revived, mishaps>>

\* updateSalesFunnelBdrLead with archived: false, on a lead that is not
\* archived: it is active without a deal, and hidden with one.
BeginKeepLead(q, l) ==
  /\ Present(l) /\ l \notin archived
  /\ Begins(q, IF HasDeal(l) THEN "hide lead" ELSE "keep lead", l, NoLane)

KeepLead(q) ==
  LET l == card[q] IN
  /\ doing[q] \in {"keep lead", "hide lead"}
  /\ active'   = IF doing[q] = "keep lead" /\ Present(l)
                 THEN active \union {l} ELSE active \ {l}
  /\ archived' = archived \ {l}
  /\ StrandsHidden(l)
  /\ Ends(q)
  /\ UNCHANGED <<board, lane, from, promoted, together, torn, revived,
                 mishaps>>

\* deleteSalesFunnelBdrLeadPermanently; the deals made from the lead lose
\* their reference (ON DELETE SET NULL).
BeginDeleteLead(q, l) ==
  /\ Present(l) /\ l \in archived
  /\ Begins(q, "delete lead", l, NoLane)

DeleteLead(q) ==
  LET l == card[q] IN
  /\ doing[q] = "delete lead"
  /\ lane'     = [lane EXCEPT ![l] = NoLane]
  /\ active'   = active \ {l}
  /\ archived' = archived \ {l}
  /\ from'     = [d \in Deals |-> IF from[d] = l THEN NoCard ELSE from[d]]
  /\ promoted' = {d \in promoted : from[d] # l}
  /\ together' = together \ {l}
  /\ torn'     = torn \ {l}
  /\ revived'  = revived \ {l}
  /\ Ends(q)
  /\ UNCHANGED <<board, stranded, mishaps>>

-----------------------------------------------------------------------------
(* Deals *)

\* insertSalesFunnelSalesDeal by hand: a lead may be named, and is looked up,
\* but not whether it has a deal.
BeginInsertDeal(q, l, s) ==
  /\ l # NoCard => Present(l)
  /\ s \in lanes \intersect SalesLanes
  /\ Begins(q, "insert deal", l, s)

InsertDeal(q, d) ==
  /\ doing[q] = "insert deal"
  /\ card[q] # NoCard => Present(card[q])
  /\ Fresh(d)
  /\ lane'    = [lane EXCEPT ![d] = target[q]]
  /\ active'  = active \union {d}
  /\ from'    = [from EXCEPT ![d] = card[q]]
  /\ Strands(target[q])
  /\ Ends(q)
  /\ UNCHANGED <<board, archived, promoted, together, torn, revived, mishaps>>

\* updateSalesFunnelSalesDeal with a new stage key: it makes the deal active
\* again, but does not clear archived_at.
BeginMoveDeal(q, d, s) ==
  /\ Present(d) /\ d \notin archived
  /\ s \in LanesOf(d) \ {lane[d]}
  /\ Begins(q, "move deal", d, s)

MoveDeal(q) ==
  LET d == card[q] IN
  /\ doing[q] = "move deal"
  /\ Put(d, target[q])
  /\ active' = IF Present(d) THEN active \union {d} ELSE active
  /\ Strands(target[q])
  /\ Ends(q)
  /\ UNCHANGED <<board, archived, from, promoted, together, torn,
                 revived, mishaps>>

\* updateSalesFunnelSalesDeal with archived, or with an outcome: one step, as
\* for leads.
ArchiveDeal(d) ==
  /\ Present(d) /\ d \notin archived
  /\ active'   = active \ {d}
  /\ archived' = archived \union {d}
  /\ UNCHANGED <<board, lane, from, requests, history>>

\* reactivateSalesFunnelSalesDeal
BeginReactivateDeal(q, d, s) ==
  /\ Present(d) /\ ~Shown(d)
  /\ s \in LanesOf(d)
  /\ Begins(q, "reactivate deal", d, s)

ReactivateDeal(q) ==
  LET d == card[q] IN
  /\ doing[q] = "reactivate deal"
  /\ Put(d, target[q])
  /\ active'   = IF Present(d) THEN active \union {d} ELSE active
  /\ archived' = archived \ {d}
  /\ Strands(target[q])
  /\ Ends(q)
  /\ UNCHANGED <<board, from, promoted, together, torn, revived, mishaps>>

\* deleteSalesFunnelSalesDealPermanently
BeginDeleteDeal(q, d) ==
  /\ Present(d) /\ d \in archived
  /\ Begins(q, "delete deal", d, NoLane)

DeleteDeal(q) ==
  LET d == card[q] IN
  /\ doing[q] = "delete deal"
  /\ lane'     = [lane EXCEPT ![d] = NoLane]
  /\ active'   = active \ {d}
  /\ archived' = archived \ {d}
  /\ from'     = [from EXCEPT ![d] = NoCard]
  /\ promoted' = promoted \ {d}
  /\ Ends(q)
  /\ UNCHANGED <<board, together, torn, revived, stranded, mishaps>>

-----------------------------------------------------------------------------
(* Lanes *)

\* insertSalesFunnelStage: a new stage key, so one that nothing refers to.
AddLane(s) ==
  /\ s \in Lanes \ lanes
  /\ \A c \in Cards : lane[c] # s
  /\ \A r \in Requests : target[r] # s
  /\ lanes'    = lanes \union {s}
  /\ stranded' = stranded \ {s}
  /\ UNCHANGED <<ready, cards, requests, promoted, together, torn, revived,
                 mishaps>>

\* updateSalesFunnelStage with readyForSales: the lane is marked ...
MarkReady(q, s) ==
  /\ s \in lanes \intersect BdrLanes
  /\ ready' = ready \union {s}
  /\ Goes(q, "clear ready", NoCard, s)
  /\ Meets
  /\ UNCHANGED <<lanes, cards, promoted, together, torn, revived, stranded>>

\* ... and clearReadyForSalesOnOtherBdrStages.
ClearReady(q) ==
  /\ doing[q] = "clear ready"
  /\ ready' = ready \intersect {target[q]}
  /\ Ends(q)
  /\ UNCHANGED <<lanes, cards, history>>

\* updateSalesFunnelStage with readyForSales: false.
UnmarkReady(s) ==
  /\ s \in ready
  /\ ready' = ready \ {s}
  /\ UNCHANGED <<lanes, cards, requests, history>>

\* Mutant: lanes with cards too.
MayDeleteAny(s) ==
  \E t \in lanes \ {s} : t \in BdrLanes <=> s \in BdrLanes

\* deleteSalesFunnelStage: neither the last lane of its board nor one in use.
MayDelete(s) ==
  /\ \E t \in lanes \ {s} : t \in BdrLanes <=> s \in BdrLanes
  /\ ~InUse(s)

BeginDeleteLane(q, s) ==
  /\ s \in lanes
  /\ MayDelete(s)
  /\ Begins(q, "delete lane", NoCard, s)

DeleteLane(q) ==
  LET s == target[q] IN
  /\ doing[q] = "delete lane"
  /\ lanes' = lanes \ {s}
  /\ ready' = ready \ {s}
  /\ stranded' = IF \E r \in Requests : doing[r] \in Placing /\ target[r] = s
                 THEN stranded \union {s} ELSE stranded
  /\ Ends(q)
  /\ UNCHANGED <<cards, promoted, together, torn, revived, mishaps>>

-----------------------------------------------------------------------------
\* The process dies, or a statement fails.
LoseRequest(q) ==
  /\ doing[q] # "nothing"
  /\ mishaps < MaxMishaps
  /\ mishaps' = mishaps + 1
  /\ torn' = IF doing[q] = "retire lead" THEN torn \union {card[q]} ELSE torn
  /\ Ends(q)
  /\ UNCHANGED <<board, cards, promoted, together, revived, stranded>>

Begin(q) ==
  /\ doing[q] = "nothing"
  /\ \/ \E l \in Leads, s \in Lanes :
          \/ BeginInsertLead(q, l, s)
          \/ BeginMoveLead(q, l, s)
          \/ BeginReactivateLead(q, l, s)
     \/ \E l \in Leads, s \in SalesLanes : BeginPromote(q, l, s)
     \/ \E l \in Leads : BeginKeepLead(q, l) \/ BeginDeleteLead(q, l)
     \/ \E l \in Named, s \in SalesLanes : BeginInsertDeal(q, l, s)
     \/ \E d \in Deals, s \in Lanes :
          \/ BeginMoveDeal(q, d, s)
          \/ BeginReactivateDeal(q, d, s)
     \/ \E d \in Deals : BeginDeleteDeal(q, d)
     \/ \E s \in Lanes : MarkReady(q, s) \/ BeginDeleteLane(q, s)

GoOn(q) ==
  \/ InsertLead(q) \/ MoveLead(q) \/ LeaveAsMoved(q) \/ InsertRefused(q)
  \/ RetireLead(q) \/ ReactivateLead(q) \/ KeepLead(q) \/ DeleteLead(q)
  \/ MoveDeal(q) \/ ReactivateDeal(q) \/ DeleteDeal(q)
  \/ ClearReady(q) \/ DeleteLane(q)
  \/ \E s \in SalesLanes : AutoPromote(q, s)
  \/ \E d \in Deals : InsertPromotedDeal(q, d) \/ InsertDeal(q, d)

Next ==
  \/ \E q \in Requests : Begin(q) \/ GoOn(q) \/ LoseRequest(q)
  \/ \E l \in Leads : ArchiveLead(l)
  \/ \E d \in Deals : ArchiveDeal(d)
  \/ \E s \in Lanes : AddLane(s) \/ UnmarkReady(s)

Spec == Init /\ [][Next]_vars

-----------------------------------------------------------------------------
(* Properties *)

\* d is a row made by promoting l.
DealOf(d, l) == d \in promoted /\ from[d] = l

\* "One deal per lead" (docs/sales-funnel-module.md:63): however promotions
\* are asked for, repeated or cut off, a lead has two promoted deals only if
\* two requests were past the check at once.
OneDealPerLead ==
  \A l \in Leads \ together : \A d, e \in Deals :
    DealOf(d, l) /\ DealOf(e, l) => d = e

\* A lead that was promoted has left its board and does not come back, unless
\* the promotion is under way, was cut off, or met a reactivation.
PromotedLeadsRest ==
  \A l \in Leads : (\E d \in Deals : DealOf(d, l)) /\ Shown(l) =>
    \/ l \in torn \union revived
    \/ \E q \in Requests : doing[q] = "retire lead" /\ card[q] = l

\* Every card that is shown is on a lane of its board: lanes go only when they
\* are empty, and cards come only to lanes that are there, unless a card was
\* on its way while its lane was being deleted.  The one other way is a patch
\* with archived: false, which shows a card on the lane it was left on.
CardsOnBoard ==
  \A c \in Cards : Present(c) /\ Shown(c) => lane[c] \in lanes \union stranded

=============================================================================
