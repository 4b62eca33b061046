------------------------- MODULE SalesFunnel_proofs -------------------------
(***************************************************************************)
(* Proofs about SalesFunnel for every set of leads, deals, lanes and       *)
(* requests and every number of mishaps.                                   *)
(***************************************************************************)
EXTENDS SalesFunnel, TLAPS

-----------------------------------------------------------------------------
(* The inductive invariants *)

OnLeads == {"insert lead", "move lead", "look at lead", "promote", "retire lead",
            "reactivate lead", "keep lead", "hide lead", "delete lead"}
OnDeals == {"move deal", "reactivate deal", "delete deal"}

\* A request works on a card and a lane of its own board.
RequestsFit ==
  \A q \in Requests :
    /\ doing[q] \in OnLeads => card[q] \in Leads
    /\ doing[q] \in OnDeals => card[q] \in Deals
    /\ doing[q] = "insert deal" => card[q] \in Leads \union {NoCard}
    /\ doing[q] \in {"insert lead", "move lead", "look at lead", "reactivate lead", "clear ready"}
         => target[q] \in BdrLanes
    /\ doing[q] \in {"promote", "insert deal", "move deal", "reactivate deal"}
         => target[q] \in SalesLanes
    /\ doing[q] = "delete lane" => target[q] \in Lanes

\* The rows behind the checks: promoted deals and their leads are there, and a
\* row that is about to be inserted is not, nor does another request know it.
RowsInv ==
  /\ \A d \in promoted : Present(d) /\ (from[d] \in Leads => Present(from[d]))
  /\ \A q \in Requests : doing[q] = "insert lead" =>
       /\ ~Present(card[q])
       /\ \A r \in Requests \ {q} : card[r] # card[q]

\* Who promotes a lead has found no deal of it, and there is none yet unless
\* another promotes it too; who shows a lead again likewise.
DealsInv ==
  /\ OneDealPerLead
  /\ \A q \in Requests : doing[q] = "promote" /\ card[q] \notin together =>
       \A d \in Deals : ~DealOf(d, card[q])

RestInv ==
  /\ PromotedLeadsRest
  /\ \A q \in Requests :
       doing[q] \in {"reactivate lead", "keep lead"} /\ card[q] \notin revived =>
         \A d \in Deals : ~DealOf(d, card[q])

\* A card on its way goes to a lane that is there, and a lane about to be
\* deleted has no card, unless the lane is counted as stranded.
LanesInv ==
  /\ CardsOnBoard
  /\ \A q \in Requests : doing[q] \in Placing => target[q] \in lanes \union stranded
  /\ \A q \in Requests, c \in Cards :
       doing[q] = "delete lane" /\ lane[c] = target[q] /\ Shown(c) => target[q] \in stranded

-----------------------------------------------------------------------------
(* Type correctness *)

TypeInv == TypeOK /\ RequestsFit

\* The start has the declared types.
LEMMA InitType == Init => TypeInv
  BY FunnelAssumption DEF Init, TypeInv, TypeOK, RequestsFit, Lanes, Doing, OnLeads, OnDeals, Cards

\* A request that begins, or goes to its next step, with a card and a lane
\* that fit keeps the types.
LEMMA GoesType ==
  ASSUME TypeInv, NEW q \in Requests, NEW what \in Doing,
         NEW c \in Cards \union {NoCard}, NEW s \in Lanes \union {NoLane},
         what \in OnLeads => c \in Leads,
         what \in OnDeals => c \in Deals,
         what = "insert deal" => c \in Leads \union {NoCard},
         what \in {"insert lead", "move lead", "look at lead", "reactivate lead", "clear ready"}
           => s \in BdrLanes,
         what \in {"promote", "insert deal", "move deal", "reactivate deal"} => s \in SalesLanes,
         what = "delete lane" => s \in Lanes,
         Goes(q, what, c, s)
  PROVE  /\ doing'  \in [Requests -> Doing]
         /\ card'   \in [Requests -> Cards \union {NoCard}]
         /\ target' \in [Requests -> Lanes \union {NoLane}]
         /\ RequestsFit'
<1>1. /\ doing'  \in [Requests -> Doing]
      /\ card'   \in [Requests -> Cards \union {NoCard}]
      /\ target' \in [Requests -> Lanes \union {NoLane}]
  BY DEF Goes, TypeInv, TypeOK
<1>2. ASSUME NEW r \in Requests
      PROVE  /\ r = q  => doing'[r] = what /\ card'[r] = c /\ target'[r] = s
             /\ r # q => doing'[r] = doing[r] /\ card'[r] = card[r] /\ target'[r] = target[r]
  BY DEF Goes, TypeInv, TypeOK
<1>3. RequestsFit'
  BY <1>2 DEF RequestsFit, TypeInv
<1>4. QED
  BY <1>1, <1>3

\* A request that has ended fits.
LEMMA EndsType ==
  ASSUME TypeInv, NEW q \in Requests, Ends(q)
  PROVE  /\ doing'  \in [Requests -> Doing]
         /\ card'   \in [Requests -> Cards \union {NoCard}]
         /\ target' \in [Requests -> Lanes \union {NoLane}]
         /\ RequestsFit'
  BY GoesType DEF Ends, Doing, OnLeads, OnDeals

\* Mishaps are counted in numbers.
LEMMA MeetsType ==
  ASSUME TypeInv, Meets
  PROVE  mishaps' \in Nat
<1>1. mishaps \in Nat
  BY DEF TypeInv, TypeOK
<1>2. QED
  BY <1>1 DEF Meets

\* A step that only begins a request that fits keeps the types.
LEMMA BeginsType ==
  ASSUME TypeInv, NEW q \in Requests, NEW what \in Doing,
         NEW c \in Cards \union {NoCard}, NEW s \in Lanes \union {NoLane},
         what \in OnLeads => c \in Leads,
         what \in OnDeals => c \in Deals,
         what = "insert deal" => c \in Leads \union {NoCard},
         what \in {"insert lead", "move lead", "look at lead", "reactivate lead", "clear ready"}
           => s \in BdrLanes,
         what \in {"promote", "insert deal", "move deal", "reactivate deal"} => s \in SalesLanes,
         what = "delete lane" => s \in Lanes,
         Begins(q, what, c, s)
  PROVE  TypeInv'
<1>1. /\ doing'  \in [Requests -> Doing]
      /\ card'   \in [Requests -> Cards \union {NoCard}]
      /\ target' \in [Requests -> Lanes \union {NoLane}]
      /\ RequestsFit'
  BY GoesType DEF Begins
<1>2. mishaps' \in Nat
  BY MeetsType DEF Begins
<1>3. QED
  BY <1>1, <1>2 DEF Begins, board, cards, TypeInv, TypeOK

\* What may be begun keeps the declared types.
LEMMA BeginType ==
  ASSUME TypeInv, NEW q \in Requests, Begin(q)
  PROVE  TypeInv'
<1> USE FunnelAssumption DEF Lanes, Cards, Doing, OnLeads, OnDeals
<1>0. lanes \subseteq Lanes /\ NoCard \notin Cards
  BY DEF TypeInv, TypeOK
<1>1. ASSUME NEW l \in Leads, NEW s \in Lanes, BeginInsertLead(q, l, s) PROVE TypeInv'
  BY <1>1, BeginsType DEF BeginInsertLead, LanesOf
<1>2. ASSUME NEW l \in Leads, NEW s \in Lanes, BeginMoveLead(q, l, s) PROVE TypeInv'
  BY <1>2, BeginsType DEF BeginMoveLead, LanesOf
<1>3. ASSUME NEW l \in Leads, NEW s \in Lanes, BeginReactivateLead(q, l, s) PROVE TypeInv'
  BY <1>3, BeginsType DEF BeginReactivateLead, LanesOf
<1>4. ASSUME NEW l \in Leads, NEW s \in SalesLanes, BeginPromote(q, l, s) PROVE TypeInv'
  BY <1>4, BeginsType DEF BeginPromote
<1>5. ASSUME NEW l \in Leads, BeginKeepLead(q, l) PROVE TypeInv'
  BY <1>5, BeginsType DEF BeginKeepLead
<1>6. ASSUME NEW l \in Leads, BeginDeleteLead(q, l) PROVE TypeInv'
  BY <1>6, BeginsType DEF BeginDeleteLead
<1>7. ASSUME NEW l \in Named, NEW s \in SalesLanes, BeginInsertDeal(q, l, s) PROVE TypeInv'
  BY <1>7, BeginsType DEF BeginInsertDeal
<1>8. ASSUME NEW d \in Deals, NEW s \in Lanes, BeginMoveDeal(q, d, s) PROVE TypeInv'
  BY ZenonT(60), <1>8, BeginsType DEF BeginMoveDeal, LanesOf
<1>9. ASSUME NEW d \in Deals, NEW s \in Lanes, BeginReactivateDeal(q, d, s) PROVE TypeInv'
  BY ZenonT(60), <1>9, BeginsType DEF BeginReactivateDeal, LanesOf
<1>10. ASSUME NEW d \in Deals, BeginDeleteDeal(q, d) PROVE TypeInv'
  BY ZenonT(60), <1>10, BeginsType DEF BeginDeleteDeal
<1>11. ASSUME NEW s \in Lanes, MarkReady(q, s) PROVE TypeInv'
  <2>1. /\ doing'  \in [Requests -> Doing]
        /\ card'   \in [Requests -> Cards \union {NoCard}]
        /\ target' \in [Requests -> Lanes \union {NoLane}]
        /\ RequestsFit'
    BY ZenonT(60), <1>11, GoesType DEF MarkReady
  <2>2. mishaps' \in Nat
    BY <1>11, MeetsType DEF MarkReady
  <2>3. ready' \subseteq lanes \intersect BdrLanes
    BY <1>11 DEF MarkReady, TypeInv, TypeOK
  <2>4. QED
    BY <1>11, <2>1, <2>2, <2>3 DEF MarkReady, cards, TypeInv, TypeOK
<1>12. ASSUME NEW s \in Lanes, BeginDeleteLane(q, s) PROVE TypeInv'
  BY ZenonT(60), <1>12, BeginsType DEF BeginDeleteLane
<1>13. QED
  BY <1>1, <1>2, <1>3, <1>4, <1>5, <1>6, <1>7, <1>8, <1>9, <1>10, <1>11, <1>12 DEF Begin

\* The statements of a request keep the declared types.
LEMMA GoOnType ==
  ASSUME TypeInv, NEW q \in Requests, GoOn(q)
  PROVE  TypeInv'
<1> USE FunnelAssumption DEF board, cards, history
<1> DEFINE Fits == /\ doing'  \in [Requests -> Doing]
                   /\ card'   \in [Requests -> Cards \union {NoCard}]
                   /\ target' \in [Requests -> Lanes \union {NoLane}]
                   /\ RequestsFit'
<1>0. Ends(q) => Fits
  BY EndsType
<1> HIDE DEF Fits
<1>1. ASSUME Fits,
             lanes' \subseteq Lanes, ready' \subseteq lanes' \intersect BdrLanes,
             lane' \in [Cards -> Lanes \union {NoLane}],
             \A l \in Leads : lane'[l] \in BdrLanes \union {NoLane},
             \A d \in Deals : lane'[d] \in SalesLanes \union {NoLane},
             active' \subseteq Cards, archived' \subseteq Cards,
             from' \in [Deals -> Leads \union {NoCard}],
             promoted' \subseteq Deals, together' \subseteq Leads, torn' \subseteq Leads,
             revived' \subseteq Leads, stranded' \subseteq Lanes, mishaps' \in Nat
      PROVE  TypeInv'
  BY <1>1 DEF Fits, TypeInv, TypeOK
<1>2. CASE InsertLead(q)
  <2>1. card[q] \in Leads /\ target[q] \in BdrLanes
    BY <1>2 DEF InsertLead, TypeInv, RequestsFit, OnLeads
  <2>2. stranded' \subseteq Lanes
    BY <1>2, <2>1 DEF InsertLead, Strands, TypeInv, TypeOK, Lanes
  <2>3. /\ lane' = [lane EXCEPT ![card[q]] = target[q]] /\ card[q] \notin Deals
        /\ lane' \in [Cards -> Lanes \union {NoLane}]
    BY <1>2, <2>1 DEF InsertLead, TypeInv, TypeOK, Lanes, Cards
  <2>4. /\ \A l \in Leads : lane'[l] \in BdrLanes \union {NoLane}
        /\ \A d \in Deals : lane'[d] \in SalesLanes \union {NoLane}
    BY <2>1, <2>3 DEF TypeInv, TypeOK, Cards
  <2>5. QED
    BY <1>0, <1>1, <1>2, <2>1, <2>2, <2>3, <2>4 DEF InsertLead, TypeInv, TypeOK, Cards
<1>3. CASE MoveLead(q)
  <2>1. card[q] \in Leads /\ target[q] \in BdrLanes
    BY <1>3 DEF MoveLead, TypeInv, RequestsFit, OnLeads
  <2>2. Fits
    BY <1>3, <2>1, GoesType DEF MoveLead, Doing, OnLeads, OnDeals, Lanes, Cards, Fits
  <2>3. QED
    BY ZenonT(60), <1>1, <1>3, <2>1, <2>2 DEF MoveLead, Put, Strands, TypeInv, TypeOK, Lanes, Cards
<1>4. ASSUME NEW s \in SalesLanes, AutoPromote(q, s) PROVE TypeInv'
  <2>1. card[q] \in Leads
    BY <1>4 DEF AutoPromote, TypeInv, RequestsFit, OnLeads
  <2>2. Fits
    BY <1>4, <2>1, GoesType DEF AutoPromote, Doing, OnLeads, OnDeals, Lanes, Cards, Fits
  <2>3. QED
    BY <1>1, <1>4, <2>2 DEF AutoPromote, TypeInv, TypeOK
<1>5. CASE LeaveAsMoved(q)
  BY <1>0, <1>1, <1>5 DEF LeaveAsMoved, TypeInv, TypeOK
<1>6. ASSUME NEW d \in Deals, InsertPromotedDeal(q, d) PROVE TypeInv'
  <2>1. card[q] \in Leads /\ target[q] \in SalesLanes
    BY <1>6 DEF InsertPromotedDeal, TypeInv, RequestsFit, OnLeads
  <2>2. Fits
    BY <1>6, <2>1, GoesType DEF InsertPromotedDeal, Doing, OnLeads, OnDeals, Lanes, Cards, Fits
  <2>3. stranded' \subseteq Lanes /\ together' \subseteq Leads /\ revived' \subseteq Leads
    BY <1>6, <2>1 DEF InsertPromotedDeal, Strands, TypeInv, TypeOK, Lanes
  <2>4. /\ lane' = [lane EXCEPT ![d] = target[q]] /\ d \notin Leads
        /\ lane' \in [Cards -> Lanes \union {NoLane}]
    BY <1>6, <2>1 DEF InsertPromotedDeal, TypeInv, TypeOK, Lanes, Cards
  <2>5. /\ \A l \in Leads : lane'[l] \in BdrLanes \union {NoLane}
        /\ \A e \in Deals : lane'[e] \in SalesLanes \union {NoLane}
    BY <2>1, <2>4 DEF TypeInv, TypeOK, Cards
  <2>6. QED
    BY ZenonT(60), <1>1, <1>6, <2>1, <2>2, <2>3, <2>4, <2>5
    DEF InsertPromotedDeal, TypeInv, TypeOK, Cards
<1>7. CASE InsertRefused(q)
  BY <1>0, <1>1, <1>7 DEF InsertRefused, TypeInv, TypeOK
<1>8. CASE RetireLead(q)
  <2>1. card[q] \in Leads
    BY <1>8 DEF RetireLead, TypeInv, RequestsFit, OnLeads
  <2>2. QED
    BY <1>0, <1>1, <1>8, <2>1 DEF RetireLead, TypeInv, TypeOK, Cards
<1>9. CASE ReactivateLead(q)
  <2>1. card[q] \in Leads /\ target[q] \in BdrLanes
    BY <1>9 DEF ReactivateLead, TypeInv, RequestsFit, OnLeads
  <2>2. QED
    BY ZenonT(60), <1>0, <1>1, <1>9, <2>1
    DEF ReactivateLead, Put, Strands, TypeInv, TypeOK, Lanes, Cards
<1>10. CASE KeepLead(q)
  <2>1. card[q] \in Leads
    BY <1>10 DEF KeepLead, TypeInv, RequestsFit, OnLeads
  <2>2. lane[card[q]] \in Lanes \union {NoLane} /\ stranded \subseteq Lanes
    BY <2>1 DEF TypeInv, TypeOK, Cards
  <2>3. stranded' \subseteq Lanes
    BY <1>10, <2>2 DEF KeepLead, StrandsHidden, Present
  <2>4. QED
    BY <1>0, <1>1, <1>10, <2>1, <2>3 DEF KeepLead, TypeInv, TypeOK, Cards
<1>11. CASE DeleteLead(q)
  <2>1. card[q] \in Leads
    BY <1>11 DEF DeleteLead, TypeInv, RequestsFit, OnLeads
  <2>2. QED
    BY <1>0, <1>1, <1>11, <2>1 DEF DeleteLead, TypeInv, TypeOK, Cards
<1>12. ASSUME NEW d \in Deals, InsertDeal(q, d) PROVE TypeInv'
  <2>1. card[q] \in Leads \union {NoCard} /\ target[q] \in SalesLanes
    BY <1>12 DEF InsertDeal, TypeInv, RequestsFit
  <2>2. QED
    BY ZenonT(60), <1>0, <1>1, <1>12, <2>1 DEF InsertDeal, Strands, TypeInv, TypeOK, Lanes, Cards
<1>13. CASE MoveDeal(q)
  <2>1. card[q] \in Deals /\ target[q] \in SalesLanes
    BY <1>13 DEF MoveDeal, TypeInv, RequestsFit, OnDeals
  <2>2. QED
    BY ZenonT(60), <1>0, <1>1, <1>13, <2>1 DEF MoveDeal, Put, Strands, TypeInv, TypeOK, Lanes, Cards
<1>14. CASE ReactivateDeal(q)
  <2>1. card[q] \in Deals /\ target[q] \in SalesLanes
    BY <1>14 DEF ReactivateDeal, TypeInv, RequestsFit, OnDeals
  <2>2. QED
    BY ZenonT(60), <1>0, <1>1, <1>14, <2>1
    DEF ReactivateDeal, Put, Strands, TypeInv, TypeOK, Lanes, Cards
<1>15. CASE DeleteDeal(q)
  <2>1. card[q] \in Deals
    BY <1>15 DEF DeleteDeal, TypeInv, RequestsFit, OnDeals
  <2>2. QED
    BY <1>0, <1>1, <1>15, <2>1 DEF DeleteDeal, TypeInv, TypeOK, Cards
<1>16. CASE ClearReady(q)
  BY <1>0, <1>1, <1>16 DEF ClearReady, TypeInv, TypeOK
<1>17. CASE DeleteLane(q)
  <2>1. target[q] \in Lanes
    BY <1>17 DEF DeleteLane, TypeInv, RequestsFit
  <2>2. QED
    BY <1>0, <1>1, <1>17, <2>1 DEF DeleteLane, TypeInv, TypeOK
<1>18. QED
  BY <1>2, <1>3, <1>4, <1>5, <1>6, <1>7, <1>8, <1>9, <1>10, <1>11, <1>12, <1>13, <1>14, <1>15,
     <1>16, <1>17 DEF GoOn

\* Every step keeps the declared types.
LEMMA NextType == TypeInv /\ [Next]_vars => TypeInv'
<1> SUFFICES ASSUME TypeInv, [Next]_vars PROVE TypeInv'
  OBVIOUS
<1> USE FunnelAssumption DEF board, cards, requests, history
<1>1. ASSUME NEW q \in Requests, LoseRequest(q) PROVE TypeInv'
  <2>1. doing[q] = "retire lead" => card[q] \in Leads
    BY DEF TypeInv, RequestsFit, OnLeads
  <2>2. torn' \subseteq Leads
    BY <1>1, <2>1 DEF LoseRequest, TypeInv, TypeOK
  <2>3. mishaps \in Nat
    BY DEF TypeInv, TypeOK
  <2>4. mishaps' = mishaps + 1
    BY <1>1 DEF LoseRequest
  <2>5. mishaps' \in Nat
    BY <2>3, <2>4
  <2>6. QED
    BY <1>1, <2>2, <2>5, EndsType DEF LoseRequest, TypeInv, TypeOK
<1>2. ASSUME NEW l \in Leads, ArchiveLead(l) PROVE TypeInv'
  BY ZenonT(60), <1>2 DEF ArchiveLead, TypeInv, TypeOK, RequestsFit, Cards
<1>3. ASSUME NEW d \in Deals, ArchiveDeal(d) PROVE TypeInv'
  BY <1>3 DEF ArchiveDeal, TypeInv, TypeOK, RequestsFit, Cards
<1>4. ASSUME NEW s \in Lanes, AddLane(s) PROVE TypeInv'
  BY <1>4 DEF AddLane, TypeInv, TypeOK, RequestsFit
<1>5. ASSUME NEW s \in Lanes, UnmarkReady(s) PROVE TypeInv'
  BY <1>5 DEF UnmarkReady, TypeInv, TypeOK, RequestsFit
<1>6. CASE UNCHANGED vars
  BY <1>6 DEF vars, TypeInv, TypeOK, RequestsFit
<1>7. QED
  BY <1>1, <1>2, <1>3, <1>4, <1>5, <1>6, BeginType, GoOnType DEF Next

\* Every reachable state has the declared types.
THEOREM TypeCorrect == Spec => []TypeOK
<1>1. Spec => []TypeInv
  BY InitType, NextType, PTL DEF Spec
<1>2. TypeInv => TypeOK
  BY DEF TypeInv
<1>3. QED
  BY <1>1, <1>2, PTL

-----------------------------------------------------------------------------
(* Rows *)

\* Request q is at the given point, and the others are where they were.
OnlyMoves(q, what, c, s) ==
  /\ doing'[q] = what /\ card'[q] = c /\ target'[q] = s
  /\ \A r \in Requests \ {q} :
       doing'[r] = doing[r] /\ card'[r] = card[r] /\ target'[r] = target[r]

LEMMA GoesFacts ==
  ASSUME TypeInv, NEW q \in Requests, NEW what, NEW c, NEW s, Goes(q, what, c, s)
  PROVE  OnlyMoves(q, what, c, s)
  BY DEF Goes, TypeInv, TypeOK, OnlyMoves

\* A lead that is about to be inserted is still unknown to all others.
LEMMA PendingKept ==
  ASSUME TypeInv, RowsInv, NEW r \in Requests, doing'[r] = "insert lead",
         \A p \in Requests :
           /\ doing'[p] = "insert lead" => doing[p] = "insert lead" /\ card'[p] = card[p]
           /\ card'[p] \in {card[p], NoCard},
         \A l \in Leads : lane[l] = NoLane /\ l = card[r] => lane'[l] = NoLane
  PROVE  lane'[card'[r]] = NoLane /\ \A p \in Requests \ {r} : card'[p] # card'[r]
<1>1. card'[r] = card[r] /\ card[r] \in Leads /\ doing[r] = "insert lead"
  BY DEF TypeInv, RequestsFit, OnLeads
<1>2. lane[card[r]] = NoLane /\ \A p \in Requests \ {r} : card[p] # card[r]
  BY <1>1 DEF RowsInv, Present
<1>3. card[r] # NoCard
  BY <1>1, FunnelAssumption DEF Cards
<1>4. QED
  BY <1>1, <1>2, <1>3

\* Rows that neither come nor go, and requests that take no new card, keep RowsInv.
LEMMA RowsKept ==
  ASSUME TypeInv, RowsInv,
         promoted' = promoted, from' = from,
         \A c \in Cards : Present(c)' <=> Present(c),
         \A r \in Requests :
           /\ doing'[r] = "insert lead" => doing[r] = "insert lead" /\ card'[r] = card[r]
           /\ card'[r] \in {card[r], NoCard}
  PROVE  RowsInv'
<1>0. /\ NoCard \notin Leads /\ Leads \subseteq Cards /\ promoted \subseteq Cards
      /\ \A c \in Cards : lane'[c] # NoLane <=> lane[c] # NoLane
  BY FunnelAssumption DEF TypeInv, TypeOK, Present, Cards
<1>1. ASSUME NEW d \in promoted'
      PROVE  lane'[d] # NoLane /\ (from'[d] \in Leads => lane'[from'[d]] # NoLane)
  BY <1>0, <1>1 DEF RowsInv, Present
<1>2. ASSUME NEW q \in Requests, doing'[q] = "insert lead"
      PROVE  lane'[card'[q]] = NoLane /\ \A r \in Requests \ {q} : card'[r] # card'[q]
  <2>1. card'[q] = card[q] /\ card[q] \in Leads /\ doing[q] = "insert lead"
    BY <1>2 DEF RequestsFit, OnLeads, TypeInv
  <2>2. QED
    BY <1>0, <2>1 DEF RowsInv, Present
<1>3. QED
  BY <1>1, <1>2 DEF RowsInv, Present

\* A request begins with a row that is there, or with an id that is free.
LEMMA RowsBegins ==
  ASSUME TypeInv, RowsInv, NEW q \in Requests, NEW what \in Doing,
         NEW c \in Cards \union {NoCard}, NEW s,
         IF what = "insert lead" THEN Fresh(c) ELSE c # NoCard => Present(c),
         Goes(q, what, c, s), UNCHANGED <<cards, promoted>>
  PROVE  RowsInv'
<1>0. OnlyMoves(q, what, c, s)
  BY GoesFacts
<1>1. \A r \in Requests :
        /\ r = q  => doing'[r] = what /\ card'[r] = c
        /\ r # q => doing'[r] = doing[r] /\ card'[r] = card[r]
  BY <1>0 DEF OnlyMoves
<1>2. ASSUME NEW r \in Requests, doing'[r] = "insert lead"
      PROVE  lane[card'[r]] = NoLane /\ \A p \in Requests \ {r} : card'[p] # card'[r]
  <2>1. CASE r = q
    BY <1>1, <1>2, <2>1 DEF Fresh, Present
  <2>2. CASE r # q
    <3>1. card'[r] = card[r] /\ card[r] \in Leads /\ doing[r] = "insert lead"
      BY <1>1, <1>2, <2>2 DEF RequestsFit, OnLeads, TypeInv
    <3>2. lane[card[r]] = NoLane /\ \A p \in Requests \ {r} : card[p] # card[r]
      BY <3>1 DEF RowsInv, Present
    <3>3. c # card[r]
      BY <3>1, <3>2, <2>2, FunnelAssumption DEF Fresh, Present, Cards
    <3>4. QED
      BY <1>1, <3>1, <3>2, <3>3, <2>2
  <2>3. QED
    BY <2>1, <2>2
<1>3. QED
  BY <1>2 DEF RowsInv, Present, cards

\* No step inserts a row twice, or loses the row of a promoted deal's lead.
LEMMA NextRows == TypeInv /\ RowsInv /\ [Next]_vars => RowsInv'
<1> SUFFICES ASSUME TypeInv, RowsInv, [Next]_vars PROVE RowsInv'
  OBVIOUS
<1> USE FunnelAssumption DEF board, cards, requests, history, Ends
<1>1. ASSUME NEW q \in Requests, Begin(q) PROVE RowsInv'
  <2> USE DEF Doing, Cards, Begins
  <2>1. ASSUME NEW l \in Leads, NEW s \in Lanes,
               \/ BeginInsertLead(q, l, s)
               \/ BeginMoveLead(q, l, s)
               \/ BeginReactivateLead(q, l, s)
        PROVE  RowsInv'
    BY <2>1, RowsBegins DEF BeginInsertLead, BeginMoveLead, BeginReactivateLead, MayReactivate
  <2>2. ASSUME NEW l \in Leads, NEW s \in SalesLanes, BeginPromote(q, l, s) PROVE RowsInv'
    BY <2>2, RowsBegins DEF BeginPromote, MayPromote
  <2>3. ASSUME NEW l \in Leads, BeginKeepLead(q, l) \/ BeginDeleteLead(q, l) PROVE RowsInv'
    BY <2>3, RowsBegins DEF BeginKeepLead, BeginDeleteLead
  <2>4. ASSUME NEW l \in Named, NEW s \in SalesLanes, BeginInsertDeal(q, l, s) PROVE RowsInv'
    BY <2>4, RowsBegins DEF BeginInsertDeal
  <2>5. ASSUME NEW d \in Deals, NEW s \in Lanes,
               BeginMoveDeal(q, d, s) \/ BeginReactivateDeal(q, d, s)
        PROVE  RowsInv'
    BY <2>5, RowsBegins DEF BeginMoveDeal, BeginReactivateDeal
  <2>6. ASSUME NEW d \in Deals, BeginDeleteDeal(q, d) PROVE RowsInv'
    BY <2>6, RowsBegins DEF BeginDeleteDeal
  <2>7. ASSUME NEW s \in Lanes, MarkReady(q, s) \/ BeginDeleteLane(q, s) PROVE RowsInv'
    BY <2>7, RowsBegins DEF MarkReady, BeginDeleteLane
  <2>8. QED
    BY <1>1, <2>1, <2>2, <2>3, <2>4, <2>5, <2>6, <2>7 DEF Begin
<1>2. ASSUME NEW q \in Requests, InsertLead(q) PROVE RowsInv'
  <2>1. card[q] \in Leads /\ target[q] \in Lanes
    BY <1>2 DEF InsertLead, TypeInv, RequestsFit, OnLeads, Lanes
  <2>2. \A c \in Cards : lane'[c] = IF c = card[q] THEN target[q] ELSE lane[c]
    BY <1>2, <2>1 DEF InsertLead, TypeInv, TypeOK, Cards
  <2>3. /\ \A r \in Requests \ {q} : doing'[r] = doing[r] /\ card'[r] = card[r]
        /\ doing'[q] = "nothing" /\ card'[q] = NoCard
    BY <1>2, GoesFacts DEF OnlyMoves, InsertLead
  <2>4. from' = from /\ promoted' = promoted /\ doing[q] = "insert lead"
    BY <1>2 DEF InsertLead
  <2>5. \A r \in Requests \ {q} : card[r] # card[q]
    BY <2>4 DEF RowsInv
  <2>6. ASSUME NEW e \in promoted' PROVE lane'[e] # NoLane /\ (from'[e] \in Leads => lane'[from'[e]] # NoLane)
    BY <2>1, <2>2, <2>4 DEF RowsInv, Present, TypeInv, TypeOK, Cards
  <2>7. ASSUME NEW r \in Requests, doing'[r] = "insert lead"
        PROVE  lane'[card'[r]] = NoLane /\ \A p \in Requests \ {r} : card'[p] # card'[r]
    <3>1. r # q
      BY <2>3, <2>7
    <3>2. \A p \in Requests :
            /\ doing'[p] = "insert lead" => doing[p] = "insert lead" /\ card'[p] = card[p]
            /\ card'[p] \in {card[p], NoCard}
      BY <2>3
    <3>3. QED
      BY <2>2, <2>5, <2>7, <3>1, <3>2, PendingKept DEF Cards
  <2>8. QED
    BY <2>6, <2>7 DEF RowsInv, Present
<1>3. ASSUME NEW q \in Requests, NEW d \in Deals, InsertPromotedDeal(q, d) \/ InsertDeal(q, d)
      PROVE  RowsInv'
  <2>1. target[q] \in Lanes /\ card[q] \in Leads \union {NoCard}
    BY <1>3 DEF InsertPromotedDeal, InsertDeal, TypeInv, RequestsFit, OnLeads, Lanes
  <2>2. \A c \in Cards : lane'[c] = IF c = d THEN target[q] ELSE lane[c]
    BY <1>3 DEF InsertPromotedDeal, InsertDeal, TypeInv, TypeOK, Cards
  <2>3. \A r \in Requests :
          /\ doing'[r] = "insert lead" => doing[r] = "insert lead" /\ card'[r] = card[r]
          /\ card'[r] \in {card[r], NoCard}
    <3>1. OnlyMoves(q, "retire lead", card[q], NoLane) \/ OnlyMoves(q, "nothing", NoCard, NoLane)
      BY <1>3, GoesFacts DEF InsertPromotedDeal, InsertDeal
    <3>2. QED
      BY <3>1 DEF OnlyMoves
  <2>5. /\ from' = [from EXCEPT ![d] = card[q]] /\ promoted' \subseteq promoted \union {d}
        /\ ~Present(d) /\ (card[q] # NoCard => Present(card[q]))
    BY <1>3 DEF InsertPromotedDeal, InsertDeal, Fresh
  <2>6. ASSUME NEW e \in promoted' PROVE lane'[e] # NoLane /\ (from'[e] \in Leads => lane'[from'[e]] # NoLane)
    <3>1. CASE e = d
      BY <2>1, <2>2, <2>5, <3>1 DEF Present, TypeInv, TypeOK, Cards
    <3>2. CASE e # d
      <4>1. /\ e \in promoted /\ lane[e] # NoLane /\ from'[e] = from[e]
            /\ (from[e] \in Leads => lane[from[e]] # NoLane)
        BY <2>5, <3>2 DEF RowsInv, Present, TypeInv, TypeOK
      <4>2. QED
        BY <2>1, <2>2, <4>1 DEF TypeInv, TypeOK, Cards
    <3>3. QED
      BY <3>1, <3>2
  <2>7. ASSUME NEW r \in Requests, doing'[r] = "insert lead"
        PROVE  lane'[card'[r]] = NoLane /\ \A p \in Requests \ {r} : card'[p] # card'[r]
    BY <2>1, <2>2, <2>3, <2>7, PendingKept DEF Cards
  <2>8. QED
    BY <2>6, <2>7 DEF RowsInv, Present
<1>4. ASSUME NEW q \in Requests, DeleteLead(q) PROVE RowsInv'
  <2>1. card[q] \in Leads
    BY <1>4 DEF DeleteLead, TypeInv, RequestsFit, OnLeads
  <2>2. \A c \in Cards : lane'[c] = IF c = card[q] THEN NoLane ELSE lane[c]
    BY <1>4 DEF DeleteLead, TypeInv, TypeOK, Cards
  <2>3. \A r \in Requests :
          /\ doing'[r] = "insert lead" => doing[r] = "insert lead" /\ card'[r] = card[r]
          /\ card'[r] \in {card[r], NoCard}
    BY ZenonT(60), <1>4, GoesFacts DEF OnlyMoves, DeleteLead
  <2>5. /\ promoted' = {d \in promoted : from[d] # card[q]}
        /\ from' = [d \in Deals |-> IF from[d] = card[q] THEN NoCard ELSE from[d]]
    BY <1>4 DEF DeleteLead
  <2>6. ASSUME NEW e \in promoted' PROVE lane'[e] # NoLane /\ (from'[e] \in Leads => lane'[from'[e]] # NoLane)
    BY <2>1, <2>2, <2>5 DEF RowsInv, Present, TypeInv, TypeOK, Cards
  <2>7. ASSUME NEW r \in Requests, doing'[r] = "insert lead"
        PROVE  lane'[card'[r]] = NoLane /\ \A p \in Requests \ {r} : card'[p] # card'[r]
    BY <2>1, <2>2, <2>3, <2>7, PendingKept DEF Cards
  <2>8. QED
    BY <2>6, <2>7 DEF RowsInv, Present
<1>5. ASSUME NEW q \in Requests, DeleteDeal(q) PROVE RowsInv'
  <2>1. card[q] \in Deals
    BY <1>5 DEF DeleteDeal, TypeInv, RequestsFit, OnDeals
  <2>2. \A c \in Cards : lane'[c] = IF c = card[q] THEN NoLane ELSE lane[c]
    BY <1>5 DEF DeleteDeal, TypeInv, TypeOK, Cards
  <2>3. \A r \in Requests :
          /\ doing'[r] = "insert lead" => doing[r] = "insert lead" /\ card'[r] = card[r]
          /\ card'[r] \in {card[r], NoCard}
    BY ZenonT(60), <1>5, GoesFacts DEF OnlyMoves, DeleteDeal
  <2>5. promoted' = promoted \ {card[q]} /\ from' = [from EXCEPT ![card[q]] = NoCard]
    BY <1>5 DEF DeleteDeal
  <2>6. ASSUME NEW e \in promoted' PROVE lane'[e] # NoLane /\ (from'[e] \in Leads => lane'[from'[e]] # NoLane)
    BY <2>1, <2>2, <2>5 DEF RowsInv, Present, TypeInv, TypeOK, Cards
  <2>7. ASSUME NEW r \in Requests, doing'[r] = "insert lead"
        PROVE  lane'[card'[r]] = NoLane /\ \A p \in Requests \ {r} : card'[p] # card'[r]
    BY <2>1, <2>2, <2>3, <2>7, PendingKept DEF Cards
  <2>8. QED
    BY <2>6, <2>7 DEF RowsInv, Present
<1>6. ASSUME NEW q \in Requests,
             \/ MoveLead(q) \/ ReactivateLead(q) \/ MoveDeal(q) \/ ReactivateDeal(q)
      PROVE  RowsInv'
  <2>1. target[q] \in Lanes
    BY <1>6 DEF MoveLead, ReactivateLead, MoveDeal, ReactivateDeal, TypeInv, RequestsFit, Lanes
  <2>2. \A c \in Cards : Present(c)' <=> Present(c)
    <3>1. Put(card[q], target[q])
      BY <1>6 DEF MoveLead, ReactivateLead, MoveDeal, ReactivateDeal
    <3>2. QED
      BY <2>1, <3>1 DEF Put, Present, TypeInv, TypeOK
  <2>3. \A r \in Requests :
          /\ doing'[r] = "insert lead" => doing[r] = "insert lead" /\ card'[r] = card[r]
          /\ card'[r] \in {card[r], NoCard}
    <3>1. \/ OnlyMoves(q, "look at lead", card[q], target[q])
          \/ OnlyMoves(q, "nothing", NoCard, NoLane)
      BY <1>6, GoesFacts DEF MoveLead, ReactivateLead, MoveDeal, ReactivateDeal
    <3>2. QED
      BY <3>1 DEF OnlyMoves
  <2>4. QED
    BY <1>6, <2>2, <2>3, RowsKept DEF MoveLead, ReactivateLead, MoveDeal, ReactivateDeal
<1>7. ASSUME NEW q \in Requests,
             \/ LeaveAsMoved(q) \/ InsertRefused(q) \/ RetireLead(q) \/ KeepLead(q)
             \/ ClearReady(q) \/ DeleteLane(q) \/ LoseRequest(q)
             \/ \E s \in SalesLanes : AutoPromote(q, s)
      PROVE  RowsInv'
  <2>1. /\ UNCHANGED <<lane, from, promoted>>
        /\ \E what \in Doing \ {"insert lead"}, c \in {card[q], NoCard}, s \in Lanes \union {NoLane} :
             Goes(q, what, c, s)
    BY <1>7 DEF LeaveAsMoved, InsertRefused, RetireLead, KeepLead, ClearReady, DeleteLane,
       LoseRequest, AutoPromote, Doing, Lanes
  <2>2. \A r \in Requests :
          /\ doing'[r] = "insert lead" => doing[r] = "insert lead" /\ card'[r] = card[r]
          /\ card'[r] \in {card[r], NoCard}
    BY <2>1, GoesFacts DEF OnlyMoves
  <2>3. QED
    BY <2>1, <2>2, RowsKept DEF Present
<1>8. ASSUME \/ \E l \in Leads : ArchiveLead(l)
             \/ \E d \in Deals : ArchiveDeal(d)
             \/ \E s \in Lanes : AddLane(s) \/ UnmarkReady(s)
             \/ UNCHANGED vars
      PROVE  RowsInv'
  <2>1. UNCHANGED <<lane, from, promoted, doing, card>>
    BY <1>8 DEF ArchiveLead, ArchiveDeal, AddLane, UnmarkReady, vars
  <2>2. QED
    BY <2>1, RowsKept DEF Present
<1>9. QED
  BY <1>1, <1>2, <1>3, <1>4, <1>5, <1>6, <1>7, <1>8 DEF Next, GoOn

-----------------------------------------------------------------------------
(* Promotion *)

\* Who was found without a deal has no promoted one.
LEMMA NoDealNoPromotion ==
  ASSUME TypeInv, RowsInv, NEW l \in Leads, ~HasDeal(l)
  PROVE  \A d \in Deals : ~DealOf(d, l)
  BY DEF HasDeal, DealOf, RowsInv

\* No new deals and no new promotions keep DealsInv.
LEMMA DealsKept ==
  ASSUME DealsInv, UNCHANGED <<from, together>>, promoted' \subseteq promoted,
         \A r \in Requests : doing'[r] = "promote" => doing[r] = "promote" /\ card'[r] = card[r]
  PROVE  DealsInv'
  BY DEF DealsInv, OneDealPerLead, DealOf

\* A promotion begins with a lead without a deal.
LEMMA DealsBegins ==
  ASSUME TypeInv, RowsInv, DealsInv, NEW q \in Requests, NEW what \in Doing,
         NEW c \in Cards \union {NoCard}, NEW s,
         what = "promote" => c \in Leads /\ ~HasDeal(c),
         Goes(q, what, c, s), UNCHANGED <<from, promoted, together>>
  PROVE  DealsInv'
<1>1. OnlyMoves(q, what, c, s)
  BY GoesFacts
<1>2. ASSUME NEW r \in Requests, doing'[r] = "promote", card'[r] \notin together,
             NEW d \in Deals
      PROVE  ~(d \in promoted /\ from[d] = card'[r])
  <2>1. CASE r = q
    BY <1>1, <1>2, <2>1, NoDealNoPromotion DEF OnlyMoves, DealOf
  <2>2. CASE r # q
    BY <1>1, <1>2, <2>2 DEF OnlyMoves, DealsInv, DealOf
  <2>3. QED
    BY <2>1, <2>2
<1>3. OneDealPerLead'
  BY DEF DealsInv, OneDealPerLead, DealOf
<1>4. QED
  BY <1>2, <1>3 DEF DealsInv, DealOf

\* The deal of a promotion is the first of its lead, unless another request
\* promotes the lead as well.
LEMMA PromotionDeals ==
  ASSUME TypeInv, RowsInv, DealsInv,
         NEW q \in Requests, NEW d \in Deals, InsertPromotedDeal(q, d)
  PROVE  DealsInv'
<1>1. /\ card[q] \in Leads /\ doing[q] = "promote" /\ d \notin promoted
      /\ from' = [from EXCEPT ![d] = card[q]] /\ promoted' = promoted \union {d}
      /\ OnlyMoves(q, "retire lead", card[q], NoLane)
  BY GoesFacts DEF InsertPromotedDeal, Fresh, RowsInv, TypeInv, RequestsFit, OnLeads
<1>2. /\ together \subseteq together'
      /\ \A r \in Requests \ {q} : doing[r] = "promote" /\ card[r] = card[q] => card[q] \in together'
  BY DEF InsertPromotedDeal
<1>3. \A e \in Deals, l \in Leads :
        (e \in promoted' /\ from'[e] = l) <=> (e = d /\ l = card[q]) \/ DealOf(e, l)
  BY <1>1 DEF DealOf, TypeInv, TypeOK
<1>4. card[q] \notin together' => \A e \in Deals : ~DealOf(e, card[q])
  BY <1>1, <1>2 DEF DealsInv
<1>5. ASSUME NEW l \in Leads \ together', NEW e \in Deals, NEW f \in Deals,
             e \in promoted' /\ from'[e] = l, f \in promoted' /\ from'[f] = l
      PROVE  e = f
  BY <1>2, <1>3, <1>4, <1>5 DEF DealsInv, OneDealPerLead
<1>6. ASSUME NEW r \in Requests, doing'[r] = "promote", card'[r] \notin together', NEW e \in Deals
      PROVE  ~(e \in promoted' /\ from'[e] = card'[r])
  <2>1. r # q /\ doing[r] = "promote" /\ card'[r] = card[r] /\ card[r] \in Leads
    BY <1>1, <1>6 DEF OnlyMoves, TypeInv, RequestsFit, OnLeads
  <2>2. card[r] # card[q]
    BY <1>2, <1>6, <2>1
  <2>3. ~DealOf(e, card[r])
    BY <1>2, <1>6, <2>1 DEF DealsInv
  <2>4. QED
    BY <1>3, <2>1, <2>2, <2>3
<1>7. QED
  BY <1>5, <1>6 DEF DealsInv, OneDealPerLead, DealOf

\* Every step keeps it to one deal per lead.
LEMMA NextDeals == TypeInv /\ RowsInv /\ DealsInv /\ [Next]_vars => DealsInv'
<1> SUFFICES ASSUME TypeInv, RowsInv, DealsInv, [Next]_vars PROVE DealsInv'
  OBVIOUS
<1> USE FunnelAssumption DEF board, cards, requests, history, Ends
<1>1. ASSUME NEW q \in Requests, Begin(q) PROVE DealsInv'
  <2> USE DEF Doing, Cards, Begins
  <2>1. ASSUME NEW l \in Leads, NEW s \in Lanes,
               \/ BeginInsertLead(q, l, s)
               \/ BeginMoveLead(q, l, s)
               \/ BeginReactivateLead(q, l, s)
        PROVE  DealsInv'
    BY <2>1, DealsBegins DEF BeginInsertLead, BeginMoveLead, BeginReactivateLead
  <2>2. ASSUME NEW l \in Leads, NEW s \in SalesLanes, BeginPromote(q, l, s) PROVE DealsInv'
    BY <2>2, DealsBegins DEF BeginPromote, MayPromote
  <2>3. ASSUME NEW l \in Leads, BeginKeepLead(q, l) \/ BeginDeleteLead(q, l) PROVE DealsInv'
    BY <2>3, DealsBegins DEF BeginKeepLead, BeginDeleteLead
  <2>4. ASSUME NEW l \in Named, NEW s \in SalesLanes, BeginInsertDeal(q, l, s) PROVE DealsInv'
    BY <2>4, DealsBegins DEF BeginInsertDeal
  <2>5. ASSUME NEW d \in Deals, NEW s \in Lanes,
               BeginMoveDeal(q, d, s) \/ BeginReactivateDeal(q, d, s)
        PROVE  DealsInv'
    BY <2>5, DealsBegins DEF BeginMoveDeal, BeginReactivateDeal
  <2>6. ASSUME NEW d \in Deals, BeginDeleteDeal(q, d) PROVE DealsInv'
    BY <2>6, DealsBegins DEF BeginDeleteDeal
  <2>7. ASSUME NEW s \in Lanes, MarkReady(q, s) \/ BeginDeleteLane(q, s) PROVE DealsInv'
    BY <2>7, DealsBegins DEF MarkReady, BeginDeleteLane
  <2>8. QED
    BY <1>1, <2>1, <2>2, <2>3, <2>4, <2>5, <2>6, <2>7 DEF Begin
<1>2. ASSUME NEW q \in Requests, NEW s \in SalesLanes, AutoPromote(q, s) PROVE DealsInv'
  <2>1. card[q] \in Leads /\ ~HasDeal(card[q])
    BY <1>2 DEF AutoPromote, MayPromote, TypeInv, RequestsFit, OnLeads
  <2>2. Goes(q, "promote", card[q], s) /\ UNCHANGED <<from, promoted, together>>
    BY <1>2 DEF AutoPromote
  <2>3. QED
    BY <2>1, <2>2, DealsBegins DEF Doing, Cards
<1>3. ASSUME NEW q \in Requests, NEW d \in Deals, InsertPromotedDeal(q, d) PROVE DealsInv'
  BY <1>3, PromotionDeals
<1>4. ASSUME NEW q \in Requests, NEW d \in Deals, InsertDeal(q, d) PROVE DealsInv'
  <2>1. /\ d \notin promoted /\ UNCHANGED <<promoted, together>>
        /\ from' = [from EXCEPT ![d] = card[q]] /\ OnlyMoves(q, "nothing", NoCard, NoLane)
    BY <1>4, GoesFacts DEF InsertDeal, Fresh, RowsInv
  <2>2. \A e \in Deals : e \in promoted => from'[e] = from[e]
    BY <2>1 DEF TypeInv, TypeOK
  <2>3. QED
    BY <2>1, <2>2 DEF DealsInv, OneDealPerLead, DealOf, OnlyMoves
<1>5. ASSUME NEW q \in Requests, DeleteLead(q) PROVE DealsInv'
  <2>1. /\ promoted' = {d \in promoted : from[d] # card[q]}
        /\ from' = [d \in Deals |-> IF from[d] = card[q] THEN NoCard ELSE from[d]]
        /\ together' = together \ {card[q]} /\ OnlyMoves(q, "nothing", NoCard, NoLane)
    BY <1>5, GoesFacts DEF DeleteLead
  <2>2. \A e \in Deals : e \in promoted' => e \in promoted /\ from'[e] = from[e] /\ from[e] # card[q]
    BY <2>1 DEF TypeInv, TypeOK
  <2>3. QED
    BY <2>1, <2>2 DEF DealsInv, OneDealPerLead, DealOf, OnlyMoves
<1>6. ASSUME NEW q \in Requests, DeleteDeal(q) PROVE DealsInv'
  <2>1. /\ promoted' = promoted \ {card[q]} /\ from' = [from EXCEPT ![card[q]] = NoCard]
        /\ together' = together /\ OnlyMoves(q, "nothing", NoCard, NoLane)
    BY <1>6, GoesFacts DEF DeleteDeal
  <2>2. \A e \in Deals : e \in promoted' => e \in promoted /\ from'[e] = from[e]
    BY <2>1 DEF TypeInv, TypeOK
  <2>3. QED
    BY <2>1, <2>2 DEF DealsInv, OneDealPerLead, DealOf, OnlyMoves
<1>7. ASSUME NEW q \in Requests,
             \/ InsertLead(q) \/ MoveLead(q) \/ LeaveAsMoved(q) \/ InsertRefused(q)
             \/ RetireLead(q) \/ ReactivateLead(q) \/ KeepLead(q) \/ MoveDeal(q)
             \/ ReactivateDeal(q) \/ ClearReady(q) \/ DeleteLane(q) \/ LoseRequest(q)
      PROVE  DealsInv'
  <2>1. /\ UNCHANGED <<from, promoted, together>>
        /\ Goes(q, "look at lead", card[q], target[q]) \/ Goes(q, "nothing", NoCard, NoLane)
    BY <1>7 DEF InsertLead, MoveLead, LeaveAsMoved, InsertRefused, RetireLead, ReactivateLead,
       KeepLead, MoveDeal, ReactivateDeal, ClearReady, DeleteLane, LoseRequest
  <2>2. \A r \in Requests : doing'[r] = "promote" => doing[r] = "promote" /\ card'[r] = card[r]
    BY <2>1, GoesFacts DEF OnlyMoves
  <2>3. QED
    BY <2>1, <2>2, DealsKept
<1>8. ASSUME \/ \E l \in Leads : ArchiveLead(l)
             \/ \E d \in Deals : ArchiveDeal(d)
             \/ \E s \in Lanes : AddLane(s) \/ UnmarkReady(s)
             \/ UNCHANGED vars
      PROVE  DealsInv'
  <2>1. UNCHANGED <<from, promoted, together, doing, card>>
    BY <1>8 DEF ArchiveLead, ArchiveDeal, AddLane, UnmarkReady, vars
  <2>2. QED
    BY <2>1, DealsKept
<1>9. QED
  BY <1>1, <1>2, <1>3, <1>4, <1>5, <1>6, <1>7, <1>8 DEF Next, GoOn

-----------------------------------------------------------------------------
(* Promoted leads *)

Reviving == {"reactivate lead", "keep lead"}

\* The lead is excused, or a request is about to take it off the board.
Resting(l) == l \in torn \union revived \/ \E q \in Requests : doing[q] = "retire lead" /\ card[q] = l

\* RestInv after a step, from what the step has left of deals and requests.
LEMMA RestAfter ==
  ASSUME \A l \in Leads, d \in Deals : DealOf(d, l)' /\ Shown(l)' => Resting(l)',
         \A r \in Requests, d \in Deals :
           doing'[r] \in Reviving /\ card'[r] \notin revived'
             => ~(d \in promoted' /\ from'[d] = card'[r])
  PROVE  RestInv'
  BY DEF RestInv, PromotedLeadsRest, Resting, Reviving, DealOf

\* Where no deal is made, no lead comes back, and no request begins to show one
\* or stops retiring one, RestInv is kept.
LEMMA RestKept ==
  ASSUME RestInv, UNCHANGED from, promoted' \subseteq promoted,
         torn \subseteq torn', revived \subseteq revived',
         \A l \in Leads : Shown(l)' => Shown(l),
         \A r \in Requests :
           /\ doing[r] = "retire lead" => doing'[r] = "retire lead" /\ card'[r] = card[r]
           /\ doing'[r] \in Reviving => doing[r] \in Reviving /\ card'[r] = card[r]
  PROVE  RestInv'
<1>1. ASSUME NEW l \in Leads, NEW d \in Deals, DealOf(d, l)', Shown(l)'
      PROVE  Resting(l)'
  <2>1. DealOf(d, l) /\ Shown(l)
    BY <1>1 DEF DealOf
  <2>2. Resting(l)
    BY <2>1 DEF RestInv, PromotedLeadsRest, Resting
  <2>3. QED
    BY <2>2 DEF Resting
<1>2. ASSUME NEW q \in Requests, NEW d \in Deals, doing'[q] \in Reviving, card'[q] \notin revived'
      PROVE  ~(d \in promoted' /\ from'[d] = card'[q])
  BY <1>2 DEF RestInv, Reviving, DealOf
<1>3. QED
  BY <1>1, <1>2, RestAfter

\* Who begins to show a lead has found it without a deal.
LEMMA RestBegins ==
  ASSUME TypeInv, RowsInv, RestInv, NEW q \in Requests, doing[q] # "retire lead",
         NEW what \in Doing, NEW c \in Cards \union {NoCard}, NEW s,
         what \in Reviving => c \in Leads /\ ~HasDeal(c),
         Goes(q, what, c, s), UNCHANGED <<cards, promoted, torn, revived>>
  PROVE  RestInv'
<1>1. OnlyMoves(q, what, c, s)
  BY GoesFacts
<1>2. ASSUME NEW r \in Requests, doing'[r] \in Reviving, card'[r] \notin revived, NEW d \in Deals
      PROVE  ~(d \in promoted /\ from[d] = card'[r])
  <2>1. CASE r = q
    BY <1>1, <1>2, <2>1, NoDealNoPromotion DEF OnlyMoves, DealOf
  <2>2. CASE r # q
    BY <1>1, <1>2, <2>2 DEF OnlyMoves, RestInv, Reviving, DealOf
  <2>3. QED
    BY <2>1, <2>2
<1>3. ASSUME NEW l \in Leads, NEW d \in Deals, DealOf(d, l), Shown(l)
      PROVE  l \in torn \union revived \/ \E r \in Requests : doing'[r] = "retire lead" /\ card'[r] = l
  <2>1. CASE l \in torn \union revived
    BY <2>1
  <2>2. CASE l \notin torn \union revived
    <3>1. PICK r \in Requests : doing[r] = "retire lead" /\ card[r] = l
      BY <1>3, <2>2 DEF RestInv, PromotedLeadsRest
    <3>2. r # q
      BY <3>1
    <3>3. QED
      BY <1>1, <3>1, <3>2 DEF OnlyMoves
  <2>3. QED
    BY <2>1, <2>2
<1>4. QED
  BY <1>2, <1>3 DEF RestInv, PromotedLeadsRest, Reviving, DealOf, Shown, cards

\* A lead that is shown again, or inserted, had no deal or counts as revived.
LEMMA RestShows ==
  ASSUME TypeInv, RestInv, NEW q \in Requests, card[q] \in Leads,
         card[q] \in revived \/ \A d \in Deals : ~DealOf(d, card[q]),
         \A l \in Leads \ {card[q]} : Shown(l)' => Shown(l),
         Goes(q, "nothing", NoCard, NoLane), doing[q] # "retire lead",
         UNCHANGED <<from, promoted, torn, revived>>
  PROVE  RestInv'
<1>1. OnlyMoves(q, "nothing", NoCard, NoLane)
  BY GoesFacts
<1>2. ASSUME NEW l \in Leads, NEW d \in Deals, DealOf(d, l), Shown(l)'
      PROVE  l \in torn \union revived \/ \E r \in Requests : doing'[r] = "retire lead" /\ card'[r] = l
  <2>1. CASE l = card[q]
    BY <1>2, <2>1
  <2>2. CASE l # card[q] /\ l \notin torn \union revived
    <3>1. PICK r \in Requests : doing[r] = "retire lead" /\ card[r] = l
      BY <1>2, <2>2 DEF RestInv, PromotedLeadsRest
    <3>2. r # q
      BY <3>1
    <3>3. QED
      BY <1>1, <3>1, <3>2 DEF OnlyMoves
  <2>3. QED
    BY <2>1, <2>2
<1>3. ASSUME NEW r \in Requests, NEW d \in Deals, doing'[r] \in Reviving, card'[r] \notin revived'
      PROVE  ~(d \in promoted' /\ from'[d] = card'[r])
  <2>1. doing[r] \in Reviving /\ card'[r] = card[r]
    BY <1>1, <1>3 DEF OnlyMoves, Reviving
  <2>2. QED
    BY <1>3, <2>1 DEF RestInv, Reviving, DealOf
<1>4. QED
  BY <1>2, <1>3, RestAfter DEF DealOf, Resting

\* A promotion leaves its lead to the request that made the deal, and tells of
\* those that are about to show it again.
LEMMA PromotionRests ==
  ASSUME TypeInv, RowsInv, RestInv,
         NEW q \in Requests, NEW d \in Deals, InsertPromotedDeal(q, d)
  PROVE  RestInv'
<1>1. /\ card[q] \in Leads /\ doing[q] = "promote" /\ d \notin Leads
      /\ from' = [from EXCEPT ![d] = card[q]] /\ promoted' = promoted \union {d}
      /\ active' = active \union {d} /\ archived' = archived /\ torn' = torn
      /\ OnlyMoves(q, "retire lead", card[q], NoLane)
  BY GoesFacts, FunnelAssumption DEF InsertPromotedDeal, TypeInv, RequestsFit, OnLeads
<1>2. /\ revived \subseteq revived'
      /\ \A r \in Requests : doing[r] \in Reviving /\ card[r] = card[q] => card[q] \in revived'
  BY DEF InsertPromotedDeal, Reviving
<1>3. \A e \in Deals, l \in Leads :
        (e \in promoted' /\ from'[e] = l) <=> (e = d /\ l = card[q]) \/ (DealOf(e, l) /\ e # d)
  BY <1>1 DEF DealOf, TypeInv, TypeOK
<1>4. ASSUME NEW l \in Leads, NEW e \in Deals, e \in promoted' /\ from'[e] = l, Shown(l)'
      PROVE  l \in torn' \union revived' \/ \E r \in Requests : doing'[r] = "retire lead" /\ card'[r] = l
  <2>1. CASE l = card[q]
    BY <1>1, <2>1 DEF OnlyMoves
  <2>2. CASE l # card[q]
    <3>1. DealOf(e, l) /\ Shown(l)
      <4>1. DealOf(e, l)
        BY <1>3, <1>4, <2>2
      <4>2. l # d /\ active' = active \union {d} /\ archived' = archived
        BY <1>1
      <4>3. Shown(l)
        BY <1>4, <4>2 DEF Shown
      <4>4. QED
        BY <4>1, <4>3
    <3>2. l \in torn \union revived \/ \E r \in Requests : doing[r] = "retire lead" /\ card[r] = l
      BY <3>1 DEF RestInv, PromotedLeadsRest
    <3>3. QED
      BY <1>1, <1>2, <3>2 DEF OnlyMoves
  <2>3. QED
    BY <2>1, <2>2
<1>5. ASSUME NEW r \in Requests, doing'[r] \in Reviving, card'[r] \notin revived', NEW e \in Deals
      PROVE  ~(e \in promoted' /\ from'[e] = card'[r])
  <2>1. r # q /\ doing[r] \in Reviving /\ card'[r] = card[r] /\ card[r] \in Leads
    BY <1>1, <1>5 DEF OnlyMoves, Reviving, TypeInv, RequestsFit, OnLeads
  <2>2. card[r] # card[q] /\ card[r] \notin revived
    BY <1>2, <1>5, <2>1
  <2>3. ~DealOf(e, card[r])
    BY <2>1, <2>2 DEF RestInv, Reviving
  <2>4. QED
    BY <1>3, <2>1, <2>2, <2>3
<1>6. QED
  BY <1>4, <1>5 DEF RestInv, PromotedLeadsRest, Reviving, DealOf

\* Whatever hides the lead that the history forgets as torn keeps RestInv.
LEMMA RestHides ==
  ASSUME TypeInv, RestInv, NEW l \in Leads, ~Shown(l)',
         \A k \in Leads \ {l} : Shown(k)' => Shown(k),
         UNCHANGED <<from, promoted, revived>>, torn' = torn \ {l},
         \A r \in Requests :
           /\ doing[r] = "retire lead" /\ card[r] # l
                => doing'[r] = "retire lead" /\ card'[r] = card[r]
           /\ doing'[r] \in Reviving => doing[r] \in Reviving /\ card'[r] = card[r]
  PROVE  RestInv'
<1>1. ASSUME NEW k \in Leads, NEW d \in Deals, DealOf(d, k)', Shown(k)'
      PROVE  Resting(k)'
  <2>1. k # l /\ DealOf(d, k) /\ Shown(k)
    BY <1>1 DEF DealOf
  <2>2. Resting(k)
    BY <2>1 DEF RestInv, PromotedLeadsRest, Resting
  <2>3. QED
    BY <2>1, <2>2 DEF Resting
<1>2. ASSUME NEW q \in Requests, NEW d \in Deals, doing'[q] \in Reviving, card'[q] \notin revived'
      PROVE  ~(d \in promoted' /\ from'[d] = card'[q])
  BY <1>2 DEF RestInv, Reviving, DealOf
<1>3. QED
  BY <1>1, <1>2, RestAfter

\* Every step keeps promoted leads off their board.
LEMMA NextRest == TypeInv /\ RowsInv /\ RestInv /\ [Next]_vars => RestInv'
<1> SUFFICES ASSUME TypeInv, RowsInv, RestInv, [Next]_vars PROVE RestInv'
  OBVIOUS
<1> USE FunnelAssumption DEF board, cards, requests, history, Ends
<1>1. ASSUME NEW q \in Requests, Begin(q) PROVE RestInv'
  <2> USE DEF Doing, Cards, Begins, Reviving
  <2>0. doing[q] = "nothing"
    BY <1>1 DEF Begin
  <2>1. ASSUME NEW l \in Leads, NEW s \in Lanes,
               \/ BeginInsertLead(q, l, s)
               \/ BeginMoveLead(q, l, s)
               \/ BeginReactivateLead(q, l, s)
        PROVE  RestInv'
    BY <2>0, <2>1, RestBegins DEF BeginInsertLead, BeginMoveLead, BeginReactivateLead, MayReactivate
  <2>2. ASSUME NEW l \in Leads, NEW s \in SalesLanes, BeginPromote(q, l, s) PROVE RestInv'
    BY <2>0, <2>2, RestBegins DEF BeginPromote
  <2>3. ASSUME NEW l \in Leads, BeginKeepLead(q, l) \/ BeginDeleteLead(q, l) PROVE RestInv'
    BY <2>0, <2>3, RestBegins DEF BeginKeepLead, BeginDeleteLead
  <2>4. ASSUME NEW l \in Named, NEW s \in SalesLanes, BeginInsertDeal(q, l, s) PROVE RestInv'
    BY <2>0, <2>4, RestBegins DEF BeginInsertDeal
  <2>5. ASSUME NEW d \in Deals, NEW s \in Lanes,
               BeginMoveDeal(q, d, s) \/ BeginReactivateDeal(q, d, s)
        PROVE  RestInv'
    BY <2>0, <2>5, RestBegins DEF BeginMoveDeal, BeginReactivateDeal
  <2>6. ASSUME NEW d \in Deals, BeginDeleteDeal(q, d) PROVE RestInv'
    BY <2>0, <2>6, RestBegins DEF BeginDeleteDeal
  <2>7. ASSUME NEW s \in Lanes, MarkReady(q, s) \/ BeginDeleteLane(q, s) PROVE RestInv'
    BY <2>0, <2>7, RestBegins DEF MarkReady, BeginDeleteLane
  <2>8. QED
    BY <1>1, <2>1, <2>2, <2>3, <2>4, <2>5, <2>6, <2>7 DEF Begin
<1>2. ASSUME NEW q \in Requests, NEW d \in Deals, InsertPromotedDeal(q, d) PROVE RestInv'
  BY <1>2, PromotionRests
<1>3. ASSUME NEW q \in Requests, InsertLead(q) PROVE RestInv'
  <2>1. doing[q] = "insert lead" /\ card[q] \in Leads
    BY <1>3 DEF InsertLead, TypeInv, RequestsFit, OnLeads
  <2>2. \A d \in Deals : ~DealOf(d, card[q])
    BY <2>1 DEF RowsInv, DealOf
  <2>3. \A l \in Leads \ {card[q]} : Shown(l)' => Shown(l)
    BY <1>3 DEF InsertLead, Shown
  <2>4. QED
    BY <1>3, <2>1, <2>2, <2>3, RestShows DEF InsertLead
<1>4. ASSUME NEW q \in Requests, ReactivateLead(q) PROVE RestInv'
  <2>1. doing[q] \in Reviving /\ card[q] \in Leads /\ doing[q] # "retire lead"
    BY <1>4 DEF ReactivateLead, Reviving, TypeInv, RequestsFit, OnLeads
  <2>2. card[q] \in revived \/ \A d \in Deals : ~DealOf(d, card[q])
    BY <2>1 DEF RestInv, Reviving
  <2>3. \A l \in Leads \ {card[q]} : Shown(l)' => Shown(l)
    BY <1>4 DEF ReactivateLead, Shown
  <2>4. QED
    BY <1>4, <2>1, <2>2, <2>3, RestShows DEF ReactivateLead
<1>5. ASSUME NEW q \in Requests, KeepLead(q) PROVE RestInv'
  <2>1. card[q] \in Leads /\ doing[q] # "retire lead"
    BY <1>5 DEF KeepLead, TypeInv, RequestsFit, OnLeads
  <2>2. CASE doing[q] = "keep lead"
    <3>1. card[q] \in revived \/ \A d \in Deals : ~DealOf(d, card[q])
      BY <2>2 DEF RestInv
    <3>2. \A l \in Leads \ {card[q]} : Shown(l)' => Shown(l)
      BY <1>5 DEF KeepLead, Shown
    <3>3. QED
      BY <1>5, <2>1, <3>1, <3>2, RestShows DEF KeepLead
  <2>3. CASE doing[q] = "hide lead"
    <3>1. \A l \in Leads : Shown(l)' => Shown(l)
      BY <1>5, <2>3 DEF KeepLead, Shown
    <3>2. \A r \in Requests :
            /\ doing[r] = "retire lead" => doing'[r] = "retire lead" /\ card'[r] = card[r]
            /\ doing'[r] \in Reviving => doing[r] \in Reviving /\ card'[r] = card[r]
      BY <1>5, <2>1, GoesFacts DEF KeepLead, OnlyMoves, Reviving
    <3>3. QED
      BY <1>5, <3>1, <3>2, RestKept DEF KeepLead
  <2>4. QED
    BY <1>5, <2>2, <2>3 DEF KeepLead
<1>6. ASSUME NEW q \in Requests, RetireLead(q) PROVE RestInv'
  <2>1. card[q] \in Leads
    BY <1>6 DEF RetireLead, TypeInv, RequestsFit, OnLeads
  <2>2. PICK l \in Leads : l = card[q]
    BY <2>1
  <2>3. OnlyMoves(q, "nothing", NoCard, NoLane)
    BY <1>6, GoesFacts DEF RetireLead
  <2>4. active' = active \ {l} /\ UNCHANGED <<from, promoted, revived>> /\ torn' = torn \ {l}
    BY <1>6, <2>2 DEF RetireLead
  <2>5. \A k \in Leads \ {l} : k \in archived' <=> k \in archived
    BY <1>6, <2>2 DEF RetireLead
  <2>6. ~Shown(l)' /\ \A k \in Leads \ {l} : Shown(k)' => Shown(k)
    BY <2>4, <2>5 DEF Shown
  <2>7. \A r \in Requests :
          /\ doing[r] = "retire lead" /\ card[r] # l
               => doing'[r] = "retire lead" /\ card'[r] = card[r]
          /\ doing'[r] \in Reviving => doing[r] \in Reviving /\ card'[r] = card[r]
    BY <2>2, <2>3 DEF OnlyMoves, Reviving
  <2>8. QED
    BY <2>4, <2>6, <2>7, RestHides
<1>7. ASSUME NEW l \in Leads, ArchiveLead(l) PROVE RestInv'
  <2>1. ~Shown(l)' /\ \A k \in Leads \ {l} : Shown(k)' => Shown(k)
    BY <1>7 DEF ArchiveLead, Shown
  <2>2. QED
    BY <1>7, <2>1, RestHides DEF ArchiveLead
<1>8. ASSUME NEW q \in Requests, LoseRequest(q) PROVE RestInv'
  <2>1. OnlyMoves(q, "nothing", NoCard, NoLane) /\ UNCHANGED <<from, promoted, revived, active, archived>>
    BY <1>8, GoesFacts DEF LoseRequest
  <2>2. torn \subseteq torn' /\ (doing[q] = "retire lead" => card[q] \in torn')
    BY <1>8 DEF LoseRequest
  <2>3. ASSUME NEW k \in Leads, NEW d \in Deals, DealOf(d, k)', Shown(k)'
        PROVE  Resting(k)'
    <3>1. DealOf(d, k) /\ Shown(k)
      BY <2>1, <2>3 DEF DealOf, Shown
    <3>2. Resting(k)
      BY <3>1 DEF RestInv, PromotedLeadsRest, Resting
    <3>3. QED
      BY <2>1, <2>2, <3>2 DEF Resting, OnlyMoves
  <2>4. ASSUME NEW r \in Requests, NEW d \in Deals, doing'[r] \in Reviving, card'[r] \notin revived'
        PROVE  ~(d \in promoted' /\ from'[d] = card'[r])
    <3>1. doing[r] \in Reviving /\ card'[r] = card[r]
      BY <2>1, <2>4 DEF OnlyMoves, Reviving
    <3>2. QED
      BY <2>1, <2>4, <3>1 DEF RestInv, Reviving, DealOf
  <2>5. QED
    BY <2>3, <2>4, RestAfter
<1>9. ASSUME NEW q \in Requests, DeleteLead(q) \/ DeleteDeal(q) \/ \E d \in Deals : InsertDeal(q, d)
      PROVE  RestInv'
  <2>1. OnlyMoves(q, "nothing", NoCard, NoLane) /\ doing[q] # "retire lead"
    BY <1>9, GoesFacts DEF DeleteLead, DeleteDeal, InsertDeal
  <2>2. \A l \in Leads : Shown(l)' => Shown(l)
    BY <1>9 DEF DeleteLead, DeleteDeal, InsertDeal, Shown
  <2>3. \A e \in Deals, l \in Leads :
          e \in promoted' /\ from'[e] = l =>
            DealOf(e, l) /\ (l \in torn => l \in torn') /\ (l \in revived => l \in revived')
    <3>1. CASE DeleteLead(q)
      BY <3>1 DEF DeleteLead, DealOf, TypeInv, TypeOK
    <3>2. CASE DeleteDeal(q)
      BY <3>2 DEF DeleteDeal, DealOf, TypeInv, TypeOK
    <3>3. ASSUME NEW d \in Deals, InsertDeal(q, d)
          PROVE  \A e \in promoted' :
                   e \in promoted /\ from'[e] = from[e] /\ torn' = torn /\ revived' = revived
      <4>1. d \notin promoted /\ promoted \subseteq Deals /\ from \in [Deals -> Leads \union {NoCard}]
        BY <3>3 DEF InsertDeal, Fresh, RowsInv, TypeInv, TypeOK
      <4>2. QED
        BY <3>3, <4>1 DEF InsertDeal
    <3>4. QED
      BY <1>9, <3>1, <3>2, <3>3 DEF DealOf
  <2>4. ASSUME NEW k \in Leads, NEW d \in Deals, DealOf(d, k)', Shown(k)'
        PROVE  Resting(k)'
    <3>1. DealOf(d, k) /\ Shown(k) /\ (k \in torn => k \in torn') /\ (k \in revived => k \in revived')
      BY <2>2, <2>3, <2>4 DEF DealOf
    <3>2. Resting(k)
      BY <3>1 DEF RestInv, PromotedLeadsRest, Resting
    <3>3. QED
      BY <2>1, <3>1, <3>2 DEF Resting, OnlyMoves
  <2>5. \A r \in Requests : doing'[r] \in Reviving => doing[r] \in Reviving /\ card'[r] = card[r] /\ card[r] \in Leads
    BY <2>1 DEF OnlyMoves, Reviving, TypeInv, RequestsFit, OnLeads
  <2>6. ASSUME NEW r \in Requests, doing'[r] \in Reviving, card'[r] \notin revived', NEW d \in Deals
        PROVE  ~(d \in promoted' /\ from'[d] = card'[r])
    BY <2>3, <2>5, <2>6 DEF RestInv, Reviving
  <2>7. QED
    BY <2>4, <2>6, RestAfter
<1>10. ASSUME NEW q \in Requests,
              \/ MoveLead(q) \/ LeaveAsMoved(q) \/ InsertRefused(q) \/ MoveDeal(q)
              \/ ReactivateDeal(q) \/ ClearReady(q) \/ DeleteLane(q)
              \/ \E s \in SalesLanes : AutoPromote(q, s)
       PROVE  RestInv'
  <2>1. /\ UNCHANGED <<from, promoted, torn, revived>> /\ doing[q] # "retire lead"
        /\ \E what \in Doing \ Reviving, c \in {card[q], NoCard}, s \in {target[q], NoLane} \union Lanes :
             OnlyMoves(q, what, c, s)
    BY <1>10, GoesFacts
    DEF MoveLead, LeaveAsMoved, InsertRefused, MoveDeal, ReactivateDeal, ClearReady,
       DeleteLane, AutoPromote, Doing, Reviving, Lanes
  <2>2. \A l \in Leads : Shown(l)' => Shown(l)
    <3>1. doing[q] \in OnDeals => card[q] \notin Leads
      BY DEF TypeInv, RequestsFit
    <3>2. QED
      BY <1>10, <3>1
      DEF MoveLead, LeaveAsMoved, InsertRefused, MoveDeal, ReactivateDeal, ClearReady,
         DeleteLane, AutoPromote, OnDeals, Shown
  <2>3. \A r \in Requests :
          /\ doing[r] = "retire lead" => doing'[r] = "retire lead" /\ card'[r] = card[r]
          /\ doing'[r] \in Reviving => doing[r] \in Reviving /\ card'[r] = card[r]
    BY <2>1 DEF OnlyMoves
  <2>4. QED
    BY <2>1, <2>2, <2>3, RestKept
<1>11. ASSUME \/ \E d \in Deals : ArchiveDeal(d)
              \/ \E s \in Lanes : AddLane(s) \/ UnmarkReady(s)
              \/ UNCHANGED vars
       PROVE  RestInv'
  <2>1. UNCHANGED <<from, promoted, torn, revived, doing, card>> /\ \A l \in Leads : Shown(l)' => Shown(l)
    BY <1>11 DEF ArchiveDeal, AddLane, UnmarkReady, vars, Shown
  <2>2. QED
    BY <2>1, RestKept
<1>12. QED
  BY <1>1, <1>2, <1>3, <1>4, <1>5, <1>6, <1>7, <1>8, <1>9, <1>10, <1>11 DEF Next, GoOn

-----------------------------------------------------------------------------
(* Lanes *)

\* Where lanes stay and no deletion begins, LanesInv is kept if cards that are
\* shown are where they were or on a lane that is there or counted as stranded.
LEMMA LanesKept ==
  ASSUME LanesInv, lanes' = lanes, stranded \subseteq stranded',
         \A c \in Cards : lane'[c] # NoLane /\ Shown(c)' =>
           \/ lane'[c] = lane[c] /\ Shown(c)
           \/ /\ lane'[c] \in lanes \union stranded'
              /\ \A r \in Requests :
                   doing[r] = "delete lane" /\ target[r] = lane'[c] => lane'[c] \in stranded',
         \A r \in Requests :
           /\ doing'[r] \in Placing => target'[r] \in lanes \union stranded'
           /\ doing'[r] = "delete lane" =>
                doing[r] = "delete lane" /\ target'[r] = target[r] /\ target[r] # NoLane
  PROVE  LanesInv'
<1>1. ASSUME NEW c \in Cards, lane'[c] # NoLane, Shown(c)' PROVE lane'[c] \in lanes' \union stranded'
  <2>1. CASE lane'[c] = lane[c] /\ Shown(c)
    BY <1>1, <2>1 DEF LanesInv, CardsOnBoard, Present
  <2>2. CASE lane'[c] \in lanes \union stranded'
    BY <2>2
  <2>3. QED
    BY <1>1, <2>1, <2>2
<1>2. ASSUME NEW r \in Requests, NEW c \in Cards,
             doing'[r] = "delete lane", lane'[c] = target'[r], Shown(c)'
      PROVE  target'[r] \in stranded'
  <2>1. doing[r] = "delete lane" /\ target'[r] = target[r] /\ lane'[c] # NoLane
    BY <1>2
  <2>2. CASE lane'[c] = lane[c] /\ Shown(c)
    BY <1>2, <2>1, <2>2 DEF LanesInv
  <2>3. CASE ~(lane'[c] = lane[c] /\ Shown(c))
    BY <1>2, <2>1, <2>3
  <2>4. QED
    BY <2>2, <2>3
<1>3. QED
  BY <1>1, <1>2 DEF LanesInv, CardsOnBoard, Present

\* The deletion of a lane has a lane.
LEMMA DeletesALane ==
  ASSUME TypeInv, NEW r \in Requests, doing[r] = "delete lane"
  PROVE  target[r] \in Lanes /\ target[r] # NoLane
  BY FunnelAssumption DEF TypeInv, RequestsFit

\* A request begins with a lane that is there.
LEMMA LanesBegins ==
  ASSUME TypeInv, LanesInv, NEW q \in Requests, NEW what \in Doing \ {"delete lane"}, NEW c, NEW s,
         what \in Placing => s \in lanes,
         Goes(q, what, c, s), UNCHANGED <<lanes, stranded, cards>>
  PROVE  LanesInv'
<1>1. OnlyMoves(q, what, c, s)
  BY GoesFacts
<1>2. ASSUME NEW r \in Requests
      PROVE  /\ doing'[r] \in Placing => target'[r] \in lanes \union stranded'
             /\ doing'[r] = "delete lane" =>
                  doing[r] = "delete lane" /\ target'[r] = target[r] /\ target[r] # NoLane
  BY <1>1, DeletesALane DEF OnlyMoves, LanesInv
<1>3. \A e \in Cards : lane'[e] = lane[e] /\ (Shown(e)' => Shown(e))
  BY DEF cards, Shown
<1>4. QED
  BY <1>2, <1>3, LanesKept

\* A card is written onto a lane that is there or counted as stranded, and
\* counts it as stranded if the lane is being deleted.
LEMMA Placed ==
  ASSUME TypeInv, LanesInv, NEW q \in Requests, doing[q] \in Placing,
         lanes' = lanes, Strands(target[q]),
         \A c \in Cards : lane'[c] # NoLane /\ Shown(c)' =>
           (lane'[c] = lane[c] /\ Shown(c)) \/ lane'[c] = target[q],
         NEW what \in {"nothing", "look at lead", "retire lead"}, NEW x, NEW y,
         OnlyMoves(q, what, x, y)
  PROVE  LanesInv'
<1>1. stranded \subseteq stranded' /\ target[q] \in lanes \union stranded
  BY DEF Strands, LanesInv
<1>2. \A r \in Requests : doing[r] = "delete lane" /\ target[r] = target[q] => target[q] \in stranded'
  BY DEF Strands, BeingDeleted
<1>3. ASSUME NEW r \in Requests
      PROVE  /\ doing'[r] \in Placing => target'[r] \in lanes \union stranded'
             /\ doing'[r] = "delete lane" =>
                  doing[r] = "delete lane" /\ target'[r] = target[r] /\ target[r] # NoLane
  <2>1. CASE r = q
    BY <2>1 DEF OnlyMoves, Placing
  <2>2. CASE r # q
    BY <1>1, <2>2, DeletesALane DEF OnlyMoves, LanesInv
  <2>3. QED
    BY <2>1, <2>2
<1>4. ASSUME NEW c \in Cards, lane'[c] # NoLane, Shown(c)'
      PROVE  \/ lane'[c] = lane[c] /\ Shown(c)
             \/ /\ lane'[c] \in lanes \union stranded'
                /\ \A r \in Requests :
                     doing[r] = "delete lane" /\ target[r] = lane'[c] => lane'[c] \in stranded'
  BY <1>1, <1>2, <1>4
<1>5. QED
  BY <1>1, <1>3, <1>4, LanesKept

\* Only the card of the request is elsewhere after an UPDATE or an INSERT.
LEMMA PutFacts ==
  ASSUME TypeInv, NEW c \in Cards, NEW s \in Lanes,
         Put(c, s) \/ lane' = [lane EXCEPT ![c] = s]
  PROVE  /\ \A e \in Cards \ {c} : lane'[e] = lane[e]
         /\ lane'[c] # NoLane => lane'[c] = s
  BY DEF Put, Present, TypeInv, TypeOK

\* No lane goes under a card that stays.
LEMMA LaneDeleted ==
  ASSUME TypeInv, LanesInv, NEW q \in Requests, DeleteLane(q)
  PROVE  LanesInv'
<1>1. /\ OnlyMoves(q, "nothing", NoCard, NoLane) /\ doing[q] = "delete lane"
      /\ lanes' = lanes \ {target[q]} /\ UNCHANGED <<lane, active, archived>>
  BY GoesFacts DEF DeleteLane, Ends, cards
<1>2. /\ stranded \subseteq stranded'
      /\ \A r \in Requests : doing[r] \in Placing /\ target[r] = target[q] => target[q] \in stranded'
  BY DEF DeleteLane
<1>3. ASSUME NEW c \in Cards, Present(c), Shown(c) PROVE lane[c] \in lanes' \union stranded'
  <2>1. lane[c] \in lanes \union stranded
    BY <1>3 DEF LanesInv, CardsOnBoard
  <2>2. lane[c] = target[q] => target[q] \in stranded
    BY <1>1, <1>3 DEF LanesInv
  <2>3. QED
    BY <1>1, <1>2, <2>1, <2>2
<1>4. ASSUME NEW r \in Requests, doing'[r] \in Placing PROVE target'[r] \in lanes' \union stranded'
  <2>1. r # q /\ doing[r] \in Placing /\ target'[r] = target[r]
    BY <1>1, <1>4 DEF OnlyMoves, Placing
  <2>2. target[r] \in lanes \union stranded
    BY <2>1 DEF LanesInv
  <2>3. QED
    BY <1>1, <1>2, <2>1, <2>2
<1>5. ASSUME NEW r \in Requests, NEW c \in Cards,
             doing'[r] = "delete lane", lane[c] = target'[r], Shown(c)
      PROVE  target'[r] \in stranded'
  BY <1>1, <1>2, <1>5 DEF OnlyMoves, LanesInv
<1>6. QED
  BY <1>1, <1>3, <1>4, <1>5 DEF LanesInv, CardsOnBoard, Present, Shown

\* A lane is counted as empty before its deletion begins.
LEMMA LaneDeletionBegins ==
  ASSUME TypeInv, LanesInv, NEW q \in Requests, NEW s \in Lanes, BeginDeleteLane(q, s)
  PROVE  LanesInv'
<1>1. /\ OnlyMoves(q, "delete lane", NoCard, s)
      /\ UNCHANGED <<lanes, stranded, lane, active, archived>> /\ ~InUse(s)
  BY GoesFacts DEF BeginDeleteLane, Begins, MayDelete, board, cards
<1>2. ASSUME NEW r \in Requests, doing'[r] \in Placing PROVE target'[r] \in lanes \union stranded
  BY <1>1, <1>2 DEF OnlyMoves, Placing, LanesInv
<1>3. ASSUME NEW r \in Requests, NEW c \in Cards,
             doing'[r] = "delete lane", lane[c] = target'[r], Shown(c)
      PROVE  target'[r] \in stranded
  BY <1>1, <1>3 DEF OnlyMoves, LanesInv, InUse
<1>4. QED
  BY <1>1, <1>2, <1>3 DEF LanesInv, CardsOnBoard, Present, Shown

\* Every step keeps the cards that are shown on lanes that are there.
LEMMA NextLanes == TypeInv /\ LanesInv /\ [Next]_vars => LanesInv'
<1> SUFFICES ASSUME TypeInv, LanesInv, [Next]_vars PROVE LanesInv'
  OBVIOUS
<1> USE FunnelAssumption DEF board, cards, requests, history, Ends
<1>1. ASSUME NEW q \in Requests, Begin(q) PROVE LanesInv'
  <2> USE DEF Doing, Placing, Begins
  <2>1. ASSUME NEW l \in Leads, NEW s \in Lanes,
               \/ BeginInsertLead(q, l, s)
               \/ BeginMoveLead(q, l, s)
               \/ BeginReactivateLead(q, l, s)
        PROVE  LanesInv'
    BY <2>1, LanesBegins DEF BeginInsertLead, BeginMoveLead, BeginReactivateLead, LanesOf
  <2>2. ASSUME NEW l \in Leads, NEW s \in SalesLanes, BeginPromote(q, l, s) PROVE LanesInv'
    BY <2>2, LanesBegins DEF BeginPromote
  <2>3. ASSUME NEW l \in Leads, BeginKeepLead(q, l) \/ BeginDeleteLead(q, l) PROVE LanesInv'
    BY <2>3, LanesBegins DEF BeginKeepLead, BeginDeleteLead
  <2>4. ASSUME NEW l \in Named, NEW s \in SalesLanes, BeginInsertDeal(q, l, s) PROVE LanesInv'
    BY <2>4, LanesBegins DEF BeginInsertDeal
  <2>5. ASSUME NEW d \in Deals, NEW s \in Lanes,
               BeginMoveDeal(q, d, s) \/ BeginReactivateDeal(q, d, s)
        PROVE  LanesInv'
    BY <2>5, LanesBegins DEF BeginMoveDeal, BeginReactivateDeal, LanesOf
  <2>6. ASSUME NEW d \in Deals, BeginDeleteDeal(q, d) PROVE LanesInv'
    BY <2>6, LanesBegins DEF BeginDeleteDeal
  <2>7. ASSUME NEW s \in Lanes, MarkReady(q, s) PROVE LanesInv'
    BY <2>7, LanesBegins DEF MarkReady
  <2>8. ASSUME NEW s \in Lanes, BeginDeleteLane(q, s) PROVE LanesInv'
    BY <2>8, LaneDeletionBegins
  <2>9. QED
    BY <1>1, <2>1, <2>2, <2>3, <2>4, <2>5, <2>6, <2>7, <2>8 DEF Begin
<1>2. ASSUME NEW q \in Requests, NEW s \in SalesLanes, AutoPromote(q, s) PROVE LanesInv'
  BY <1>2, LanesBegins DEF AutoPromote, Doing
<1>3. ASSUME NEW q \in Requests,
             \/ InsertLead(q) \/ MoveLead(q) \/ ReactivateLead(q) \/ MoveDeal(q) \/ ReactivateDeal(q)
      PROVE  LanesInv'
  <2>1. /\ doing[q] \in Placing /\ lanes' = lanes /\ Strands(target[q])
        /\ Put(card[q], target[q]) \/ lane' = [lane EXCEPT ![card[q]] = target[q]]
        /\ active' \subseteq active \union {card[q]} /\ archived \subseteq archived' \union {card[q]}
    BY <1>3 DEF InsertLead, MoveLead, ReactivateLead, MoveDeal, ReactivateDeal, Placing
  <2>2. card[q] \in Cards /\ target[q] \in Lanes
    BY <1>3
    DEF InsertLead, MoveLead, ReactivateLead, MoveDeal, ReactivateDeal, TypeInv, RequestsFit,
       OnLeads, OnDeals, Cards, Lanes
  <2>3. /\ \A c \in Cards \ {card[q]} : lane'[c] = lane[c]
        /\ lane'[card[q]] # NoLane => lane'[card[q]] = target[q]
    BY <2>1, <2>2, PutFacts
  <2>4. \A c \in Cards \ {card[q]} : Shown(c)' => Shown(c)
    BY <2>1 DEF Shown
  <2>5. \/ OnlyMoves(q, "look at lead", card[q], target[q])
        \/ OnlyMoves(q, "nothing", NoCard, NoLane)
    BY <1>3, GoesFacts DEF InsertLead, MoveLead, ReactivateLead, MoveDeal, ReactivateDeal
  <2>6. QED
    BY <2>1, <2>3, <2>4, <2>5, Placed
<1>4. ASSUME NEW q \in Requests, NEW d \in Deals, InsertPromotedDeal(q, d) \/ InsertDeal(q, d)
      PROVE  LanesInv'
  <2>1. /\ doing[q] \in Placing /\ lanes' = lanes /\ Strands(target[q])
        /\ lane' = [lane EXCEPT ![d] = target[q]]
        /\ active' = active \union {d} /\ archived' = archived
    BY <1>4 DEF InsertPromotedDeal, InsertDeal, Placing
  <2>2. d \in Cards /\ target[q] \in Lanes
    BY <1>4 DEF InsertPromotedDeal, InsertDeal, TypeInv, RequestsFit, Cards, Lanes
  <2>3. /\ \A c \in Cards \ {d} : lane'[c] = lane[c]
        /\ lane'[d] # NoLane => lane'[d] = target[q]
    BY <2>1, <2>2, PutFacts
  <2>4. \A c \in Cards \ {d} : Shown(c)' => Shown(c)
    BY <2>1 DEF Shown
  <2>5. \/ OnlyMoves(q, "retire lead", card[q], NoLane)
        \/ OnlyMoves(q, "nothing", NoCard, NoLane)
    BY <1>4, GoesFacts DEF InsertPromotedDeal, InsertDeal
  <2>6. QED
    BY <2>1, <2>3, <2>4, <2>5, Placed
<1>5. ASSUME NEW q \in Requests, KeepLead(q) PROVE LanesInv'
  <2>1. /\ OnlyMoves(q, "nothing", NoCard, NoLane) /\ UNCHANGED <<lanes, lane>>
        /\ active' \subseteq active \union {card[q]} /\ archived' = archived \ {card[q]}
        /\ StrandsHidden(card[q])
    BY <1>5, GoesFacts DEF KeepLead
  <2>2. stranded \subseteq stranded'
    BY <2>1 DEF StrandsHidden
  <2>3. \A c \in Cards \ {card[q]} : Shown(c)' => Shown(c)
    BY <2>1 DEF Shown
  <2>4. Present(card[q]) /\ ~Shown(card[q]) =>
          /\ lane[card[q]] \in lanes \union stranded'
          /\ \A r \in Requests :
               doing[r] = "delete lane" /\ target[r] = lane[card[q]] => lane[card[q]] \in stranded'
    BY <2>1 DEF StrandsHidden, BeingDeleted
  <2>5. ASSUME NEW r \in Requests
        PROVE  /\ doing'[r] \in Placing => target'[r] \in lanes \union stranded'
               /\ doing'[r] = "delete lane" =>
                    doing[r] = "delete lane" /\ target'[r] = target[r] /\ target[r] # NoLane
    BY <2>1, <2>2, DeletesALane DEF OnlyMoves, LanesInv, Placing
  <2>6. ASSUME NEW c \in Cards, lane'[c] # NoLane, Shown(c)'
        PROVE  \/ lane'[c] = lane[c] /\ Shown(c)
               \/ /\ lane'[c] \in lanes \union stranded'
                  /\ \A r \in Requests :
                       doing[r] = "delete lane" /\ target[r] = lane'[c] => lane'[c] \in stranded'
    BY <2>1, <2>3, <2>4, <2>6 DEF Present
  <2>7. QED
    BY <2>1, <2>2, <2>5, <2>6, LanesKept
<1>6. ASSUME NEW q \in Requests,
             \/ LeaveAsMoved(q) \/ InsertRefused(q) \/ RetireLead(q) \/ DeleteLead(q)
             \/ DeleteDeal(q) \/ ClearReady(q) \/ LoseRequest(q)
      PROVE  LanesInv'
  <2>1. OnlyMoves(q, "nothing", NoCard, NoLane) /\ UNCHANGED <<lanes, stranded>>
    BY <1>6, GoesFacts
    DEF LeaveAsMoved, InsertRefused, RetireLead, DeleteLead, DeleteDeal, ClearReady,
       LoseRequest
  <2>2. ASSUME NEW r \in Requests
        PROVE  /\ doing'[r] \in Placing => target'[r] \in lanes \union stranded'
               /\ doing'[r] = "delete lane" =>
                    doing[r] = "delete lane" /\ target'[r] = target[r] /\ target[r] # NoLane
    BY <2>1, DeletesALane DEF OnlyMoves, LanesInv, Placing
  <2>3. \A c \in Cards : lane'[c] # NoLane /\ Shown(c)' => lane'[c] = lane[c] /\ Shown(c)
    <3>1. CASE LeaveAsMoved(q) \/ InsertRefused(q) \/ ClearReady(q) \/ LoseRequest(q)
      BY <3>1 DEF LeaveAsMoved, InsertRefused, ClearReady, LoseRequest, Shown
    <3>2. CASE RetireLead(q)
      BY <3>2 DEF RetireLead, Shown
    <3>3. CASE DeleteLead(q) \/ DeleteDeal(q)
      <4>1. /\ lane' = [lane EXCEPT ![card[q]] = NoLane]
            /\ active' = active \ {card[q]} /\ archived' = archived \ {card[q]}
        BY <3>3 DEF DeleteLead, DeleteDeal
      <4>2. lane \in [Cards -> Lanes \union {NoLane}]
        BY DEF TypeInv, TypeOK
      <4>3. QED
        BY <4>1, <4>2 DEF Shown
    <3>4. QED
      BY <1>6, <3>1, <3>2, <3>3
  <2>4. QED
    BY <2>1, <2>2, <2>3, LanesKept
<1>7. ASSUME NEW q \in Requests, DeleteLane(q) PROVE LanesInv'
  BY <1>7, LaneDeleted
<1>8. ASSUME NEW s \in Lanes, AddLane(s) PROVE LanesInv'
  <2>1. /\ lanes' = lanes \union {s} /\ stranded' = stranded \ {s}
        /\ UNCHANGED <<lane, active, archived, doing, target>>
        /\ \A r \in Requests : target[r] # s
    BY <1>8 DEF AddLane
  <2>2. QED
    BY <2>1 DEF LanesInv, CardsOnBoard, Present, Shown
<1>9. ASSUME \/ \E l \in Leads : ArchiveLead(l)
             \/ \E d \in Deals : ArchiveDeal(d)
             \/ \E s \in Lanes : UnmarkReady(s)
             \/ UNCHANGED vars
      PROVE  LanesInv'
  <2>1. /\ UNCHANGED <<lanes, lane, stranded, doing, target>>
        /\ \A c \in Cards : Shown(c)' => Shown(c)
    BY <1>9 DEF ArchiveLead, ArchiveDeal, UnmarkReady, vars, Shown
  <2>2. QED
    BY <2>1, LanesKept, DeletesALane DEF LanesInv
<1>10. QED
  BY <1>1, <1>2, <1>3, <1>4, <1>5, <1>6, <1>7, <1>8, <1>9 DEF Next, GoOn

-----------------------------------------------------------------------------
(* Theorems *)

IInv == TypeInv /\ RowsInv /\ DealsInv /\ RestInv /\ LanesInv

\* What the requests have read fits the rows they are about to write, however
\* they interleave and wherever they end.
THEOREM Inductive == Spec => []IInv
<1>1. Init => IInv
  <2>1. Init => TypeInv
    BY InitType
  <2>2. Init => RowsInv /\ DealsInv /\ RestInv /\ LanesInv
    BY DEF Init, RowsInv, DealsInv, OneDealPerLead, DealOf, RestInv, PromotedLeadsRest, LanesInv,
       CardsOnBoard, Shown, Placing, Cards
  <2>3. QED
    BY <2>1, <2>2 DEF IInv
<1>2. IInv /\ [Next]_vars => IInv'
  BY NextType, NextRows, NextDeals, NextRest, NextLanes DEF IInv
<1>3. QED
  BY <1>1, <1>2, PTL DEF Spec

\* A lead has two promoted deals only if two requests were past the check at
\* once.
THEOREM OneDeal == Spec => []OneDealPerLead
<1>1. IInv => OneDealPerLead
  BY DEF IInv, DealsInv
<1>2. QED
  BY <1>1, Inductive, PTL

\* A promoted lead stays off its board.
THEOREM LeadsRest == Spec => []PromotedLeadsRest
<1>1. IInv => PromotedLeadsRest
  BY DEF IInv, RestInv
<1>2. QED
  BY <1>1, Inductive, PTL

\* A card that is shown is on a lane that is there.
THEOREM CardsStayOnBoard == Spec => []CardsOnBoard
<1>1. IInv => CardsOnBoard
  BY DEF IInv, LanesInv
<1>2. QED
  BY <1>1, Inductive, PTL
=============================================================================
