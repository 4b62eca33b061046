--------------------------- MODULE DocumentStatus ---------------------------
(***************************************************************************)
(* What the repositories of packages/db promise of a document's status,    *)
(* whatever overlaps: a writer looks at the status, plans a transition     *)
(* that is legal from what it saw, and later writes it, by id, over        *)
(* whatever the status is by then.  So a status that is written was legal  *)
(* from one the document had since its writer looked, and no more than     *)
(* that; only documents that no two writers handle at once follow the      *)
(* table of legal transitions.                                             *)
(***************************************************************************)

CONSTANTS
  Documents,  \* document ids
  Writers,    \* requests and job runs
  Status,     \* statuses of a document
  Legal,      \* Legal[s]: the statuses that may follow s
  Initial,    \* the statuses a document is created with
  Absent,     \* the status of an id that is not in use
  NoPlan      \* a writer that has nothing to write

VARIABLES
  status,     \* status[d]
  plan        \* plan[w]: the document and the status to write to it

vars == <<status, plan>>

Plans == Documents \X Status

TypeOK ==
  /\ status \in [Documents -> Status \union {Absent}]
  /\ plan   \in [Writers -> Plans \union {NoPlan}]

Init ==
  /\ status \in [Documents -> Initial \union {Absent}]
  /\ plan   = [w \in Writers |-> NoPlan]

\* A document comes into being.
Create(d) ==
  /\ status[d] = Absent
  /\ \E s \in Initial : status' = [status EXCEPT ![d] = s]
  /\ UNCHANGED plan

\* A writer looks, and makes up its mind.
Plan(w, d, s) ==
  /\ plan[w] = NoPlan
  /\ status[d] \in Status
  /\ s \in Legal[status[d]]
  /\ plan' = [plan EXCEPT ![w] = <<d, s>>]
  /\ UNCHANGED status

\* It writes what it planned, without looking again.
Write(w) ==
  /\ plan[w] # NoPlan
  /\ status' = [status EXCEPT ![plan[w][1]] = plan[w][2]]
  /\ plan'   = [plan EXCEPT ![w] = NoPlan]

\* It ends before it has written.
Drop(w) ==
  /\ plan[w] # NoPlan
  /\ plan' = [plan EXCEPT ![w] = NoPlan]
  /\ UNCHANGED status

Next ==
  \/ \E d \in Documents : Create(d)
  \/ \E w \in Writers : Write(w) \/ Drop(w)
  \/ \E w \in Writers, d \in Documents, s \in Status : Plan(w, d, s)

Spec == Init /\ [][Next]_vars
=============================================================================
