---------------------------- MODULE JobDelivery ----------------------------
(***************************************************************************)
(* What the job queue promises those who put work on it: a job is tried    *)
(* until it is settled, at most MaxAttempts times plus once for every      *)
(* lease that was taken from a run; it is forgotten only when settled; and *)
(* it comes back after it was settled only if a lease of it was taken or   *)
(* the reply to its completion was lost.  It is an at-least-once service:  *)
(* nothing here says that a settled job was tried only once.               *)
(***************************************************************************)
EXTENDS Integers

CONSTANTS Jobs, MaxAttempts

VARIABLES
  phase,    \* "new", "pending", "settled" or "forgotten"
  tries,    \* attempts made
  taken,    \* leases taken from slow or dead runs
  doubtful  \* jobs whose completion was not acknowledged

dvars == <<phase, tries, taken, doubtful>>

DInit ==
  /\ phase    = [j \in Jobs |-> "new"]
  /\ tries    = [j \in Jobs |-> 0]
  /\ taken    = [j \in Jobs |-> 0]
  /\ doubtful = {}

Submit(j) ==
  /\ phase[j] = "new"
  /\ phase' = [phase EXCEPT ![j] = "pending"]
  /\ UNCHANGED <<tries, taken, doubtful>>

Try(j) ==
  /\ phase[j] = "pending"
  /\ tries[j] < MaxAttempts + taken[j]
  /\ tries' = [tries EXCEPT ![j] = @ + 1]
  /\ UNCHANGED <<phase, taken, doubtful>>

\* The outcome of a try; ack says whether the run learnt of it.
Settle(j, ack) ==
  /\ phase[j] \in {"pending", "settled"}
  /\ tries[j] > 0
  /\ phase'    = [phase EXCEPT ![j] = "settled"]
  /\ doubtful' = IF ack THEN doubtful ELSE doubtful \union {j}
  /\ UNCHANGED <<tries, taken>>

\* An outcome that could not be recorded any more: the job is forgotten.
Unacknowledged(j) ==
  /\ phase[j] = "forgotten"
  /\ doubtful' = doubtful \union {j}
  /\ UNCHANGED <<phase, tries, taken>>

Reopen(j) ==
  /\ phase[j] = "settled"
  /\ taken[j] > 0 \/ j \in doubtful
  /\ phase' = [phase EXCEPT ![j] = "pending"]
  /\ UNCHANGED <<tries, taken, doubtful>>

TakeLeases(S) ==
  /\ \A j \in S : phase[j] = "pending" /\ tries[j] > 0
  /\ taken' = [j \in Jobs |-> IF j \in S THEN taken[j] + 1 ELSE taken[j]]
  /\ UNCHANGED <<phase, tries, doubtful>>

Forget(S) ==
  /\ \A j \in S : phase[j] = "settled"
  /\ phase' = [j \in Jobs |-> IF j \in S THEN "forgotten" ELSE phase[j]]
  /\ UNCHANGED <<tries, taken, doubtful>>

DNext ==
  \/ \E j \in Jobs : Submit(j)
  \/ \E j \in Jobs : Try(j)
  \/ \E j \in Jobs, ack \in BOOLEAN : Settle(j, ack)
  \/ \E j \in Jobs : Unacknowledged(j)
  \/ \E j \in Jobs : Reopen(j)
  \/ \E S \in SUBSET Jobs : TakeLeases(S)
  \/ \E S \in SUBSET Jobs : Forget(S)

DSpec == DInit /\ [][DNext]_dvars
=============================================================================
