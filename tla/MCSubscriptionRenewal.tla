----------------------- MODULE MCSubscriptionRenewal -----------------------
(* Small instances of SubscriptionRenewal for TLC. *)
EXTENDS SubscriptionRenewal, TLC

\* Every row bills the same subject.
MCSubjectOf == [s \in Subs |-> CHOOSE u \in Subjects : TRUE]

\* Every row bills a subject of its own.
MCOwnSubject == [s \in Subs |-> s]

\* One plan without a trial, the others with a trial of two periods.
MCTrialOf == LET plain == CHOOSE p \in Plans : TRUE
             IN  [p \in Plans |-> IF p = plain THEN 0 ELSE 2]

\* A trial of one period for every plan.
MCShortTrial == [p \in Plans |-> 1]

\* Runs are interchangeable, and so are requests.
RunRequestSymmetry == Permutations(Runs) \union Permutations(Requests)
=============================================================================
