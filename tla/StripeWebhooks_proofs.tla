------------------------ MODULE StripeWebhooks_proofs ------------------------
(***************************************************************************)
(* Proofs about StripeWebhooks for every set of events, subscriptions and  *)
(* requests and every number of faults.                                    *)
(***************************************************************************)
EXTENDS StripeWebhooks, FiniteSetTheorems, TLAPS

-----------------------------------------------------------------------------
(* Type correctness *)

\* The start of the service has the declared types.
LEMMA InitType == Init => TypeOK
  BY StripeAssumption DEF Init, TypeOK, Phase, Events

\* Every step keeps the declared types.
LEMMA NextType == TypeOK /\ [Next]_vars => TypeOK'
<1> SUFFICES ASSUME TypeOK, [Next]_vars PROVE TypeOK'
  OBVIOUS
<1> USE StripeAssumption DEF TypeOK, Phase, Events, database, requests, stripe, history
<1>1. ASSUME NEW e \in Events, Send(e) PROVE TypeOK'
  BY <1>1 DEF Send
<1>2. ASSUME NEW r \in Runs, NEW e \in Events, Claim(r, e) PROVE TypeOK'
  BY <1>2 DEF Claim, MayClaim, FirstStep
<1>3. ASSUME NEW e \in Events, AnswerDuplicate(e) PROVE TypeOK'
  BY <1>3 DEF AnswerDuplicate
<1>4. ASSUME NEW e \in Events, ClaimReplyLost(e) PROVE TypeOK'
  BY <1>4 DEF ClaimReplyLost
<1>5. ASSUME NEW r \in Runs, NEW ok \in BOOLEAN, SetStripeDefault(r, ok) PROVE TypeOK'
  BY <1>5 DEF SetStripeDefault, Proceed
<1>6. ASSUME NEW r \in Runs, NEW ok \in BOOLEAN, SaveCard(r, ok) PROVE TypeOK'
  BY <1>6 DEF SaveCard, Proceed
<1>7. ASSUME NEW r \in Runs, NEW ok \in BOOLEAN, MarkPaid(r, ok) PROVE TypeOK'
  BY <1>7 DEF MarkPaid, Proceed
<1>8. ASSUME NEW r \in Runs, NEW ok \in BOOLEAN, ClearDelinquency(r, ok) PROVE TypeOK'
  BY <1>8 DEF ClearDelinquency, Proceed
<1>9. ASSUME NEW r \in Runs, ReadFailures(r) PROVE TypeOK'
  BY <1>9 DEF ReadFailures
<1>10. ASSUME NEW r \in Runs, NEW ok \in BOOLEAN, CountFailure(r, ok) PROVE TypeOK'
  BY <1>10 DEF CountFailure, Proceed
<1>11. ASSUME NEW r \in Runs, NEW heard \in BOOLEAN, Reply(r, heard) PROVE TypeOK'
  BY <1>11 DEF Reply, End
<1>12. ASSUME NEW r \in Runs, Throw(r) PROVE TypeOK'
  BY <1>12 DEF Throw
<1>13. ASSUME NEW r \in Runs, Release(r) PROVE TypeOK'
  BY <1>13 DEF Release, ClaimsAfterRelease, End
<1>14. ASSUME NEW r \in Runs, Die(r) PROVE TypeOK'
  BY <1>14 DEF Die, End
<1>15. CASE UNCHANGED vars
  BY <1>15 DEF vars
<1>16. QED
  BY <1>1, <1>2, <1>3, <1>4, <1>5, <1>6, <1>7, <1>8, <1>9, <1>10, <1>11, <1>12, <1>13, <1>14,
     <1>15 DEF Next

\* Every reachable state has the declared types.
THEOREM TypeCorrect == Spec => []TypeOK
  BY InitType, NextType, PTL DEF Spec

-----------------------------------------------------------------------------
(* Claims *)

ClaimsInv == OneRunPerEvent /\ ClaimsAccounted /\ AnsweredIsHandled

\* A claim passes from its run to the handled or the orphaned events, or is
\* given back by the only run that holds it.
LEMMA NextClaims == TypeOK /\ ClaimsInv /\ [Next]_vars => ClaimsInv'
<1> SUFFICES ASSUME TypeOK, ClaimsInv, [Next]_vars PROVE ClaimsInv'
  OBVIOUS
<1> USE StripeAssumption DEF ClaimsInv, OneRunPerEvent, ClaimsAccounted, AnsweredIsHandled, Held,
        TypeOK, Phase, Events
<1>1. ASSUME NEW e \in Events, Send(e) PROVE ClaimsInv'
  BY <1>1 DEF Send, database, requests, history
<1>2. ASSUME NEW r \in Runs, NEW e \in Events, Claim(r, e) PROVE ClaimsInv'
  <2>1. \A q \in Runs : event[q] # e
    BY <1>2 DEF Claim, MayClaim
  <2>2. e \notin handled /\ event[r] = NoEvent /\ pc[r] = "idle"
    BY <1>2 DEF Claim, MayClaim
  <2>3. OneRunPerEvent'
    BY <1>2, <2>1 DEF Claim
  <2>4. (\A c \in claimed : c \in handled \union orphaned \/ Held(c))'
    BY <1>2, <2>2 DEF Claim
  <2>5. (handled \subseteq claimed)' /\ AnsweredIsHandled'
    BY <1>2 DEF Claim, stripe
  <2>6. (\A q \in Runs : event[q] \in handled <=> pc[q] = "reply")'
    BY <1>2, <2>1, <2>2 DEF Claim
  <2>7. QED
    BY <2>3, <2>4, <2>5, <2>6
<1>3. ASSUME NEW e \in Events, AnswerDuplicate(e) PROVE ClaimsInv'
  BY <1>3 DEF AnswerDuplicate, database, requests
<1>4. ASSUME NEW e \in Events, ClaimReplyLost(e) PROVE ClaimsInv'
  BY <1>4 DEF ClaimReplyLost, requests, stripe
<1>5. ASSUME NEW r \in Runs, NEW next \in Phase \ {"idle"}, NEW ok \in BOOLEAN,
             pc[r] \notin {"idle", "reply", "release"}, Proceed(r, next, ok),
             UNCHANGED <<claimed, event, answered, orphaned, hasty>>
      PROVE ClaimsInv'
  <2>1. event[r] \in Events /\ event[r] \in claimed /\ event[r] \notin handled
    BY <1>5
  <2>2. OneRunPerEvent'
    BY <1>5
  <2>3. (\A c \in claimed : c \in handled \union orphaned \/ Held(c))'
    BY <1>5 DEF Proceed
  <2>4. (handled \subseteq claimed)' /\ AnsweredIsHandled'
    BY <1>5, <2>1 DEF Proceed
  <2>5. (\A q \in Runs : event[q] \in handled <=> pc[q] = "reply")'
    BY <1>5, <2>1 DEF Proceed
  <2>6. QED
    BY <2>2, <2>3, <2>4, <2>5
<1>6. ASSUME NEW r \in Runs, NEW ok \in BOOLEAN,
             \/ SetStripeDefault(r, ok) \/ SaveCard(r, ok) \/ MarkPaid(r, ok)
             \/ ClearDelinquency(r, ok) \/ CountFailure(r, ok)
      PROVE ClaimsInv'
  <2>1. PICK next \in Phase \ {"idle"} : Proceed(r, next, ok)
    BY <1>6 DEF SetStripeDefault, SaveCard, MarkPaid, ClearDelinquency, CountFailure
  <2>2. pc[r] \notin {"idle", "reply", "release"}
    BY <1>6 DEF SetStripeDefault, SaveCard, MarkPaid, ClearDelinquency, CountFailure
  <2>3. UNCHANGED <<claimed, event, answered, orphaned, hasty>>
    BY <1>6 DEF SetStripeDefault, SaveCard, MarkPaid, ClearDelinquency, CountFailure, database, stripe
  <2>4. QED
    BY <1>5, <2>1, <2>2, <2>3
<1>7. ASSUME NEW r \in Runs, ReadFailures(r) PROVE ClaimsInv'
  BY <1>7 DEF ReadFailures, database, stripe, history
<1>8. ASSUME NEW r \in Runs, NEW heard \in BOOLEAN, Reply(r, heard) PROVE ClaimsInv'
  BY <1>8 DEF Reply, End, database, history
<1>9. ASSUME NEW r \in Runs, Throw(r) PROVE ClaimsInv'
  BY <1>9 DEF Throw, database, stripe
<1>10. ASSUME NEW r \in Runs, Release(r) PROVE ClaimsInv'
  BY <1>10 DEF Release, ClaimsAfterRelease, End, stripe, history
<1>11. ASSUME NEW r \in Runs, Die(r) PROVE ClaimsInv'
  BY <1>11 DEF Die, End, database, stripe
<1>12. CASE UNCHANGED vars
  BY <1>12 DEF vars, database, requests, stripe, history
<1>13. QED
  BY <1>1, <1>2, <1>3, <1>4, <1>6, <1>7, <1>8, <1>9, <1>10, <1>11, <1>12 DEF Next

-----------------------------------------------------------------------------
(* The count of failed charges *)

CountInv == FailuresNotOvercounted /\ ReadingsBounded

Counted(s) == Cardinality(FailuresHandled(s)) + phantom[s]

\* The bound is a number, and it never falls.
LEMMA CountedGrows ==
  ASSUME TypeOK, TypeOK', NEW s \in Subs, handled \subseteq handled', phantom[s] <= phantom'[s]
  PROVE  Counted(s) \in Nat /\ Counted(s)' \in Nat /\ Counted(s) <= Counted(s)'
<1>1. FailuresHandled(s) \subseteq FailuresHandled(s)'
  BY DEF FailuresHandled
<1>2. IsFiniteSet(FailuresHandled(s)')
  BY StripeAssumption, FS_Subset DEF FailuresHandled, TypeOK
<1>3. /\ IsFiniteSet(FailuresHandled(s))
      /\ Cardinality(FailuresHandled(s)) <= Cardinality(FailuresHandled(s)')
  BY <1>1, <1>2, FS_Subset
<1>4. Cardinality(FailuresHandled(s)) \in Nat /\ Cardinality(FailuresHandled(s)') \in Nat
  BY <1>2, <1>3, FS_CardinalityType
<1>5. QED
  BY <1>3, <1>4 DEF Counted, TypeOK

\* A step that writes no count and reads none keeps the bounds.
LEMMA CountKept ==
  ASSUME TypeOK, TypeOK', CountInv, handled \subseteq handled', phantom' = phantom,
         \A s \in Subs : failures'[s] \in {0, failures[s]},
         \A r \in Runs : pc'[r] = "count" => pc[r] = "count" /\ event'[r] = event[r] /\ seen'[r] = seen[r]
  PROVE  CountInv'
<1>1. ASSUME NEW s \in Subs PROVE Counted(s) \in Nat /\ Counted(s)' \in Nat /\ Counted(s) <= Counted(s)'
  BY CountedGrows DEF TypeOK
<1>2. FailuresNotOvercounted'
  BY <1>1 DEF CountInv, FailuresNotOvercounted, Counted, TypeOK
<1>3. ReadingsBounded'
  <2> SUFFICES ASSUME NEW r \in Runs, NEW s \in Subs, pc'[r] = "count", SubOf[event'[r]] = s
               PROVE  seen'[r] <= Counted(s)'
    BY DEF ReadingsBounded, Counted
  <2>1. seen'[r] = seen[r] /\ seen[r] \in Nat /\ seen[r] <= Counted(s)
    BY DEF CountInv, ReadingsBounded, Counted, TypeOK
  <2>2. QED
    BY <1>1, <2>1
<1>4. QED
  BY <1>2, <1>3 DEF CountInv

\* No reading and no write exceeds the number of writes so far.
LEMMA NextCount == TypeOK /\ TypeOK' /\ ClaimsInv /\ CountInv /\ [Next]_vars => CountInv'
<1> SUFFICES ASSUME TypeOK, TypeOK', ClaimsInv, CountInv, [Next]_vars PROVE CountInv'
  OBVIOUS
<1>1. ASSUME NEW r \in Runs, ReadFailures(r) PROVE CountInv'
  <2>1. ASSUME NEW s \in Subs PROVE Counted(s) \in Nat /\ Counted(s)' = Counted(s)
    BY <1>1, CountedGrows DEF ReadFailures, history, Counted, FailuresHandled, TypeOK
  <2>2. FailuresNotOvercounted'
    BY <1>1, <2>1 DEF ReadFailures, database, CountInv, FailuresNotOvercounted, Counted
  <2>3. ReadingsBounded'
    <3> SUFFICES ASSUME NEW q \in Runs, NEW s \in Subs, pc'[q] = "count", SubOf[event'[q]] = s
                 PROVE  seen'[q] <= Counted(s)'
      BY DEF ReadingsBounded, Counted
    <3>1. CASE q = r
      BY <1>1, <2>1, <3>1 DEF ReadFailures, CountInv, FailuresNotOvercounted, Counted, TypeOK
    <3>2. CASE q # r
      BY <1>1, <2>1, <3>2 DEF ReadFailures, CountInv, ReadingsBounded, Counted, TypeOK
    <3>3. QED
      BY <3>1, <3>2
  <2>4. QED
    BY <2>2, <2>3 DEF CountInv
<1>2. ASSUME NEW r \in Runs, NEW ok \in BOOLEAN, CountFailure(r, ok) PROVE CountInv'
  <2>0. PICK e \in Events, s \in Subs : e = event[r] /\ s = SubOf[e]
    BY <1>2 DEF CountFailure, TypeOK
  <2>1. e \in Failures /\ e \notin handled /\ seen[r] \in Nat /\ seen[r] <= Counted(s)
    BY <1>2, <2>0 DEF CountFailure, TypeOK, ClaimsInv, ClaimsAccounted, CountInv, ReadingsBounded, Counted
  <2>2. handled \subseteq handled' /\ \A t \in Subs : phantom[t] <= phantom'[t]
    BY <1>2 DEF CountFailure, Proceed, TypeOK
  <2>3. ASSUME NEW t \in Subs PROVE Counted(t) \in Nat /\ Counted(t)' \in Nat /\ Counted(t) <= Counted(t)'
    BY <2>2, CountedGrows
  <2>4. Counted(s)' = Counted(s) + 1
    <3>1. IsFiniteSet(FailuresHandled(s)) /\ Cardinality(FailuresHandled(s)) \in Nat
      BY StripeAssumption, FS_Subset, FS_CardinalityType DEF FailuresHandled, TypeOK
    <3>2. CASE ok
      <4>1. handled' = handled \union {e} /\ phantom' = phantom
        BY <1>2, <2>0, <3>2 DEF CountFailure, Proceed
      <4>2. FailuresHandled(s)' = FailuresHandled(s) \union {e} /\ e \notin FailuresHandled(s)
        BY <2>0, <2>1, <4>1 DEF FailuresHandled
      <4>3. Cardinality(FailuresHandled(s)') = Cardinality(FailuresHandled(s)) + 1
        BY <3>1, <4>2, FS_AddElement
      <4>4. QED
        BY <2>1, <3>1, <4>1, <4>3 DEF Counted, TypeOK
    <3>3. CASE ~ok
      <4>1. handled' = handled /\ phantom'[s] = phantom[s] + 1
        BY <1>2, <2>0, <2>1, <3>3 DEF CountFailure, Proceed, TypeOK
      <4>2. QED
        BY <2>1, <3>1, <4>1 DEF Counted, FailuresHandled, TypeOK
    <3>4. QED
      BY <3>2, <3>3
  <2>5. FailuresNotOvercounted'
    <3> SUFFICES ASSUME NEW t \in Subs PROVE failures'[t] <= Counted(t)'
      BY DEF FailuresNotOvercounted, Counted
    <3>1. CASE t = s
      BY <1>2, <2>0, <2>1, <2>3, <2>4, <3>1 DEF CountFailure, TypeOK
    <3>2. CASE t # s
      BY <1>2, <2>0, <2>1, <2>3, <3>2 DEF CountFailure, CountInv, FailuresNotOvercounted, Counted, TypeOK
    <3>3. QED
      BY <3>1, <3>2
  <2>6. ReadingsBounded'
    <3> SUFFICES ASSUME NEW q \in Runs, NEW t \in Subs, pc'[q] = "count", SubOf[event'[q]] = t
                 PROVE  seen'[q] <= Counted(t)'
      BY DEF ReadingsBounded, Counted
    <3>1. pc[q] = "count" /\ seen'[q] = seen[q] /\ SubOf[event[q]] = t
      BY <1>2 DEF CountFailure, Proceed, TypeOK
    <3>2. seen[q] <= Counted(t) /\ seen[q] \in Nat
      BY <3>1 DEF CountInv, ReadingsBounded, Counted, TypeOK
    <3>3. QED
      BY <2>3, <3>1, <3>2
  <2>7. QED
    BY <2>5, <2>6 DEF CountInv
<1>3. CASE ~(\E r \in Runs : ReadFailures(r) \/ \E ok \in BOOLEAN : CountFailure(r, ok))
  <2> USE DEF TypeOK, Phase, database, requests, stripe, history
  <2>1. handled \subseteq handled' /\ phantom' = phantom
    BY <1>3 DEF Next, vars, Send, Claim, AnswerDuplicate, ClaimReplyLost, SetStripeDefault, SaveCard,
       MarkPaid, ClearDelinquency, Reply, Throw, Release, Die, Proceed
  <2>2. \A s \in Subs : failures'[s] \in {0, failures[s]}
    BY <1>3 DEF Next, vars, Send, Claim, AnswerDuplicate, ClaimReplyLost, SetStripeDefault, SaveCard,
       MarkPaid, ClearDelinquency, Reply, Throw, Release, Die
  <2>3. \A r \in Runs :
          pc'[r] = "count" => pc[r] = "count" /\ event'[r] = event[r] /\ seen'[r] = seen[r]
    BY <1>3 DEF Next, vars, Send, Claim, FirstStep, AnswerDuplicate, ClaimReplyLost, SetStripeDefault,
       SaveCard, MarkPaid, ClearDelinquency, Reply, Throw, Release, Die, Proceed, End
  <2>4. QED
    BY <2>1, <2>2, <2>3, CountKept
<1>4. QED
  BY <1>1, <1>2, <1>3

-----------------------------------------------------------------------------
(* The card Stripe charges and the card the subscription shows *)

\* A step that moves no run to "save" and writes neither card keeps the order of
\* the setups, if what it handles is not the default of a subscription.
LEMMA CardsKept ==
  ASSUME TypeOK, TypeOK', SetupsInOrder, stripeCard' = stripeCard, card' = card, raced' = raced,
         \A r \in Runs : pc'[r] = "save" => pc[r] = "save" /\ event'[r] = event[r],
         \A e \in handled' \ handled : e \in Setups => SubOf[e] = NoSub
  PROVE  SetupsInOrder'
<1> SUFFICES ASSUME NEW s \in Subs
             PROVE  /\ stripeCard'[s] # NoEvent => SubOf[stripeCard'[s]] = s
                    /\ s \notin raced' =>
                         /\ \A r \in Runs : pc'[r] = "save" /\ SubOf[event'[r]] = s
                                            => stripeCard'[s] = event'[r]
                         /\ stripeCard'[s] \in handled' => card'[s] = stripeCard'[s]
  BY DEF SetupsInOrder
<1>1. stripeCard'[s] # NoEvent => SubOf[stripeCard'[s]] = s
  BY DEF SetupsInOrder
<1>2. ASSUME s \notin raced', NEW r \in Runs, pc'[r] = "save", SubOf[event'[r]] = s
      PROVE  stripeCard'[s] = event'[r]
  BY <1>2 DEF SetupsInOrder
<1>3. ASSUME s \notin raced', stripeCard'[s] \in handled' PROVE card'[s] = stripeCard'[s]
  <2>1. stripeCard[s] \in Setups => SubOf[stripeCard[s]] # NoSub
    BY StripeAssumption DEF SetupsInOrder, Events
  <2>2. stripeCard[s] \in Setups
    BY <1>3, StripeAssumption DEF TypeOK, Events
  <2>3. QED
    BY <1>3, <2>1, <2>2 DEF SetupsInOrder
<1>4. QED
  BY <1>1, <1>2, <1>3

\* The default moves on only from an event that no run has yet to save, and what
\* is saved is the default, unless the subscription is marked as raced.
LEMMA NextCards == TypeOK /\ TypeOK' /\ ClaimsInv /\ SetupsInOrder /\ [Next]_vars => SetupsInOrder'
<1> SUFFICES ASSUME TypeOK, TypeOK', ClaimsInv, SetupsInOrder, [Next]_vars PROVE SetupsInOrder'
  OBVIOUS
<1>1. ASSUME NEW r \in Runs, NEW ok \in BOOLEAN, SetStripeDefault(r, ok) PROVE SetupsInOrder'
  <2>1. PICK s \in Subs, e \in Setups : e = event[r] /\ s = SubOf[e] /\ e \notin handled
    BY <1>1 DEF SetStripeDefault, TypeOK, ClaimsInv, ClaimsAccounted
  <2>2. /\ stripeCard' = [stripeCard EXCEPT ![s] = e]
        /\ card' = card /\ event' = event /\ handled' = handled
        /\ raced' = IF \E q \in Runs : pc[q] = "save" /\ SubOf[event[q]] = s
                    THEN raced \union {s} ELSE raced
        /\ \A q \in Runs : q # r => pc'[q] = pc[q]
    BY <1>1, <2>1 DEF SetStripeDefault, Proceed, database, TypeOK
  <2> SUFFICES ASSUME NEW t \in Subs
               PROVE  /\ stripeCard'[t] # NoEvent => SubOf[stripeCard'[t]] = t
                      /\ t \notin raced' =>
                           /\ \A q \in Runs : pc'[q] = "save" /\ SubOf[event'[q]] = t
                                              => stripeCard'[t] = event'[q]
                           /\ stripeCard'[t] \in handled' => card'[t] = stripeCard'[t]
    BY DEF SetupsInOrder
  <2>3. CASE t = s
    BY <2>1, <2>2, <2>3 DEF TypeOK
  <2>4. CASE t # s
    BY <2>1, <2>2, <2>4 DEF TypeOK, SetupsInOrder
  <2>5. QED
    BY <2>3, <2>4
<1>2. ASSUME NEW r \in Runs, NEW ok \in BOOLEAN, SaveCard(r, ok) PROVE SetupsInOrder'
  <2>1. PICK s \in Subs, e \in Setups : e = event[r] /\ s = SubOf[e]
    BY <1>2 DEF SaveCard, TypeOK
  <2>2. /\ card' = [card EXCEPT ![s] = e]
        /\ stripeCard' = stripeCard /\ event' = event /\ raced' = raced
        /\ handled' \subseteq handled \union {e}
        /\ pc'[r] # "save" /\ \A q \in Runs : q # r => pc'[q] = pc[q]
    BY <1>2, <2>1 DEF SaveCard, Proceed, stripe, TypeOK
  <2>3. s \notin raced => stripeCard[s] = e
    BY <1>2, <2>1 DEF SaveCard, SetupsInOrder
  <2> SUFFICES ASSUME NEW t \in Subs
               PROVE  /\ stripeCard'[t] # NoEvent => SubOf[stripeCard'[t]] = t
                      /\ t \notin raced' =>
                           /\ \A q \in Runs : pc'[q] = "save" /\ SubOf[event'[q]] = t
                                              => stripeCard'[t] = event'[q]
                           /\ stripeCard'[t] \in handled' => card'[t] = stripeCard'[t]
    BY DEF SetupsInOrder
  <2>4. CASE t = s
    BY <2>1, <2>2, <2>3, <2>4 DEF TypeOK, SetupsInOrder
  <2>5. CASE t # s
    <3>1. stripeCard[t] = e => SubOf[e] = t
      BY <2>1, StripeAssumption DEF SetupsInOrder, Events
    <3>2. QED
      BY <2>1, <2>2, <2>5, <3>1 DEF TypeOK, SetupsInOrder
  <2>6. QED
    BY <2>4, <2>5
<1>3. CASE ~(\E r \in Runs, ok \in BOOLEAN : SetStripeDefault(r, ok) \/ SaveCard(r, ok))
  <2> USE DEF TypeOK, Phase, database, requests, stripe, history
  <2>1. stripeCard' = stripeCard /\ card' = card /\ raced' = raced
    BY <1>3 DEF Next, vars, Send, Claim, AnswerDuplicate, ClaimReplyLost, MarkPaid,
       ClearDelinquency, ReadFailures, CountFailure, Reply, Throw, Release, Die
  <2>2. \A r \in Runs : pc'[r] = "save" => pc[r] = "save" /\ event'[r] = event[r]
    BY <1>3 DEF Next, vars, Send, Claim, FirstStep, AnswerDuplicate, ClaimReplyLost, MarkPaid,
       ClearDelinquency, ReadFailures, CountFailure, Reply, Throw, Release, Die, Proceed, End
  <2>3. \A e \in handled' \ handled : e \in Setups => SubOf[e] = NoSub
    <3> SUFFICES ASSUME NEW e \in handled' \ handled, e \in Setups PROVE SubOf[e] = NoSub
      OBVIOUS
    <3>1. CASE \E r \in Runs, c \in Events : Claim(r, c)
      BY <3>1, StripeAssumption DEF Claim, FirstStep
    <3>2. CASE \E r \in Runs, ok \in BOOLEAN : MarkPaid(r, ok) \/ CountFailure(r, ok)
      BY <3>2, StripeAssumption DEF MarkPaid, CountFailure, Proceed
    <3>3. CASE \E r \in Runs, ok \in BOOLEAN : ClearDelinquency(r, ok)
      BY <3>3, StripeAssumption DEF ClearDelinquency, Proceed
    <3>4. QED
      BY <1>3, <3>1, <3>2, <3>3 DEF Next, vars, Send, AnswerDuplicate, ClaimReplyLost,
         ReadFailures, Reply, Throw, Release, Die
  <2>4. QED
    BY <2>1, <2>2, <2>3, CardsKept
<1>4. QED
  BY <1>1, <1>2, <1>3

-----------------------------------------------------------------------------
(* The invariant and what follows from it *)

\* The inductive invariant holds in every reachable state.
THEOREM Inductive == Spec => []IInv
<1>1. Init => IInv
  <2> SUFFICES ASSUME Init PROVE IInv
    OBVIOUS
  <2>1. ClaimsInv
    BY StripeAssumption
       DEF Init, ClaimsInv, OneRunPerEvent, ClaimsAccounted, AnsweredIsHandled, Held
  <2>2. \A s \in Subs : FailuresHandled(s) = {}
    BY DEF Init, FailuresHandled
  <2>3. FailuresNotOvercounted /\ ReadingsBounded
    BY <2>2, FS_EmptySet DEF Init, FailuresNotOvercounted, ReadingsBounded
  <2>4. SetupsInOrder
    BY DEF Init, SetupsInOrder
  <2>5. QED
    BY <2>1, <2>3, <2>4, InitType DEF IInv, ClaimsInv
<1>2. IInv /\ [Next]_vars => IInv'
  BY NextType, NextClaims, NextCount, NextCards DEF IInv, ClaimsInv, CountInv
<1>3. QED
  BY <1>1, <1>2, PTL DEF Spec

\* Whatever Stripe repeats and however often a claim is given back, an event
\* has at most one run, and that run holds its claim.
THEOREM OneRunAtATime == Spec => []OneRunPerEvent
<1>1. IInv => OneRunPerEvent
  BY DEF IInv
<1>2. QED
  BY <1>1, Inductive, PTL

\* Repetitions and retries do not inflate the count of failed charges.
THEOREM NeverOvercounted == Spec => []FailuresNotOvercounted
<1>1. IInv => FailuresNotOvercounted
  BY DEF IInv
<1>2. QED
  BY <1>1, Inductive, PTL

\* What Stripe need not send again is handled, was cut off or was answered
\* while its run went on.
THEOREM AnswersAreHonest == Spec => []AnsweredIsHandled
<1>1. IInv => AnsweredIsHandled
  BY DEF IInv
<1>2. QED
  BY <1>1, Inductive, PTL

\* Once its event is settled, the card Stripe charges by default is the one the
\* subscription shows, unless setup events of one subscription overlapped.
THEOREM CardsAgreeInTheEnd == Spec => []CardsAgree
<1>1. IInv => CardsAgree
  BY DEF IInv, CardsAgree, ClaimsAccounted, SetupsInOrder
<1>2. QED
  BY <1>1, Inductive, PTL

-----------------------------------------------------------------------------
(* Every event is handled once, and those that are not yet come back *)

\* Only a claim starts a run, and what is handled stays claimed.
LEMMA OnlyUnhandledStart ==
  ASSUME IInv, Next, NEW r \in Runs, pc[r] = "idle", pc'[r] # "idle"
  PROVE  event'[r] \notin handled
<1>1. TypeOK /\ handled \subseteq claimed
  BY DEF IInv, ClaimsAccounted
<1>2. ASSUME NEW q \in Runs, NEW e \in Events, Claim(q, e) PROVE event'[r] \notin handled
  BY <1>1, <1>2 DEF Claim, MayClaim, TypeOK
<1>3. ASSUME NEW q \in Runs, pc[q] # "idle", NEW next, pc' = [pc EXCEPT ![q] = next] PROVE FALSE
  BY <1>1, <1>3 DEF TypeOK
<1>4. ASSUME pc' = pc PROVE FALSE
  BY <1>4
<1>5. ASSUME NEW q \in Runs, NEW ok \in BOOLEAN,
             SetStripeDefault(q, ok) \/ SaveCard(q, ok) \/ MarkPaid(q, ok) \/ ClearDelinquency(q, ok)
               \/ CountFailure(q, ok)
      PROVE  FALSE
  BY <1>3, <1>5 DEF SetStripeDefault, SaveCard, MarkPaid, ClearDelinquency, CountFailure, Proceed
<1>6. ASSUME NEW q \in Runs, ReadFailures(q) \/ Throw(q) \/ Release(q) \/ Die(q) PROVE FALSE
  BY <1>3, <1>6 DEF ReadFailures, Throw, Release, Die, End
<1>7. ASSUME NEW q \in Runs, NEW heard \in BOOLEAN, Reply(q, heard) PROVE FALSE
  BY <1>3, <1>7 DEF Reply, End
<1>8. ASSUME NEW e \in Events, Send(e) \/ AnswerDuplicate(e) \/ ClaimReplyLost(e) PROVE FALSE
  BY <1>4, <1>8 DEF Send, AnswerDuplicate, ClaimReplyLost, requests
<1>9. QED
  BY <1>2, <1>5, <1>6, <1>7, <1>8 DEF Next

\* An event whose handler came to its end is never handled again, however often
\* Stripe sends it, whatever fails and however many requests overlap.
THEOREM NeverHandledAgain == Spec => HandledOnce
<1> DEFINE A == \A r \in Runs : pc[r] = "idle" /\ pc'[r] # "idle" => event'[r] \notin handled
<1>1. IInv /\ [Next]_vars => [A]_vars
  BY OnlyUnhandledStart
<1>2. Spec => [][A]_vars
  BY <1>1, Inductive, PTL DEF Spec
<1>3. QED
  BY <1>2 DEF HandledOnce

\* An event that was neither handled nor cut off nor answered too soon is not
\* answered, and its claim is free or held by the run that works on it.
THEOREM OpenEventsAreRetried == Spec => []OpenEventsComeBack
<1>1. IInv => OpenEventsComeBack
  BY DEF IInv, AnsweredIsHandled, ClaimsAccounted, OpenEventsComeBack
<1>2. QED
  BY <1>1, Inductive, PTL


=============================================================================
