--------------------------- MODULE StripeWebhooks ---------------------------
(***************************************************************************)
(* POST /webhooks/stripe (apps/api/src/routes/stripe-webhooks.ts): an      *)
(* event is claimed in processed_stripe_events                             *)
(* (packages/db/src/stripe-webhook-repos.ts), its effects on the           *)
(* subscription and the ledger are written, one statement per step, and    *)
(* Stripe gets its answer.  A handler that throws releases the claim and   *)
(* answers 500.                                                            *)
(*                                                                         *)
(* Stripe is external: it sends an event again until it is answered 2xx,   *)
(* gives up waiting for an answer after some seconds, keeps no order and   *)
(* may send what was answered once more.  The requests of one event can    *)
(* therefore overlap.                                                      *)
(***************************************************************************)
EXTENDS Integers, FiniteSets

CONSTANTS
  Setups,     \* setup_intent.succeeded, each with a card of its own
  Failures,   \* payment_intent.payment_failed
  Successes,  \* payment_intent.succeeded
  Linked,     \* the successes whose payment intent a ledger row carries
  NoEvent,    \* what an idle run works on; no card on file
  Subs,       \* subscription row ids
  SubOf,      \* SubOf[e]: the subscription the event is resolved to
  NoSub,      \* none is found
  Runs,       \* overlapping requests
  MaxFaults   \* bound: statements that fail, runs that die

Events == Setups \union Failures \union Successes

ASSUME StripeAssumption ==
  /\ IsFiniteSet(Events)
  /\ NoEvent \notin Events
  /\ Setups \intersect Failures = {}
  /\ Setups \intersect Successes = {}
  /\ Failures \intersect Successes = {}
  /\ Linked \subseteq Successes
  /\ NoSub \notin Subs
  /\ SubOf \in [Events -> Subs \union {NoSub}]
  /\ MaxFaults \in Nat

VARIABLES
  \* the database
  claimed,    \* processed_stripe_events
  paid,       \* linked successes whose ledger row has status "paid"
  failures,   \* billing_failed_charge_count; past_due_since is set when it is not 0
  card,       \* psp_default_payment_method_id, as the event that brought it
  \* the requests
  pc, event, seen,
  \* Stripe
  sent,       \* events that have happened
  answered,   \* events answered 2xx
  stripeCard, \* the customer's default payment method at Stripe
  \* history, read by no guard but those of the bound MaxFaults
  handled,    \* events whose handler came to its end
  orphaned,   \* events whose claim outlived its run
  hasty,      \* events answered as duplicates while their run went on
  phantom,    \* failures that were counted but reported as an error
  raced,      \* subscriptions whose setup events overlapped
  faults

database == <<claimed, paid, failures, card>>
requests == <<pc, event, seen>>
stripe   == <<sent, answered, stripeCard>>
history  == <<handled, orphaned, hasty, phantom, raced, faults>>
vars     == <<database, requests, stripe, history>>

Phase == {"idle", "default", "save", "pay", "clear", "read", "count", "reply", "release"}

TypeOK ==
  /\ claimed  \subseteq Events
  /\ paid     \subseteq Linked
  /\ failures \in [Subs -> Nat]
  /\ card     \in [Subs -> Setups \union {NoEvent}]
  /\ pc       \in [Runs -> Phase]
  /\ event    \in [Runs -> Events \union {NoEvent}]
  /\ \A r \in Runs :
       /\ pc[r] = "idle" <=> event[r] = NoEvent
       /\ pc[r] \in {"default", "save", "clear", "read", "count"} => SubOf[event[r]] \in Subs
       /\ pc[r] \in {"default", "save"} => event[r] \in Setups
       /\ pc[r] = "pay" => event[r] \in Linked
       /\ pc[r] = "clear" => event[r] \in Successes
       /\ pc[r] \in {"read", "count"} => event[r] \in Failures
  /\ seen     \in [Runs -> Nat]
  /\ sent     \subseteq Events
  /\ answered \subseteq Events
  /\ stripeCard \in [Subs -> Setups \union {NoEvent}]
  /\ handled  \subseteq Events
  /\ orphaned \subseteq Events
  /\ hasty    \subseteq Events
  /\ phantom  \in [Subs -> Nat]
  /\ raced    \subseteq Subs
  /\ faults   \in Nat

Init ==
  /\ claimed    = {}
  /\ paid       = {}
  /\ failures   = [s \in Subs |-> 0]
  /\ card       = [s \in Subs |-> NoEvent]
  /\ pc         = [r \in Runs |-> "idle"]
  /\ event      = [r \in Runs |-> NoEvent]
  /\ seen       = [r \in Runs |-> 0]
  /\ sent       = {}
  /\ answered   = {}
  /\ stripeCard = [s \in Subs |-> NoEvent]
  /\ handled    = {}
  /\ orphaned   = {}
  /\ hasty      = {}
  /\ phantom    = [s \in Subs |-> 0]
  /\ raced      = {}
  /\ faults     = 0

-----------------------------------------------------------------------------
(* Stripe, and the claim *)

\* Something happens at Stripe.
Send(e) ==
  /\ e \notin sent
  /\ sent' = sent \union {e}
  /\ UNCHANGED <<database, requests, answered, stripeCard, history>>

\* Where the handler of an event starts.  One that is resolved to neither a
\* ledger row nor a subscription has nothing to do.
FirstStep(e) ==
  CASE e \in Linked -> "pay"
    [] e \in Setups /\ SubOf[e] # NoSub -> "default"
    [] e \in Failures /\ SubOf[e] # NoSub -> "read"
    [] e \in Successes \ Linked /\ SubOf[e] # NoSub -> "clear"
    [] OTHER -> "reply"

Held(e) == \E r \in Runs : event[r] = e

\* Mutant: the claim is granted to every request.
MayClaimAlways(e) == e \in sent

\* claimStripeWebhookEvent: the insert succeeds for the first request only.
MayClaim(e) == e \in sent \ claimed

Claim(r, e) ==
  /\ pc[r] = "idle"
  /\ MayClaim(e)
  /\ claimed' = claimed \union {e}
  /\ pc'      = [pc EXCEPT ![r] = FirstStep(e)]
  /\ event'   = [event EXCEPT ![r] = e]
  /\ handled' = IF FirstStep(e) = "reply" THEN handled \union {e} ELSE handled
  /\ UNCHANGED <<paid, failures, card, seen, stripe, orphaned, hasty, phantom, raced, faults>>

\* Already claimed: 200, duplicate, whatever the run that claimed it is doing.
AnswerDuplicate(e) ==
  /\ e \in sent \intersect claimed
  /\ e \notin answered
  /\ answered' = answered \union {e}
  /\ hasty'    = IF Held(e) THEN hasty \union {e} ELSE hasty
  /\ UNCHANGED <<database, requests, sent, stripeCard, handled, orphaned,
                 phantom, raced, faults>>

\* The insert was executed but its reply lost: 500 before the handler's try.
ClaimReplyLost(e) ==
  /\ e \in sent \ claimed
  /\ faults < MaxFaults
  /\ claimed'  = claimed \union {e}
  /\ orphaned' = orphaned \union {e}
  /\ faults'   = faults + 1
  /\ UNCHANGED <<paid, failures, card, requests, stripe, handled, hasty, phantom, raced>>

-----------------------------------------------------------------------------
(* The handlers.  ok = FALSE: the statement is executed, but reported as an  *)
(* error, and the run goes to its catch.                                     *)

Proceed(r, next, ok) ==
  /\ ok \/ faults < MaxFaults
  /\ pc' = [pc EXCEPT ![r] = IF ok THEN next ELSE "release"]
  /\ handled' = IF ok /\ next = "reply" THEN handled \union {event[r]} ELSE handled
  /\ faults' = IF ok THEN faults ELSE faults + 1

\* handleSetupIntentSucceeded: the default payment method at Stripe.
SetStripeDefault(r, ok) ==
  LET s == SubOf[event[r]] IN
  /\ pc[r] = "default"
  /\ stripeCard' = [stripeCard EXCEPT ![s] = event[r]]
  /\ raced' = IF \E q \in Runs : pc[q] = "save" /\ SubOf[event[q]] = s
              THEN raced \union {s} ELSE raced
  /\ Proceed(r, "save", ok)
  /\ UNCHANGED <<database, event, seen, sent, answered, orphaned, hasty, phantom>>

\* updateSubscriptionPspPaymentMethodForTenant.
SaveCard(r, ok) ==
  /\ pc[r] = "save"
  /\ card' = [card EXCEPT ![SubOf[event[r]]] = event[r]]
  /\ Proceed(r, "reply", ok)
  /\ UNCHANGED <<claimed, paid, failures, event, seen, stripe, orphaned, hasty, phantom, raced>>

\* handlePaymentIntentSucceeded: the ledger row that carries the intent.
MarkPaid(r, ok) ==
  /\ pc[r] = "pay"
  /\ paid' = paid \union {event[r]}
  /\ Proceed(r, IF SubOf[event[r]] = NoSub THEN "reply" ELSE "clear", ok)
  /\ UNCHANGED <<claimed, failures, card, event, seen, stripe, orphaned, hasty, phantom, raced>>

\* clearSubscriptionBillingDelinquencyForTenant.
ClearDelinquency(r, ok) ==
  /\ pc[r] = "clear"
  /\ failures' = [failures EXCEPT ![SubOf[event[r]]] = 0]
  /\ Proceed(r, "reply", ok)
  /\ UNCHANGED <<claimed, paid, card, event, seen, stripe, orphaned, hasty, phantom, raced>>

\* applySubscriptionBillingPaymentFailedForTenant: its SELECT ...
ReadFailures(r) ==
  /\ pc[r] = "read"
  /\ seen' = [seen EXCEPT ![r] = failures[SubOf[event[r]]]]
  /\ pc'   = [pc EXCEPT ![r] = "count"]
  /\ UNCHANGED <<database, event, stripe, history>>

\* ... and its UPDATE by id with the number read plus one.
CountFailure(r, ok) ==
  LET s == SubOf[event[r]] IN
  /\ pc[r] = "count"
  /\ failures' = [failures EXCEPT ![s] = seen[r] + 1]
  /\ phantom'  = IF ok THEN phantom ELSE [phantom EXCEPT ![s] = @ + 1]
  /\ Proceed(r, "reply", ok)
  /\ UNCHANGED <<claimed, paid, card, event, seen, stripe, orphaned, hasty, raced>>

\* The run is over and its local variables with it.
End(r) ==
  /\ pc'    = [pc EXCEPT ![r] = "idle"]
  /\ event' = [event EXCEPT ![r] = NoEvent]
  /\ seen'  = [seen EXCEPT ![r] = 0]

\* 200; Stripe may have stopped waiting for it.
Reply(r, heard) ==
  /\ pc[r] = "reply"
  /\ answered' = IF heard THEN answered \union {event[r]} ELSE answered
  /\ End(r)
  /\ UNCHANGED <<database, sent, stripeCard, history>>

\* A statement or a call to Stripe fails without effect.
Throw(r) ==
  /\ pc[r] \in Phase \ {"idle", "reply", "release"}
  /\ faults < MaxFaults
  /\ pc' = [pc EXCEPT ![r] = "release"]
  /\ faults' = faults + 1
  /\ UNCHANGED <<database, event, seen, stripe, handled, orphaned, hasty, phantom, raced>>

\* Mutant: the claim is kept.
ClaimsKept(r) == claimed

\* The DELETE of releaseStripeWebhookEvent.
ClaimsAfterRelease(r) == claimed \ {event[r]}

\* releaseStripeWebhookEvent and 500.
Release(r) ==
  /\ pc[r] = "release"
  /\ claimed' = ClaimsAfterRelease(r)
  /\ End(r)
  /\ UNCHANGED <<paid, failures, card, stripe, history>>

\* The API process dies, or the release itself fails: the claim stays.
Die(r) ==
  /\ pc[r] # "idle"
  /\ faults < MaxFaults
  /\ End(r)
  /\ orphaned' = IF pc[r] = "reply" THEN orphaned ELSE orphaned \union {event[r]}
  /\ faults' = faults + 1
  /\ UNCHANGED <<database, stripe, handled, hasty, phantom, raced>>

-----------------------------------------------------------------------------
Next ==
  \/ \E e \in Events : Send(e)
  \/ \E r \in Runs, e \in Events : Claim(r, e)
  \/ \E e \in Events : AnswerDuplicate(e)
  \/ \E e \in Events : ClaimReplyLost(e)
  \/ \E r \in Runs, ok \in BOOLEAN : SetStripeDefault(r, ok)
  \/ \E r \in Runs, ok \in BOOLEAN : SaveCard(r, ok)
  \/ \E r \in Runs, ok \in BOOLEAN : MarkPaid(r, ok)
  \/ \E r \in Runs, ok \in BOOLEAN : ClearDelinquency(r, ok)
  \/ \E r \in Runs : ReadFailures(r)
  \/ \E r \in Runs, ok \in BOOLEAN : CountFailure(r, ok)
  \/ \E r \in Runs, heard \in BOOLEAN : Reply(r, heard)
  \/ \E r \in Runs : Throw(r)
  \/ \E r \in Runs : Release(r)
  \/ \E r \in Runs : Die(r)

Spec == Init /\ [][Next]_vars

Step(r) ==
  \/ SetStripeDefault(r, TRUE) \/ SaveCard(r, TRUE) \/ MarkPaid(r, TRUE)
  \/ ClearDelinquency(r, TRUE) \/ ReadFailures(r) \/ CountFailure(r, TRUE)
  \/ Reply(r, TRUE) \/ Release(r)

\* A handler's calls end, and Stripe sends an event again until it is answered
\* 2xx (for three days, as its documentation says).
Fairness ==
  /\ \A r \in Runs : WF_vars(Step(r))
  /\ \A e \in Events : WF_vars(e \notin answered /\ \E r \in Runs : Claim(r, e))

FairSpec == Spec /\ Fairness

-----------------------------------------------------------------------------
(* Properties *)

\* However often an event is sent, released and claimed again, no two requests
\* work on it at a time, and the one that does holds its claim.
OneRunPerEvent ==
  \A q, r \in Runs : event[r] # NoEvent =>
    /\ event[r] \in claimed
    /\ event[q] = event[r] => q = r

FailuresHandled(s) == {e \in handled \intersect Failures : SubOf[e] = s}

\* Retries and repetitions do not inflate the count of failed charges: every
\* unit stands for another failed event, or for a write that was reported as
\* an error and repeated.
FailuresNotOvercounted ==
  \A s \in Subs : failures[s] <= Cardinality(FailuresHandled(s)) + phantom[s]

\* What Stripe was told is done is done, unless its run was cut off, or the
\* event was answered as a duplicate of a run that was still going on.
AnsweredIsHandled ==
  answered \subseteq handled \union orphaned \union hasty

\* Once its event is settled, the card Stripe charges by default is the one the
\* subscription shows, unless setup events of one subscription overlapped.
CardsAgree ==
  \A s \in Subs : card[s] # stripeCard[s] =>
    \/ Held(stripeCard[s])
    \/ stripeCard[s] \notin claimed
    \/ stripeCard[s] \in orphaned
    \/ s \in raced

\* Every event that happens is handled in the end, except those whose run was
\* cut off and those answered as duplicates of a run that then failed: again
\* and again nothing that was sent is open.
HandledOrCut == []<>(sent \subseteq handled \union orphaned \union hasty)

\* Claims are released "on handler failure for Stripe retry"
\* (stripe-webhook-repos.ts:2): what failed is handled in the end.
FailedIsRetried ==
  \A e \in Events : (\E r \in Runs : event[r] = e /\ pc[r] = "release") ~> e \in handled

\* An event whose handler came to its end is never handled again, however often
\* Stripe sends it and whatever fails: its claim is not given back.
HandledOnce ==
  [][\A r \in Runs : pc[r] = "idle" /\ pc'[r] # "idle" => event'[r] \notin handled]_vars

\* What was neither handled nor cut off nor answered too soon stays in Stripe's
\* hands: it is not answered, so that it is sent again, and its claim is free or
\* held by the run that works on it.
OpenEventsComeBack ==
  \A e \in sent \ (handled \union orphaned \union hasty) :
    e \notin answered /\ (e \in claimed => Held(e))

-----------------------------------------------------------------------------
(* The inductive invariant behind the safety properties *)

\* A claim is held by a run, or its event is handled, or it was orphaned.
ClaimsAccounted ==
  /\ \A e \in claimed : e \in handled \union orphaned \/ Held(e)
  /\ handled \subseteq claimed
  /\ \A r \in Runs : event[r] \in handled <=> pc[r] = "reply"

\* The number a run read is out of date at most in being too small.
ReadingsBounded ==
  \A r \in Runs, s \in Subs : pc[r] = "count" /\ SubOf[event[r]] = s =>
    seen[r] <= Cardinality(FailuresHandled(s)) + phantom[s]

\* A setup that set the default and has yet to save it still is the default, and
\* a default whose event is handled was saved, unless setups overlapped.
SetupsInOrder ==
  \A s \in Subs :
    /\ stripeCard[s] # NoEvent => SubOf[stripeCard[s]] = s
    /\ s \notin raced =>
         /\ \A r \in Runs : pc[r] = "save" /\ SubOf[event[r]] = s => stripeCard[s] = event[r]
         /\ stripeCard[s] \in handled => card[s] = stripeCard[s]

IInv ==
  /\ TypeOK
  /\ OneRunPerEvent
  /\ FailuresNotOvercounted
  /\ AnsweredIsHandled
  /\ ClaimsAccounted
  /\ ReadingsBounded
  /\ SetupsInOrder

=============================================================================
