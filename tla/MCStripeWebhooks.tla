-------------------------- MODULE MCStripeWebhooks --------------------------
(* Small instances of StripeWebhooks for TLC. *)
EXTENDS StripeWebhooks, TLC

\* Every event is about one subscription.
MCSubOf == [e \in Events |-> CHOOSE s \in Subs : TRUE]
=============================================================================
