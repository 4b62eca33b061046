------------------------- MODULE MCPaymentReminders -------------------------
(* Small instances of PaymentReminders for TLC. *)
EXTENDS PaymentReminders

\* The first reminder is due with the invoice, the second a day later.
MCOffset == [k \in Kinds |-> IF k = "first" THEN -1 ELSE 1]
=============================================================================
