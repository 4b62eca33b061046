------------------------- MODULE MCInvoiceLifecycle -------------------------
(* Constants of the instances of InvoiceLifecycle that TLC checks. *)
EXTENDS InvoiceLifecycle, TLC

CONSTANTS i1, i2, i3

\* Every root is worth two units, so that it can be paid in part.
MCRootTotal == [i \in Roots |-> 2]

\* Requests are alike, and so are the ids that revisions take.
InvoiceSymmetry == Permutations(Requests) \union Permutations(Invoices \ Roots)
=============================================================================
