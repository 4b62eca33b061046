-------------------------- MODULE MCSalesDocuments --------------------------
(* Constants of the instances of SalesDocuments that TLC checks. *)
EXTENDS SalesDocuments, TLC

\* Documents take any id, and requests are alike.
IdSymmetry == Permutations(Documents) \union Permutations(Requests)
=============================================================================
