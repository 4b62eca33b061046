--------------------------- MODULE MCSalesFunnel ---------------------------
(* Small instances of SalesFunnel for TLC. *)
EXTENDS SalesFunnel, TLC

\* Requests are interchangeable, and so are deals and the lanes of the Sales
\* board.
RequestDealSymmetry ==
  Permutations(Requests) \union Permutations(Deals)
  \union Permutations(SalesLanes)
=============================================================================
