SPECIFICATION Spec
CONSTANTS
  Leads = {l1}
  Deals = {d1, d2}
  NoCard = NoCard
  BdrLanes = {b1, b2}
  SalesLanes = {s1, s2}
  NoLane = NoLane
  SeedLanes = {b1, b2, s1, s2}
  SeedReady = b2
  Named = {l1}
  Requests = {q1, q2}
  MaxMishaps = 1
SYMMETRY RequestDealSymmetry
INVARIANTS
  TypeOK
  OneDealPerLead
  PromotedLeadsRest
  CardsOnBoard
CHECK_DEADLOCK FALSE
