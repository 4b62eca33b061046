SPECIFICATION Spec
CONSTANTS
  Documents = {d1, d2, d3, d4, d5}
  NoDocument = NoDocument
  Requests = {r1, r2}
  MaxQuotes = 1
  MaxMishaps = 1
SYMMETRY IdSymmetry
CHECK_DEADLOCK FALSE
INVARIANTS
  OneLiveDocument
  RevisionsUnique
PROPERTIES
  FollowsLegalTransitions
  ImplementsDocumentStatus
