SPECIFICATION Spec
CONSTANTS
  i1 = i1
  i2 = i2
  i3 = i3
  Invoices = {i1, i2}
  Roots = {i1}
  NoInvoice = NoInvoice
  RootTotal <- MCRootTotal
  Requests = {q1, q2}
  MaxEvents = 3
  MaxMishaps = 1
SYMMETRY InvoiceSymmetry
CHECK_DEADLOCK FALSE
INVARIANTS
  MoneyAccounted
  OverpaidByMishapsOnly
  NeverCollectibleTwice
  OneAnswerPerDispute
  NoDisputeIsStuck
PROPERTIES
  FollowsLegalTransitions
  ImplementsDocumentStatus
