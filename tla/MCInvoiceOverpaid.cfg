SPECIFICATION Spec
CONSTANTS
  i1 = i1
  i2 = i2
  i3 = i3
  Invoices = {i1}
  Roots = {i1}
  NoInvoice = NoInvoice
  RootTotal <- MCRootTotal
  Requests = {q1, q2}
  MaxEvents = 0
  MaxMishaps = 1
CHECK_DEADLOCK FALSE
INVARIANT PaymentsWithinTotal
