SPECIFICATION Spec
CONSTANTS
  Subs = {s1}
  NoSub = NoSub
  Subjects = {u1}
  SubjectOf <- MCSubjectOf
  Plans = {p1, p2}
  NoPlan = NoPlan
  TrialOf <- MCTrialOf
  Runs = {w1, w2}
  Requests = {q1, q2}
  Managed = {s1}
  Local = FALSE
  Horizon = 2
  MaxFaults = 2
SYMMETRY RunRequestSymmetry
INVARIANTS
  LedgerWithoutGaps
  AtMostOneChargeAfterCancel
  LastPeriodAfterCancel
  EarlyChargesAreReruns
PROPERTIES
  PeriodsRollForward
CHECK_DEADLOCK FALSE
