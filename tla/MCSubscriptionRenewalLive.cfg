SPECIFICATION FairSpec
CONSTANTS
  Subs = {s1, s2}
  NoSub = NoSub
  Subjects = {s1, s2}
  SubjectOf <- MCOwnSubject
  Plans = {p1}
  NoPlan = NoPlan
  TrialOf <- MCShortTrial
  Runs = {w1}
  Requests = {q1}
  Managed = {s1}
  Local = TRUE
  Horizon = 2
  MaxFaults = 1
CHECK_DEADLOCK FALSE
PROPERTIES
  CaughtUpOrTorn
