SPECIFICATION FairSpec
CONSTANTS
  Setups = {c1, c2}
  Failures = {f1}
  Successes = {p1}
  Linked = {p1}
  NoEvent = NoEvent
  Subs = {s1}
  SubOf <- MCSubOf
  NoSub = NoSub
  Runs = {r1, r2}
  MaxFaults = 1
CHECK_DEADLOCK FALSE
INVARIANTS
  OneRunPerEvent
  FailuresNotOvercounted
  AnsweredIsHandled
  CardsAgree
PROPERTIES
  HandledOnce
  HandledOrCut
