SPECIFICATION FairSpec
CONSTANTS
  Setups = {}
  Failures = {f1}
  Successes = {}
  Linked = {}
  NoEvent = NoEvent
  Subs = {s1}
  SubOf <- MCSubOf
  NoSub = NoSub
  Runs = {r1, r2}
  MaxFaults = 1
CHECK_DEADLOCK FALSE
PROPERTY
  FailedIsRetried
