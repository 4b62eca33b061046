SPECIFICATION FairSpec
CONSTANTS
  Jobs = {j1, j2}
  Keys = {k1}
  NoKey = NoKey
  NoJob = NoJob
  Runs = {r1, r2}
  Priority <- MCPriority
  MaxAttempts = 2
  StaleLock = 1
  RetryUnit = 1
  KeepCompleted = 1
  KeepFailed = 1
  MaxFaults = 2
INVARIANTS
  RowConsistent
  GivenUpOnlyWhenExhausted
  NoOverlapBeforeStaleRelease
PROPERTIES
  LiveRowsSurvive
  ImplementsDelivery
  JobsArePurged
