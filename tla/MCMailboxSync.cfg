SPECIFICATION FairSpec
CONSTANTS
  w1 = w1
  w2 = w2
  Provider = "gmail"
  Backlog = 2
  MaxMail = 3
  Sent <- MCSent
  Invites <- MCInvites
  Embedded <- MCEmbedded
  Runs = {w1, w2}
  MaxMishaps = 1
CHECK_DEADLOCK FALSE
INVARIANTS
  OneRowPerMessage
  NothingSkipped
PROPERTIES
  MissedForGood
  MirrorsInTheEnd
