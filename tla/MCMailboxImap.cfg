SPECIFICATION FairSpec
CONSTANTS
  w1 = w1
  w2 = w2
  Provider = "imap"
  Backlog = 2
  MaxMail = 2
  Sent <- MCSent
  Invites <- MCInvites
  Embedded <- MCEmbedded
  Runs = {w1}
  MaxMishaps = 0
CHECK_DEADLOCK FALSE
PROPERTY SentIsImported
