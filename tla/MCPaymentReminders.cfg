SPECIFICATION FairSpec
CONSTANTS
  Invoices = {i1}
  Addressed = {i1}
  Offset <- MCOffset
  Runs = {w1, w2}
  NoReminder = NoReminder
  Local = TRUE
  Horizon = 1
  MaxFaults = 1
INVARIANTS
  MailedOnce
PROPERTIES
  AbandonedForGood
  RemindedOrTorn
