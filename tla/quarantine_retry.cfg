SPECIFICATION FairSpec
CONSTANTS
  j1 = j1
  j2 = j2
  Txns = {1, 2}
  Journals = {j1}
  JournalOf <- Shared
  MaxLen = 2
  MaxInode = 2
  MaxFaults = 1
  LateErrors = FALSE
  Foreign = FALSE
PROPERTY IntentResolves
CHECK_DEADLOCK FALSE
