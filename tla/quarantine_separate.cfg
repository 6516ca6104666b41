SPECIFICATION FairSpec
CONSTANTS
  j1 = j1
  j2 = j2
  Txns = {1, 2}
  Journals = {j1, j2}
  JournalOf <- Separate
  MaxLen = 2
  MaxInode = 2
  MaxFaults = 2
  LateErrors = FALSE
  Foreign = FALSE
INVARIANT FencedWhileAway
PROPERTY IntentResolves
CHECK_DEADLOCK FALSE
