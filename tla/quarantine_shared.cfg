SPECIFICATION Spec
CONSTANTS
  j1 = j1
  j2 = j2
  Txns = {1, 2}
  Journals = {j1}
  JournalOf <- Shared
  MaxLen = 2
  MaxInode = 3
  MaxFaults = 3
  LateErrors = TRUE
  Foreign = TRUE
INVARIANT FinalizedStaysQuarantined
INVARIANT RestoredIsReleased
PROPERTY EvidencePreserved
CHECK_DEADLOCK FALSE
