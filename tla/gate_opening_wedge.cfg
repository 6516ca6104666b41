SPECIFICATION FairSpec
CONSTANTS
  Requests = {r1}
  MaxJournal = 5
  MaxFaults = 2
  SilentFaults = FALSE
  BehavioralRestore = FALSE
PROPERTY OpeningResolves
CHECK_DEADLOCK FALSE
