SPECIFICATION GatedSpec
CONSTANTS
  Requests = {r1}
  MaxJournal = 14
  Spare = 8
  MaxFaults = 2
  SilentFaults = FALSE
  BehavioralRestore = FALSE
INVARIANT FailedSafeIsShut
CHECK_DEADLOCK FALSE
