SPECIFICATION Spec
CONSTANTS
  Requests = {r1}
  MaxJournal = 7
  MaxFaults = 0
  SilentFaults = FALSE
  BehavioralRestore = FALSE
INVARIANT FailedSafeIsClosed
CHECK_DEADLOCK FALSE
