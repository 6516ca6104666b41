SPECIFICATION Spec
CONSTANTS
  Requests = {r1}
  MaxJournal = 8
  MaxFaults = 0
  SilentFaults = FALSE
  BehavioralRestore = FALSE
INVARIANT OracleAcceptsDrainingRollback
CHECK_DEADLOCK FALSE
