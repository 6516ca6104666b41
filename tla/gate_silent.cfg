SPECIFICATION Spec
CONSTANTS
  Requests = {r1, r2}
  MaxJournal = 7
  MaxFaults = 2
  SilentFaults = TRUE
  BehavioralRestore = TRUE
SYMMETRY Symmetry
INVARIANT AdmissionsFollowOpen
INVARIANT DrainReceiptIsFinal
INVARIANT OracleReplaysState
CHECK_DEADLOCK FALSE
