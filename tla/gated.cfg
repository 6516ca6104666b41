SPECIFICATION GatedFairSpec
CONSTANTS
  Requests = {r1}
  MaxJournal = 14
  Spare = 8
  MaxFaults = 2
  SilentFaults = FALSE
  BehavioralRestore = FALSE
INVARIANT OutcomesAgree
INVARIANT AdmittedIsCommitted
INVARIANT ExposureOwned
PROPERTY GateMeetsContract
PROPERTY InDoubtResolves
CHECK_DEADLOCK FALSE
