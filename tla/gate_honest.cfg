SPECIFICATION FairSpec
CONSTANTS
  Requests = {r1}
  MaxJournal = 7
  MaxFaults = 2
  SilentFaults = FALSE
  BehavioralRestore = FALSE
INVARIANT CandidateExposureKnown
INVARIANT FailedSafeHeld
PROPERTY OpeningResolvesAlone
CHECK_DEADLOCK FALSE
