SPECIFICATION Spec
CONSTANTS
  Handlers = {h1, h2}
  RequestIds = {r1, r2}
  Observer = TRUE
  PredGen = 1
  MaxGen = 2
  MaxJournal = 7
  MaxFaults = 1
INVARIANT AdmitsFollowApplied
CHECK_DEADLOCK FALSE
