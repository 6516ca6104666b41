SPECIFICATION FairSpec
CONSTANTS
  b = b
  Base = base
  Watched = a
  Plans = {a, b}
  Pred <- AfterBase
  PredGen <- Zero
  Fallback <- FallbackOf
  Procs = {w0}
  Required <- AllRequired
  LaunchIds = {l1}
  Nonces = {n1, n2}
  MaxInc = 1
  MaxFaults = 1
INVARIANT OneCommitPerGeneration
PROPERTY InDoubtResolves
CHECK_DEADLOCK FALSE
