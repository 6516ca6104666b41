SPECIFICATION Spec
CONSTANTS
  b = b
  Base = base
  Watched = a
  Plans = {a}
  Pred <- AfterBase
  PredGen <- Zero
  Fallback <- FallbackOf
  Procs = {w0, w1}
  Required <- AllRequired
  LaunchIds = {l1}
  Nonces = {n1, n2, n3, n4}
  MaxInc = 2
  MaxFaults = 2
INVARIANT CandidateTrafficCommitted
PROPERTY EffectiveIsAttested
PROPERTY NoEvidenceReplay
PROPERTY CoordinatorMeetsContract
SYMMETRY NonceSymmetry
CHECK_DEADLOCK FALSE
