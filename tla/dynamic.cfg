SPECIFICATION FairSpec
CONSTANTS
  MaxLaunch = 2
  Handlers = {h1, h2}
  RequestIds = {r1, r2}
  MaxGen = 2
  MaxFaults = 1
INVARIANT OpenIsCurrent
INVARIANT GenerationsDisjoint
INVARIANT DeliveredToBound
INVARIANT CompletedInOneGeneration
PROPERTY ReleasedByCurrent
PROPERTY RequestsEnd
CHECK_DEADLOCK FALSE
