SPECIFICATION MFairSpec
CONSTANTS
  a = a
  b = b
  c = c
  d = d
  Bundles = {a, b, c, d}
  Requires <- MCRequires
  Exclusive = {b, c}
  Blocked = {d}
  Selected = {b}
  MaxCommands = 2
  MaxInstalls = 1
  Descendants = {k1}
  MaxSignals = 2
  MaxErrors = 1
INVARIANT SelectionConsistent
INVARIANT LaunchedIsBound
INVARIANT NoOrphans
INVARIANT SignalPassedOn
PROPERTY ShutdownCompletes
CHECK_DEADLOCK FALSE
