SPECIFICATION Spec
CONSTANTS
  Inputs <- MCInputs
  Canonical <- MCCanonical
  AllowedModes <- MCAllowedModes
INVARIANTS
  VerdictIsReference
  PlanIsReference
  RecompileAgrees
CHECK_DEADLOCK FALSE
