--------------------------- MODULE MCExposureGate ---------------------------
(* The gate and its trace oracle for TLC. *)
EXTENDS TraceOracle, TLC

Symmetry == Permutations(Requests)

=============================================================================
