------------------------- MODULE MCLoopbackTraffic -------------------------
(* The loopback traffic authority for TLC: handlers and request identities   *)
(* are interchangeable.                                                      *)
EXTENDS LoopbackTraffic, TLC

Symmetry == Permutations(Handlers) \cup Permutations(RequestIds)

=============================================================================
