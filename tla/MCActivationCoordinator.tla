---------------------- MODULE MCActivationCoordinator ----------------------
(* The coordinator for TLC: plans made for generation 0 of the base           *)
(* deployment, which compete for it when there are two.                       *)
EXTENDS ActivationRefinement, TLC

CONSTANT b      \* the plan with a proven fallback

NonceSymmetry == Permutations(Nonces)

AfterBase == [p \in Plans |-> Base]
Zero == [p \in Plans |-> 0]
FallbackOf == [p \in Plans |-> p = b]
AllRequired == [p \in Plans |-> Procs]

=============================================================================
