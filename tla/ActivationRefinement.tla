------------------------ MODULE ActivationRefinement ------------------------
(* The coordinator over a plain traffic adapter implements the activation     *)
(* contract for every plan that no other plan names as its predecessor.       *)
EXTENDS ActivationCoordinator

CONSTANT Watched       \* the plan the contract is about

ASSUME WatchedAssumption ==
  /\ Watched \in Plans
  /\ \A p \in Plans : Pred[p] # Watched

(* The phase of the contract the activation row and the commit WAL row name.  *)
Phase ==
  CASE act[Watched].st \in {"RolledBack", "FailedSafe", "SafetyUnknown"} -> act[Watched].st
    [] act[Watched].st = "Effective" -> "effective"
    [] act[Watched].st = "CommitReady" -> "committed"
    [] OTHER -> IF Committed(Watched) THEN "lapsed" ELSE "candidate"

Contract == INSTANCE ActivationContract
              WITH phase <- Phase, exposed <- (traffic = Watched)

(* Every step of the coordinator, crashes and cut-off methods included, is a  *)
(* step of the activation contract or leaves its state alone.                 *)
CoordinatorMeetsContract == Contract!Spec

=============================================================================
