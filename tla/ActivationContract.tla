------------------------- MODULE ActivationContract -------------------------
(***************************************************************************)
(* What an activation promises, whichever traffic gate serves it: the       *)
(* candidate is exposed only between its commit and its withdrawal, is      *)
(* reported effective only while it is exposed, and is reported rolled back *)
(* only when it is not.  A plan commits once; nothing is exposed any more   *)
(* once its commit has lapsed; an ended activation stays ended.             *)
(*                                                                         *)
(* commit(), rollback() and recover_after_crash() of the pure ReferenceModel *)
(* (ecpa_model.py) are the source of the phases; the durable coordinator is  *)
(* shown to implement them over a plain adapter (ActivationCoordinator) and  *)
(* over the exposure gate (GatedActivation).                                 *)
(***************************************************************************)
VARIABLES
  phase,     \* how far the activation has come
  exposed    \* does traffic reach the candidate?

contractVars == <<phase, exposed>>

Ended == {"RolledBack", "FailedSafe", "SafetyUnknown"}

Init == phase = "candidate" /\ exposed = FALSE

(* commit(): the generation moves, once.                                      *)
Commit == phase = "candidate" /\ phase' = "committed" /\ UNCHANGED exposed

Expose == phase = "committed" /\ exposed' = TRUE /\ UNCHANGED phase

(* The commit receipt: EFFECTIVE. *)
Confirm == phase = "committed" /\ exposed /\ phase' = "effective" /\ UNCHANGED exposed

Withdraw == exposed' = FALSE /\ UNCHANGED phase

(* A crash, a lost lease or the start of a rollback ends the standing of the  *)
(* commit before the traffic is moved.                                        *)
Lapse == phase \in {"committed", "effective"} /\ phase' = "lapsed" /\ UNCHANGED exposed

(* rollback(): the outcome. *)
End ==
  /\ phase \in {"candidate", "lapsed"}
  /\ phase' \in Ended
  /\ phase' = "RolledBack" => ~exposed
  /\ UNCHANGED exposed

Next == Commit \/ Expose \/ Confirm \/ Withdraw \/ Lapse \/ End

Spec == Init /\ [][Next]_contractVars

=============================================================================
