----------------------------- MODULE TraceOracle -----------------------------
(***************************************************************************)
(* evaluate_trace() of src/vllm_hust_ext/exposure_gate.py: the offline      *)
(* oracle that replays the gate's journal and admission table from raw rows *)
(* and reports PASS or FAIL, as predicates over the tables of ExposureGate. *)
(***************************************************************************)
EXTENDS ExposureGate

(* The transition table the oracle carries, written out a second time in the  *)
(* source; it has no entry for the terminal states.                           *)
OracleTargets(s) ==
  IF s = "DRAINING" THEN {"CANDIDATE_OPEN"} ELSE Targets(s)

(* Rows are paired by operation_id; open.reconcile reuses the id of its open. *)
OpId(o) == IF o = "open.reconcile" THEN "open" ELSE o

(* replay_state before row i. *)
Writers(i) == {k \in 1..(i - 1) : journal[k].to # Keep}
ReplayedBefore(i) ==
  IF Writers(i) = {} THEN "PREDECESSOR_OPEN"
  ELSE journal[CHOOSE k \in Writers(i) : \A m \in Writers(i) : m <= k].to

(* Is the operation id of row i in `pending` when the oracle reaches row i?   *)
PendingBefore(i, o) ==
  \E k \in 1..(i - 1) :
    /\ journal[k].kind = "intent" /\ OpId(journal[k].op) = OpId(o)
    /\ \A m \in (k + 1)..(i - 1) :
         ~(journal[m].kind = "receipt" /\ OpId(journal[m].op) = OpId(o))

SourceMatches(i) == journal[i].from = ReplayedBefore(i)

Paired(i) ==
  LET o == journal[i].op IN
    CASE journal[i].kind = "intent" -> ~PendingBefore(i, o)
      [] o = "stage" -> TRUE
      [] OTHER -> PendingBefore(i, o)

TargetKnown(i) ==
  \/ journal[i].to \in {Keep, ReplayedBefore(i)}
  \/ journal[i].to \in OracleTargets(ReplayedBefore(i))

RowAccepted(i) == SourceMatches(i) /\ Paired(i) /\ TargetKnown(i)

(* `unpaired intents` at the end of the replay. *)
NothingPending == \A o \in Ops : ~PendingBefore(Len(journal) + 1, o)

(* The first open receipt, and the final route it must explain. *)
OpenSeqs == {i \in DOMAIN journal : IsOpenReceipt(journal[i])}
FirstOpen == CHOOSE i \in OpenSeqs : \A k \in OpenSeqs : i <= k

FinalRouteExplained ==
  gs.st = "CANDIDATE_OPEN" =>
    OpenSeqs # {} /\ gs.routeGen = "cand" /\ gs.routeFence = "fence-cand"
                  /\ gs.obs = "cand"

AdmissionAccepted(a) ==
  CASE a.gen = "cand" -> OpenSeqs # {} /\ FirstOpen <= a.seq /\ a.fence = "fence-cand"
    [] a.gen = "pred" -> (OpenSeqs # {} => a.seq < FirstOpen) /\ a.fence = "fence-pred"
    [] OTHER -> FALSE

(* verdict = "PASS" *)
Passes ==
  /\ Len(journal) > 0
  /\ \A i \in DOMAIN journal : RowAccepted(i)
  /\ NothingPending
  /\ ReplayedBefore(Len(journal) + 1) = gs.st
  /\ FinalRouteExplained
  /\ \A r \in Requests : adm[r] # NotAdmitted => AdmissionAccepted(adm[r])

-----------------------------------------------------------------------------
(* The oracle's replay agrees with the gate after every step, crashes and     *)
(* recoveries included: it ends in the durable state, a CANDIDATE_OPEN row is *)
(* explained by an open receipt, and it meets no transition it does not know  *)
(* except out of DRAINING.                                                    *)
OracleReplaysState ==
  gs.st # NoRow =>
    /\ ReplayedBefore(Len(journal) + 1) = gs.st
    /\ FinalRouteExplained
    /\ \A i \in DOMAIN journal : TargetKnown(i) \/ ReplayedBefore(i) = "DRAINING"

(* The design document lists rollback() of a draining gate among the legal    *)
(* transitions: the oracle accepts the trace of such a rollback.              *)
OracleAcceptsDrainingRollback ==
  (Idle /\ \E i \in DOMAIN journal :
             journal[i].from = "DRAINING" /\ journal[i].to = "ROLLED_BACK")
    => Passes

=============================================================================
