-------------------------- MODULE GatedActivation --------------------------
(***************************************************************************)
(* The durable coordinator driving the reference exposure gate: the         *)
(* branches of durable_coordinator.py taken when its traffic adapter is a   *)
(* ReferenceExposureGate, composed with the gate of ExposureGate.           *)
(*                                                                         *)
(* The coordinator and the gate keep separate databases.  A coordinator     *)
(* method starts a gate operation, waits for it and reads how it ended;     *)
(* co.pc is the place the coordinator has reached, call.pc the place the    *)
(* gate has.  A crash stops both between any two of their transactions; an  *)
(* adapter error stops the gate operation, which the coordinator then sees  *)
(* as an exception.                                                         *)
(***************************************************************************)
EXTENDS ExposureGate

CONSTANT Spare     \* bound: journal rows kept free for what recovery appends

ASSUME SpareAssumption == Spare \in Nat

VARIABLES
  st,           \* the activation row: the plan's state
  committed,    \* the commit WAL row, written with the generation update
  evidence,     \* valid evidence of this manager epoch covers every obligation
  hostReceipt,  \* the rollback.host receipt
  outcome,      \* the rollback_outcome rows, by their success column
  fallback,     \* plan.fallback_proven
  co            \* the coordinator method in progress

columns == <<committed, evidence, hostReceipt, outcome, fallback>>
tables == <<st, columns>>
gate == <<gs, journal, adm, route, leaseLive, call>>
gatedVars == <<vars, tables, co>>

-----------------------------------------------------------------------------
Absent == "Absent"
State == {"Planned", "Preparing", "Prepared", "Launching", "Observing",
          "CommitReady", "Effective", "Degraded", "Reconcile", "Rollback",
          "RolledBack", "FailedSafe", "SafetyUnknown"}

(* TRANSITIONS of durable_coordinator.py.                                     *)
Moves(s) ==
  CASE s = "Planned" -> {"Preparing"}
    [] s = "Preparing" -> {"Prepared", "Reconcile"}
    [] s = "Prepared" -> {"Launching", "Rollback"}
    [] s = "Launching" -> {"Observing", "Reconcile"}
    [] s = "Observing" -> {"CommitReady", "Degraded", "Reconcile", "Rollback"}
    [] s = "CommitReady" -> {"Effective", "Reconcile", "FailedSafe"}
    [] s = "Effective" -> {"Degraded", "Rollback"}
    [] s = "Degraded" -> {"Reconcile", "Rollback"}
    [] s = "Reconcile" -> {"Observing", "Rollback", "FailedSafe"}
    [] s = "Rollback" -> {"RolledBack", "FailedSafe", "SafetyUnknown"}
    [] OTHER -> {}

Move(t) == t \in Moves(st) /\ st' = t

(* Where the coordinator waits for the gate operation it called.              *)
Waits == {"prepare.wait", "commit.wait", "rollback.wait", "rollback.close.wait",
          "recover.rollback.wait", "recover.close.wait", "recover.commit.wait",
          "recover.undo.wait"}
CoPcs == Waits \cup
  {"idle", "plan.stage", "prepare.receipt", "prepare.close", "launch.receipt",
   "commit.open", "commit.receipt", "lease.fallback", "rollback.wal",
   "rollback.host", "rollback.gate", "rollback.close", "rollback.commit",
   "recover.close", "recover.finish", "recover.commit", "recover.undo"}

CoAt(p) == co.pc = p
CoIdle == CoAt("idle")
CoGoto(p) == co' = [co EXCEPT !.pc = p]
CoDone == [pc |-> "idle", tgt |-> Absent]
CoEnd == co' = CoDone
CoEndAt(p, t) == co' = [pc |-> p, tgt |-> t]

(* The coordinator has called the gate and its operation is over.             *)
Answered(p) == CoAt(p) /\ At("idle")
Returned == call.ret = "ok"

Local == UNCHANGED vars                  \* a step of the coordinator alone
Staged == gs.st # NoRow                  \* _row() finds the gate's row
Roomy == Len(journal) + Spare <= MaxJournal

-----------------------------------------------------------------------------
(* plan(plan): the row, then gate.stage(); a refused stage deletes the row.   *)
PlanInsert ==
  /\ CoIdle /\ st = Absent
  /\ st' = "Planned"
  /\ CoGoto("plan.stage")
  /\ Local /\ UNCHANGED columns

PlanStage ==
  /\ CoAt("plan.stage")
  /\ Stage
  /\ CoEnd
  /\ UNCHANGED tables

PlanUndo ==
  /\ CoAt("plan.stage")
  /\ \/ route # PredRoute /\ budget' = budget
     \/ Spend
  /\ st' = Absent
  /\ CoEnd
  /\ UNCHANGED <<gate, columns>>

(* prepare(plan_id): the receipt is committed before gate.close().            *)
PrepareWal ==
  /\ CoIdle
  /\ Move("Preparing")
  /\ CoGoto("prepare.receipt")
  /\ Local /\ UNCHANGED columns

PrepareReceipt ==
  /\ CoAt("prepare.receipt")
  /\ Move("Prepared")
  /\ CoGoto("prepare.close")
  /\ Local /\ UNCHANGED columns

PrepareClose ==
  /\ CoAt("prepare.close")
  /\ \/ CloseIntent /\ CoGoto("prepare.wait")
     \/ (~Staged \/ gs.st = "CANDIDATE_CLOSED") /\ Local /\ CoEnd
  /\ UNCHANGED tables

(* close() returned or raised: the plan is Prepared either way.               *)
PrepareEnd ==
  /\ Answered("prepare.wait")
  /\ CoEnd
  /\ Local /\ UNCHANGED tables

LaunchWal ==
  /\ CoIdle
  /\ Move("Launching")
  /\ CoGoto("launch.receipt")
  /\ Local /\ UNCHANGED columns

LaunchReceipt ==
  /\ CoAt("launch.receipt")
  /\ Move("Observing")
  /\ CoEnd
  /\ Local /\ UNCHANGED columns

(* observe() until every obligation is covered; refresh_inventory() voids it. *)
Observe ==
  /\ CoIdle
  /\ st \in {"Observing", "Reconcile"}
  /\ evidence' \in BOOLEAN
  /\ Local /\ UNCHANGED <<st, committed, hostReceipt, outcome, fallback, co>>

-----------------------------------------------------------------------------
(* mutant: the gate is opened before the WAL row is written.                   *)
CommitUnlogged ==
  /\ CoIdle
  /\ evidence
  /\ ~committed
  /\ Move("CommitReady")
  /\ CoGoto("commit.open")
  /\ Local /\ UNCHANGED columns

(* commit(plan_id, generation).  The plan's own commit is the only thing that *)
(* moves the generation here, so the CAS passes once.                         *)
CommitWal ==
  /\ CoIdle
  /\ evidence
  /\ ~committed
  /\ Move("CommitReady")
  /\ committed' = TRUE
  /\ CoGoto("commit.open")
  /\ Local /\ UNCHANGED <<evidence, hostReceipt, outcome, fallback>>

(* gate.open() with the proof _open_proof() makes: bound to this plan and     *)
(* generation, over evidence rows that are there, under the current grant.    *)
OpenProof == [bound |-> TRUE, covered |-> evidence, staged |-> leaseLive]
CanOpen == Staged /\ Accepts(OpenProof) /\ "OPENING" \in Targets(gs.st)

CommitOpen ==
  /\ CoAt("commit.open")
  /\ \/ OpenIntent(OpenProof) /\ CoGoto("commit.wait")
     \/ ~CanOpen /\ Local /\ CoEnd
  /\ UNCHANGED tables

CommitAssumed == gs.st \in GateState                      \* mutant
CommitOpened == Returned /\ gs.st = "CANDIDATE_OPEN"

CommitAnswer ==
  /\ Answered("commit.wait")
  /\ IF CommitOpened THEN CoGoto("commit.receipt") ELSE CoEnd
  /\ Local /\ UNCHANGED tables

GateReceipt ==
  /\ CoAt("commit.receipt")
  /\ Move("Effective")
  /\ CoEnd
  /\ Local /\ UNCHANGED columns

(* external_lease_lost(plan_id). *)
LeaseDegrade ==
  /\ CoIdle
  /\ Move("Degraded")
  /\ CoGoto(IF fallback THEN "lease.fallback" ELSE "rollback.wal")
  /\ Local /\ UNCHANGED columns

LeaseFallback ==
  /\ CoAt("lease.fallback")
  /\ Move("Reconcile")
  /\ CoEnd
  /\ Local /\ UNCHANGED columns

-----------------------------------------------------------------------------
(* rollback(plan_id, reason).                                                 *)
RollbackWal ==
  /\ CoIdle \/ CoAt("rollback.wal")
  /\ Move("Rollback")
  /\ CoGoto("rollback.host")
  /\ Local /\ UNCHANGED columns

(* host.rollback() and its receipt, which records a failure too.              *)
RollbackHost ==
  /\ CoAt("rollback.host")
  /\ \/ hostReceipt' = "done" /\ budget' = budget
     \/ hostReceipt' = "failed" /\ Spend
  /\ CoGoto("rollback.gate")
  /\ UNCHANGED <<gate, st, committed, evidence, outcome, fallback>>

(* gate.rollback() after a host that was undone, gate.fail_close() otherwise. *)
RollbackGate ==
  /\ CoAt("rollback.gate")
  /\ \/ Staged /\ hostReceipt = "done" /\ RollbackIntent(FALSE) /\ CoGoto("rollback.wait")
     \/ Staged /\ hostReceipt = "failed" /\ FailCloseCall /\ CoGoto("rollback.wait")
     \/ ~Staged /\ Local /\ CoEndAt("rollback.commit", "SafetyUnknown")
  /\ UNCHANGED tables

VerdictOfGate ==                                           \* mutant
  CASE gs.st = "SAFETY_UNKNOWN" -> "SafetyUnknown"
    [] gs.st = "FAILED_SAFE" -> "FailedSafe"
    [] OTHER -> "RolledBack"

Verdict ==
  CASE gs.st = "SAFETY_UNKNOWN" -> "SafetyUnknown"
    [] gs.st = "FAILED_SAFE" \/ hostReceipt # "done" -> "FailedSafe"
    [] OTHER -> "RolledBack"

RollbackAnswer ==
  /\ Answered("rollback.wait")
  /\ IF Returned THEN CoEndAt("rollback.commit", Verdict) ELSE CoGoto("rollback.close")
  /\ Local /\ UNCHANGED tables

(* The gate raised: fail_close(), and SAFETY_UNKNOWN when that raises too.    *)
RollbackFailClose ==
  /\ CoAt("rollback.close")
  /\ FailCloseCall
  /\ CoGoto("rollback.close.wait")
  /\ UNCHANGED tables

RollbackClosed ==
  /\ Answered("rollback.close.wait")
  /\ CoEndAt("rollback.commit", IF Returned THEN Verdict ELSE "SafetyUnknown")
  /\ Local /\ UNCHANGED tables

RollbackOutcome ==
  /\ CoAt("rollback.commit")
  /\ Move(co.tgt)
  /\ outcome' = outcome \cup {co.tgt = "RolledBack"}
  /\ CoEnd
  /\ Local /\ UNCHANGED <<committed, evidence, hostReceipt, fallback>>

-----------------------------------------------------------------------------
(* recover(plan_id).  gate.reconcile() is a gate operation when the journal   *)
(* or the OPENING state leaves it something to do, and a read otherwise.      *)
Reconcilable ==
  PendingFailClose \/ PendingRecovery \/ PendingRollback \/ gs.st = "OPENING"

GateReconcile(p) ==
  \/ Reconcile /\ CoGoto(p)
  \/ Idle /\ ~Reconcilable /\ call' = Done("ok") /\ CoGoto(p)
       /\ UNCHANGED <<gs, journal, adm, route, leaseLive, budget>>
  \/ ~Staged /\ Local /\ CoEnd

RecoverRollback ==
  /\ CoIdle /\ st = "Rollback"
  /\ GateReconcile("recover.rollback.wait")
  /\ UNCHANGED tables

(* A missing host receipt, or a gate in no terminal state: fail_close().      *)
NeedsClose == hostReceipt = "none" \/ (hostReceipt = "done" /\ gs.st \notin Terminal)

RecoverAnswer ==
  /\ Answered("recover.rollback.wait")
  /\ CASE ~Returned -> CoEnd
       [] Returned /\ NeedsClose -> CoGoto("recover.close")
       [] OTHER -> CoEndAt("recover.finish", Verdict)
  /\ Local /\ UNCHANGED tables

RecoverClose ==
  /\ CoAt("recover.close")
  /\ FailCloseCall
  /\ CoGoto("recover.close.wait")
  /\ UNCHANGED tables

RecoverClosed ==
  /\ Answered("recover.close.wait")
  /\ IF Returned THEN CoEndAt("recover.finish", Verdict) ELSE CoEnd
  /\ Local /\ UNCHANGED tables

RecoverFinish ==
  /\ CoAt("recover.finish")
  /\ Move(co.tgt)
  /\ outcome' = outcome \cup {co.tgt = "RolledBack"}
  /\ CoEnd
  /\ Local /\ UNCHANGED <<committed, evidence, hostReceipt, fallback>>

(* CommitReady: the gate knows whether the open happened.                     *)
RecoverCommitReady ==
  /\ CoIdle /\ st = "CommitReady"
  /\ GateReconcile("recover.commit.wait")
  /\ UNCHANGED tables

(* mutants: recover() takes an open gate for a closed one, or leaves it.        *)
RecoverOpenAsLost ==
  /\ Answered("recover.commit.wait")
  /\ CASE ~Returned -> CoEnd
       [] Returned /\ gs.st = "CANDIDATE_CLOSED" -> CoGoto("recover.undo")
       [] OTHER -> CoEndAt("recover.commit", "Reconcile")
  /\ Local /\ UNCHANGED tables

RecoverOpenIgnored ==
  /\ Answered("recover.commit.wait")
  /\ CASE ~Returned \/ gs.st = "CANDIDATE_OPEN" -> CoEnd
       [] Returned /\ gs.st = "CANDIDATE_CLOSED" -> CoGoto("recover.undo")
       [] OTHER -> CoEndAt("recover.commit", "Reconcile")
  /\ Local /\ UNCHANGED tables

RecoverCommitAnswer ==
  /\ Answered("recover.commit.wait")
  /\ CASE ~Returned -> CoEnd
       [] Returned /\ gs.st = "CANDIDATE_OPEN" -> CoEndAt("recover.commit", "Effective")
       [] Returned /\ gs.st = "CANDIDATE_CLOSED" -> CoGoto("recover.undo")
       [] OTHER -> CoEndAt("recover.commit", "Reconcile")
  /\ Local /\ UNCHANGED tables

RecoverCommit ==
  /\ CoAt("recover.commit")
  /\ Move(co.tgt)
  /\ CoEnd
  /\ Local /\ UNCHANGED columns

(* A candidate that was never opened: gate.rollback(), then Reconcile.        *)
RecoverEarly ==
  /\ CoIdle
  /\ st \in {"Preparing", "Launching"} \/ (st = "Observing" /\ Roomy)
  /\ Staged
  /\ CoGoto("recover.undo")
  /\ Local /\ UNCHANGED tables

RecoverUndo ==
  /\ CoAt("recover.undo")
  /\ RollbackIntent(FALSE)
  /\ CoGoto("recover.undo.wait")
  /\ UNCHANGED tables

RecoverUndone ==
  /\ Answered("recover.undo.wait")
  /\ IF Returned THEN CoEndAt("recover.commit", "Reconcile") ELSE CoEnd
  /\ Local /\ UNCHANGED tables

(* resume_observing(plan_id): whatever the table allows.                      *)
ResumeObserving ==
  /\ CoIdle /\ Roomy
  /\ Move("Observing")
  /\ CoEnd
  /\ Local /\ UNCHANGED columns

-----------------------------------------------------------------------------
(* The data plane and the operator call the gate between the coordinator's    *)
(* own gate calls.                                                            *)
GateFree == co.pc \notin Waits /\ At("idle")

DataPlane ==
  /\ GateFree
  /\ Traffic \/ AdmitMismatch \/ (Roomy /\ DrainIntent)
  /\ UNCHANGED <<tables, co>>

GateRuns ==
  /\ Continue
  /\ UNCHANGED <<tables, co>>

(* traffic.close(), open() or query_route() raises where the gate does not    *)
(* catch it: the coordinator sees an exception.                               *)
AdapterError ==
  /\ call.pc \in {"close.query", "open.effect", "open.query"}
  /\ CutOff
  /\ UNCHANGED <<tables, co>>

(* A host adapter raises and the coordinator's method does not catch it.      *)
MethodError ==
  /\ co.pc \in {"prepare.receipt", "launch.receipt"}
  /\ Spend
  /\ CoEnd
  /\ UNCHANGED <<gate, tables>>

(* The manager dies with its gate; the next one voids all evidence.           *)
Restart ==
  /\ Spend
  /\ call' = Done("raised")
  /\ evidence' = FALSE
  /\ CoEnd
  /\ UNCHANGED <<gs, journal, adm, route, leaseLive, st, committed, hostReceipt, outcome,
                 fallback>>

GrantLost ==
  /\ LeaseLost
  /\ UNCHANGED <<tables, co>>

(* The predecessor's route changes identity before the candidate is opened.   *)
PredecessorDrift ==
  /\ route.gen = "pred"
  /\ Drift
  /\ UNCHANGED <<tables, co>>

-----------------------------------------------------------------------------
GatedInit ==
  /\ Init
  /\ st = Absent
  /\ committed = FALSE
  /\ evidence = FALSE
  /\ hostReceipt = "none"
  /\ outcome = {}
  /\ fallback \in BOOLEAN
  /\ co = CoDone

Forward ==
  \/ PlanInsert \/ PrepareWal \/ LaunchWal \/ Observe \/ CommitWal
  \/ LeaseDegrade \/ (CoIdle /\ RollbackWal) \/ ResumeObserving

CoContinue ==
  \/ PlanStage \/ PlanUndo \/ PrepareReceipt \/ PrepareClose \/ PrepareEnd
  \/ LaunchReceipt \/ CommitOpen \/ CommitAnswer \/ GateReceipt \/ LeaseFallback
  \/ (CoAt("rollback.wal") /\ RollbackWal)
  \/ RollbackHost \/ RollbackGate \/ RollbackAnswer \/ RollbackFailClose
  \/ RollbackClosed \/ RollbackOutcome
  \/ RecoverAnswer \/ RecoverClose \/ RecoverClosed \/ RecoverFinish
  \/ RecoverCommitAnswer \/ RecoverCommit \/ RecoverUndo \/ RecoverUndone

Recover == RecoverRollback \/ RecoverCommitReady \/ RecoverEarly

Disturb == AdapterError \/ MethodError \/ Restart \/ GrantLost \/ PredecessorDrift

GatedNext == Forward \/ CoContinue \/ Recover \/ GateRuns \/ DataPlane \/ Disturb

GatedSpec == GatedInit /\ [][GatedNext]_gatedVars

-----------------------------------------------------------------------------
(* Properties. *)

(* Every table and every local variable of the composition has its type.      *)
GatedTypeOK ==
  /\ TypeOK
  /\ st \in State \cup {Absent}
  /\ committed \in BOOLEAN
  /\ evidence \in BOOLEAN
  /\ hostReceipt \in {"none", "done", "failed"}
  /\ outcome \subseteq BOOLEAN
  /\ fallback \in BOOLEAN
  /\ co \in [pc: CoPcs, tgt: State \cup {Absent}]

(* The phase of the activation contract a gated plan is in.                   *)
Phase ==
  CASE st \in {"RolledBack", "FailedSafe", "SafetyUnknown"} -> st
    [] st = "Effective" -> "effective"
    [] st = "CommitReady" -> "committed"
    [] OTHER -> IF committed THEN "lapsed" ELSE "candidate"

Contract == INSTANCE ActivationContract
              WITH phase <- Phase, exposed <- (route.gen = "cand")

(* The coordinator over the exposure gate keeps the activation contract:      *)
(* through crashes and adapter errors between the two databases the candidate *)
(* is exposed only between its commit and its withdrawal, is Effective only   *)
(* when exposed, and is RolledBack only when it is not.                       *)
GateMeetsContract == Contract!Spec

(* The two databases agree on the outcomes that matter: a plan is Effective   *)
(* only over an open gate, RolledBack only over a gate that measured the      *)
(* predecessor route, SafetyUnknown never over a gate still open for          *)
(* admission.                                                                 *)
OutcomesAgree ==
  /\ st = "Effective" => gs.st \in Exposed
  /\ st = "RolledBack" => gs.st = "ROLLED_BACK" /\ hostReceipt = "done"
  /\ st = "SafetyUnknown" => gs.st \notin Exposed

(* A request reaches the candidate only behind the commit WAL row of the      *)
(* other database.                                                            *)
AdmittedIsCommitted == \A r \in Requests : adm[r].gen = "cand" => committed

(* A gate that admits requests to the candidate has an owner: the plan is     *)
(* committing, effective or being rolled back.  Otherwise the plan has a      *)
(* proven fallback, or recover() took a draining gate for one that is not     *)
(* open, or it ended a rollback whose host part had failed.                   *)
ExposureOwned ==
  gs.st \in Exposed =>
    \/ st \in {"CommitReady", "Effective", "Degraded", "Rollback"}
    \/ fallback
    \/ Has(journal, "intent", "drain")
    \/ st = "FailedSafe" /\ hostReceipt = "failed"

(* The gate refuses what recover() asks of it: it has no row, a rollback is   *)
(* pending while it is OPENING, or it is terminal and a compensation that     *)
(* would give another verdict is still asked for.  The last also holds for a  *)
(* moment in compensations that succeed.                                      *)
Wedged ==
  \/ ~Staged
  \/ PendingRollback /\ gs.st = "OPENING"
  \/ gs.st \in Terminal /\ (PendingFailClose \/ PendingRollback)

InDoubt == st \in {"Preparing", "Launching", "CommitReady", "Rollback"}

(* Fairness: methods run on whenever the gate is free, gate operations run on *)
(* and the manager gets round to recover() between its other calls.           *)
GatedFairSpec ==
  /\ GatedSpec
  /\ SF_gatedVars(CoContinue)
  /\ WF_gatedVars(GateRuns)
  /\ SF_gatedVars(Recover)

(* Crashes between the two databases are recovered from: a plan left in doubt *)
(* is resolved by recover() unless the gate stays wedged for ever.            *)
InDoubtResolves == InDoubt ~> (~InDoubt \/ []Wedged)

(* reference-exposure-gate.md: FAILED_SAFE "is reported only after an actual  *)
(* route query proves all traffic closed"; so the candidate, which the failed *)
(* plan would have exposed, takes no request.                                 *)
FailedSafeIsShut == st = "FailedSafe" => route.gen # "cand"

=============================================================================
