------------------------ MODULE ActivationCoordinator ------------------------
(***************************************************************************)
(* The durable activation coordinator                                      *)
(* (src/vllm_hust_ext/durable_coordinator.py) over its SQLite store, with a *)
(* host adapter, an evidence verifier and a plain TrafficGate adapter.      *)
(*                                                                         *)
(* One manager serves many plans from one database.  A public method is a   *)
(* sequence of steps, one per SQLite transaction and one per adapter call;  *)
(* call.pc is the place it has reached.  A call may be cut off by an        *)
(* exception (CutOff), which leaves the manager running, or by a crash      *)
(* (Restart), after which a new coordinator boots with the next manager     *)
(* epoch.  Calls refused before their first write are stuttering steps.     *)
(***************************************************************************)
EXTENDS Naturals

CONSTANTS
  Plans,        \* plan identities; each plan is immutable
  Base,         \* the predecessor deployment no plan of this database made
  Pred,         \* plan.predecessor.plan_id
  PredGen,      \* plan.predecessor.generation
  Fallback,     \* plan.fallback_proven
  Procs,        \* (role, ordinal) slots of the host
  Required,     \* slots some evidence obligation of the plan names
  LaunchIds,
  Nonces,
  MaxInc,       \* bound: process start epochs 1..MaxInc
  MaxFaults     \* bound: crashes, exceptions, failed compensations, lease losses

ASSUME CoordinatorConstants ==
  /\ Base \notin Plans
  /\ Pred \in [Plans -> Plans \cup {Base}]
  /\ PredGen \in [Plans -> Nat]
  /\ Fallback \in [Plans -> BOOLEAN]
  /\ Required \in [Plans -> (SUBSET Procs) \ {{}}]
  /\ MaxInc \in Nat \ {0}
  /\ MaxFaults \in Nat

VARIABLES
  act,      \* the activation table: state and launch_id of every plan
  wal,      \* journal rows the code's recovery story rests on, as a set
  gen,      \* meta.generation
  epoch,    \* meta.manager_epoch, which the running coordinator also holds
  inv,      \* the inventory table: recorded start epoch of a slot, 0 if none
  ev,       \* the evidence table, a set of rows
  outcome,  \* the rollback_outcome table
  traffic,  \* the plan the TrafficGate adapter routes to
  host,     \* actual start epoch of a slot of a plan's launch, 0 if not running
  lease,    \* external.lease_valid()
  call,     \* the method in progress
  budget    \* faults still to come

db == <<act, wal, gen, epoch, inv, ev, outcome>>
env == <<traffic, host, lease>>
vars == <<db, env, call, budget>>

-----------------------------------------------------------------------------
(* TRANSITIONS.  INTENT is never stored: a plan's first row is PLANNED.       *)
Absent == "Absent"
State == {"Planned", "Preparing", "Prepared", "Launching", "Observing",
          "CommitReady", "Effective", "Degraded", "Reconcile", "Rollback",
          "RolledBack", "FailedSafe", "SafetyUnknown"}

Targets(s) ==
  CASE s = "Planned" -> {"Preparing"}
    [] s = "Preparing" -> {"Prepared", "Reconcile"}
    [] s = "Prepared" -> {"Launching", "Rollback"}
    [] s = "Launching" -> {"Observing", "Reconcile"}
    [] s = "Observing" -> {"CommitReady", "Degraded", "Reconcile", "Rollback"}
    [] s = "CommitReady" -> {"Effective", "Reconcile", "FailedSafe"}
    [] s = "Effective" -> {"Degraded", "Rollback"}
    [] s = "Degraded" -> {"Reconcile", "Rollback"}
    [] s = "Reconcile" -> {"Observing", "Rollback", "FailedSafe"}
    [] s = "Rollback" -> {"RolledBack", "FailedSafe", "SafetyUnknown"}
    [] OTHER -> {}

NoLaunch == "no-launch"
Slots == 0..MaxInc

(* An evidence row: the columns _evidence_complete() and observe() compare.   *)
(* fresh is expires_at >= now; accepted rows keep every other column.         *)
Evidence == [nonce: Nonces, plan: Plans, launch: LaunchIds, proc: Procs, inc: 1..MaxInc,
             mgr: Nat, valid: BOOLEAN, fresh: BOOLEAN]

Pcs == {"idle", "plan.hold", "prepare.receipt", "launch.effect", "launch.receipt",
        "commit.effect", "commit.receipt", "lease.fallback", "rollback.wal",
        "rollback.host", "rollback.receipt", "rollback.restore", "rollback.commit",
        "recover.commit"}
Ops == {"prepare", "launch", "commit", "rollback", "rollback.host"}

Call == [pc: Pcs, plan: Plans \cup {Base}, inv: [Procs -> Slots], err: BOOLEAN]
Nowhere == [q \in Procs |-> 0]
Done == [pc |-> "idle", plan |-> Base, inv |-> Nowhere, err |-> FALSE]

At(p) == call.pc = p
Idle == At("idle")
Goto(pc, p) == call' = [call EXCEPT !.pc = pc, !.plan = p]
Return == call' = Done
Spend == budget > 0 /\ budget' = budget - 1

(* _transition: a target the table refuses raises and aborts the transaction. *)
CanMove(p, t) == t \in Targets(act[p].st)
Moved(p, t) == [act EXCEPT ![p].st = t]
Transition(p, t) == CanMove(p, t) /\ act' = Moved(p, t)

Log(p, kind, op) == wal' = wal \cup {<<p, kind, op>>}

-----------------------------------------------------------------------------
(* plan(plan): the row, then traffic.hold_predecessor().                      *)
PlanInsert(p) ==
  /\ Idle
  /\ act[p].st = Absent
  /\ act' = [act EXCEPT ![p].st = "Planned"]
  /\ Goto("plan.hold", p)
  /\ UNCHANGED <<wal, gen, epoch, inv, ev, outcome, env, budget>>

PlanHold ==
  /\ At("plan.hold")
  /\ traffic' = Pred[call.plan]
  /\ Return
  /\ UNCHANGED <<db, host, lease, budget>>

(* prepare(plan_id): WAL, host.prepare(), receipt.                            *)
PrepareWal(p) ==
  /\ Idle
  /\ Transition(p, "Preparing")
  /\ Log(p, "wal", "prepare")
  /\ Goto("prepare.receipt", p)
  /\ UNCHANGED <<gen, epoch, inv, ev, outcome, env, budget>>

PrepareReceipt ==
  /\ At("prepare.receipt")
  /\ Transition(call.plan, "Prepared")
  /\ Log(call.plan, "receipt", "prepare")
  /\ Return
  /\ UNCHANGED <<gen, epoch, inv, ev, outcome, env, budget>>

(* launch(plan_id, launch_id): WAL and launch id, host.launch(), then the     *)
(* inventory it returned and the receipt.                                     *)
LaunchWal(p, l) ==
  /\ Idle
  /\ CanMove(p, "Launching")
  /\ act' = [act EXCEPT ![p] = [st |-> "Launching", launch |-> l]]
  /\ Log(p, "wal", "launch")
  /\ Goto("launch.effect", p)
  /\ UNCHANGED <<gen, epoch, inv, ev, outcome, env, budget>>

(* The host may bring up only some of the slots.                              *)
LaunchEffect ==
  /\ At("launch.effect")
  /\ \E up \in SUBSET Procs :
       LET started == [q \in Procs |-> IF q \in up THEN 1 ELSE 0] IN
         /\ host' = [host EXCEPT ![call.plan] = started]
         /\ call' = [call EXCEPT !.pc = "launch.receipt", !.inv = started]
  /\ UNCHANGED <<db, traffic, lease, budget>>

LaunchReceipt ==
  /\ At("launch.receipt")
  /\ inv' = [inv EXCEPT ![call.plan] = call.inv]
  /\ Transition(call.plan, "Observing")
  /\ Log(call.plan, "receipt", "launch")
  /\ Return
  /\ UNCHANGED <<gen, epoch, ev, outcome, env, budget>>

-----------------------------------------------------------------------------
(* observe(plan_id, item): the attestation must name this plan, its launch    *)
(* and the recorded start epoch of its slot, and bring an unused nonce; the   *)
(* verifier admits it only within its validity window.                        *)
Matches(p, l, q, i) == l = act[p].launch /\ inv[p][q] = i

UnusedNow(n) == \A e \in ev : e.nonce = n => ~e.valid      \* mutant
Unused(n) == \A e \in ev : e.nonce # n

Observe(p, n, l, q, i) ==
  /\ Idle
  /\ act[p].st \in {"Observing", "Reconcile"}
  /\ Matches(p, l, q, i)
  /\ Unused(n)
  /\ ev' = ev \cup {[nonce |-> n, plan |-> p, launch |-> l, proc |-> q, inc |-> i,
                      mgr |-> epoch, valid |-> TRUE, fresh |-> TRUE]}
  /\ UNCHANGED <<act, wal, gen, epoch, inv, outcome, env, call, budget>>

Voided(e) == [e EXCEPT !.valid = FALSE]
VoidedFor(p) == {IF e.plan = p THEN Voided(e) ELSE e : e \in ev}

RefreshInventoryAll(p) ==                                  \* mutant
  /\ Idle
  /\ act[p].st \in {"Observing", "Reconcile"}
  /\ inv' = [inv EXCEPT ![p] = host]
  /\ ev' = VoidedFor(p)
  /\ UNCHANGED <<act, wal, gen, epoch, outcome, env, call, budget>>

(* refresh_inventory(plan_id, inventory): the new inventory voids the plan's  *)
(* evidence in the same transaction.                                          *)
RefreshInventory(p) ==
  /\ Idle
  /\ act[p].st \in {"Observing", "Reconcile"}
  /\ inv' = [inv EXCEPT ![p] = host[p]]
  /\ ev' = VoidedFor(p)
  /\ UNCHANGED <<act, wal, gen, epoch, outcome, env, call, budget>>

-----------------------------------------------------------------------------
(* commit(plan_id, expected_generation).                                      *)

(* _evidence_complete. *)
Counts(e, p, q) ==
  /\ e.plan = p /\ e.proc = q /\ e.inc = inv[p][q]
  /\ e.valid /\ e.mgr = epoch /\ e.fresh

EvidenceSome(p) == \E q \in Required[p], e \in ev : Counts(e, p, q)      \* mutant
EvidenceComplete(p) == \A q \in Required[p] : \E e \in ev : Counts(e, p, q)

(* The transition, the WAL row and the conditional generation update are one  *)
(* transaction; a miss of the CAS raises and leaves nothing behind.           *)
CasUnchecked(p, g) == gen >= g                             \* mutant
CasMatches(p, g) == gen = g /\ PredGen[p] = g

CommitWal(p, g) ==
  /\ Idle
  /\ lease
  /\ EvidenceComplete(p)
  /\ CasMatches(p, g)
  /\ Transition(p, "CommitReady")
  /\ Log(p, "wal", "commit")
  /\ gen' = gen + 1
  /\ Goto("commit.effect", p)
  /\ UNCHANGED <<epoch, inv, ev, outcome, env, budget>>

(* traffic.activate(plan). *)
CommitEffect ==
  /\ At("commit.effect")
  /\ traffic' = call.plan
  /\ Goto("commit.receipt", call.plan)
  /\ UNCHANGED <<db, host, lease, budget>>

CommitReceipt ==
  /\ At("commit.receipt")
  /\ Transition(call.plan, "Effective")
  /\ Log(call.plan, "receipt", "commit")
  /\ Return
  /\ UNCHANGED <<gen, epoch, inv, ev, outcome, env, budget>>

(* external_lease_lost(plan_id), which checks nothing itself: called by its   *)
(* own users and by a commit() that finds the lease gone.                     *)
LeaseDegrade(p) ==
  /\ Idle
  /\ Transition(p, "Degraded")
  /\ Goto(IF Fallback[p] THEN "lease.fallback" ELSE "rollback.wal", p)
  /\ UNCHANGED <<wal, gen, epoch, inv, ev, outcome, env, budget>>

LeaseFallback ==
  /\ At("lease.fallback")
  /\ Transition(call.plan, "Reconcile")
  /\ Return
  /\ UNCHANGED <<wal, gen, epoch, inv, ev, outcome, env, budget>>

-----------------------------------------------------------------------------
(* rollback(plan_id, reason).                                                 *)
RollbackWal(p) ==
  /\ Idle \/ (At("rollback.wal") /\ p = call.plan)
  /\ Transition(p, "Rollback")
  /\ Log(p, "wal", "rollback")
  /\ Goto("rollback.host", p)
  /\ UNCHANGED <<gen, epoch, inv, ev, outcome, env, budget>>

(* host.rollback(): failure is caught; the receipt records either outcome.    *)
RollbackHost ==
  /\ At("rollback.host")
  /\ \/ /\ host' = [host EXCEPT ![call.plan] = Nowhere]
        /\ call' = [call EXCEPT !.pc = "rollback.receipt"]
        /\ budget' = budget
     \/ /\ Spend
        /\ call' = [call EXCEPT !.pc = "rollback.receipt", !.err = TRUE]
        /\ host' \in {host, [host EXCEPT ![call.plan] = Nowhere]}
  /\ UNCHANGED <<db, traffic, lease>>

RollbackReceipt ==
  /\ At("rollback.receipt")
  /\ Log(call.plan, "receipt", "rollback.host")
  /\ Goto("rollback.restore", call.plan)
  /\ UNCHANGED <<act, gen, epoch, inv, ev, outcome, env, budget>>

(* traffic.restore(predecessor), not attempted after a host failure.          *)
RollbackRestore ==
  /\ At("rollback.restore")
  /\ \/ /\ ~call.err
        /\ traffic' = Pred[call.plan]
        /\ Goto("rollback.commit", call.plan)
        /\ budget' = budget
     \/ /\ ~call.err /\ Spend
        /\ call' = [call EXCEPT !.pc = "rollback.commit", !.err = TRUE]
        /\ traffic' \in {traffic, Pred[call.plan]}
     \/ /\ call.err
        /\ Goto("rollback.commit", call.plan)
        /\ UNCHANGED <<traffic, budget>>
  /\ UNCHANGED <<db, host, lease>>

RestoredAlways == TRUE                                     \* mutant
Restored == ~call.err

RollbackCommit ==
  /\ At("rollback.commit")
  /\ outcome' = outcome \cup {<<call.plan, Restored>>}
  /\ \/ /\ Restored
        /\ Transition(call.plan, "RolledBack")
        /\ Log(call.plan, "receipt", "rollback")
     \/ /\ ~Restored
        /\ Transition(call.plan, "FailedSafe")
        /\ wal' = wal
  /\ Return
  /\ UNCHANGED <<gen, epoch, inv, ev, env, budget>>

-----------------------------------------------------------------------------
(* recover(plan_id).                                                          *)

(* A rollback that was cut off is not repeated. *)
RecoverRollback(p) ==
  /\ Idle
  /\ act[p].st = "Rollback"
  /\ Transition(p, "FailedSafe")
  /\ UNCHANGED <<wal, gen, epoch, inv, ev, outcome, env, call, budget>>

InterruptedNotCommit == {"Preparing", "Launching", "Observing"}          \* mutant
Interrupted == {"Preparing", "Launching", "CommitReady", "Observing"}

RecoverRestore(p) ==
  /\ Idle
  /\ act[p].st \in Interrupted
  /\ traffic' = Pred[p]
  /\ Goto("recover.commit", p)
  /\ UNCHANGED <<db, host, lease, budget>>

RecoverCommit ==
  /\ At("recover.commit")
  /\ Transition(call.plan, "Reconcile")
  /\ Return
  /\ UNCHANGED <<wal, gen, epoch, inv, ev, outcome, env, budget>>

(* resume_observing(plan_id): whatever the table allows.                      *)
ResumeObserving(p) ==
  /\ Idle
  /\ Transition(p, "Observing")
  /\ UNCHANGED <<wal, gen, epoch, inv, ev, outcome, env, call, budget>>

-----------------------------------------------------------------------------
(* The environment. *)

(* An adapter raises and the method does not catch it.                        *)
CutOff ==
  /\ ~Idle
  /\ Spend
  /\ Return
  /\ UNCHANGED <<db, env>>

(* The manager dies; boot() of its successor advances the manager epoch and   *)
(* voids all evidence.                                                        *)
Restart ==
  /\ Spend
  /\ Return
  /\ epoch' = epoch + 1
  /\ ev' = {Voided(e) : e \in ev}
  /\ UNCHANGED <<act, wal, gen, inv, outcome, env>>

(* A launched process is replaced by one with the next start epoch.           *)
ProcessRestart(p, q) ==
  /\ host[p][q] \in 1..(MaxInc - 1)
  /\ host' = [host EXCEPT ![p][q] = @ + 1]
  /\ UNCHANGED <<db, traffic, lease, call, budget>>

(* The clock passes expires_at of an accepted attestation.                    *)
Expire(e) ==
  /\ e.fresh
  /\ Spend
  /\ ev' = (ev \ {e}) \cup {[e EXCEPT !.fresh = FALSE]}
  /\ UNCHANGED <<act, wal, gen, epoch, inv, outcome, env, call>>

LeaseChange ==
  /\ Spend
  /\ lease' = ~lease
  /\ UNCHANGED <<db, traffic, host, call>>

-----------------------------------------------------------------------------
Init ==
  /\ act = [p \in Plans |-> [st |-> Absent, launch |-> NoLaunch]]
  /\ wal = {}
  /\ gen = 0
  /\ epoch = 1
  /\ inv = [p \in Plans |-> Nowhere]
  /\ ev = {}
  /\ outcome = {}
  /\ traffic = Base
  /\ host = [p \in Plans |-> Nowhere]
  /\ lease = TRUE
  /\ call = Done
  /\ budget = MaxFaults

Continue ==
  \/ PlanHold \/ PrepareReceipt \/ LaunchEffect \/ LaunchReceipt
  \/ CommitEffect \/ CommitReceipt \/ LeaseFallback
  \/ (At("rollback.wal") /\ RollbackWal(call.plan))
  \/ RollbackHost \/ RollbackReceipt \/ RollbackRestore \/ RollbackCommit
  \/ RecoverCommit

Recover(p) == RecoverRollback(p) \/ RecoverRestore(p)

Operate(p) ==
  \/ PlanInsert(p) \/ PrepareWal(p) \/ RefreshInventory(p) \/ LeaseDegrade(p)
  \/ RollbackWal(p) \/ ResumeObserving(p)
  \/ \E g \in 0..gen : CommitWal(p, g)
  \/ \E l \in LaunchIds : LaunchWal(p, l)
  \/ \E n \in Nonces, l \in LaunchIds, q \in Procs, i \in 1..MaxInc :
       Observe(p, n, l, q, i)

Environment ==
  \/ CutOff \/ Restart \/ LeaseChange
  \/ \E p \in Plans, q \in Procs : ProcessRestart(p, q)
  \/ \E e \in ev : Expire(e)

Next ==
  \/ Continue
  \/ \E p \in Plans : Operate(p) \/ Recover(p)
  \/ Environment

Spec == Init /\ [][Next]_vars

-----------------------------------------------------------------------------
(* Properties. *)

(* Every table, adapter and local variable holds a value of its type.         *)
TypeOK ==
  /\ act \in [Plans -> [st: State \cup {Absent}, launch: LaunchIds \cup {NoLaunch}]]
  /\ wal \subseteq Plans \X {"wal", "receipt"} \X Ops
  /\ gen \in Nat
  /\ epoch \in Nat
  /\ inv \in [Plans -> [Procs -> Slots]]
  /\ ev \subseteq Evidence
  /\ outcome \subseteq Plans \X BOOLEAN
  /\ traffic \in Plans \cup {Base}
  /\ host \in [Plans -> [Procs -> Slots]]
  /\ lease \in BOOLEAN
  /\ call \in Call
  /\ budget \in Nat

Committed(p) == <<p, "wal", "commit">> \in wal

(* "One committed generation": of the plans that compete for a predecessor    *)
(* generation at most one ever passes the CAS, whatever crashes, recoveries   *)
(* and retries come between, and the generation counter is past every plan    *)
(* that passed it.                                                            *)
OneCommitPerGeneration ==
  \A p, q \in Plans :
    /\ Committed(p) => PredGen[p] < gen
    /\ Committed(p) /\ Committed(q) /\ PredGen[p] = PredGen[q] => p = q

(* Every required process of p, as the inventory has it, is attested for p's  *)
(* launch by evidence the running manager accepted itself.                    *)
Attested(p) ==
  \A q \in Required[p] : \E e \in ev :
    /\ e.plan = p /\ e.launch = act[p].launch
    /\ e.proc = q /\ e.inc = inv[p][q]
    /\ e.valid /\ e.mgr = epoch

(* A plan becomes Effective only while it is the plan traffic is routed to    *)
(* and every process it requires is attested under the current manager epoch: *)
(* no evidence from before a restart or an inventory change carries a commit  *)
(* through, and no commit is reported that did not route.                     *)
EffectiveIsAttested ==
  [][\A p \in Plans :
       (act[p].st # "Effective" /\ act'[p].st = "Effective")
         => traffic = p /\ Attested(p)]_vars

NamedPredecessor(p) == \E q \in Plans : act[q].st # Absent /\ Pred[q] = p

(* TrafficGate keeps predecessor routing until the commit: traffic reaches a  *)
(* candidate only behind its commit WAL row, and a plan reported RolledBack   *)
(* serves no traffic unless a later plan names it as predecessor.             *)
CandidateTrafficCommitted ==
  \A p \in Plans : traffic = p =>
    \/ NamedPredecessor(p)
    \/ Committed(p) /\ act[p].st # "RolledBack"

(* Freshness across restarts: a nonce stays bound to the evidence it first    *)
(* brought, and evidence voided by a restart or an inventory change is never  *)
(* valid again.                                                               *)
NoEvidenceReplay ==
  [][\A e \in ev, f \in ev' : f.nonce = e.nonce =>
       /\ f.plan = e.plan /\ f.proc = e.proc /\ f.inc = e.inc /\ f.mgr = e.mgr
       /\ f.valid => e.valid]_vars

InDoubt(p) == act[p].st \in {"Preparing", "Launching", "CommitReady", "Rollback"}

(* Fairness: a method that was begun runs on, and the manager gets round to   *)
(* recover() on every plan it finds interrupted, between its other calls.     *)
FairSpec == Spec /\ WF_vars(Continue) /\ \A p \in Plans : SF_vars(Recover(p))

(* No plan stays in doubt: whatever step of prepare(), launch(), commit() or  *)
(* rollback() was cut off, the plan leaves the WAL state it was left in.      *)
InDoubtResolves == \A p \in Plans : InDoubt(p) ~> ~InDoubt(p)

(* The recovery contract of docs/design/durable-coordinator.md: a recovered   *)
(* plan refreshes its inventory, re-observes and attempts its commit again.   *)
(* While no plan has a commit receipt, the generation has not moved past the  *)
(* one a recovered plan was made for.                                         *)
RecoveredPlanCanCommit ==
  \A p \in Plans :
    (act[p].st = "Observing" /\ \A q \in Plans : <<q, "receipt", "commit">> \notin wal)
      => gen <= PredGen[p]

=============================================================================
