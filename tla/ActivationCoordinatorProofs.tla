--------------------- MODULE ActivationCoordinatorProofs ---------------------
(***************************************************************************)
(* Safety of the activation coordinator for every set of plans, processes   *)
(* and nonces and every number of crashes, and that it implements the       *)
(* activation contract.                                                     *)
(***************************************************************************)
EXTENDS ActivationRefinement, TLAPS

ActRow == [st: State \cup {Absent}, launch: LaunchIds \cup {NoLaunch}]

(* The table leads to states.                                                 *)
LEMMA TargetStates ==
  ASSUME NEW s
  PROVE  Targets(s) \subseteq State
  BY DEF Targets, State

(* What a transition does to the activation table.                            *)
LEMMA TransitionFacts ==
  ASSUME TypeOK, NEW p \in Plans, NEW t, Transition(p, t)
  PROVE  /\ act' \in [Plans -> ActRow]
         /\ t \in Targets(act[p].st) /\ act'[p].st = t
         /\ act'[p].launch = act[p].launch
         /\ \A q \in Plans : q # p => act'[q] = act[q]
<1>1. act \in [Plans -> ActRow]
  BY DEF TypeOK, ActRow
<1>2. t \in Targets(act[p].st) /\ act' = [act EXCEPT ![p].st = t]
  BY DEF Transition, CanMove, Moved
<1>3. t \in State
  BY <1>2, TargetStates
<1>4. QED
  BY <1>1, <1>2, <1>3 DEF ActRow

(* A journal row written by a step is well typed.                             *)
LEMMA LogTypes ==
  ASSUME TypeOK, NEW p \in Plans, NEW k \in {"wal", "receipt"}, NEW o \in Ops, Log(p, k, o)
  PROVE  wal' \subseteq Plans \X {"wal", "receipt"} \X Ops
  BY DEF Log, TypeOK

(* An inventory as launch() returns it is well typed.                         *)
LEMMA SlotTypes ==
  /\ Nowhere \in [Procs -> Slots]
  /\ \A up \in SUBSET Procs : [q \in Procs |-> IF q \in up THEN 1 ELSE 0] \in [Procs -> Slots]
  BY CoordinatorConstants DEF Nowhere, Slots

(* So is the record of no call in progress.                                   *)
LEMMA DoneTypes == Done \in Call
  BY SlotTypes DEF Done, Call, Pcs

(* Moving a call on keeps it well typed, and what it has seen fail.           *)
LEMMA GotoTypes ==
  ASSUME TypeOK, NEW pc \in Pcs, NEW p \in Plans \cup {Base}, Goto(pc, p)
  PROVE  call' \in Call /\ call'.pc = pc /\ call'.plan = p /\ call'.err = call.err
  BY DEF Goto, TypeOK, Call

(* Voiding and expiry keep every column but the one they are about.           *)
LEMMA RowEdits ==
  ASSUME NEW e \in Evidence
  PROVE  /\ Voided(e) \in Evidence /\ [e EXCEPT !.fresh = FALSE] \in Evidence
         /\ Voided(e).nonce = e.nonce /\ Voided(e).plan = e.plan
         /\ Voided(e).launch = e.launch /\ Voided(e).proc = e.proc
         /\ Voided(e).inc = e.inc /\ Voided(e).mgr = e.mgr /\ ~Voided(e).valid
         /\ [e EXCEPT !.fresh = FALSE].nonce = e.nonce
         /\ [e EXCEPT !.fresh = FALSE].plan = e.plan
         /\ [e EXCEPT !.fresh = FALSE].launch = e.launch
         /\ [e EXCEPT !.fresh = FALSE].proc = e.proc
         /\ [e EXCEPT !.fresh = FALSE].inc = e.inc
         /\ [e EXCEPT !.fresh = FALSE].mgr = e.mgr
         /\ [e EXCEPT !.fresh = FALSE].valid = e.valid
  BY DEF Voided, Evidence

(* A call in progress is about a plan of the activation table.                *)
CallPlan == ~Idle => call.plan \in Plans /\ act[call.plan].st # Absent

(* The empty database is well typed.                                          *)
LEMMA InitTypeOK == Init => TypeOK
<1> SUFFICES ASSUME Init PROVE TypeOK
  OBVIOUS
<1>1. act \in [Plans -> [st: State \cup {Absent}, launch: LaunchIds \cup {NoLaunch}]]
  BY DEF Init
<1>2. inv \in [Plans -> [Procs -> Slots]] /\ host \in [Plans -> [Procs -> Slots]]
  BY SlotTypes DEF Init
<1>3. QED
  BY <1>1, <1>2, DoneTypes, CoordinatorConstants DEF Init, TypeOK

(* Every step keeps the tables and the call well typed.                       *)
LEMMA StepTypeOK ==
  ASSUME TypeOK, CallPlan, Next
  PROVE  TypeOK'
<1> USE DEF At, Idle
<1>0. /\ Pred \in [Plans -> Plans \cup {Base}]
      /\ ActRow = [st: State \cup {Absent}, launch: LaunchIds \cup {NoLaunch}]
  BY CoordinatorConstants DEF ActRow
<1>1. CASE \E p \in Plans : PlanInsert(p)
  <2>1. PICK p \in Plans : PlanInsert(p)
    BY <1>1
  <2>2. act' \in [Plans -> ActRow]
    <3>1. act \in [Plans -> ActRow]
      BY <1>0 DEF TypeOK
    <3>2. [act[p] EXCEPT !.st = "Planned"] \in ActRow
      BY <1>0, <3>1 DEF State
    <3>3. act' = [act EXCEPT ![p] = [act[p] EXCEPT !.st = "Planned"]]
      BY <2>1, <3>1 DEF PlanInsert
    <3>4. QED
      BY <3>1, <3>2, <3>3
  <2>3. call' \in Call
    BY <2>1, GotoTypes DEF PlanInsert, Pcs
  <2>4. QED
    BY <1>0, <2>1, <2>2, <2>3 DEF PlanInsert, TypeOK, env
<1>2. CASE PlanHold
  BY <1>0, <1>2, DoneTypes DEF PlanHold, Return, CallPlan, TypeOK, db
<1>3. CASE \E p \in Plans : PrepareWal(p)
  <2>1. PICK p \in Plans : PrepareWal(p)
    BY <1>3
  <2>2. act' \in [Plans -> ActRow] /\ wal' \subseteq Plans \X {"wal", "receipt"} \X Ops
    BY <2>1, TransitionFacts, LogTypes DEF PrepareWal, Ops
  <2>3. call' \in Call
    BY <2>1, GotoTypes DEF PrepareWal, Pcs
  <2>4. QED
    BY <1>0, <2>1, <2>2, <2>3 DEF PrepareWal, TypeOK, env
<1>4. CASE PrepareReceipt
  <2>1. PrepareReceipt /\ call.plan \in Plans
    BY <1>4 DEF PrepareReceipt, CallPlan
  <2>2. act' \in [Plans -> ActRow] /\ wal' \subseteq Plans \X {"wal", "receipt"} \X Ops
    BY <2>1, TransitionFacts, LogTypes DEF PrepareReceipt, Ops
  <2>3. call' \in Call
    BY <2>1, DoneTypes DEF PrepareReceipt, Return
  <2>4. QED
    BY <1>0, <2>1, <2>2, <2>3 DEF PrepareReceipt, TypeOK, env
<1>5. CASE \E p \in Plans, l \in LaunchIds : LaunchWal(p, l)
  <2>1. PICK p \in Plans, l \in LaunchIds : LaunchWal(p, l)
    BY <1>5
  <2>2. act' \in [Plans -> ActRow]
    BY <1>0, <2>1 DEF LaunchWal, TypeOK, State
  <2>3. call' \in Call /\ wal' \subseteq Plans \X {"wal", "receipt"} \X Ops
    BY <2>1, GotoTypes, LogTypes DEF LaunchWal, Pcs, Ops
  <2>4. QED
    BY <1>0, <2>1, <2>2, <2>3 DEF LaunchWal, TypeOK, env
<1>6. CASE LaunchEffect
  <2>1. PICK up \in SUBSET Procs :
           LET started == [q \in Procs |-> IF q \in up THEN 1 ELSE 0] IN
             /\ host' = [host EXCEPT ![call.plan] = started]
             /\ call' = [call EXCEPT !.pc = "launch.receipt", !.inv = started]
    BY <1>6 DEF LaunchEffect
  <2> DEFINE started == [q \in Procs |-> IF q \in up THEN 1 ELSE 0]
  <2>2. started \in [Procs -> Slots]
    BY SlotTypes
  <2> HIDE DEF started
  <2>3. host' = [host EXCEPT ![call.plan] = started]
        /\ call' = [call EXCEPT !.pc = "launch.receipt", !.inv = started]
    BY <2>1 DEF started
  <2>4. host' \in [Plans -> [Procs -> Slots]] /\ call' \in Call
    BY <2>2, <2>3 DEF TypeOK, Call, Pcs
  <2>5. QED
    BY <1>6, <2>4 DEF LaunchEffect, TypeOK, db
<1>7. CASE LaunchReceipt
  <2>1. call.plan \in Plans /\ call.inv \in [Procs -> Slots]
    BY <1>7 DEF LaunchReceipt, CallPlan, TypeOK, Call
  <2>2. act' \in [Plans -> ActRow] /\ wal' \subseteq Plans \X {"wal", "receipt"} \X Ops
    BY <1>7, <2>1, TransitionFacts, LogTypes DEF LaunchReceipt, Ops
  <2>3. inv' \in [Plans -> [Procs -> Slots]] /\ call' \in Call
    BY <1>7, <2>1, DoneTypes DEF LaunchReceipt, Return, TypeOK
  <2>4. QED
    BY <1>0, <1>7, <2>2, <2>3 DEF LaunchReceipt, TypeOK, env
<1>8. CASE \E p \in Plans, n \in Nonces, l \in LaunchIds, q \in Procs, i \in 1..MaxInc :
             Observe(p, n, l, q, i)
  <2>1. PICK p \in Plans, n \in Nonces, l \in LaunchIds, q \in Procs, i \in 1..MaxInc :
           Observe(p, n, l, q, i)
    BY <1>8
  <2> DEFINE e == [nonce |-> n, plan |-> p, launch |-> l, proc |-> q, inc |-> i,
                   mgr |-> epoch, valid |-> TRUE, fresh |-> TRUE]
  <2>2. e \in Evidence
    BY DEF Evidence, TypeOK
  <2>3. ev' = ev \cup {e}
    BY <2>1 DEF Observe
  <2>4. ev' \subseteq Evidence
    BY <2>2, <2>3 DEF TypeOK
  <2>5. QED
    BY <2>1, <2>4 DEF Observe, TypeOK, env
<1>9. CASE \E p \in Plans : RefreshInventory(p)
  <2>1. PICK p \in Plans : RefreshInventory(p)
    BY <1>9
  <2>2. ev' \subseteq Evidence
    <3> SUFFICES ASSUME NEW f \in ev' PROVE f \in Evidence
      OBVIOUS
    <3>1. PICK e \in ev : f = IF e.plan = p THEN Voided(e) ELSE e
      BY <2>1 DEF RefreshInventory, VoidedFor
    <3>2. e \in Evidence
      BY DEF TypeOK
    <3>3. QED
      BY <3>1, <3>2, RowEdits
  <2>3. inv' \in [Plans -> [Procs -> Slots]]
    BY <2>1 DEF RefreshInventory, TypeOK
  <2>4. QED
    BY <2>1, <2>2, <2>3 DEF RefreshInventory, TypeOK, env
<1>10. CASE \E p \in Plans : \E g \in 0..gen : CommitWal(p, g)
  <2>1. PICK p \in Plans, g \in 0..gen : CommitWal(p, g)
    BY <1>10
  <2>2. act' \in [Plans -> ActRow] /\ wal' \subseteq Plans \X {"wal", "receipt"} \X Ops
    BY <2>1, TransitionFacts, LogTypes DEF CommitWal, Ops
  <2>3. call' \in Call /\ gen' \in Nat
    BY <2>1, GotoTypes DEF CommitWal, Pcs, TypeOK
  <2>4. QED
    BY <1>0, <2>1, <2>2, <2>3 DEF CommitWal, TypeOK, env
<1>11. CASE CommitEffect
  <2>1. call.plan \in Plans
    BY <1>11 DEF CommitEffect, CallPlan
  <2>2. call' \in Call
    BY <1>11, <2>1, GotoTypes DEF CommitEffect, Pcs
  <2>3. QED
    BY <1>11, <2>1, <2>2 DEF CommitEffect, TypeOK, db
<1>12. CASE CommitReceipt
  <2>1. CommitReceipt /\ call.plan \in Plans
    BY <1>12 DEF CommitReceipt, CallPlan
  <2>2. act' \in [Plans -> ActRow] /\ wal' \subseteq Plans \X {"wal", "receipt"} \X Ops
    BY <2>1, TransitionFacts, LogTypes DEF CommitReceipt, Ops
  <2>3. call' \in Call
    BY <2>1, DoneTypes DEF CommitReceipt, Return
  <2>4. QED
    BY <1>0, <2>1, <2>2, <2>3 DEF CommitReceipt, TypeOK, env
<1>13. CASE \E p \in Plans : LeaseDegrade(p)
  <2>1. PICK p \in Plans : LeaseDegrade(p)
    BY <1>13
  <2>2. act' \in [Plans -> ActRow]
    BY <2>1, TransitionFacts DEF LeaseDegrade
  <2>3. call' \in Call
    BY <2>1, GotoTypes DEF LeaseDegrade, Pcs
  <2>4. QED
    BY <1>0, <2>1, <2>2, <2>3 DEF LeaseDegrade, TypeOK, env
<1>14. CASE LeaseFallback
  <2>1. LeaseFallback /\ call.plan \in Plans
    BY <1>14 DEF LeaseFallback, CallPlan
  <2>2. act' \in [Plans -> ActRow]
    BY <2>1, TransitionFacts DEF LeaseFallback
  <2>3. call' \in Call
    BY <2>1, DoneTypes DEF LeaseFallback, Return
  <2>4. QED
    BY <1>0, <2>1, <2>2, <2>3 DEF LeaseFallback, TypeOK, env
<1>15. CASE \E p \in Plans : RollbackWal(p)
  <2>1. PICK p \in Plans : RollbackWal(p)
    BY <1>15
  <2>2. act' \in [Plans -> ActRow] /\ wal' \subseteq Plans \X {"wal", "receipt"} \X Ops
    BY <2>1, TransitionFacts, LogTypes DEF RollbackWal, Ops
  <2>3. call' \in Call
    BY <2>1, GotoTypes DEF RollbackWal, Pcs
  <2>4. QED
    BY <1>0, <2>1, <2>2, <2>3 DEF RollbackWal, TypeOK, env
<1>16. CASE RollbackHost
  <2>1. call.plan \in Plans
    BY <1>16 DEF RollbackHost, CallPlan
  <2>2. call' \in Call
    BY <1>16 DEF RollbackHost, TypeOK, Call, Pcs
  <2>3. host' \in [Plans -> [Procs -> Slots]]
    BY <1>16, <2>1, SlotTypes DEF RollbackHost, TypeOK
  <2>4. budget' \in Nat
    BY <1>16 DEF RollbackHost, Spend, TypeOK
  <2>5. QED
    BY <1>16, <2>2, <2>3, <2>4 DEF RollbackHost, TypeOK, db
<1>17. CASE RollbackReceipt
  <2>1. call.plan \in Plans
    BY <1>17 DEF RollbackReceipt, CallPlan
  <2>2. call' \in Call /\ wal' \subseteq Plans \X {"wal", "receipt"} \X Ops
    BY <1>17, <2>1, GotoTypes, LogTypes DEF RollbackReceipt, Pcs, Ops
  <2>3. QED
    BY <1>17, <2>2 DEF RollbackReceipt, TypeOK, env
<1>18. CASE RollbackRestore
  <2>1. call.plan \in Plans
    BY <1>18 DEF RollbackRestore, CallPlan
  <2>2. traffic' \in Plans \cup {Base}
    BY <1>0, <1>18, <2>1 DEF RollbackRestore, TypeOK
  <2>3. call' \in Call
    <3>1. CASE Goto("rollback.commit", call.plan)
      BY <2>1, <3>1, GotoTypes DEF Pcs
    <3>2. CASE call' = [call EXCEPT !.pc = "rollback.commit", !.err = TRUE]
      BY <3>2 DEF TypeOK, Call, Pcs
    <3>3. QED
      BY <1>18, <3>1, <3>2 DEF RollbackRestore
  <2>4. budget' \in Nat
    BY <1>18 DEF RollbackRestore, Spend, TypeOK
  <2>5. QED
    BY <1>18, <2>2, <2>3, <2>4 DEF RollbackRestore, TypeOK, db
<1>19. CASE RollbackCommit
  <2>1. call.plan \in Plans
    BY <1>19 DEF RollbackCommit, CallPlan
  <2>2. act' \in [Plans -> ActRow]
    BY <1>19, <2>1, TransitionFacts DEF RollbackCommit
  <2>3. wal' \subseteq Plans \X {"wal", "receipt"} \X Ops
    BY <1>19, <2>1, LogTypes DEF RollbackCommit, Ops, TypeOK
  <2>4. Restored \in BOOLEAN
    BY DEF Restored
  <2>5. outcome' \subseteq Plans \X BOOLEAN /\ call' \in Call
    BY <1>19, <2>1, <2>4, DoneTypes DEF RollbackCommit, Return, TypeOK
  <2>6. QED
    BY <1>0, <1>19, <2>2, <2>3, <2>5 DEF RollbackCommit, TypeOK, env
<1>20. CASE \E p \in Plans : RecoverRollback(p)
  <2>1. PICK p \in Plans : RecoverRollback(p)
    BY <1>20
  <2>2. act' \in [Plans -> ActRow]
    BY <2>1, TransitionFacts DEF RecoverRollback
  <2>3. QED
    BY <1>0, <2>1, <2>2 DEF RecoverRollback, TypeOK, env
<1>21. CASE \E p \in Plans : RecoverRestore(p)
  <2>1. PICK p \in Plans : RecoverRestore(p)
    BY <1>21
  <2>2. call' \in Call /\ traffic' \in Plans \cup {Base}
    BY <1>0, <2>1, GotoTypes DEF RecoverRestore, Pcs
  <2>3. QED
    BY <2>1, <2>2 DEF RecoverRestore, TypeOK, db
<1>22. CASE RecoverCommit
  <2>1. RecoverCommit /\ call.plan \in Plans
    BY <1>22 DEF RecoverCommit, CallPlan
  <2>2. act' \in [Plans -> ActRow]
    BY <2>1, TransitionFacts DEF RecoverCommit
  <2>3. call' \in Call
    BY <2>1, DoneTypes DEF RecoverCommit, Return
  <2>4. QED
    BY <1>0, <2>1, <2>2, <2>3 DEF RecoverCommit, TypeOK, env
<1>23. CASE \E p \in Plans : ResumeObserving(p)
  <2>1. PICK p \in Plans : ResumeObserving(p)
    BY <1>23
  <2>2. act' \in [Plans -> ActRow]
    BY <2>1, TransitionFacts DEF ResumeObserving
  <2>3. QED
    BY <1>0, <2>1, <2>2 DEF ResumeObserving, TypeOK, env
<1>24. CASE CutOff
  BY <1>24, DoneTypes DEF CutOff, Spend, Return, TypeOK, db, env
<1>25. CASE Restart
  <2>1. ev' \subseteq Evidence
    BY <1>25, RowEdits DEF Restart, TypeOK
  <2>2. epoch' \in Nat /\ budget' \in Nat /\ call' \in Call
    BY <1>25, DoneTypes DEF Restart, Return, Spend, TypeOK
  <2>3. QED
    BY <1>25, <2>1, <2>2 DEF Restart, TypeOK, env
<1>26. CASE \E p \in Plans, q \in Procs : ProcessRestart(p, q)
  <2>1. PICK p \in Plans, q \in Procs : ProcessRestart(p, q)
    BY <1>26
  <2>2. host[p][q] + 1 \in Slots
    BY <2>1, CoordinatorConstants DEF ProcessRestart, Slots
  <2>3. host' \in [Plans -> [Procs -> Slots]]
    BY <2>1, <2>2 DEF ProcessRestart, TypeOK
  <2>4. QED
    BY <2>1, <2>3 DEF ProcessRestart, TypeOK, db
<1>27. CASE \E e \in ev : Expire(e)
  <2>1. PICK e \in ev : Expire(e)
    BY <1>27
  <2>2. ev' \subseteq Evidence
    <3>1. ev \subseteq Evidence /\ e \in Evidence
      BY DEF TypeOK
    <3>2. [e EXCEPT !.fresh = FALSE] \in Evidence
      BY <3>1, RowEdits
    <3>3. ev' = (ev \ {e}) \cup {[e EXCEPT !.fresh = FALSE]}
      BY <2>1 DEF Expire
    <3>4. QED
      BY <3>1, <3>2, <3>3
  <2>3. budget' \in Nat
    BY <2>1 DEF Expire, Spend, TypeOK
  <2>4. QED
    BY <2>1, <2>2, <2>3 DEF Expire, TypeOK, env
<1>28. CASE LeaseChange
  <2>1. lease' \in BOOLEAN
    BY <1>28 DEF LeaseChange
  <2>2. budget' \in Nat
    BY <1>28 DEF LeaseChange, Spend, TypeOK
  <2>3. QED
    BY <1>28, <2>1, <2>2, Zenon DEF LeaseChange, TypeOK, db
<1>29. CASE At("rollback.wal") /\ RollbackWal(call.plan)
  <2>1. call.plan \in Plans
    BY <1>29 DEF CallPlan
  <2>2. QED
    BY <1>15, <1>29, <2>1
<1>30. QED
  BY <1>1, <1>2, <1>3, <1>4, <1>5, <1>6, <1>7, <1>8, <1>9, <1>10, <1>11, <1>12,
     <1>13, <1>14, <1>15, <1>16, <1>17, <1>18, <1>19, <1>20, <1>21, <1>22, <1>23,
     <1>24, <1>25, <1>26, <1>27, <1>28,
     <1>29
  DEF Next, Operate, Recover, Continue, Environment

-----------------------------------------------------------------------------
(* How a step may change the activation table: a row stays, appears as        *)
(* Planned, or follows TRANSITIONS; only a launch changes its launch id.      *)
RowMoves(q) ==
  \/ act'[q] = act[q]
  \/ /\ act[q].st = Absent /\ act'[q].st = "Planned"
     /\ act'[q].launch = act[q].launch
  \/ /\ act'[q].st \in Targets(act[q].st)
     /\ act'[q].launch = act[q].launch \/ act[q].st = "Prepared"

ActMoves == \A q \in Plans : RowMoves(q)

(* A transition is one of the allowed row changes.                            *)
LEMMA TransitionMoves ==
  ASSUME TypeOK, NEW p \in Plans, NEW t, Transition(p, t)
  PROVE  ActMoves
  BY TransitionFacts DEF ActMoves, RowMoves

(* Every step changes the activation table only that way.                     *)
LEMMA StepMoves ==
  ASSUME TypeOK, CallPlan, Next
  PROVE  ActMoves
<1>0. act \in [Plans -> ActRow]
  BY DEF TypeOK, ActRow
<1>1. ASSUME NEW p \in Plans, PlanInsert(p)
      PROVE  ActMoves
  BY <1>0, <1>1 DEF PlanInsert, ActMoves, RowMoves, ActRow
<1>2. ASSUME PlanHold PROVE ActMoves
  BY <1>2 DEF PlanHold, ActMoves, RowMoves, db
<1>3. ASSUME NEW p \in Plans, PrepareWal(p)
      PROVE  ActMoves
  BY <1>3, TransitionMoves DEF PrepareWal
<1>4. ASSUME PrepareReceipt PROVE ActMoves
  <2>1. call.plan \in Plans
    BY <1>4 DEF PrepareReceipt, CallPlan, At, Idle
  <2>2. QED
    BY <1>4, <2>1, TransitionMoves DEF PrepareReceipt
<1>5. ASSUME NEW p \in Plans, NEW l \in LaunchIds, LaunchWal(p, l)
      PROVE  ActMoves
  <2>1. "Launching" \in Targets(act[p].st)
        /\ act' = [act EXCEPT ![p] = [st |-> "Launching", launch |-> l]]
    BY <1>5 DEF LaunchWal, CanMove
  <2>2. act[p].st = "Prepared"
    BY <2>1 DEF Targets
  <2>3. act'[p].st = "Launching" /\ \A r \in Plans : r # p => act'[r] = act[r]
    BY <1>0, <2>1
  <2>4. QED
    BY <2>1, <2>2, <2>3 DEF ActMoves, RowMoves
<1>6. ASSUME LaunchEffect PROVE ActMoves
  BY <1>6 DEF LaunchEffect, ActMoves, RowMoves, db
<1>7. ASSUME LaunchReceipt PROVE ActMoves
  <2>1. call.plan \in Plans
    BY <1>7 DEF LaunchReceipt, CallPlan, At, Idle
  <2>2. QED
    BY <1>7, <2>1, TransitionMoves DEF LaunchReceipt
<1>8. ASSUME NEW p \in Plans, NEW n \in Nonces, NEW l \in LaunchIds, NEW q \in Procs, NEW i \in 1..MaxInc, Observe(p, n, l, q, i)
      PROVE  ActMoves
  BY <1>8 DEF Observe, ActMoves, RowMoves, db
<1>9. ASSUME NEW p \in Plans, RefreshInventory(p)
      PROVE  ActMoves
  BY <1>9 DEF RefreshInventory, ActMoves, RowMoves, db
<1>10. ASSUME NEW p \in Plans, NEW g \in 0..gen, CommitWal(p, g)
      PROVE  ActMoves
  BY <1>10, TransitionMoves DEF CommitWal
<1>11. ASSUME CommitEffect PROVE ActMoves
  BY <1>11 DEF CommitEffect, ActMoves, RowMoves, db
<1>12. ASSUME CommitReceipt PROVE ActMoves
  <2>1. call.plan \in Plans
    BY <1>12 DEF CommitReceipt, CallPlan, At, Idle
  <2>2. QED
    BY <1>12, <2>1, TransitionMoves DEF CommitReceipt
<1>13. ASSUME NEW p \in Plans, LeaseDegrade(p)
      PROVE  ActMoves
  BY <1>13, TransitionMoves DEF LeaseDegrade
<1>14. ASSUME LeaseFallback PROVE ActMoves
  <2>1. call.plan \in Plans
    BY <1>14 DEF LeaseFallback, CallPlan, At, Idle
  <2>2. QED
    BY <1>14, <2>1, TransitionMoves DEF LeaseFallback
<1>15. ASSUME NEW p \in Plans, RollbackWal(p)
      PROVE  ActMoves
  BY <1>15, TransitionMoves DEF RollbackWal
<1>16. ASSUME RollbackHost PROVE ActMoves
  BY <1>16 DEF RollbackHost, ActMoves, RowMoves, db
<1>17. ASSUME RollbackReceipt PROVE ActMoves
  BY <1>17 DEF RollbackReceipt, ActMoves, RowMoves, db
<1>18. ASSUME RollbackRestore PROVE ActMoves
  BY <1>18 DEF RollbackRestore, ActMoves, RowMoves, db
<1>19. ASSUME RollbackCommit PROVE ActMoves
  <2>1. call.plan \in Plans
    BY <1>19 DEF RollbackCommit, CallPlan, At, Idle
  <2>2. QED
    BY <1>19, <2>1, TransitionMoves DEF RollbackCommit
<1>20. ASSUME NEW p \in Plans, RecoverRollback(p)
      PROVE  ActMoves
  BY <1>20, TransitionMoves DEF RecoverRollback
<1>21. ASSUME NEW p \in Plans, RecoverRestore(p)
      PROVE  ActMoves
  BY <1>21 DEF RecoverRestore, ActMoves, RowMoves, db
<1>22. ASSUME RecoverCommit PROVE ActMoves
  <2>1. call.plan \in Plans
    BY <1>22 DEF RecoverCommit, CallPlan, At, Idle
  <2>2. QED
    BY <1>22, <2>1, TransitionMoves DEF RecoverCommit
<1>23. ASSUME NEW p \in Plans, ResumeObserving(p)
      PROVE  ActMoves
  BY <1>23, TransitionMoves DEF ResumeObserving
<1>24. ASSUME CutOff PROVE ActMoves
  BY <1>24 DEF CutOff, ActMoves, RowMoves, db
<1>25. ASSUME Restart PROVE ActMoves
  BY <1>25 DEF Restart, ActMoves, RowMoves, db
<1>26. ASSUME NEW p \in Plans, NEW q \in Procs, ProcessRestart(p, q)
      PROVE  ActMoves
  BY <1>26 DEF ProcessRestart, ActMoves, RowMoves, db
<1>27. ASSUME NEW e \in ev, Expire(e)
      PROVE  ActMoves
  BY <1>27 DEF Expire, ActMoves, RowMoves, db
<1>28. ASSUME LeaseChange PROVE ActMoves
  BY <1>28 DEF LeaseChange, ActMoves, RowMoves, db
<1>29. At("rollback.wal") => call.plan \in Plans
  BY DEF CallPlan, At, Idle
<1>30. QED
  BY <1>1, <1>2, <1>3, <1>4, <1>5, <1>6, <1>7, <1>8, <1>9, <1>10, <1>11, <1>12,
     <1>13, <1>14, <1>15, <1>16, <1>17, <1>18, <1>19, <1>20, <1>21, <1>22, <1>23,
     <1>24, <1>25, <1>26, <1>27, <1>28, <1>29
  DEF Next, Operate, Recover, Continue, Environment

(* Only the commit transaction writes a commit WAL row or moves meta.generation. *)
LEMMA OnlyCommitCommits ==
  ASSUME CallPlan, Next
  PROVE  \/ gen' = gen /\ \A p \in Plans : Committed(p)' = Committed(p)
         \/ \E p \in Plans, g \in 0..gen : CommitWal(p, g)
<1> DEFINE Goal == \/ gen' = gen /\ \A p \in Plans : Committed(p)' = Committed(p)
                   \/ \E p \in Plans, g \in 0..gen : CommitWal(p, g)
<1> HIDE DEF Goal
<1>0. Goal => (\/ gen' = gen /\ \A p \in Plans : Committed(p)' = Committed(p)
               \/ \E p \in Plans, g \in 0..gen : CommitWal(p, g))
  BY DEF Goal
<1>1. ASSUME NEW p \in Plans, PlanInsert(p)
      PROVE  Goal
  BY <1>1 DEF PlanInsert, Goal, Committed, Log, db
<1>2. ASSUME PlanHold PROVE Goal
  BY <1>2 DEF PlanHold, Goal, Committed, Log, db
<1>3. ASSUME NEW p \in Plans, PrepareWal(p)
      PROVE  Goal
  BY <1>3 DEF PrepareWal, Goal, Committed, Log, db
<1>4. ASSUME PrepareReceipt PROVE Goal
  BY <1>4 DEF PrepareReceipt, Goal, Committed, Log, db
<1>5. ASSUME NEW p \in Plans, NEW l \in LaunchIds, LaunchWal(p, l)
      PROVE  Goal
  BY <1>5 DEF LaunchWal, Goal, Committed, Log, db
<1>6. ASSUME LaunchEffect PROVE Goal
  BY <1>6 DEF LaunchEffect, Goal, Committed, Log, db
<1>7. ASSUME LaunchReceipt PROVE Goal
  BY <1>7 DEF LaunchReceipt, Goal, Committed, Log, db
<1>8. ASSUME NEW p \in Plans, NEW n \in Nonces, NEW l \in LaunchIds, NEW q \in Procs, NEW i \in 1..MaxInc, Observe(p, n, l, q, i)
      PROVE  Goal
  BY <1>8 DEF Observe, Goal, Committed, Log, db
<1>9. ASSUME NEW p \in Plans, RefreshInventory(p)
      PROVE  Goal
  BY <1>9 DEF RefreshInventory, Goal, Committed, Log, db
<1>10. ASSUME NEW p \in Plans, NEW g \in 0..gen, CommitWal(p, g)
      PROVE  Goal
  BY <1>10 DEF Goal
<1>11. ASSUME CommitEffect PROVE Goal
  BY <1>11 DEF CommitEffect, Goal, Committed, Log, db
<1>12. ASSUME CommitReceipt PROVE Goal
  BY <1>12 DEF CommitReceipt, Goal, Committed, Log, db
<1>13. ASSUME NEW p \in Plans, LeaseDegrade(p)
      PROVE  Goal
  BY <1>13 DEF LeaseDegrade, Goal, Committed, Log, db
<1>14. ASSUME LeaseFallback PROVE Goal
  BY <1>14 DEF LeaseFallback, Goal, Committed, Log, db
<1>15. ASSUME NEW p \in Plans, RollbackWal(p)
      PROVE  Goal
  BY <1>15 DEF RollbackWal, Goal, Committed, Log, db
<1>16. ASSUME RollbackHost PROVE Goal
  BY <1>16 DEF RollbackHost, Goal, Committed, Log, db
<1>17. ASSUME RollbackReceipt PROVE Goal
  BY <1>17 DEF RollbackReceipt, Goal, Committed, Log, db
<1>18. ASSUME RollbackRestore PROVE Goal
  BY <1>18 DEF RollbackRestore, Goal, Committed, Log, db
<1>19. ASSUME RollbackCommit PROVE Goal
  BY <1>19 DEF RollbackCommit, Goal, Committed, Log, db
<1>20. ASSUME NEW p \in Plans, RecoverRollback(p)
      PROVE  Goal
  BY <1>20 DEF RecoverRollback, Goal, Committed, Log, db
<1>21. ASSUME NEW p \in Plans, RecoverRestore(p)
      PROVE  Goal
  BY <1>21 DEF RecoverRestore, Goal, Committed, Log, db
<1>22. ASSUME RecoverCommit PROVE Goal
  BY <1>22 DEF RecoverCommit, Goal, Committed, Log, db
<1>23. ASSUME NEW p \in Plans, ResumeObserving(p)
      PROVE  Goal
  BY <1>23 DEF ResumeObserving, Goal, Committed, Log, db
<1>24. ASSUME CutOff PROVE Goal
  BY <1>24 DEF CutOff, Goal, Committed, Log, db
<1>25. ASSUME Restart PROVE Goal
  BY <1>25 DEF Restart, Goal, Committed, Log, db
<1>26. ASSUME NEW p \in Plans, NEW q \in Procs, ProcessRestart(p, q)
      PROVE  Goal
  BY <1>26 DEF ProcessRestart, Goal, Committed, Log, db
<1>27. ASSUME NEW e \in ev, Expire(e)
      PROVE  Goal
  BY <1>27 DEF Expire, Goal, Committed, Log, db
<1>28. ASSUME LeaseChange PROVE Goal
  BY <1>28 DEF LeaseChange, Goal, Committed, Log, db
<1>29. At("rollback.wal") => call.plan \in Plans
  BY DEF CallPlan, At, Idle
<1>30. QED
  BY <1>0, <1>1, <1>2, <1>3, <1>4, <1>5, <1>6, <1>7, <1>8, <1>9, <1>10, <1>11, <1>12,
     <1>13, <1>14, <1>15, <1>16, <1>17, <1>18, <1>19, <1>20, <1>21, <1>22, <1>23,
     <1>24, <1>25, <1>26, <1>27, <1>28, <1>29
  DEF Next, Operate, Recover, Continue, Environment

(* One committed generation is preserved by every step: the transaction that   *)
(* commits p requires gen = PredGen[p], and every earlier commit is below gen. *)
LEMMA StepOneCommit ==
  ASSUME TypeOK, CallPlan, OneCommitPerGeneration, Next
  PROVE  OneCommitPerGeneration'
<1>1. CASE gen' = gen /\ \A p \in Plans : Committed(p)' = Committed(p)
  BY <1>1 DEF OneCommitPerGeneration
<1>2. ASSUME NEW p \in Plans, NEW g \in 0..gen, CommitWal(p, g)
      PROVE  OneCommitPerGeneration'
  <2>1. gen \in Nat /\ PredGen[p] = gen /\ gen' = gen + 1
    BY <1>2 DEF CommitWal, CasMatches, TypeOK
  <2>2. \A q \in Plans : Committed(q)' => q = p \/ Committed(q)
    BY <1>2 DEF CommitWal, Committed, Log
  <2>3. \A q \in Plans : PredGen[q] \in Nat
    BY CoordinatorConstants
  <2>4. QED
    BY <2>1, <2>2, <2>3 DEF OneCommitPerGeneration
<1>3. QED
  BY <1>1, <1>2, OnlyCommitCommits

(* A row that exists stays.                                                   *)
LEMMA RowsStay ==
  ASSUME TypeOK, ActMoves, NEW q \in Plans, act[q].st # Absent
  PROVE  act'[q].st # Absent
<1>1. \A s : Targets(s) \subseteq State
  BY TargetStates
<1>2. Absent \notin State
  BY DEF Absent, State
<1>3. QED
  BY <1>1, <1>2 DEF ActMoves, RowMoves, Absent

(* Every step leaves the call at a plan of the activation table.              *)
LEMMA StepCallPlan ==
  ASSUME TypeOK, CallPlan, Next
  PROVE  CallPlan'
<1> USE DEF At, Idle
<1>0. ActMoves /\ \A q \in Plans : act[q].st # Absent => act'[q].st # Absent
  BY StepMoves, RowsStay
<1> DEFINE Kept == call'.plan = call.plan /\ ~Idle
           Began == \E p \in Plans : call'.plan = p /\ act'[p].st # Absent
<1>x. ASSUME call'.pc = "idle" \/ Kept \/ Began \/ call' = call
      PROVE  CallPlan'
  BY <1>x, <1>0 DEF CallPlan
<1> HIDE DEF Kept, Began
<1>1. ASSUME NEW p \in Plans, PlanInsert(p)
      PROVE  CallPlan'
  <2>1. act'[p].st # Absent
    BY <1>1 DEF PlanInsert, TypeOK, Absent
  <2>2. call'.plan = p
    BY <1>1 DEF PlanInsert, Goto, TypeOK, Call
  <2>3. QED
    BY <1>x, <2>1, <2>2 DEF Began
<1>2. ASSUME PlanHold PROVE CallPlan'
  BY <1>x, <1>2 DEF PlanHold, Return, Done
<1>3. ASSUME NEW p \in Plans, PrepareWal(p)
      PROVE  CallPlan'
  <2>1. act'[p].st # Absent
    BY <1>3, TransitionFacts DEF PrepareWal, Absent
  <2>2. call'.plan = p
    BY <1>3 DEF PrepareWal, Goto, TypeOK, Call
  <2>3. QED
    BY <1>x, <2>1, <2>2 DEF Began
<1>4. ASSUME PrepareReceipt PROVE CallPlan'
  BY <1>x, <1>4 DEF PrepareReceipt, Return, Done
<1>5. ASSUME NEW p \in Plans, NEW l \in LaunchIds, LaunchWal(p, l)
      PROVE  CallPlan'
  <2>1. act'[p].st # Absent
    BY <1>5 DEF LaunchWal, TypeOK, Absent
  <2>2. call'.plan = p
    BY <1>5 DEF LaunchWal, Goto, TypeOK, Call
  <2>3. QED
    BY <1>x, <2>1, <2>2 DEF Began
<1>6. ASSUME LaunchEffect PROVE CallPlan'
  <2>1. call'.plan = call.plan
    BY <1>6 DEF LaunchEffect, Goto, TypeOK, Call
  <2>2. QED
    BY <1>x, <1>6, <2>1 DEF LaunchEffect, Kept
<1>7. ASSUME LaunchReceipt PROVE CallPlan'
  BY <1>x, <1>7 DEF LaunchReceipt, Return, Done
<1>8. ASSUME NEW p \in Plans, NEW n \in Nonces, NEW l \in LaunchIds, NEW q \in Procs, NEW i \in 1..MaxInc, Observe(p, n, l, q, i)
      PROVE  CallPlan'
  BY <1>x, <1>8 DEF Observe
<1>9. ASSUME NEW p \in Plans, RefreshInventory(p)
      PROVE  CallPlan'
  BY <1>x, <1>9 DEF RefreshInventory
<1>10. ASSUME NEW p \in Plans, NEW g \in 0..gen, CommitWal(p, g)
      PROVE  CallPlan'
  <2>1. act'[p].st # Absent
    BY <1>10, TransitionFacts DEF CommitWal, Absent
  <2>2. call'.plan = p
    BY <1>10 DEF CommitWal, Goto, TypeOK, Call
  <2>3. QED
    BY <1>x, <2>1, <2>2 DEF Began
<1>11. ASSUME CommitEffect PROVE CallPlan'
  <2>1. call'.plan = call.plan
    BY <1>11 DEF CommitEffect, Goto, TypeOK, Call
  <2>2. QED
    BY <1>x, <1>11, <2>1 DEF CommitEffect, Kept
<1>12. ASSUME CommitReceipt PROVE CallPlan'
  BY <1>x, <1>12 DEF CommitReceipt, Return, Done
<1>13. ASSUME NEW p \in Plans, LeaseDegrade(p)
      PROVE  CallPlan'
  <2>1. act'[p].st # Absent
    BY <1>13, TransitionFacts DEF LeaseDegrade, Absent
  <2>2. call'.plan = p
    BY <1>13 DEF LeaseDegrade, Goto, TypeOK, Call
  <2>3. QED
    BY <1>x, <2>1, <2>2 DEF Began
<1>14. ASSUME LeaseFallback PROVE CallPlan'
  BY <1>x, <1>14 DEF LeaseFallback, Return, Done
<1>15. ASSUME NEW p \in Plans, RollbackWal(p)
      PROVE  CallPlan'
  <2>1. act'[p].st # Absent
    BY <1>15, TransitionFacts DEF RollbackWal, Absent
  <2>2. call'.plan = p
    BY <1>15 DEF RollbackWal, Goto, TypeOK, Call
  <2>3. QED
    BY <1>x, <2>1, <2>2 DEF Began
<1>16. ASSUME RollbackHost PROVE CallPlan'
  <2>1. call'.plan = call.plan
    BY <1>16 DEF RollbackHost, Goto, TypeOK, Call
  <2>2. QED
    BY <1>x, <1>16, <2>1 DEF RollbackHost, Kept
<1>17. ASSUME RollbackReceipt PROVE CallPlan'
  <2>1. call'.plan = call.plan
    BY <1>17 DEF RollbackReceipt, Goto, TypeOK, Call
  <2>2. QED
    BY <1>x, <1>17, <2>1 DEF RollbackReceipt, Kept
<1>18. ASSUME RollbackRestore PROVE CallPlan'
  <2>1. call'.plan = call.plan
    BY <1>18 DEF RollbackRestore, Goto, TypeOK, Call
  <2>2. QED
    BY <1>x, <1>18, <2>1 DEF RollbackRestore, Kept
<1>19. ASSUME RollbackCommit PROVE CallPlan'
  BY <1>x, <1>19 DEF RollbackCommit, Return, Done
<1>20. ASSUME NEW p \in Plans, RecoverRollback(p)
      PROVE  CallPlan'
  BY <1>x, <1>20 DEF RecoverRollback
<1>21. ASSUME NEW p \in Plans, RecoverRestore(p)
      PROVE  CallPlan'
  <2>1. act'[p].st # Absent
    BY <1>21 DEF RecoverRestore, Interrupted, Absent, db
  <2>2. call'.plan = p
    BY <1>21 DEF RecoverRestore, Goto, TypeOK, Call
  <2>3. QED
    BY <1>x, <2>1, <2>2 DEF Began
<1>22. ASSUME RecoverCommit PROVE CallPlan'
  BY <1>x, <1>22 DEF RecoverCommit, Return, Done
<1>23. ASSUME NEW p \in Plans, ResumeObserving(p)
      PROVE  CallPlan'
  BY <1>x, <1>23 DEF ResumeObserving
<1>24. ASSUME CutOff PROVE CallPlan'
  BY <1>x, <1>24 DEF CutOff, Return, Done
<1>25. ASSUME Restart PROVE CallPlan'
  BY <1>x, <1>25 DEF Restart, Return, Done
<1>26. ASSUME NEW p \in Plans, NEW q \in Procs, ProcessRestart(p, q)
      PROVE  CallPlan'
  BY <1>x, <1>26 DEF ProcessRestart
<1>27. ASSUME NEW e \in ev, Expire(e)
      PROVE  CallPlan'
  BY <1>x, <1>27 DEF Expire
<1>28. ASSUME LeaseChange PROVE CallPlan'
  BY <1>x, <1>28 DEF LeaseChange
<1>29. At("rollback.wal") => call.plan \in Plans
  BY DEF CallPlan, At, Idle
<1>30. QED
  BY <1>1, <1>2, <1>3, <1>4, <1>5, <1>6, <1>7, <1>8, <1>9, <1>10, <1>11, <1>12,
     <1>13, <1>14, <1>15, <1>16, <1>17, <1>18, <1>19, <1>20, <1>21, <1>22, <1>23,
     <1>24, <1>25, <1>26, <1>27, <1>28, <1>29
  DEF Next, Operate, Recover, Continue, Environment

-----------------------------------------------------------------------------
(* How a step may change the evidence table.  Edited: every row is rewritten,  *)
(* keeping its key columns, and no row becomes valid.  Admitted: one row with  *)
(* an unused nonce is added, for the launch of a plan that is being observed.  *)
KeepsKey(f, e) ==
  /\ f.nonce = e.nonce /\ f.plan = e.plan /\ f.launch = e.launch
  /\ f.proc = e.proc /\ f.inc = e.inc /\ f.mgr = e.mgr
  /\ f.valid => e.valid

Edited == \E h \in [ev -> Evidence] :
            /\ ev' = {h[e] : e \in ev}
            /\ \A e \in ev : KeepsKey(h[e], e)

Admitted == \E f \in Evidence :
              /\ ev' = ev \cup {f}
              /\ Unused(f.nonce)
              /\ f.launch = act[f.plan].launch
              /\ act[f.plan].st \in {"Observing", "Reconcile"}
              /\ act' = act

(* A table left alone is edited by the identity.                              *)
LEMMA SameRows ==
  ASSUME TypeOK, ev' = ev
  PROVE  Edited
<1> DEFINE h == [e \in ev |-> e]
<1>1. h \in [ev -> Evidence]
  BY DEF TypeOK
<1>2. ev' = {h[e] : e \in ev} /\ \A e \in ev : KeepsKey(h[e], e)
  BY DEF KeepsKey
<1>3. QED
  BY <1>1, <1>2 DEF Edited

(* Every step edits the evidence table or admits one row.                     *)
LEMMA EvidenceSteps ==
  ASSUME TypeOK, CallPlan, Next
  PROVE  Edited \/ Admitted
<1>0. ev' = ev => Edited
  BY SameRows
<1>e. \A e \in ev : e \in Evidence
  BY DEF TypeOK
<1>1. ASSUME NEW p \in Plans, PlanInsert(p)
      PROVE  Edited \/ Admitted
  BY <1>0, <1>1 DEF PlanInsert, db
<1>2. ASSUME PlanHold PROVE Edited \/ Admitted
  BY <1>0, <1>2 DEF PlanHold, db
<1>3. ASSUME NEW p \in Plans, PrepareWal(p)
      PROVE  Edited \/ Admitted
  BY <1>0, <1>3 DEF PrepareWal, db
<1>4. ASSUME PrepareReceipt PROVE Edited \/ Admitted
  BY <1>0, <1>4 DEF PrepareReceipt, db
<1>5. ASSUME NEW p \in Plans, NEW l \in LaunchIds, LaunchWal(p, l)
      PROVE  Edited \/ Admitted
  BY <1>0, <1>5 DEF LaunchWal, db
<1>6. ASSUME LaunchEffect PROVE Edited \/ Admitted
  BY <1>0, <1>6 DEF LaunchEffect, db
<1>7. ASSUME LaunchReceipt PROVE Edited \/ Admitted
  BY <1>0, <1>7 DEF LaunchReceipt, db
<1>8. ASSUME NEW p \in Plans, NEW n \in Nonces, NEW l \in LaunchIds, NEW q \in Procs, NEW i \in 1..MaxInc, Observe(p, n, l, q, i)
      PROVE  Edited \/ Admitted
  <2> DEFINE f == [nonce |-> n, plan |-> p, launch |-> l, proc |-> q, inc |-> i,
                   mgr |-> epoch, valid |-> TRUE, fresh |-> TRUE]
  <2>1. f \in Evidence
    BY DEF Evidence, TypeOK
  <2>2. /\ ev' = ev \cup {f} /\ Unused(f.nonce) /\ act' = act
        /\ f.launch = act[f.plan].launch
        /\ act[f.plan].st \in {"Observing", "Reconcile"}
    BY <1>8 DEF Observe, Matches
  <2>3. QED
    BY <2>1, <2>2 DEF Admitted
<1>9. ASSUME NEW p \in Plans, RefreshInventory(p)
      PROVE  Edited \/ Admitted
  <2> DEFINE h == [e \in ev |-> IF e.plan = p THEN Voided(e) ELSE e]
  <2>1. h \in [ev -> Evidence] /\ \A x \in ev : KeepsKey(h[x], x)
    BY <1>e, RowEdits DEF KeepsKey
  <2>2. ev' = {h[x] : x \in ev}
    BY <1>9 DEF RefreshInventory, VoidedFor
  <2>3. QED
    BY <2>1, <2>2 DEF Edited
<1>10. ASSUME NEW p \in Plans, NEW g \in 0..gen, CommitWal(p, g)
      PROVE  Edited \/ Admitted
  BY <1>0, <1>10 DEF CommitWal, db
<1>11. ASSUME CommitEffect PROVE Edited \/ Admitted
  BY <1>0, <1>11 DEF CommitEffect, db
<1>12. ASSUME CommitReceipt PROVE Edited \/ Admitted
  BY <1>0, <1>12 DEF CommitReceipt, db
<1>13. ASSUME NEW p \in Plans, LeaseDegrade(p)
      PROVE  Edited \/ Admitted
  BY <1>0, <1>13 DEF LeaseDegrade, db
<1>14. ASSUME LeaseFallback PROVE Edited \/ Admitted
  BY <1>0, <1>14 DEF LeaseFallback, db
<1>15. ASSUME NEW p \in Plans, RollbackWal(p)
      PROVE  Edited \/ Admitted
  BY <1>0, <1>15 DEF RollbackWal, db
<1>16. ASSUME RollbackHost PROVE Edited \/ Admitted
  BY <1>0, <1>16 DEF RollbackHost, db
<1>17. ASSUME RollbackReceipt PROVE Edited \/ Admitted
  BY <1>0, <1>17 DEF RollbackReceipt, db
<1>18. ASSUME RollbackRestore PROVE Edited \/ Admitted
  BY <1>0, <1>18 DEF RollbackRestore, db
<1>19. ASSUME RollbackCommit PROVE Edited \/ Admitted
  BY <1>0, <1>19 DEF RollbackCommit, db
<1>20. ASSUME NEW p \in Plans, RecoverRollback(p)
      PROVE  Edited \/ Admitted
  BY <1>0, <1>20 DEF RecoverRollback, db
<1>21. ASSUME NEW p \in Plans, RecoverRestore(p)
      PROVE  Edited \/ Admitted
  BY <1>0, <1>21 DEF RecoverRestore, db
<1>22. ASSUME RecoverCommit PROVE Edited \/ Admitted
  BY <1>0, <1>22 DEF RecoverCommit, db
<1>23. ASSUME NEW p \in Plans, ResumeObserving(p)
      PROVE  Edited \/ Admitted
  BY <1>0, <1>23 DEF ResumeObserving, db
<1>24. ASSUME CutOff PROVE Edited \/ Admitted
  BY <1>0, <1>24 DEF CutOff, db
<1>25. ASSUME Restart PROVE Edited \/ Admitted
  <2> DEFINE h == [e \in ev |-> Voided(e)]
  <2>1. h \in [ev -> Evidence] /\ \A x \in ev : KeepsKey(h[x], x)
    BY <1>e, RowEdits DEF KeepsKey
  <2>2. ev' = {h[x] : x \in ev}
    BY <1>25 DEF Restart
  <2>3. QED
    BY <2>1, <2>2 DEF Edited
<1>26. ASSUME NEW p \in Plans, NEW q \in Procs, ProcessRestart(p, q)
      PROVE  Edited \/ Admitted
  BY <1>0, <1>26 DEF ProcessRestart, db
<1>27. ASSUME NEW e \in ev, Expire(e)
      PROVE  Edited \/ Admitted
  <2> DEFINE h == [x \in ev |-> IF x = e THEN [e EXCEPT !.fresh = FALSE] ELSE x]
  <2>1. h \in [ev -> Evidence] /\ \A x \in ev : KeepsKey(h[x], x)
    BY <1>e, RowEdits DEF KeepsKey
  <2>2. ev' = {h[x] : x \in ev}
    BY <1>27 DEF Expire
  <2>3. QED
    BY <2>1, <2>2 DEF Edited
<1>28. ASSUME LeaseChange PROVE Edited \/ Admitted
  BY <1>0, <1>28 DEF LeaseChange, db
<1>29. At("rollback.wal") => call.plan \in Plans
  BY DEF CallPlan, At, Idle
<1>30. QED
  BY <1>1, <1>2, <1>3, <1>4, <1>5, <1>6, <1>7, <1>8, <1>9, <1>10, <1>11, <1>12,
     <1>13, <1>14, <1>15, <1>16, <1>17, <1>18, <1>19, <1>20, <1>21, <1>22, <1>23,
     <1>24, <1>25, <1>26, <1>27, <1>28, <1>29
  DEF Next, Operate, Recover, Continue, Environment

(* A nonce names one evidence row.                                            *)
NonceKey == \A e, f \in ev : e.nonce = f.nonce => e = f

Early == {Absent, "Planned", "Preparing", "Prepared"}

(* Evidence is about the launch its plan has now.                             *)
EvidenceBound ==
  \A e \in ev : e.launch = act[e.plan].launch /\ act[e.plan].st \notin Early

(* Nonces stay keys: edits keep them, and an admitted nonce is unused.        *)
LEMMA StepNonceKey ==
  ASSUME TypeOK, NonceKey, Edited \/ Admitted
  PROVE  NonceKey'
<1>1. CASE Edited
  BY <1>1 DEF Edited, KeepsKey, NonceKey
<1>2. CASE Admitted
  BY <1>2 DEF Admitted, Unused, NonceKey
<1>3. QED
  BY <1>1, <1>2

(* A plan that has been launched keeps its launch id.                         *)
LEMMA LaunchIsFixed ==
  ASSUME TypeOK, ActMoves, NEW q \in Plans, act[q].st \notin Early
  PROVE  act'[q].launch = act[q].launch /\ act'[q].st \notin Early
<1>1. act[q].st \notin Early => \A t \in Targets(act[q].st) : t \notin Early
  BY DEF Targets, Early, Absent
<1>2. QED
  BY <1>1 DEF ActMoves, RowMoves, Early

(* Evidence stays bound to the launch.                                        *)
LEMMA StepEvidenceBound ==
  ASSUME TypeOK, EvidenceBound, ActMoves, Edited \/ Admitted
  PROVE  EvidenceBound'
<1>0. \A e \in ev : e.plan \in Plans
  BY DEF TypeOK, Evidence
<1>1. \A e \in ev : e.launch = act'[e.plan].launch /\ act'[e.plan].st \notin Early
  BY <1>0, LaunchIsFixed DEF EvidenceBound
<1>2. CASE Edited
  BY <1>1, <1>2 DEF Edited, KeepsKey, EvidenceBound
<1>3. CASE Admitted
  BY <1>1, <1>3 DEF Admitted, EvidenceBound, Early, Absent
<1>4. QED
  BY <1>2, <1>3

-----------------------------------------------------------------------------
(* Between the commit transaction and its receipt the plan is CommitReady,    *)
(* logged and attested; once activate() returned, traffic is its own.         *)
CommitInFlight ==
  call.pc \in {"commit.effect", "commit.receipt"} =>
    /\ act[call.plan].st = "CommitReady"
    /\ Committed(call.plan) /\ Attested(call.plan)
    /\ call.pc = "commit.receipt" => traffic = call.plan

(* A rollback that saw no failure has put traffic on the predecessor.         *)
RestoredInFlight ==
  call.pc = "rollback.commit" /\ ~call.err => traffic = Pred[call.plan]

(* A step during which the call and all it relies on stand still.             *)
Waiting ==
  /\ ~Idle /\ call' = call
  /\ UNCHANGED <<act, wal, epoch, inv, traffic>>
  /\ ev' = ev \/ \E e \in ev : Expire(e)

(* How a call comes to be, or stays, at the steps these two are about.        *)
CallStep ==
  \/ call'.pc \notin {"commit.effect", "commit.receipt", "rollback.commit"}
  \/ \E p \in Plans, g \in 0..gen : CommitWal(p, g)
  \/ CommitEffect
  \/ RollbackRestore
  \/ Waiting

(* The cases are exhaustive.                                                  *)
LEMMA CallSteps ==
  ASSUME TypeOK, CallPlan, Next
  PROVE  CallStep
<1> USE DEF At, Idle
<1>1. ASSUME NEW p \in Plans, PlanInsert(p)
      PROVE  CallStep
  BY <1>1 DEF PlanInsert, CallStep, Goto, Return, Done, TypeOK, Call
<1>2. ASSUME PlanHold PROVE CallStep
  BY <1>2 DEF PlanHold, CallStep, Goto, Return, Done, TypeOK, Call
<1>3. ASSUME NEW p \in Plans, PrepareWal(p)
      PROVE  CallStep
  BY <1>3 DEF PrepareWal, CallStep, Goto, Return, Done, TypeOK, Call
<1>4. ASSUME PrepareReceipt PROVE CallStep
  BY <1>4 DEF PrepareReceipt, CallStep, Goto, Return, Done, TypeOK, Call
<1>5. ASSUME NEW p \in Plans, NEW l \in LaunchIds, LaunchWal(p, l)
      PROVE  CallStep
  BY <1>5 DEF LaunchWal, CallStep, Goto, Return, Done, TypeOK, Call
<1>6. ASSUME LaunchEffect PROVE CallStep
  BY <1>6 DEF LaunchEffect, CallStep, Goto, Return, Done, TypeOK, Call
<1>7. ASSUME LaunchReceipt PROVE CallStep
  BY <1>7 DEF LaunchReceipt, CallStep, Goto, Return, Done, TypeOK, Call
<1>8. ASSUME NEW p \in Plans, NEW n \in Nonces, NEW l \in LaunchIds, NEW q \in Procs, NEW i \in 1..MaxInc, Observe(p, n, l, q, i)
      PROVE  CallStep
  BY <1>8 DEF Observe, CallStep, Goto, Return, Done, TypeOK, Call
<1>9. ASSUME NEW p \in Plans, RefreshInventory(p)
      PROVE  CallStep
  BY <1>9 DEF RefreshInventory, CallStep, Goto, Return, Done, TypeOK, Call
<1>10. ASSUME NEW p \in Plans, NEW g \in 0..gen, CommitWal(p, g)
      PROVE  CallStep
  BY <1>10 DEF CallStep
<1>11. ASSUME CommitEffect PROVE CallStep
  BY <1>11 DEF CallStep
<1>12. ASSUME CommitReceipt PROVE CallStep
  BY <1>12 DEF CommitReceipt, CallStep, Goto, Return, Done, TypeOK, Call
<1>13. ASSUME NEW p \in Plans, LeaseDegrade(p)
      PROVE  CallStep
  BY <1>13 DEF LeaseDegrade, CallStep, Goto, Return, Done, TypeOK, Call
<1>14. ASSUME LeaseFallback PROVE CallStep
  BY <1>14 DEF LeaseFallback, CallStep, Goto, Return, Done, TypeOK, Call
<1>15. ASSUME NEW p \in Plans, RollbackWal(p)
      PROVE  CallStep
  BY <1>15 DEF RollbackWal, CallStep, Goto, Return, Done, TypeOK, Call
<1>16. ASSUME RollbackHost PROVE CallStep
  BY <1>16 DEF RollbackHost, CallStep, Goto, Return, Done, TypeOK, Call
<1>17. ASSUME RollbackReceipt PROVE CallStep
  BY <1>17 DEF RollbackReceipt, CallStep, Goto, Return, Done, TypeOK, Call
<1>18. ASSUME RollbackRestore PROVE CallStep
  BY <1>18 DEF CallStep
<1>19. ASSUME RollbackCommit PROVE CallStep
  BY <1>19 DEF RollbackCommit, CallStep, Goto, Return, Done, TypeOK, Call
<1>20. ASSUME NEW p \in Plans, RecoverRollback(p)
      PROVE  CallStep
  BY <1>20 DEF RecoverRollback, CallStep, Goto, Return, Done, TypeOK, Call
<1>21. ASSUME NEW p \in Plans, RecoverRestore(p)
      PROVE  CallStep
  BY <1>21 DEF RecoverRestore, CallStep, Goto, Return, Done, TypeOK, Call
<1>22. ASSUME RecoverCommit PROVE CallStep
  BY <1>22 DEF RecoverCommit, CallStep, Goto, Return, Done, TypeOK, Call
<1>23. ASSUME NEW p \in Plans, ResumeObserving(p)
      PROVE  CallStep
  BY <1>23 DEF ResumeObserving, CallStep, Goto, Return, Done, TypeOK, Call
<1>24. ASSUME CutOff PROVE CallStep
  BY <1>24 DEF CutOff, CallStep, Goto, Return, Done, TypeOK, Call
<1>25. ASSUME Restart PROVE CallStep
  BY <1>25 DEF Restart, CallStep, Goto, Return, Done, TypeOK, Call
<1>26. ASSUME NEW p \in Plans, NEW q \in Procs, ProcessRestart(p, q)
      PROVE  CallStep
  BY <1>26 DEF CallStep, Waiting, ProcessRestart, db, env
<1>27. ASSUME NEW e \in ev, Expire(e)
      PROVE  CallStep
  BY <1>27 DEF CallStep, Waiting, Expire, db, env
<1>28. ASSUME LeaseChange PROVE CallStep
  BY <1>28 DEF CallStep, Waiting, LeaseChange, db, env
<1>29. At("rollback.wal") => call.plan \in Plans
  BY DEF CallPlan, At, Idle
<1>30. QED
  BY <1>1, <1>2, <1>3, <1>4, <1>5, <1>6, <1>7, <1>8, <1>9, <1>10, <1>11, <1>12,
     <1>13, <1>14, <1>15, <1>16, <1>17, <1>18, <1>19, <1>20, <1>21, <1>22, <1>23,
     <1>24, <1>25, <1>26, <1>27, <1>28, <1>29
  DEF Next, Operate, Recover, Continue, Environment

(* Complete evidence is evidence about the launch in hand.                    *)
LEMMA CompleteIsAttested ==
  ASSUME EvidenceBound, NEW p \in Plans, EvidenceComplete(p)
  PROVE  Attested(p)
  BY DEF EvidenceBound, EvidenceComplete, Counts, Attested

(* Expiry after the commit transaction does not undo the attestation.         *)
LEMMA WaitingKeepsAttested ==
  ASSUME TypeOK, NEW p \in Plans, Attested(p), Waiting
  PROVE  Attested(p)'
<1>1. UNCHANGED <<act, epoch, inv>>
  BY DEF Waiting
<1>2. CASE ev' = ev
  BY <1>1, <1>2 DEF Attested
<1>3. ASSUME NEW e \in ev, Expire(e)
      PROVE  Attested(p)'
  <2> SUFFICES ASSUME NEW q \in Required[p]
               PROVE  \E f \in ev' : /\ f.plan = p /\ f.launch = act[p].launch
                                    /\ f.proc = q /\ f.inc = inv[p][q]
                                    /\ f.valid /\ f.mgr = epoch
    BY <1>1 DEF Attested
  <2>1. PICK x \in ev : /\ x.plan = p /\ x.launch = act[p].launch
                        /\ x.proc = q /\ x.inc = inv[p][q]
                        /\ x.valid /\ x.mgr = epoch
    BY DEF Attested
  <2> DEFINE y == [e EXCEPT !.fresh = FALSE]
  <2>2. ev' = (ev \ {e}) \cup {y}
    BY <1>3 DEF Expire
  <2>3. e \in Evidence
    BY DEF TypeOK
  <2>4. /\ y.plan = e.plan /\ y.launch = e.launch /\ y.proc = e.proc
        /\ y.inc = e.inc /\ y.mgr = e.mgr /\ y.valid = e.valid
    BY <2>3, RowEdits
  <2> HIDE DEF y
  <2>5. CASE x = e
    BY <2>1, <2>2, <2>4, <2>5
  <2>6. CASE x # e
    BY <2>1, <2>2, <2>6
  <2>7. QED
    BY <2>5, <2>6
<1>4. QED
  BY <1>2, <1>3 DEF Waiting

(* The commit in flight keeps what its receipt will rest on.                  *)
LEMMA StepCommitInFlight ==
  ASSUME TypeOK, CallPlan, EvidenceBound, CommitInFlight, CallStep
  PROVE  CommitInFlight'
<1>1. CASE call'.pc \notin {"commit.effect", "commit.receipt", "rollback.commit"}
  BY <1>1 DEF CommitInFlight
<1>2. ASSUME NEW p \in Plans, NEW g \in 0..gen, CommitWal(p, g)
      PROVE  CommitInFlight'
  <2>1. call'.pc = "commit.effect" /\ call'.plan = p
    BY <1>2, GotoTypes DEF CommitWal, Pcs
  <2>2. act'[p].st = "CommitReady" /\ act'[p].launch = act[p].launch
    BY <1>2, TransitionFacts DEF CommitWal
  <2>3. Committed(p)'
    BY <1>2 DEF CommitWal, Log, Committed
  <2>4. Attested(p)
    BY <1>2, CompleteIsAttested DEF CommitWal
  <2>5. Attested(p)'
    BY <1>2, <2>2, <2>4 DEF Attested, CommitWal
  <2>6. QED
    BY <2>1, <2>2, <2>3, <2>5 DEF CommitInFlight
<1>3. CASE CommitEffect
  <2>1. call.plan \in Plans /\ call.pc = "commit.effect"
    BY <1>3 DEF CommitEffect, CallPlan, At, Idle
  <2>2. call'.pc = "commit.receipt" /\ call'.plan = call.plan
    BY <1>3, <2>1, GotoTypes DEF CommitEffect, Pcs
  <2>3. Committed(call.plan)' /\ Attested(call.plan)' /\ act' = act /\ traffic' = call.plan
    BY <1>3, <2>1, <2>2 DEF CommitEffect, CommitInFlight, Committed, Attested, db
  <2>4. QED
    BY <2>1, <2>2, <2>3 DEF CommitInFlight, Committed, Attested
<1>4. CASE RollbackRestore
  <2>1. call'.pc = "rollback.commit"
    BY <1>4 DEF RollbackRestore, Goto, TypeOK, Call
  <2>2. QED
    BY <2>1 DEF CommitInFlight
<1>5. CASE Waiting
  <2>1. call.plan \in Plans /\ call' = call
    BY <1>5 DEF Waiting, CallPlan
  <2>2. Attested(call.plan) => Attested(call.plan)'
    BY <1>5, <2>1, WaitingKeepsAttested
  <2>3. UNCHANGED <<act, wal, traffic>>
    BY <1>5 DEF Waiting
  <2>4. QED
    BY <2>1, <2>2, <2>3 DEF CommitInFlight, Committed
<1>6. QED
  BY <1>1, <1>2, <1>3, <1>4, <1>5 DEF CallStep

(* A rollback that saw no failure still has its predecessor's traffic.        *)
LEMMA StepRestoredInFlight ==
  ASSUME TypeOK, CallPlan, RestoredInFlight, CallStep
  PROVE  RestoredInFlight'
<1>1. CASE call'.pc \notin {"commit.effect", "commit.receipt", "rollback.commit"}
  BY <1>1 DEF RestoredInFlight
<1>2. ASSUME NEW p \in Plans, NEW g \in 0..gen, CommitWal(p, g)
      PROVE  RestoredInFlight'
  BY <1>2, GotoTypes DEF CommitWal, Pcs, RestoredInFlight
<1>3. CASE CommitEffect
  BY <1>3, GotoTypes DEF CommitEffect, Pcs, RestoredInFlight, CallPlan, At, Idle
<1>4. CASE RollbackRestore
  BY <1>4 DEF RollbackRestore, RestoredInFlight, Goto, TypeOK, Call
<1>5. CASE Waiting
  BY <1>5 DEF Waiting, RestoredInFlight
<1>6. QED
  BY <1>1, <1>2, <1>3, <1>4, <1>5 DEF CallStep

-----------------------------------------------------------------------------
(* How a step may move traffic: not at all, to the plan whose commit is in    *)
(* flight, or to the predecessor of a plan in the table.                      *)
TrafficStep ==
  \/ traffic' = traffic
  \/ CommitEffect
  \/ act' = act /\ \E p \in Plans : act[p].st # Absent /\ traffic' = Pred[p]

(* The cases are exhaustive.                                                  *)
LEMMA TrafficSteps ==
  ASSUME TypeOK, CallPlan, Next
  PROVE  TrafficStep
<1>1. ASSUME NEW p \in Plans, PlanInsert(p)
      PROVE  TrafficStep
  BY <1>1 DEF PlanInsert, TrafficStep, env
<1>2. ASSUME PlanHold PROVE TrafficStep
  <2>1. call.plan \in Plans /\ act[call.plan].st # Absent
    BY <1>2 DEF PlanHold, CallPlan, At, Idle
  <2>2. QED
    BY <1>2, <2>1 DEF PlanHold, TrafficStep, db
<1>3. ASSUME NEW p \in Plans, PrepareWal(p)
      PROVE  TrafficStep
  BY <1>3 DEF PrepareWal, TrafficStep, env
<1>4. ASSUME PrepareReceipt PROVE TrafficStep
  BY <1>4 DEF PrepareReceipt, TrafficStep, env
<1>5. ASSUME NEW p \in Plans, NEW l \in LaunchIds, LaunchWal(p, l)
      PROVE  TrafficStep
  BY <1>5 DEF LaunchWal, TrafficStep, env
<1>6. ASSUME LaunchEffect PROVE TrafficStep
  BY <1>6 DEF LaunchEffect, TrafficStep, env
<1>7. ASSUME LaunchReceipt PROVE TrafficStep
  BY <1>7 DEF LaunchReceipt, TrafficStep, env
<1>8. ASSUME NEW p \in Plans, NEW n \in Nonces, NEW l \in LaunchIds, NEW q \in Procs, NEW i \in 1..MaxInc, Observe(p, n, l, q, i)
      PROVE  TrafficStep
  BY <1>8 DEF Observe, TrafficStep, env
<1>9. ASSUME NEW p \in Plans, RefreshInventory(p)
      PROVE  TrafficStep
  BY <1>9 DEF RefreshInventory, TrafficStep, env
<1>10. ASSUME NEW p \in Plans, NEW g \in 0..gen, CommitWal(p, g)
      PROVE  TrafficStep
  BY <1>10 DEF CommitWal, TrafficStep, env
<1>11. ASSUME CommitEffect PROVE TrafficStep
  BY <1>11 DEF TrafficStep
<1>12. ASSUME CommitReceipt PROVE TrafficStep
  BY <1>12 DEF CommitReceipt, TrafficStep, env
<1>13. ASSUME NEW p \in Plans, LeaseDegrade(p)
      PROVE  TrafficStep
  BY <1>13 DEF LeaseDegrade, TrafficStep, env
<1>14. ASSUME LeaseFallback PROVE TrafficStep
  BY <1>14 DEF LeaseFallback, TrafficStep, env
<1>15. ASSUME NEW p \in Plans, RollbackWal(p)
      PROVE  TrafficStep
  BY <1>15 DEF RollbackWal, TrafficStep, env
<1>16. ASSUME RollbackHost PROVE TrafficStep
  BY <1>16 DEF RollbackHost, TrafficStep, env
<1>17. ASSUME RollbackReceipt PROVE TrafficStep
  BY <1>17 DEF RollbackReceipt, TrafficStep, env
<1>18. ASSUME RollbackRestore PROVE TrafficStep
  <2>1. call.plan \in Plans /\ act[call.plan].st # Absent
    BY <1>18 DEF RollbackRestore, CallPlan, At, Idle
  <2>2. QED
    BY <1>18, <2>1 DEF RollbackRestore, TrafficStep, db
<1>19. ASSUME RollbackCommit PROVE TrafficStep
  BY <1>19 DEF RollbackCommit, TrafficStep, env
<1>20. ASSUME NEW p \in Plans, RecoverRollback(p)
      PROVE  TrafficStep
  BY <1>20 DEF RecoverRollback, TrafficStep, env
<1>21. ASSUME NEW p \in Plans, RecoverRestore(p)
      PROVE  TrafficStep
  BY <1>21 DEF RecoverRestore, TrafficStep, Interrupted, Absent, db
<1>22. ASSUME RecoverCommit PROVE TrafficStep
  BY <1>22 DEF RecoverCommit, TrafficStep, env
<1>23. ASSUME NEW p \in Plans, ResumeObserving(p)
      PROVE  TrafficStep
  BY <1>23 DEF ResumeObserving, TrafficStep, env
<1>24. ASSUME CutOff PROVE TrafficStep
  BY <1>24 DEF CutOff, TrafficStep, env
<1>25. ASSUME Restart PROVE TrafficStep
  BY <1>25 DEF Restart, TrafficStep, env
<1>26. ASSUME NEW p \in Plans, NEW q \in Procs, ProcessRestart(p, q)
      PROVE  TrafficStep
  BY <1>26 DEF ProcessRestart, TrafficStep, env
<1>27. ASSUME NEW e \in ev, Expire(e)
      PROVE  TrafficStep
  BY <1>27 DEF Expire, TrafficStep, env
<1>28. ASSUME LeaseChange PROVE TrafficStep
  BY <1>28 DEF LeaseChange, TrafficStep, env
<1>29. At("rollback.wal") => call.plan \in Plans
  BY DEF CallPlan, At, Idle
<1>30. QED
  BY <1>1, <1>2, <1>3, <1>4, <1>5, <1>6, <1>7, <1>8, <1>9, <1>10, <1>11, <1>12,
     <1>13, <1>14, <1>15, <1>16, <1>17, <1>18, <1>19, <1>20, <1>21, <1>22, <1>23,
     <1>24, <1>25, <1>26, <1>27, <1>28, <1>29
  DEF Next, Operate, Recover, Continue, Environment

(* Which step completes a plan, and how: Effective only by a commit receipt,   *)
(* RolledBack only by a rollback that saw no failure.                         *)
Completion(p) ==
  /\ act[p].st # "Effective" /\ act'[p].st = "Effective" => At("commit.receipt") /\ call.plan = p
  /\ act[p].st # "RolledBack" /\ act'[p].st = "RolledBack"
       => /\ At("rollback.commit") /\ ~call.err /\ call.plan = p
          /\ traffic' = traffic

(* Moving one plan to a state that completes nothing.                         *)
LEMMA OrdinaryMove ==
  ASSUME TypeOK, NEW p \in Plans, NEW t, Transition(p, t), t \notin {"Effective", "RolledBack"}
  PROVE  \A q \in Plans : Completion(q)
  BY TransitionFacts DEF Completion

(* Every step respects it.                                                    *)
LEMMA Completions ==
  ASSUME TypeOK, CallPlan, Next
  PROVE  \A q \in Plans : Completion(q)
<1>0. act \in [Plans -> ActRow]
  BY DEF TypeOK, ActRow
<1>1. ASSUME NEW p \in Plans, PlanInsert(p)
      PROVE  \A q \in Plans : Completion(q)
  BY <1>0, <1>1 DEF PlanInsert, Completion, ActRow
<1>2. ASSUME PlanHold PROVE \A q \in Plans : Completion(q)
  BY <1>2 DEF PlanHold, Completion, db
<1>3. ASSUME NEW p \in Plans, PrepareWal(p)
      PROVE  \A q \in Plans : Completion(q)
  BY <1>3, OrdinaryMove DEF PrepareWal
<1>4. ASSUME PrepareReceipt PROVE \A q \in Plans : Completion(q)
  <2>1. call.plan \in Plans
    BY <1>4 DEF PrepareReceipt, CallPlan, At, Idle
  <2>2. QED
    BY <1>4, <2>1, OrdinaryMove DEF PrepareReceipt
<1>5. ASSUME NEW p \in Plans, NEW l \in LaunchIds, LaunchWal(p, l)
      PROVE  \A q \in Plans : Completion(q)
  BY <1>0, <1>5 DEF LaunchWal, Completion, ActRow
<1>6. ASSUME LaunchEffect PROVE \A q \in Plans : Completion(q)
  BY <1>6 DEF LaunchEffect, Completion, db
<1>7. ASSUME LaunchReceipt PROVE \A q \in Plans : Completion(q)
  <2>1. call.plan \in Plans
    BY <1>7 DEF LaunchReceipt, CallPlan, At, Idle
  <2>2. QED
    BY <1>7, <2>1, OrdinaryMove DEF LaunchReceipt
<1>8. ASSUME NEW p \in Plans, NEW n \in Nonces, NEW l \in LaunchIds, NEW q \in Procs,
             NEW i \in 1..MaxInc, Observe(p, n, l, q, i)
      PROVE  \A r \in Plans : Completion(r)
  BY <1>8 DEF Observe, Completion, db
<1>9. ASSUME NEW p \in Plans, RefreshInventory(p)
      PROVE  \A q \in Plans : Completion(q)
  BY <1>9 DEF RefreshInventory, Completion, db
<1>10. ASSUME NEW p \in Plans, NEW g \in 0..gen, CommitWal(p, g)
      PROVE  \A q \in Plans : Completion(q)
  BY <1>10, OrdinaryMove DEF CommitWal
<1>11. ASSUME CommitEffect PROVE \A q \in Plans : Completion(q)
  BY <1>11 DEF CommitEffect, Completion, db
<1>12. ASSUME CommitReceipt PROVE \A q \in Plans : Completion(q)
  <2>1. call.plan \in Plans
    BY <1>12 DEF CommitReceipt, CallPlan, At, Idle
  <2>2. QED
    BY <1>12, <2>1, TransitionFacts DEF CommitReceipt, Completion
<1>13. ASSUME NEW p \in Plans, LeaseDegrade(p)
      PROVE  \A q \in Plans : Completion(q)
  BY <1>13, OrdinaryMove DEF LeaseDegrade
<1>14. ASSUME LeaseFallback PROVE \A q \in Plans : Completion(q)
  <2>1. call.plan \in Plans
    BY <1>14 DEF LeaseFallback, CallPlan, At, Idle
  <2>2. QED
    BY <1>14, <2>1, OrdinaryMove DEF LeaseFallback
<1>15. ASSUME NEW p \in Plans, RollbackWal(p)
      PROVE  \A q \in Plans : Completion(q)
  BY <1>15, OrdinaryMove DEF RollbackWal
<1>16. ASSUME RollbackHost PROVE \A q \in Plans : Completion(q)
  BY <1>16 DEF RollbackHost, Completion, db
<1>17. ASSUME RollbackReceipt PROVE \A q \in Plans : Completion(q)
  BY <1>17 DEF RollbackReceipt, Completion, db
<1>18. ASSUME RollbackRestore PROVE \A q \in Plans : Completion(q)
  BY <1>18 DEF RollbackRestore, Completion, db
<1>19. ASSUME RollbackCommit PROVE \A q \in Plans : Completion(q)
  <2>1. call.plan \in Plans
    BY <1>19 DEF RollbackCommit, CallPlan, At, Idle
  <2>2. CASE Transition(call.plan, "FailedSafe")
    BY <2>1, <2>2, OrdinaryMove
  <2>3. CASE Restored /\ Transition(call.plan, "RolledBack")
    BY <1>19, <2>1, <2>3, TransitionFacts DEF RollbackCommit, Completion, Restored, env
  <2>4. QED
    BY <1>19, <2>2, <2>3 DEF RollbackCommit
<1>20. ASSUME NEW p \in Plans, RecoverRollback(p)
      PROVE  \A q \in Plans : Completion(q)
  BY <1>20, OrdinaryMove DEF RecoverRollback
<1>21. ASSUME NEW p \in Plans, RecoverRestore(p)
      PROVE  \A q \in Plans : Completion(q)
  BY <1>21 DEF RecoverRestore, Completion, db
<1>22. ASSUME RecoverCommit PROVE \A q \in Plans : Completion(q)
  <2>1. call.plan \in Plans
    BY <1>22 DEF RecoverCommit, CallPlan, At, Idle
  <2>2. QED
    BY <1>22, <2>1, OrdinaryMove DEF RecoverCommit
<1>23. ASSUME NEW p \in Plans, ResumeObserving(p)
      PROVE  \A q \in Plans : Completion(q)
  BY <1>23, OrdinaryMove DEF ResumeObserving
<1>24. ASSUME CutOff PROVE \A q \in Plans : Completion(q)
  BY <1>24 DEF CutOff, Completion, db
<1>25. ASSUME Restart PROVE \A q \in Plans : Completion(q)
  BY <1>25 DEF Restart, Completion, db
<1>26. ASSUME NEW p \in Plans, NEW q \in Procs, ProcessRestart(p, q)
      PROVE  \A r \in Plans : Completion(r)
  BY <1>26 DEF ProcessRestart, Completion, db
<1>27. ASSUME NEW e \in ev, Expire(e)
      PROVE  \A q \in Plans : Completion(q)
  BY <1>27 DEF Expire, Completion, db
<1>28. ASSUME LeaseChange PROVE \A q \in Plans : Completion(q)
  BY <1>28 DEF LeaseChange, Completion, db
<1>29. At("rollback.wal") => call.plan \in Plans
  BY DEF CallPlan, At, Idle
<1>30. QED
  BY <1>1, <1>2, <1>3, <1>4, <1>5, <1>6, <1>7, <1>8, <1>9, <1>10, <1>11, <1>12,
     <1>13, <1>14, <1>15, <1>16, <1>17, <1>18, <1>19, <1>20, <1>21, <1>22, <1>23,
     <1>24, <1>25, <1>26, <1>27, <1>28, <1>29
  DEF Next, Operate, Recover, Continue, Environment

(* Commit WAL rows are never removed.                                         *)
LEMMA CommitsStay ==
  ASSUME CallPlan, Next, NEW p \in Plans, Committed(p)
  PROVE  Committed(p)'
<1>1. ASSUME NEW q \in Plans, NEW g \in 0..gen, CommitWal(q, g)
      PROVE  Committed(p)'
  BY <1>1 DEF CommitWal, Log, Committed
<1>2. QED
  BY <1>1, OnlyCommitCommits

(* Traffic reaches a candidate only behind its commit.                        *)
LEMMA StepCandidateTraffic ==
  ASSUME TypeOK, CallPlan, CommitInFlight, RestoredInFlight, CandidateTrafficCommitted, Next
  PROVE  CandidateTrafficCommitted'
<1>1. SUFFICES ASSUME NEW p \in Plans, traffic' = p, ~NamedPredecessor(p)'
               PROVE  Committed(p)' /\ act'[p].st # "RolledBack"
  BY DEF CandidateTrafficCommitted
<1>2. ActMoves /\ TrafficStep /\ Completion(p)
  BY StepMoves, TrafficSteps, Completions
<1>3. \A q \in Plans : act[q].st # Absent => act'[q].st # Absent
  BY <1>2, RowsStay
<1>4. ~NamedPredecessor(p)
  BY <1>1, <1>3 DEF NamedPredecessor
<1>5. CASE traffic' = traffic
  <2>1. Committed(p) /\ act[p].st # "RolledBack"
    BY <1>1, <1>4, <1>5 DEF CandidateTrafficCommitted
  <2>2. act'[p].st # "RolledBack"
    <3> SUFFICES ASSUME act'[p].st = "RolledBack" PROVE FALSE
      OBVIOUS
    <3>1. call.pc = "rollback.commit" /\ ~call.err /\ call.plan = p
      BY <1>2, <2>1 DEF Completion, At
    <3>2. Pred[p] = p /\ act[p].st # Absent
      BY <1>1, <1>5, <3>1 DEF RestoredInFlight, CallPlan, At, Idle
    <3>3. QED
      BY <1>4, <3>2 DEF NamedPredecessor
  <2>3. QED
    BY <2>1, <2>2, CommitsStay
<1>6. CASE CommitEffect
  <2>1. p = call.plan /\ call.pc = "commit.effect" /\ act' = act
    BY <1>1, <1>6 DEF CommitEffect, At, db
  <2>2. QED
    BY <2>1, CommitsStay DEF CommitInFlight
<1>7. CASE act' = act /\ \E q \in Plans : act[q].st # Absent /\ traffic' = Pred[q]
  BY <1>1, <1>4, <1>7 DEF NamedPredecessor
<1>8. QED
  BY <1>2, <1>5, <1>6, <1>7 DEF TrafficStep

-----------------------------------------------------------------------------
(* The inductive invariant: the two state properties, and what a call in      *)
(* progress and the evidence table must satisfy for them to be preserved.     *)
CoordInv ==
  /\ TypeOK
  /\ CallPlan
  /\ NonceKey
  /\ EvidenceBound
  /\ CommitInFlight
  /\ RestoredInFlight
  /\ OneCommitPerGeneration
  /\ CandidateTrafficCommitted

(* It holds at the start.                                                     *)
LEMMA InitCoordInv == Init => CoordInv
<1> SUFFICES ASSUME Init PROVE CoordInv
  OBVIOUS
<1>1. call.pc = "idle" /\ wal = {} /\ ev = {} /\ traffic = Base
  BY DEF Init, Done
<1>2. TypeOK
  BY InitTypeOK
<1>3. QED
  BY <1>1, <1>2, CoordinatorConstants
  DEF CoordInv, CallPlan, NonceKey, EvidenceBound, CommitInFlight, RestoredInFlight,
      OneCommitPerGeneration, CandidateTrafficCommitted, Committed, Idle, At

(* Every step keeps it.                                                       *)
LEMMA StepCoordInv == CoordInv /\ [Next]_vars => CoordInv'
<1> SUFFICES ASSUME CoordInv, [Next]_vars PROVE CoordInv'
  OBVIOUS
<1>0. TypeOK /\ CallPlan /\ NonceKey /\ EvidenceBound /\ CommitInFlight
      /\ RestoredInFlight /\ OneCommitPerGeneration /\ CandidateTrafficCommitted
  BY DEF CoordInv
<1>1. CASE Next
  <2>1. ActMoves /\ CallStep /\ (Edited \/ Admitted)
    BY <1>0, <1>1, StepMoves, CallSteps, EvidenceSteps
  <2>2. TypeOK' /\ CallPlan'
    BY <1>0, <1>1, StepTypeOK, StepCallPlan
  <2>3. NonceKey' /\ EvidenceBound'
    BY <1>0, <2>1, StepNonceKey, StepEvidenceBound
  <2>4. CommitInFlight' /\ RestoredInFlight'
    BY <1>0, <2>1, StepCommitInFlight, StepRestoredInFlight
  <2>5. OneCommitPerGeneration' /\ CandidateTrafficCommitted'
    BY <1>0, <1>1, StepOneCommit, StepCandidateTraffic
  <2>6. QED
    BY <2>2, <2>3, <2>4, <2>5 DEF CoordInv
<1>2. CASE UNCHANGED vars
  <2>1. UNCHANGED <<act, wal, gen, epoch, inv, ev, outcome, traffic, host, lease, call, budget>>
    BY <1>2 DEF vars, db, env
  <2>2. TypeOK'
    BY <1>0, <2>1, Zenon DEF TypeOK
  <2>3. CallPlan' /\ NonceKey' /\ EvidenceBound' /\ RestoredInFlight'
    BY <1>0, <2>1 DEF CallPlan, NonceKey, EvidenceBound, RestoredInFlight, Idle, At
  <2>4. CommitInFlight'
    BY <1>0, <2>1 DEF CommitInFlight, Committed, Attested
  <2>5. OneCommitPerGeneration' /\ CandidateTrafficCommitted'
    BY <1>0, <2>1
    DEF OneCommitPerGeneration, CandidateTrafficCommitted, Committed, NamedPredecessor
  <2>6. QED
    BY <2>2, <2>3, <2>4, <2>5 DEF CoordInv
<1>3. QED
  BY <1>1, <1>2

(* CoordInv is an invariant.                                                  *)
LEMMA Invariance == Spec => []CoordInv
  BY InitCoordInv, StepCoordInv, PTL DEF Spec

(* The tables, the adapters' state and the call in progress keep their types. *)
THEOREM TypeCorrect == Spec => []TypeOK
<1>1. CoordInv => TypeOK
  BY DEF CoordInv
<1>2. QED
  BY <1>1, Invariance, PTL

(* At most one of the plans made for a predecessor generation ever passes     *)
(* commit()'s generation CAS.                                                 *)
THEOREM OneCommit == Spec => []OneCommitPerGeneration
<1>1. CoordInv => OneCommitPerGeneration
  BY DEF CoordInv
<1>2. QED
  BY <1>1, Invariance, PTL

(* No candidate serves traffic before its commit WAL row, or after it was     *)
(* reported RolledBack, unless it is some plan's predecessor.                 *)
THEOREM TrafficSafety == Spec => []CandidateTrafficCommitted
<1>1. CoordInv => CandidateTrafficCommitted
  BY DEF CoordInv
<1>2. QED
  BY <1>1, Invariance, PTL

(* A plan turns Effective only with traffic its own and every required        *)
(* process attested to the manager that runs.                                 *)
THEOREM EffectiveSafety == Spec => EffectiveIsAttested
<1> DEFINE A == \A p \in Plans :
                  (act[p].st # "Effective" /\ act'[p].st = "Effective")
                    => traffic = p /\ Attested(p)
<1>1. CoordInv /\ [Next]_vars => [A]_vars
  <2> SUFFICES ASSUME CoordInv, Next PROVE A
    OBVIOUS
  <2>1. TypeOK /\ CallPlan /\ CommitInFlight
    BY DEF CoordInv
  <2>2. \A q \in Plans : Completion(q)
    BY <2>1, Completions
  <2>3. QED
    BY <2>1, <2>2 DEF Completion, CommitInFlight, At
<1>2. QED
  BY <1>1, Invariance, PTL DEF Spec, EffectiveIsAttested

(* Evidence is never replayed: a nonce keeps its row, and a voided row stays  *)
(* void.                                                                      *)
THEOREM ReplaySafety == Spec => NoEvidenceReplay
<1> DEFINE A == \A e \in ev, f \in ev' : f.nonce = e.nonce =>
                  /\ f.plan = e.plan /\ f.proc = e.proc /\ f.inc = e.inc /\ f.mgr = e.mgr
                  /\ f.valid => e.valid
<1>1. CoordInv /\ [Next]_vars => [A]_vars
  <2> SUFFICES ASSUME CoordInv, Next PROVE A
    OBVIOUS
  <2>1. TypeOK /\ CallPlan /\ NonceKey
    BY DEF CoordInv
  <2>2. CASE Edited
    BY <2>1, <2>2 DEF Edited, KeepsKey, NonceKey
  <2>3. CASE Admitted
    BY <2>1, <2>3 DEF Admitted, Unused, NonceKey
  <2>4. QED
    BY <2>1, <2>2, <2>3, EvidenceSteps
<1>2. QED
  BY <1>1, Invariance, PTL DEF Spec, NoEvidenceReplay

-----------------------------------------------------------------------------
(* The coordinator implements the activation contract.                        *)

(* A rollback in progress is of a plan in state Rollback: rollback() writes   *)
(* that state first, and no other method runs before it returns.              *)
RollbackPcs == {"rollback.host", "rollback.receipt", "rollback.restore", "rollback.commit"}
RollbackInFlight == call.pc \in RollbackPcs => act[call.plan].st = "Rollback"

(* A plan that stands committed has its WAL row.                              *)
StandingLogged == \A p \in Plans : act[p].st \in {"CommitReady", "Effective"} => Committed(p)

RefInv == CoordInv /\ RollbackInFlight /\ StandingLogged

(* The shapes of a step, as far as these two go.                              *)
Elsewhere == call'.pc \notin RollbackPcs

SameTable ==
  /\ act' = act
  /\ \/ Elsewhere
     \/ call.pc \in RollbackPcs /\ call'.plan = call.plan

Moves == Elsewhere /\ \E p \in Plans, t \in State \ {"CommitReady", "FailedSafe"} : Transition(p, t)
Commits == Elsewhere /\ \E p \in Plans, g \in 0..gen : CommitWal(p, g)
RollsBack == \E p \in Plans : call'.plan = p /\ Transition(p, "Rollback")
Fails == Elsewhere /\ \E p \in Plans :
           /\ Transition(p, "FailedSafe")
           /\ \/ act[p].st = "Rollback"
              \/ call.pc \in RollbackPcs /\ call.plan = p
Begins == Elsewhere /\ \E p \in Plans :
            /\ \/ act[p].st = Absent /\ act'[p].st = "Planned"
               \/ act[p].st = "Prepared" /\ act'[p].st = "Launching"
            /\ \A q \in Plans : q # p => act'[q] = act[q]

Shape == SameTable \/ Moves \/ Commits \/ RollsBack \/ Fails \/ Begins

LEMMA Gone == Return => Elsewhere
  BY DEF Return, Done, Elsewhere, RollbackPcs

LEMMA GoneTo ==
  ASSUME TypeOK, NEW pc, pc \notin RollbackPcs, NEW p, Goto(pc, p)
  PROVE  Elsewhere
  BY DEF TypeOK, Call, Goto, Elsewhere

LEMMA ToRollback == TypeOK /\ Idle => (call' = call => Elsewhere)
  BY DEF Idle, At, Elsewhere, RollbackPcs

LEMMA CommittedTarget == ASSUME NEW s, "Launching" \in Targets(s) PROVE s = "Prepared"
  BY DEF Targets

(* Every step has one of them.                                                *)
LEMMA Shapes == ASSUME TypeOK, CallPlan, Next PROVE Shape
<1> USE DEF Shape
<1>a. ~Idle => call.plan \in Plans  BY DEF CallPlan
<1>1. ASSUME NEW p \in Plans, PlanInsert(p) PROVE Shape
  <2>1. Elsewhere  BY <1>1, GoneTo DEF PlanInsert, RollbackPcs
  <2>2. act[p].st = Absent /\ act'[p].st = "Planned" /\ \A q \in Plans : q # p => act'[q] = act[q]
    BY <1>1 DEF PlanInsert, TypeOK
  <2>3. QED  BY <2>1, <2>2 DEF Begins
<1>2. CASE PlanHold \/ CommitEffect \/ LaunchEffect
  <2>1. act' = act  BY <1>2 DEF PlanHold, CommitEffect, LaunchEffect, db
  <2>2. Elsewhere
    BY <1>2, Gone, GoneTo DEF PlanHold, CommitEffect, LaunchEffect, RollbackPcs, Elsewhere, TypeOK, Call
  <2>3. QED  BY <2>1, <2>2 DEF SameTable
<1>3. ASSUME NEW p \in Plans, PrepareWal(p) PROVE Shape
  BY <1>3, GoneTo DEF PrepareWal, RollbackPcs, Moves, State
<1>4. CASE PrepareReceipt \/ LaunchReceipt \/ CommitReceipt \/ LeaseFallback \/ RecoverCommit
  <2>1. Elsewhere /\ call.plan \in Plans
    BY <1>a, <1>4, Gone
    DEF PrepareReceipt, LaunchReceipt, CommitReceipt, LeaseFallback, RecoverCommit, At, Idle
  <2>2. \E t \in State \ {"CommitReady", "FailedSafe"} : Transition(call.plan, t)
    BY <1>4
    DEF PrepareReceipt, LaunchReceipt, CommitReceipt, LeaseFallback, RecoverCommit, State
  <2>3. QED  BY <2>1, <2>2 DEF Moves
<1>5. ASSUME NEW p \in Plans, NEW l \in LaunchIds, LaunchWal(p, l) PROVE Shape
  <2>1. Elsewhere  BY <1>5, GoneTo DEF LaunchWal, RollbackPcs
  <2>2. act[p].st = "Prepared"  BY <1>5, CommittedTarget DEF LaunchWal, CanMove
  <2>3. act'[p].st = "Launching" /\ \A q \in Plans : q # p => act'[q] = act[q]
    BY <1>5 DEF LaunchWal, TypeOK
  <2>4. QED  BY <2>1, <2>2, <2>3 DEF Begins
<1>6. ASSUME NEW p \in Plans, NEW n \in Nonces, NEW l \in LaunchIds, NEW q \in Procs,
             NEW i \in 1..MaxInc, Observe(p, n, l, q, i)
      PROVE  Shape
  BY <1>6, ToRollback DEF Observe, SameTable
<1>7. ASSUME NEW p \in Plans, RefreshInventory(p) PROVE Shape
  BY <1>7, ToRollback DEF RefreshInventory, SameTable
<1>8. ASSUME NEW p \in Plans, NEW g \in 0..gen, CommitWal(p, g) PROVE Shape
  <2>1. Elsewhere  BY <1>8, GoneTo DEF CommitWal, RollbackPcs
  <2>2. QED  BY <1>8, <2>1 DEF Commits
<1>9. ASSUME NEW p \in Plans, LeaseDegrade(p) PROVE Shape
  <2>1. Elsewhere  BY <1>9, GoneTo DEF LeaseDegrade, RollbackPcs
  <2>2. QED  BY <1>9, <2>1 DEF LeaseDegrade, Moves, State
<1>10. ASSUME NEW p \in Plans, RollbackWal(p) PROVE Shape
  <2>1. call'.plan = p  BY <1>10 DEF RollbackWal, Goto, TypeOK, Call
  <2>2. QED  BY <1>10, <2>1 DEF RollbackWal, RollsBack
<1>11. CASE RollbackHost \/ RollbackReceipt \/ RollbackRestore
  <2>1. act' = act /\ call.pc \in RollbackPcs
    BY <1>11 DEF RollbackHost, RollbackReceipt, RollbackRestore, db, At, RollbackPcs
  <2>2. call'.plan = call.plan
    BY <1>11 DEF RollbackHost, RollbackReceipt, RollbackRestore, Goto, TypeOK, Call
  <2>3. QED  BY <2>1, <2>2 DEF SameTable
<1>12. CASE RollbackCommit
  <2>1. Elsewhere /\ call.plan \in Plans /\ call.pc \in RollbackPcs
    BY <1>a, <1>12, Gone DEF RollbackCommit, At, Idle, RollbackPcs
  <2>2. CASE Transition(call.plan, "FailedSafe")  BY <2>1, <2>2 DEF Fails
  <2>3. CASE Transition(call.plan, "RolledBack")  BY <2>1, <2>3 DEF Moves, State
  <2>4. QED  BY <1>12, <2>2, <2>3 DEF RollbackCommit
<1>13. ASSUME NEW p \in Plans, RecoverRollback(p) PROVE Shape
  BY <1>13, ToRollback DEF RecoverRollback, Fails
<1>14. ASSUME NEW p \in Plans, RecoverRestore(p) PROVE Shape
  <2>1. Elsewhere  BY <1>14, GoneTo DEF RecoverRestore, RollbackPcs
  <2>2. QED  BY <1>14, <2>1 DEF RecoverRestore, SameTable, db
<1>15. ASSUME NEW p \in Plans, ResumeObserving(p) PROVE Shape
  BY <1>15, ToRollback DEF ResumeObserving, Moves, State
<1>16. CASE CutOff \/ Restart
  BY <1>16, Gone DEF CutOff, Restart, SameTable, db
<1>17. ASSUME NEW p \in Plans, NEW q \in Procs, ProcessRestart(p, q) PROVE Shape
  BY <1>17 DEF ProcessRestart, SameTable, db, Elsewhere
<1>18. ASSUME NEW e \in ev, Expire(e) PROVE Shape
  BY <1>18 DEF Expire, SameTable, Elsewhere
<1>19. CASE LeaseChange
  BY <1>19 DEF LeaseChange, SameTable, db, Elsewhere
<1>20. At("rollback.wal") => call.plan \in Plans
  BY <1>a DEF At, Idle
<1>21. QED
  BY <1>1, <1>2, <1>3, <1>4, <1>5, <1>6, <1>7, <1>8, <1>9, <1>10, <1>11, <1>12,
     <1>13, <1>14, <1>15, <1>16, <1>17, <1>18, <1>19, <1>20
  DEF Next, Operate, Recover, Continue, Environment

(* A rollback in progress keeps its state.                                    *)
LEMMA StepRollback == ASSUME TypeOK, CallPlan, RollbackInFlight, Shape PROVE RollbackInFlight'
<1>1. Elsewhere => RollbackInFlight'  BY DEF Elsewhere, RollbackInFlight
<1>2. CASE SameTable  BY <1>1, <1>2 DEF SameTable, RollbackInFlight
<1>3. CASE RollsBack
  BY <1>3, TransitionFacts DEF RollsBack, RollbackInFlight
<1>4. QED  BY <1>1, <1>2, <1>3 DEF Shape, Moves, Commits, Fails, Begins

(* CommitReady is entered with the WAL row, Effective from CommitReady.        *)
LEMMA StepStanding ==
  ASSUME TypeOK, CallPlan, StandingLogged, Next, Shape PROVE StandingLogged'
<1>1. \A p \in Plans : Committed(p) => Committed(p)'  BY CommitsStay
<1>2. \A s : "Effective" \in Targets(s) => s = "CommitReady"  BY DEF Targets
<1>3. ASSUME NEW p \in Plans, NEW t, Transition(p, t), t # "CommitReady" PROVE StandingLogged'
  <2>1. act'[p].st = t /\ t \in Targets(act[p].st) /\ \A q \in Plans : q # p => act'[q] = act[q]
    BY <1>3, TransitionFacts
  <2>2. QED  BY <1>1, <1>2, <1>3, <2>1 DEF StandingLogged
<1>4. CASE Commits
  <2>1. PICK p \in Plans, g \in 0..gen : CommitWal(p, g)  BY <1>4 DEF Commits
  <2>2. Committed(p)'  BY <2>1 DEF CommitWal, Log, Committed
  <2>3. \A q \in Plans : q # p => act'[q] = act[q]  BY <2>1, TransitionFacts DEF CommitWal
  <2>4. QED  BY <1>1, <2>2, <2>3 DEF StandingLogged
<1>5. CASE Begins  BY <1>1, <1>5 DEF Begins, StandingLogged
<1>6. CASE SameTable  BY <1>1, <1>6 DEF SameTable, StandingLogged
<1>7. QED  BY <1>3, <1>4, <1>5, <1>6 DEF Shape, Moves, RollsBack, Fails

LEMMA InitRefInv == Init => RefInv
<1> SUFFICES ASSUME Init PROVE RefInv  OBVIOUS
<1>1. call.pc = "idle" /\ \A p \in Plans : act[p].st = Absent  BY DEF Init, Done
<1>2. QED
  BY <1>1, InitCoordInv DEF RefInv, RollbackInFlight, RollbackPcs, StandingLogged, Absent

LEMMA StepRefInv == RefInv /\ [Next]_vars => RefInv'
<1> SUFFICES ASSUME RefInv, [Next]_vars PROVE RefInv'  OBVIOUS
<1>0. TypeOK /\ CallPlan  BY DEF RefInv, CoordInv
<1>1. CoordInv'  BY StepCoordInv DEF RefInv
<1>2. CASE Next
  <2>1. Shape  BY <1>0, <1>2, Shapes
  <2>2. RollbackInFlight' /\ StandingLogged'
    BY <1>0, <1>2, <2>1, StepRollback, StepStanding DEF RefInv
  <2>3. QED  BY <1>1, <2>2 DEF RefInv
<1>3. CASE UNCHANGED vars
  BY <1>1, <1>3 DEF RefInv, RollbackInFlight, StandingLogged, Committed, vars, db
<1>4. QED  BY <1>2, <1>3

-----------------------------------------------------------------------------
(* The phase of the contract as a function of the row's state and of the      *)
(* commit WAL row.                                                            *)
PhaseAt(s, c) ==
  CASE s \in {"RolledBack", "FailedSafe", "SafetyUnknown"} -> s
    [] s = "Effective" -> "effective"
    [] s = "CommitReady" -> "committed"
    [] OTHER -> IF c THEN "lapsed" ELSE "candidate"

Settled == {"RolledBack", "FailedSafe", "SafetyUnknown", "Effective", "CommitReady"}

LEMMA PhaseIs ==
  /\ Phase = PhaseAt(act[Watched].st, Committed(Watched))
  /\ Phase' = PhaseAt(act'[Watched].st, Committed(Watched)')
  BY DEF Phase, PhaseAt

LEMMA PhaseValues ==
  ASSUME NEW s, NEW c \in BOOLEAN
  PROVE  /\ s \in {"RolledBack", "FailedSafe", "SafetyUnknown"} => PhaseAt(s, c) = s
         /\ s = "Effective" => PhaseAt(s, c) = "effective"
         /\ s = "CommitReady" => PhaseAt(s, c) = "committed"
         /\ s \notin Settled => PhaseAt(s, c) = IF c THEN "lapsed" ELSE "candidate"
  BY DEF PhaseAt, Settled

(* Where the transitions of the table lead, in the terms of the contract.     *)
LEMMA TargetPhases ==
  ASSUME NEW s, NEW t \in Targets(s)
  PROVE  /\ t = "CommitReady" => s = "Observing"
         /\ t = "Effective" => s = "CommitReady"
         /\ t \in {"RolledBack", "SafetyUnknown"} => s = "Rollback"
         /\ t \notin Settled => s \notin {"RolledBack", "FailedSafe", "SafetyUnknown"}
  BY DEF Targets, Settled

-----------------------------------------------------------------------------
(* Simulation. *)
Exposed == traffic = Watched
ContractStep ==
  \/ Phase = "candidate" /\ Phase' = "committed" /\ Exposed' = Exposed
  \/ Phase = "committed" /\ Exposed' = TRUE /\ Phase' = Phase
  \/ Phase = "committed" /\ Exposed /\ Phase' = "effective" /\ Exposed' = Exposed
  \/ Exposed' = FALSE /\ Phase' = Phase
  \/ Phase \in {"committed", "effective"} /\ Phase' = "lapsed" /\ Exposed' = Exposed
  \/ /\ Phase \in {"candidate", "lapsed"}
     /\ Phase' \in {"RolledBack", "FailedSafe", "SafetyUnknown"}
     /\ Phase' = "RolledBack" => ~Exposed
     /\ Exposed' = Exposed
  \/ Phase' = Phase /\ Exposed' = Exposed

(* The commit transaction is the contract's Commit, for its own plan.         *)
LEMMA CommitSimulates ==
  ASSUME RefInv, NEW p \in Plans, NEW g \in 0..gen, CommitWal(p, g)
  PROVE  ContractStep
<1>1. TypeOK /\ OneCommitPerGeneration  BY DEF RefInv, CoordInv
<1>2. Exposed' = Exposed  BY DEF CommitWal, env, Exposed
<1>3. Watched \in Plans  BY WatchedAssumption
<1>4. Committed(Watched) \in BOOLEAN /\ Committed(Watched)' \in BOOLEAN  BY DEF Committed
<1>5. /\ act'[p].st = "CommitReady" /\ "CommitReady" \in Targets(act[p].st)
      /\ \A q \in Plans : q # p => act'[q] = act[q]
  BY <1>1, TransitionFacts DEF CommitWal
<1>6. CASE p = Watched
  <2>1. act[p].st = "Observing"  BY <1>5, TargetPhases
  <2>2. gen \in Nat /\ PredGen[p] = gen  BY <1>1 DEF CommitWal, CasMatches, TypeOK
  <2>3. ~Committed(p)  BY <1>1, <2>2 DEF OneCommitPerGeneration
  <2>4. Phase = "candidate"
    BY <1>4, <1>6, <2>1, <2>3, PhaseIs, PhaseValues DEF Settled
  <2>5. Phase' = "committed"  BY <1>4, <1>5, <1>6, PhaseIs, PhaseValues
  <2>6. QED  BY <1>2, <2>4, <2>5 DEF ContractStep
<1>7. CASE p # Watched
  <2>1. act'[Watched].st = act[Watched].st  BY <1>3, <1>5, <1>7
  <2>2. Committed(Watched)' = Committed(Watched)  BY <1>7 DEF CommitWal, Log, Committed
  <2>3. QED  BY <1>2, <2>1, <2>2, PhaseIs DEF ContractStep
<1>8. QED  BY <1>6, <1>7

(* A step that moves traffic leaves the phase: Expose or Withdraw.            *)
LEMMA TrafficSimulates ==
  ASSUME RefInv, act' = act, Committed(Watched)' = Committed(Watched),
         CommitEffect \/ \E p \in Plans : traffic' = Pred[p]
  PROVE  ContractStep
<1>1. Phase' = Phase  BY PhaseIs
<1>2. CASE \E p \in Plans : traffic' = Pred[p]
  BY <1>1, <1>2, WatchedAssumption DEF ContractStep, Exposed
<1>3. CASE CommitEffect
  <2>1. act[call.plan].st = "CommitReady" /\ traffic' = call.plan
    BY <1>3 DEF CommitEffect, At, RefInv, CoordInv, CommitInFlight
  <2>2. CASE call.plan = Watched
    <3>1. Committed(Watched) \in BOOLEAN  BY DEF Committed
    <3>2. Phase = "committed"  BY <2>1, <2>2, <3>1, PhaseIs, PhaseValues
    <3>3. Exposed' = TRUE  BY <2>1, <2>2 DEF Exposed
    <3>4. QED  BY <1>1, <3>2, <3>3 DEF ContractStep
  <2>3. CASE call.plan # Watched
    <3>1. Exposed' = FALSE  BY <2>1, <2>3 DEF Exposed
    <3>2. QED  BY <1>1, <3>1 DEF ContractStep
  <2>4. QED  BY <2>2, <2>3
<1>4. QED  BY <1>2, <1>3

(* A step that moves the watched plan along the table, other than the commit. *)
LEMMA MoveSimulates ==
  ASSUME RefInv, Next, traffic' = traffic,
         NEW c, c = Committed(Watched), Committed(Watched)' = c,
         NEW s, s = act[Watched].st, NEW t \in Targets(s), t = act'[Watched].st,
         t # "CommitReady", t = "FailedSafe" => s = "Rollback"
  PROVE  ContractStep
<1>1. Exposed' = Exposed  BY DEF Exposed
<1>2. Watched \in Plans /\ c \in BOOLEAN  BY WatchedAssumption DEF Committed
<1>3. Completion(Watched) /\ CommitInFlight /\ RestoredInFlight
  BY <1>2, Completions DEF RefInv, CoordInv
<1>4. Phase = PhaseAt(s, c) /\ Phase' = PhaseAt(t, c)  BY PhaseIs
<1>5. s \in {"CommitReady", "Effective"} => c  BY <1>2 DEF RefInv, StandingLogged
<1>6. CASE t = "Effective"
  <2>1. s = "CommitReady"  BY <1>6, TargetPhases
  <2>2. Exposed
    BY <1>3, <1>6, <2>1 DEF Completion, At, CommitInFlight, Exposed
  <2>3. Phase = "committed" /\ Phase' = "effective"  BY <1>2, <1>4, <1>6, <2>1, PhaseValues
  <2>4. QED  BY <1>1, <2>2, <2>3 DEF ContractStep
<1>7. CASE t \in {"RolledBack", "FailedSafe", "SafetyUnknown"}
  <2>1. s = "Rollback"  BY <1>7, TargetPhases
  <2>2. Phase \in {"candidate", "lapsed"} /\ Phase' = t
    BY <1>2, <1>4, <1>7, <2>1, PhaseValues DEF Settled
  <2>3. t = "RolledBack" => ~Exposed
    BY <1>3, <2>1, <1>2, WatchedAssumption DEF Completion, At, RestoredInFlight, Exposed
  <2>4. QED  BY <1>1, <1>7, <2>2, <2>3 DEF ContractStep
<1>8. CASE t \notin Settled
  <2>1. s \notin {"RolledBack", "FailedSafe", "SafetyUnknown"}  BY <1>8, TargetPhases
  <2>2. Phase' = IF c THEN "lapsed" ELSE "candidate"  BY <1>2, <1>4, <1>8, PhaseValues
  <2>3. CASE s \in {"CommitReady", "Effective"}
    <3>1. Phase \in {"committed", "effective"} /\ Phase' = "lapsed"
      BY <1>2, <1>4, <1>5, <2>2, <2>3, PhaseValues
    <3>2. QED  BY <1>1, <3>1 DEF ContractStep
  <2>4. CASE s \notin {"CommitReady", "Effective"}
    <3>1. s \notin Settled  BY <2>1, <2>4 DEF Settled
    <3>2. Phase' = Phase  BY <1>2, <1>4, <2>2, <3>1, PhaseValues
    <3>3. QED  BY <1>1, <3>2 DEF ContractStep
  <2>5. QED  BY <2>3, <2>4
<1>9. QED  BY <1>6, <1>7, <1>8 DEF Settled

(* A step that leaves the row and the commit alone, or brings the row about.  *)
LEMMA RestSimulates ==
  ASSUME traffic' = traffic, Committed(Watched)' = Committed(Watched),
         \/ act'[Watched].st = act[Watched].st
         \/ act[Watched].st \notin Settled /\ act'[Watched].st \notin Settled
  PROVE  ContractStep
<1>1. Committed(Watched) \in BOOLEAN  BY DEF Committed
<1>2. Phase' = Phase  BY <1>1, PhaseIs, PhaseValues
<1>3. QED  BY <1>2 DEF ContractStep, Exposed

LEMMA StepSimulates == RefInv /\ [Next]_vars => ContractStep
<1> SUFFICES ASSUME RefInv, [Next]_vars PROVE ContractStep  OBVIOUS
<1>0. TypeOK /\ CallPlan  BY DEF RefInv, CoordInv
<1>w. Watched \in Plans  BY WatchedAssumption
<1>1. CASE UNCHANGED vars
  BY <1>1, RestSimulates DEF vars, db, env, Committed
<1>2. ASSUME Next, NEW p \in Plans, NEW g \in 0..gen, CommitWal(p, g) PROVE ContractStep
  BY <1>2, CommitSimulates
<1>3. ASSUME Next, \A p \in Plans : Committed(p)' = Committed(p), ~Commits PROVE ContractStep
  <2>1. Committed(Watched)' = Committed(Watched)  BY <1>3, <1>w
  <2>2. TrafficStep /\ Shape  BY <1>0, <1>3, TrafficSteps, Shapes
  <2>3. CASE CommitEffect
    <3>1. act' = act  BY <2>3 DEF CommitEffect, db
    <3>2. QED  BY <2>1, <2>3, <3>1, TrafficSimulates
  <2>4. CASE act' = act /\ \E p \in Plans : act[p].st # Absent /\ traffic' = Pred[p]
    BY <2>1, <2>4, TrafficSimulates
  <2>5. CASE traffic' = traffic
    <3>1. CASE SameTable  BY <2>1, <2>5, <3>1, RestSimulates DEF SameTable
    <3>2. CASE Begins
      <4>1. PICK p \in Plans :
              /\ \/ act[p].st = Absent /\ act'[p].st = "Planned"
                 \/ act[p].st = "Prepared" /\ act'[p].st = "Launching"
              /\ \A q \in Plans : q # p => act'[q] = act[q]
        BY <3>2 DEF Begins
      <4>2. \/ act'[Watched].st = act[Watched].st
            \/ act[Watched].st \notin Settled /\ act'[Watched].st \notin Settled
        BY <1>w, <4>1 DEF Settled, Absent
      <4>3. QED  BY <2>1, <2>5, <4>2, RestSimulates
    <3>3. ASSUME NEW p \in Plans, NEW t, Transition(p, t), t # "CommitReady",
                 t = "FailedSafe" => act[p].st = "Rollback"
          PROVE  ContractStep
      <4>1. act'[p].st = t /\ t \in Targets(act[p].st) /\ \A q \in Plans : q # p => act'[q] = act[q]
        BY <1>0, <3>3, TransitionFacts
      <4>2. CASE p = Watched  BY <1>3, <2>1, <2>5, <3>3, <4>1, <4>2, MoveSimulates
      <4>3. CASE p # Watched  BY <1>w, <2>1, <2>5, <4>1, <4>3, RestSimulates
      <4>4. QED  BY <4>2, <4>3
    <3>4. CASE Moves  BY <3>3, <3>4 DEF Moves
    <3>5. CASE RollsBack  BY <3>3, <3>5 DEF RollsBack
    <3>6. CASE Fails  BY <3>3, <3>6 DEF Fails, RefInv, RollbackInFlight
    <3>7. QED  BY <1>3, <2>2, <3>1, <3>2, <3>4, <3>5, <3>6 DEF Shape
  <2>6. QED  BY <2>2, <2>3, <2>4, <2>5 DEF TrafficStep
<1>4. QED  BY <1>0, <1>1, <1>2, <1>3, OnlyCommitCommits DEF Commits

(* The coordinator's initial states are the contract's.                       *)
LEMMA InitSimulates == Init => Contract!Init
<1> SUFFICES ASSUME Init PROVE Phase = "candidate" /\ (traffic = Watched) = FALSE
  BY DEF Contract!Init
<1>1. act[Watched].st = Absent /\ ~Committed(Watched) /\ traffic = Base
  BY WatchedAssumption DEF Init, Committed
<1>2. Absent \notin Settled  BY DEF Settled, Absent
<1>3. PhaseAt(Absent, FALSE) = "candidate"  BY <1>2, PhaseValues
<1>4. Committed(Watched) = FALSE  BY <1>1 DEF Committed
<1>5. Phase = "candidate"  BY <1>1, <1>3, <1>4, PhaseIs
<1>6. QED  BY <1>1, <1>5, WatchedAssumption, CoordinatorConstants

LEMMA NextSimulates == ContractStep => [Contract!Next]_(Contract!contractVars)
  BY DEF ContractStep, Exposed, Contract!Next, Contract!Commit, Contract!Expose, Contract!Confirm,
         Contract!Withdraw, Contract!Lapse, Contract!End, Contract!Ended, Contract!contractVars

(* The durable coordinator over a plain traffic adapter implements the        *)
(* activation contract for every plan that is nobody's predecessor, across    *)
(* crashes, cut-off methods, failed compensations and rival plans.            *)
THEOREM Refinement == Spec => CoordinatorMeetsContract
<1>1. Spec => []RefInv  BY InitRefInv, StepRefInv, PTL DEF Spec
<1>2. RefInv /\ [Next]_vars => [Contract!Next]_(Contract!contractVars)
  BY StepSimulates, NextSimulates
<1>3. QED  BY <1>1, <1>2, InitSimulates, PTL DEF Spec, CoordinatorMeetsContract, Contract!Spec

=============================================================================
