------------------------- MODULE ExposureGateProofs -------------------------
(***************************************************************************)
(* Safety of the exposure gate and of its trace oracle for every set of    *)
(* requests, every number of faults and adapters that may fail silently.   *)
(***************************************************************************)
EXTENDS TraceOracle, FiniteSetTheorems, WellFoundedInduction, TLAPS

GateRow == [st: GateState \cup {NoRow}, seq: Nat, routeGen: Gens,
            routeFence: Fences, obs: Snaps]

(* A call is in progress only on a gate that was staged, and nothing is       *)
(* journaled before.                                                          *)
CallStaged ==
  /\ ~At("idle") => gs.st # NoRow
  /\ gs.st = NoRow => journal = <<>>

(* Every append of a well-formed row leaves a well-formed journal.            *)
LEMMA AppendRow ==
  ASSUME NEW j \in Seq(Row), NEW r \in Row
  PROVE  Append(j, r) \in Seq(Row)
  OBVIOUS

(* Rows written by Intent and Receipt are rows of the journal table.          *)
LEMMA RowTypes ==
  ASSUME NEW o \in Ops, NEW f \in GateState, NEW t \in GateState \cup {Keep}
  PROVE  Intent(o, f, t) \in Row /\ Receipt(o, f, t) \in Row
  BY DEF Intent, Receipt, Row

(* A finished call is a call record.                                          *)
LEMMA DoneTypes ==
  ASSUME NEW r \in {"ok", "raised"}
  PROVE  Done(r) \in Call
  BY DEF Done, Call, Pcs, Unread, Route, Gens, Fences, Snaps

(* A gate whose row exists is in a state of the table.                        *)
LEMMA RowState ==
  ASSUME TypeOK, gs.st # NoRow
  PROVE  gs.st \in GateState
  BY DEF TypeOK

(* The table only leads to states of the table.                               *)
LEMMA AllowedTypes ==
  ASSUME NEW s \in GateState, NEW t, Allowed(s, t)
  PROVE  t \in GateState
  BY DEF Allowed, Targets, Terminal, GateState

(* The routes the adapter is asked for are routes.                            *)
LEMMA RouteTypes ==
  /\ PredRoute \in Route /\ CandRoute \in Route
  /\ ClosedRoute \in Route /\ Unread \in Route /\ Restored \in Route
  BY DEF PredRoute, CandRoute, ClosedRoute, Unread, Restored, Route, Gens, Fences, Snaps

(* fail_close() and its recoveries end in one of two terminal states.         *)
LEMMA ClosureTypes ==
  ASSUME NEW r
  PROVE  Closure(r) \in {"FAILED_SAFE", "SAFETY_UNKNOWN"}
  BY DEF Closure

(* What the gate asks of the traffic adapter is well typed.                   *)
LEMMA EffectTypes ==
  ASSUME TypeOK, NEW r \in Route, NEW x \in BOOLEAN, Effect(r, x)
  PROVE  route' \in Route /\ budget' \in Nat
  BY DEF Effect, Spend, TypeOK

(* The staged gate is well typed.                                             *)
LEMMA InitTypeOK == Init => TypeOK
  BY GateConstants, RouteTypes, DoneTypes
  DEF Init, TypeOK, GateState, Gens, Fences, Snaps, NotAdmitted, Admission

(* Moving a call on keeps it well typed.                                      *)
LEMMA GotoTypes ==
  ASSUME TypeOK, NEW p \in Pcs, Goto(p)
  PROVE  call' \in Call
  BY DEF Goto, TypeOK, Call


(* A transition of the table is well typed if its target is.                  *)
LEMMA TransitionTypes ==
  ASSUME TypeOK, gs.st # NoRow, NEW k \in {"intent", "receipt"}, NEW o \in Ops,
         NEW t, NEW g \in GateRow,
         Transition(k, o, t, g)
  PROVE  /\ journal' \in Seq(Row)
         /\ gs' \in GateRow
<1>0. t \in GateState
  BY RowState, AllowedTypes DEF Transition
<1>1. [kind |-> k, op |-> o, from |-> gs.st, to |-> t] \in Row
  BY <1>0, RowState DEF Row
<1>2. journal' \in Seq(Row)
  BY <1>1, AppendRow DEF Transition, TypeOK
<1>3. Len(journal) + 1 \in Nat
  BY DEF TypeOK
<1>4. gs' \in GateRow
  BY <1>0, <1>3 DEF Transition, GateRow
<1>5. QED
  BY <1>2, <1>4

(* A receipt transaction keeps the database well typed.                       *)
LEMMA CommitReceiptTypes ==
  ASSUME TypeOK, gs.st # NoRow, NEW o \in Ops, NEW t, NEW g \in GateRow,
         CommitReceipt(o, t, g)
  PROVE  /\ journal' \in Seq(Row)
         /\ gs' \in GateRow
         /\ call' \in Call
<1>1. CASE Transition("receipt", o, t, g) /\ Return
  BY <1>1, TransitionTypes, DoneTypes DEF Return
<1>2. CASE ~Allowed(gs.st, t) /\ UNCHANGED <<gs, journal>> /\ Raise
  BY <1>2, DoneTypes DEF Raise, TypeOK, GateRow
<1>3. QED
  BY <1>1, <1>2 DEF CommitReceipt

(* A journal row that changes no state.                                       *)
LEMMA Append1Types ==
  ASSUME TypeOK, NEW r \in Row, Append1(r)
  PROVE  /\ journal' \in Seq(Row)
         /\ gs' \in GateRow
  BY AppendRow DEF Append1, TypeOK, GateRow

(* The result of a query, used as a local variable of the call.               *)
LEMMA SeenTypes ==
  ASSUME TypeOK, NEW p \in Pcs, NEW r \in Route, NEW t \in GateState \cup {Keep}
  PROVE  /\ [call EXCEPT !.pc = p, !.seen = r] \in Call
         /\ [call EXCEPT !.pc = p, !.seen = r, !.ret = "ok"] \in Call
         /\ [call EXCEPT !.pc = p, !.seen = r, !.tgt = t] \in Call
         /\ [call EXCEPT !.pc = p, !.seen = r, !.tgt = t, !.ret = "ok"] \in Call
         /\ [call EXCEPT !.pc = p, !.seen = r, !.ret = "ok", !.tgt = t] \in Call
  BY DEF TypeOK, Call

(* So is whatever a route query may answer.                                   *)
LEMMA QueryTypes ==
  ASSUME TypeOK, NEW r \in {route, Unread}, Query(r)
  PROVE  r \in Route /\ budget' \in Nat
  BY RouteTypes DEF Query, Spend, TypeOK

(* Recording a route keeps the state row well typed.                          *)
LEMMA WithRouteTypes ==
  ASSUME TypeOK, NEW r \in Route
  PROVE  WithRoute(r) \in GateRow
  BY DEF WithRoute, Route, TypeOK, GateRow


(* Every step keeps every table, the route and the call well typed.           *)
LEMMA StepTypeOK ==
  ASSUME TypeOK, CallStaged, Next
  PROVE  TypeOK'
<1> USE DEF At, Idle
<1>1. CASE Stage
  <2>1. gs' \in GateRow
    BY <1>1 DEF Stage, GateRow, GateState, Gens, Fences, Snaps
  <2>2. Receipt("stage", "PREDECESSOR_OPEN", "CANDIDATE_STAGED") \in Row
    BY RowTypes DEF Ops, GateState
  <2>3. journal' \in Seq(Row)
    BY <1>1, <2>2 DEF Stage
  <2>4. QED
    BY <1>1, <2>1, <2>3 DEF Stage, TypeOK, GateRow
<1>2. CASE CloseIntent
  <2>1. Intent("close", gs.st, Keep) \in Row
    BY <1>2, RowState, RowTypes DEF CloseIntent, Ops
  <2>2. journal' \in Seq(Row) /\ gs' \in GateRow
    BY <1>2, <2>1, Append1Types DEF CloseIntent, TypeOK, GateRow
  <2>3. call' \in Call
    BY <1>2, GotoTypes DEF CloseIntent, Pcs
  <2>4. QED
    BY <1>2, <2>2, <2>3 DEF CloseIntent, TypeOK, GateRow
<1>3. CASE CloseQuery
  <2>1. call' \in Call
    BY <1>3, SeenTypes DEF CloseQuery, Pcs, TypeOK
  <2>2. QED
    BY <1>3, <2>1 DEF CloseQuery, TypeOK
<1>4. CASE CloseCommit
  <2>1. gs.st # NoRow /\ gs \in GateRow
    BY <1>4 DEF CloseCommit, CallStaged, TypeOK, GateRow
  <2>2. Receipt("close", gs.st, Keep) \in Row
    BY <2>1, RowState, RowTypes DEF Ops
  <2>3. journal' \in Seq(Row) /\ gs' \in GateRow /\ call' \in Call
    <3>1. CASE CommitReceipt("close", "CANDIDATE_CLOSED", gs)
      BY <2>1, <3>1, CommitReceiptTypes DEF Ops
    <3>2. CASE Append1(Receipt("close", gs.st, Keep)) /\ Goto("fail_close.intent")
      BY <2>2, <3>2, Append1Types, GotoTypes DEF Pcs
    <3>3. QED
      BY <1>4, <3>1, <3>2 DEF CloseCommit
  <2>4. QED
    BY <1>4, <2>3 DEF CloseCommit, TypeOK, GateRow
<1>5. CASE \E p \in Proof : OpenIntent(p)
  <2>1. PICK p \in Proof : OpenIntent(p)
    BY <1>5
  <2>2. journal' \in Seq(Row) /\ gs' \in GateRow
    BY <2>1, TransitionTypes DEF OpenIntent, Ops, TypeOK, GateRow
  <2>3. call' \in Call
    BY <2>1, GotoTypes DEF OpenIntent, Pcs
  <2>4. QED
    BY <2>1, <2>2, <2>3 DEF OpenIntent, TypeOK, GateRow
<1>6. CASE OpenEffect
  <2>1. route' \in Route /\ budget' \in Nat
    BY <1>6, RouteTypes, EffectTypes DEF OpenEffect
  <2>2. call' \in Call
    BY <1>6, GotoTypes DEF OpenEffect, Pcs
  <2>3. QED
    BY <1>6, <2>1, <2>2 DEF OpenEffect, TypeOK
<1>7. CASE OpenRefused
  BY <1>7, DoneTypes DEF OpenRefused, Raise, TypeOK
<1>8. CASE OpenQuery
  <2>1. call' \in Call
    BY <1>8, SeenTypes DEF OpenQuery, Pcs, TypeOK
  <2>2. QED
    BY <1>8, <2>1 DEF OpenQuery, TypeOK
<1>9. CASE OpenCommit
  <2>1. gs.st # NoRow /\ AsOpened \in GateRow
    BY <1>9 DEF OpenCommit, CallStaged, AsOpened, TypeOK, GateRow, Gens, Fences, Snaps
  <2>2. Receipt("open", "OPENING", Keep) \in Row
    BY RowTypes DEF Ops, GateState
  <2>3. journal' \in Seq(Row) /\ gs' \in GateRow /\ call' \in Call
    <3>1. CASE CommitReceipt("open", "CANDIDATE_OPEN", AsOpened)
      BY <2>1, <3>1, CommitReceiptTypes DEF Ops
    <3>2. CASE Append1(Receipt("open", "OPENING", Keep)) /\ Goto("fail_close.intent")
      BY <2>2, <3>2, Append1Types, GotoTypes DEF Pcs
    <3>3. QED
      BY <1>9, <3>1, <3>2 DEF OpenCommit
  <2>4. QED
    BY <1>9, <2>3 DEF OpenCommit, TypeOK, GateRow
<1>10. CASE \E r \in Requests : Admit(r)
  <2>1. PICK r \in Requests : Admit(r)
    BY <1>10
  <2>2. [gen |-> route.gen, fence |-> route.fence, seq |-> gs.seq, done |-> FALSE]
          \in Admission
    BY DEF Admission, TypeOK, Route
  <2>3. QED
    BY <2>1, <2>2 DEF Admit, TypeOK
<1>11. CASE AdmitMismatch
  BY <1>11, GotoTypes DEF AdmitMismatch, TypeOK, Pcs
<1>12. CASE \E r \in Requests : Finish(r)
  <2>1. PICK r \in Requests : Finish(r)
    BY <1>12
  <2>2. [adm[r] EXCEPT !.done = TRUE] \in Admission
    BY DEF Admission, TypeOK
  <2>3. QED
    BY <2>1, <2>2 DEF Finish, TypeOK
<1>13. CASE DrainIntent
  <2>1. journal' \in Seq(Row) /\ gs' \in GateRow
    BY <1>13, TransitionTypes DEF DrainIntent, Ops, TypeOK, GateRow
  <2>2. call' \in Call
    BY <1>13, GotoTypes DEF DrainIntent, Pcs
  <2>3. QED
    BY <1>13, <2>1, <2>2 DEF DrainIntent, TypeOK, GateRow
<1>14. CASE DrainCheck
  <2>1. gs.st # NoRow /\ gs \in GateRow
    BY <1>14 DEF DrainCheck, CallStaged, TypeOK, GateRow
  <2>2. journal' \in Seq(Row) /\ gs' \in GateRow /\ call' \in Call
    BY <1>14, <2>1, CommitReceiptTypes, DoneTypes DEF DrainCheck, Return, Ops, TypeOK
  <2>3. QED
    BY <1>14, <2>2 DEF DrainCheck, TypeOK, GateRow
<1>15. CASE FailCloseCall
  BY <1>15, GotoTypes DEF FailCloseCall, TypeOK, Pcs
<1>16. CASE FailCloseIntent
  <2>1. Intent("fail_close", gs.st, Keep) \in Row
    BY <1>16, RowState, RowTypes DEF FailCloseIntent, CallStaged, Ops
  <2>2. journal' \in Seq(Row) /\ gs' \in GateRow
    BY <1>16, <2>1, Append1Types DEF FailCloseIntent
  <2>3. call' \in Call
    BY <1>16, GotoTypes DEF FailCloseIntent, Pcs
  <2>4. QED
    BY <1>16, <2>2, <2>3 DEF FailCloseIntent, TypeOK, GateRow
<1>17. CASE FailCloseEffect
  <2>1. route' \in Route /\ budget' \in Nat
    BY <1>17, RouteTypes, EffectTypes DEF FailCloseEffect
  <2>2. call' \in Call
    BY <1>17, GotoTypes DEF FailCloseEffect, Pcs
  <2>3. QED
    BY <1>17, <2>1, <2>2 DEF FailCloseEffect, TypeOK
<1>18. CASE FailCloseQuery
  <2>1. PICK r \in {route, Unread} : Query(r) /\ call' = [call EXCEPT !.pc = "fail_close.commit", !.seen = r,
                                             !.tgt = Closure(r)]
    BY <1>18 DEF FailCloseQuery
  <2>2. r \in Route /\ budget' \in Nat
    BY <2>1, QueryTypes
  <2>3. call' \in Call
    BY <2>1, <2>2, SeenTypes, ClosureTypes DEF Pcs, GateState
  <2>4. QED
    BY <1>18, <2>2, <2>3 DEF FailCloseQuery, TypeOK
<1>19. CASE FailCloseCommit
  <2>1. gs.st # NoRow /\ WithRoute(call.seen) \in GateRow
    BY <1>19, WithRouteTypes DEF FailCloseCommit, CallStaged, TypeOK, Call
  <2>2. journal' \in Seq(Row) /\ gs' \in GateRow /\ call' \in Call
    BY <1>19, <2>1, CommitReceiptTypes DEF FailCloseCommit, Ops
  <2>3. QED
    BY <1>19, <2>2 DEF FailCloseCommit, TypeOK, GateRow
<1>20. CASE \E o \in BOOLEAN : RollbackIntent(o)
  <2>1. PICK o \in BOOLEAN : RollbackIntent(o)
    BY <1>20
  <2>2. Intent("rollback", gs.st, Keep) \in Row
    BY <2>1, RowState, RowTypes DEF RollbackIntent, Ops
  <2>3. journal' \in Seq(Row) /\ gs' \in GateRow
    BY <2>1, <2>2, Append1Types DEF RollbackIntent
  <2>4. call' \in Call
    BY <2>1 DEF RollbackIntent, TypeOK, Call, Pcs
  <2>5. QED
    BY <2>1, <2>3, <2>4 DEF RollbackIntent, TypeOK, GateRow
<1>21. CASE RollbackEffect
  <2>1. route' \in Route /\ budget' \in Nat
    BY <1>21, RouteTypes, EffectTypes DEF RollbackEffect
  <2>2. call' \in Call
    BY <1>21, GotoTypes DEF RollbackEffect, Pcs
  <2>3. QED
    BY <1>21, <2>1, <2>2 DEF RollbackEffect, TypeOK
<1>22. CASE RollbackQuery
  <2>1. PICK r \in {route, Unread} :
           /\ Query(r)
           /\ \/ call' = [call EXCEPT !.pc = "rollback.commit", !.seen = r,
                                     !.tgt = "ROLLED_BACK"]
              \/ Goto("rollback.close")
    BY <1>22 DEF RollbackQuery
  <2>2. r \in Route /\ budget' \in Nat
    BY <2>1, QueryTypes
  <2>3. call' \in Call
    <3>1. CASE Goto("rollback.close")
      BY <3>1, GotoTypes DEF Pcs
    <3>2. CASE call' = [call EXCEPT !.pc = "rollback.commit", !.seen = r,
                                    !.tgt = "ROLLED_BACK"]
      BY <2>2, <3>2, SeenTypes DEF Pcs, GateState
    <3>3. QED
      BY <2>1, <3>1, <3>2
  <2>4. QED
    BY <1>22, <2>2, <2>3 DEF RollbackQuery, TypeOK
<1>23. CASE RollbackClose
  <2>1. route' \in Route /\ budget' \in Nat
    BY <1>23, RouteTypes, EffectTypes DEF RollbackClose
  <2>2. call' \in Call
    BY <1>23, GotoTypes DEF RollbackClose, Pcs
  <2>3. QED
    BY <1>23, <2>1, <2>2 DEF RollbackClose, TypeOK
<1>24. CASE RollbackRequery
  <2>1. PICK r \in {route, Unread} : Query(r) /\ call' = [call EXCEPT !.pc = "rollback.commit", !.seen = r,
                                             !.tgt = Closure(r)]
    BY <1>24 DEF RollbackRequery
  <2>2. r \in Route /\ budget' \in Nat
    BY <2>1, QueryTypes
  <2>3. call' \in Call
    BY <2>1, <2>2, SeenTypes, ClosureTypes DEF Pcs, GateState
  <2>4. QED
    BY <1>24, <2>2, <2>3 DEF RollbackRequery, TypeOK
<1>25. CASE RollbackCommit
  <2>1. gs.st # NoRow /\ WithRoute(call.seen) \in GateRow
    BY <1>25, WithRouteTypes DEF RollbackCommit, CallStaged, TypeOK, Call
  <2>2. journal' \in Seq(Row) /\ gs' \in GateRow /\ call' \in Call
    BY <1>25, <2>1, CommitReceiptTypes DEF RollbackCommit, Ops
  <2>3. QED
    BY <1>25, <2>2 DEF RollbackCommit, TypeOK, GateRow
<1>26. CASE ReconcileFailClose
  <2>1. PICK r \in {route, Unread} : Query(r) /\ call' = [call EXCEPT !.pc = "reconcile.fail_close", !.seen = r,
                                             !.tgt = Closure(r), !.ret = "ok"]
    BY <1>26 DEF ReconcileFailClose
  <2>2. r \in Route /\ budget' \in Nat
    BY <2>1, QueryTypes
  <2>a. Closure(r) \in GateState \cup {Keep} /\ "reconcile.fail_close" \in Pcs
    BY ClosureTypes DEF Pcs, GateState
  <2>3. call' \in Call
    BY <2>1, <2>2, <2>a, SeenTypes
  <2>4. QED
    BY <1>26, <2>2, <2>3 DEF ReconcileFailClose, TypeOK
<1>27. CASE ReconcileFailCloseCommit
  <2>1. gs.st # NoRow /\ WithRoute(call.seen) \in GateRow
    BY <1>27, WithRouteTypes DEF ReconcileFailCloseCommit, CallStaged, TypeOK, Call
  <2>2. journal' \in Seq(Row) /\ gs' \in GateRow /\ call' \in Call
    BY <1>27, <2>1, CommitReceiptTypes DEF ReconcileFailCloseCommit, Ops
  <2>3. QED
    BY <1>27, <2>2 DEF ReconcileFailCloseCommit, TypeOK, GateRow
<1>28. CASE RetryStart
  BY <1>28, GotoTypes DEF RetryStart, TypeOK, Pcs
<1>29. CASE RetryEffect
  <2>1. route' \in Route /\ budget' \in Nat
    BY <1>29, RouteTypes, EffectTypes DEF RetryEffect
  <2>2. call' \in Call
    BY <1>29, GotoTypes DEF RetryEffect, Pcs
  <2>3. QED
    BY <1>29, <2>1, <2>2 DEF RetryEffect, TypeOK
<1>30. CASE RetryQuery
  <2>1. PICK r \in {route, Unread} : Query(r) /\ call' = [call EXCEPT !.pc = "retry.commit", !.seen = r,
                                             !.tgt = Closure(r)]
    BY <1>30 DEF RetryQuery
  <2>2. r \in Route /\ budget' \in Nat
    BY <2>1, QueryTypes
  <2>3. call' \in Call
    BY <2>1, <2>2, SeenTypes, ClosureTypes DEF Pcs, GateState
  <2>4. QED
    BY <1>30, <2>2, <2>3 DEF RetryQuery, TypeOK
<1>31. CASE RetryCommit
  <2>1. gs.st \in GateState
    BY <1>31, RowState DEF RetryCommit, CallStaged
  <2>2. CASE Allowed(gs.st, call.tgt)
    <3>1. call.tgt \in GateState
      BY <2>1, <2>2, AllowedTypes
    <3>2. Receipt("open.reconcile.close_all", "OPENING", Keep) \in Row
      BY RowTypes DEF Ops, GateState
    <3>3. Receipt("open", gs.st, call.tgt) \in Row
      BY <2>1, <3>1, RowTypes DEF Ops
    <3>4. journal' \in Seq(Row)
      <4>1. journal \in Seq(Row)
        BY DEF TypeOK
      <4>2. <<Receipt("open.reconcile.close_all", "OPENING", Keep),
              Receipt("open", gs.st, call.tgt)>> \in Seq(Row)
        BY <3>2, <3>3
      <4>3. QED
        BY <1>31, <2>2, <4>1, <4>2 DEF RetryCommit
    <3>5. gs' \in GateRow /\ call' \in Call
      <4>1. Len(journal) + 2 \in Nat /\ gs \in GateRow
        BY DEF TypeOK, GateRow
      <4>2. gs' = [gs EXCEPT !.st = call.tgt, !.seq = Len(journal) + 2]
        BY <1>31, <2>2 DEF RetryCommit
      <4>3. gs' \in GateRow
        BY <3>1, <4>1, <4>2 DEF GateRow
      <4>4. QED
        BY <1>31, <2>2, <4>3, DoneTypes DEF RetryCommit, Return
    <3>6. QED
      BY <1>31, <3>4, <3>5 DEF RetryCommit, TypeOK, GateRow
  <2>3. CASE ~Allowed(gs.st, call.tgt)
    BY <1>31, <2>3, DoneTypes DEF RetryCommit, Raise, TypeOK
  <2>4. QED
    BY <2>2, <2>3
<1>32. CASE ReconcileRollback
  <2>1. PICK r \in {route, Unread} : Query(r) /\ call' = [call EXCEPT !.pc = "reconcile.rollback", !.seen = r, !.ret = "ok",
                      !.tgt = IF r = PredRoute THEN "ROLLED_BACK" ELSE Closure(r)]
    BY <1>32 DEF ReconcileRollback
  <2>2. r \in Route /\ budget' \in Nat
    BY <2>1, QueryTypes
  <2>3. PICK t \in GateState :
           call' = [call EXCEPT !.pc = "reconcile.rollback", !.seen = r, !.ret = "ok",
                                !.tgt = t]
    BY <2>1, ClosureTypes DEF GateState
  <2>4. call' \in Call
    BY <2>2, <2>3, SeenTypes DEF Pcs
  <2>5. QED
    BY <1>32, <2>2, <2>4 DEF ReconcileRollback, TypeOK
<1>33. CASE ReconcileRollbackCommit
  <2>1. gs.st # NoRow /\ gs \in GateRow
    BY <1>33 DEF ReconcileRollbackCommit, CallStaged, TypeOK, GateRow
  <2>2. journal' \in Seq(Row) /\ gs' \in GateRow /\ call' \in Call
    BY <1>33, <2>1, CommitReceiptTypes DEF ReconcileRollbackCommit, Ops
  <2>3. QED
    BY <1>33, <2>2 DEF ReconcileRollbackCommit, TypeOK, GateRow
<1>34. CASE ReconcileCancel
  <2>1. Receipt("open", "OPENING", Keep) \in Row
    BY RowTypes DEF Ops, GateState
  <2>2. journal' \in Seq(Row) /\ gs' \in GateRow
    BY <1>34, <2>1, Append1Types DEF ReconcileCancel
  <2>3. call' \in Call /\ budget' \in Nat
    BY <1>34, GotoTypes DEF ReconcileCancel, Pcs, Spend, TypeOK
  <2>4. QED
    BY <1>34, <2>2, <2>3 DEF ReconcileCancel, TypeOK, GateRow
<1>35. CASE ReconcileQuery
  <2>1. call' \in Call
    BY <1>35, SeenTypes DEF ReconcileQuery, Pcs, TypeOK
  <2>2. QED
    BY <1>35, <2>1 DEF ReconcileQuery, TypeOK
<1>36. CASE ReconcileOpen
  <2>1. gs.st # NoRow /\ AsOpened \in GateRow
    BY <1>36 DEF ReconcileOpen, CallStaged, AsOpened, TypeOK, GateRow, Gens, Fences, Snaps
  <2>2. Intent("open.reconcile.close_all", "OPENING", Keep) \in Row
    BY RowTypes DEF Ops, GateState
  <2>3. journal' \in Seq(Row) /\ gs' \in GateRow /\ call' \in Call
    <3>1. CASE CommitReceipt("open.reconcile", "CANDIDATE_OPEN", AsOpened)
      BY <2>1, <3>1, CommitReceiptTypes DEF Ops
    <3>2. CASE /\ Append1(Intent("open.reconcile.close_all", "OPENING", Keep))
               /\ Goto("recovery.effect")
      BY <2>2, <3>2, Append1Types, GotoTypes DEF Pcs
    <3>3. QED
      BY <1>36, <3>1, <3>2 DEF ReconcileOpen
  <2>4. QED
    BY <1>36, <2>3 DEF ReconcileOpen, TypeOK, GateRow
<1>37. CASE RecoveryEffect
  <2>1. PICK raised \in BOOLEAN :
           /\ Effect(ClosedRoute, raised)
           /\ call' = [call EXCEPT !.pc = "recovery.query", !.err = raised]
    BY <1>37 DEF RecoveryEffect
  <2>2. route' \in Route /\ budget' \in Nat
    BY <2>1, RouteTypes, EffectTypes
  <2>3. call' \in Call
    BY <2>1 DEF TypeOK, Call, Pcs
  <2>4. QED
    BY <1>37, <2>2, <2>3 DEF RecoveryEffect, TypeOK
<1>38. CASE RecoveryQuery
  <2>1. PICK r \in {route, Unread} :
           /\ Query(r)
           /\ call' = [call EXCEPT !.pc = "recovery.receipt", !.seen = r,
                                  !.err = call.err \/ r = Unread]
    BY <1>38 DEF RecoveryQuery
  <2>2. r \in Route /\ budget' \in Nat
    BY <2>1, QueryTypes
  <2>3. (call.err \/ r = Unread) \in BOOLEAN
    OBVIOUS
  <2>4. call' \in Call
    BY <2>1, <2>2, <2>3 DEF TypeOK, Call, Pcs
  <2>5. QED
    BY <1>38, <2>2, <2>4 DEF RecoveryQuery, TypeOK
<1>39. CASE RecoveryReceipt
  <2>1. Receipt("open.reconcile.close_all", "OPENING", Keep) \in Row
    BY RowTypes DEF Ops, GateState
  <2>2. journal' \in Seq(Row) /\ gs' \in GateRow
    BY <1>39, <2>1, Append1Types DEF RecoveryReceipt
  <2>3. call' \in Call
    BY <1>39, GotoTypes DEF RecoveryReceipt, Pcs
  <2>4. QED
    BY <1>39, <2>2, <2>3 DEF RecoveryReceipt, TypeOK, GateRow
<1>40. CASE RecoveryFinish
  <2>1. gs.st # NoRow /\ WithRoute(ClosedRoute) \in GateRow
    BY <1>40, RouteTypes, WithRouteTypes DEF RecoveryFinish, CallStaged
  <2>2. Receipt("open", "OPENING", Keep) \in Row
    BY RowTypes DEF Ops, GateState
  <2>3. journal' \in Seq(Row) /\ gs' \in GateRow /\ call' \in Call
    <3>1. CASE CommitReceipt("open", "FAILED_SAFE", WithRoute(ClosedRoute))
      BY <2>1, <3>1, CommitReceiptTypes DEF Ops
    <3>2. CASE Append1(Receipt("open", "OPENING", Keep)) /\ Goto("fail_close.intent")
      BY <2>2, <3>2, Append1Types, GotoTypes DEF Pcs
    <3>3. QED
      BY <1>40, <3>1, <3>2 DEF RecoveryFinish
  <2>4. QED
    BY <1>40, <2>3 DEF RecoveryFinish, TypeOK, GateRow
<1>41. CASE CutOff
  BY <1>41, DoneTypes DEF CutOff, Raise, Spend, TypeOK
<1>42. CASE LeaseLost
  <2>1. budget' \in Nat
    BY <1>42 DEF LeaseLost, Spend, TypeOK
  <2>2. leaseLive' \in BOOLEAN
    BY <1>42 DEF LeaseLost
  <2>3. QED
    BY <1>42, <2>1, <2>2, Zenon DEF LeaseLost, TypeOK
<1>43. CASE Drift
  <2>1. route' \in Route
    BY <1>43 DEF Drift, TypeOK, Route, Gens, Fences, Snaps
  <2>2. QED
    BY <1>43, <2>1 DEF Drift, Spend, TypeOK
<1>44. QED
  BY <1>1, <1>2, <1>3, <1>4, <1>5, <1>6, <1>7, <1>8, <1>9, <1>10, <1>11, <1>12,
     <1>13, <1>14, <1>15, <1>16, <1>17, <1>18, <1>19, <1>20, <1>21, <1>22, <1>23,
     <1>24, <1>25, <1>26, <1>27, <1>28, <1>29, <1>30, <1>31, <1>32, <1>33, <1>34,
     <1>35, <1>36, <1>37, <1>38, <1>39, <1>40, <1>41, <1>42, <1>43
  DEF Next, Operate, Traffic, Reconcile, Continue, Environment

-----------------------------------------------------------------------------
(* The inductive invariant.  AdmissionsFollowOpen, DrainReceiptIsFinal and    *)
(* SingleOpen are about the whole history and are not inductive alone: they   *)
(* need to know what the durable state says about the journal, and what the   *)
(* place a call has reached says about the durable state.                     *)

Before == PreOpen \cup {NoRow, "OPENING"}
IsDrainReceipt(r) == r.kind = "receipt" /\ r.op = "drain"

(* Sequence numbers in the tables name journal rows already written.          *)
SeqsBounded ==
  /\ gs.seq <= Len(journal)
  /\ \A r \in Requests : adm[r].seq <= Len(journal)

(* Until the gate is open there is neither an open nor a drain receipt.       *)
NotYetOpen ==
  gs.st \in Before =>
    \A i \in DOMAIN journal : ~IsOpenReceipt(journal[i]) /\ ~IsDrainReceipt(journal[i])

(* While the candidate is exposed the row names its route, behind a receipt.  *)
OpenRecorded ==
  gs.st \in Exposed =>
    /\ gs.routeGen = "cand" /\ gs.routeFence = "fence-cand"
    /\ \E i \in DOMAIN journal : IsOpenReceipt(journal[i]) /\ i <= gs.seq

(* A call past its intent finds the state its intent left.                    *)
Opening == {"open.effect", "open.query", "open.commit", "reconcile.open"}
Closing == {"fail_close.commit", "rollback.commit", "reconcile.fail_close",
            "reconcile.rollback", "retry.commit"}
CallInState ==
  /\ call.pc \in Opening => gs.st = "OPENING"
  /\ call.pc = "drain.check" => gs.st = "DRAINING"
  /\ call.pc \in Closing => call.tgt \in Terminal

History == SeqsBounded /\ NotYetOpen /\ OpenRecorded
             /\ AdmissionsFollowOpen /\ DrainReceiptIsFinal /\ SingleOpen

GateInv == TypeOK /\ CallStaged /\ CallInState /\ History

(* What a step may do to the history, apart from admissions: write rows that  *)
(* are neither open nor drain receipts, open the gate, or finish a drain.     *)
Extends ==
  \A i \in DOMAIN journal : i \in DOMAIN journal' /\ journal'[i] = journal[i]

QuietStep ==
  /\ adm' = adm
  /\ Len(journal) <= Len(journal')
  /\ Extends
  /\ \A i \in DOMAIN journal' : i \notin DOMAIN journal =>
       ~IsOpenReceipt(journal'[i]) /\ ~IsDrainReceipt(journal'[i])
  /\ \/ gs' = gs
     \/ /\ gs'.seq = Len(journal')
        /\ \/ gs'.st \in Terminal
           \/ gs.st \in Before /\ gs'.st \in Before
           \/ /\ gs.st \in Exposed /\ gs'.st \in Exposed
              /\ gs'.routeGen = gs.routeGen /\ gs'.routeFence = gs.routeFence

OpenStep ==
  /\ adm' = adm
  /\ gs.st = "OPENING"
  /\ \E r \in Row : IsOpenReceipt(r) /\ ~IsDrainReceipt(r) /\ journal' = Append(journal, r)
  /\ gs'.st = "CANDIDATE_OPEN" /\ gs'.seq = Len(journal) + 1
  /\ gs'.routeGen = "cand" /\ gs'.routeFence = "fence-cand"

DrainStep ==
  /\ adm' = adm
  /\ gs.st = "DRAINING"
  /\ ~Unfinished
  /\ \E r \in Row : ~IsOpenReceipt(r) /\ journal' = Append(journal, r)
  /\ gs'.st = "CANDIDATE_OPEN" /\ gs'.seq = Len(journal) + 1
  /\ gs'.routeGen = gs.routeGen /\ gs'.routeFence = gs.routeFence

(* The places of the journal after an append.                                 *)
LEMMA AppendPlaces ==
  ASSUME NEW j \in Seq(Row), NEW r \in Row
  PROVE  /\ Len(Append(j, r)) = Len(j) + 1
         /\ DOMAIN j = 1..Len(j)
         /\ DOMAIN Append(j, r) = 1..(Len(j) + 1)
         /\ \A i \in 1..Len(j) : Append(j, r)[i] = j[i]
         /\ Append(j, r)[Len(j) + 1] = r
  OBVIOUS

(* The states the history is about are different states.                      *)
LEMMA StatesApart ==
  /\ \A s \in Terminal : s \notin Before /\ s \notin Exposed
  /\ \A s \in Exposed : s \notin Before
  BY DEF Terminal, Before, Exposed, PreOpen, NoRow

(* A step that opens and drains nothing keeps the history.                    *)
LEMMA QuietKeepsHistory ==
  ASSUME TypeOK, TypeOK', History, QuietStep
  PROVE  History'
<1> USE DEF QuietStep, Extends, TypeOK
<1>1. /\ journal \in Seq(Row) /\ journal' \in Seq(Row)
      /\ DOMAIN journal = 1..Len(journal) /\ DOMAIN journal' = 1..Len(journal')
      /\ Len(journal) \in Nat /\ Len(journal') \in Nat
      /\ gs.seq \in Nat /\ gs'.seq \in Nat
      /\ \A r \in Requests : adm[r].seq \in Nat
  BY DEF Admission
<1>2. SeqsBounded'
  BY <1>1 DEF History, SeqsBounded
<1>3. NotYetOpen'
  BY <1>1, StatesApart DEF History, NotYetOpen
<1>4. OpenRecorded'
  <2> SUFFICES ASSUME gs'.st \in Exposed
               PROVE  /\ gs'.routeGen = "cand" /\ gs'.routeFence = "fence-cand"
                      /\ \E i \in DOMAIN journal' : IsOpenReceipt(journal'[i]) /\ i <= gs'.seq
    BY DEF OpenRecorded
  <2>1. gs.st \in Exposed
    BY StatesApart
  <2>2. PICK i \in DOMAIN journal : IsOpenReceipt(journal[i]) /\ i <= gs.seq
    BY <2>1 DEF History, OpenRecorded
  <2>3. gs'.routeGen = "cand" /\ gs'.routeFence = "fence-cand"
    BY <2>1, StatesApart DEF History, OpenRecorded
  <2>4. i \in DOMAIN journal' /\ IsOpenReceipt(journal'[i]) /\ i <= gs'.seq
    BY <1>1, <2>2 DEF History, SeqsBounded
  <2>5. QED
    BY <2>3, <2>4
<1>5. AdmissionsFollowOpen'
  <2> SUFFICES ASSUME NEW r \in Requests, adm[r] # NotAdmitted
               PROVE  \/ /\ adm[r].gen = "cand" /\ adm[r].fence = "fence-cand"
                         /\ \E i \in DOMAIN journal' :
                              IsOpenReceipt(journal'[i]) /\ i <= adm[r].seq
                      \/ /\ adm[r].gen = "pred" /\ adm[r].fence = "fence-pred"
                         /\ \A i \in DOMAIN journal' :
                              IsOpenReceipt(journal'[i]) => adm[r].seq < i
    BY DEF AdmissionsFollowOpen
  <2>1. CASE /\ adm[r].gen = "cand" /\ adm[r].fence = "fence-cand"
             /\ \E i \in DOMAIN journal : IsOpenReceipt(journal[i]) /\ i <= adm[r].seq
    BY <1>1, <2>1
  <2>2. CASE /\ adm[r].gen = "pred" /\ adm[r].fence = "fence-pred"
             /\ \A i \in DOMAIN journal : IsOpenReceipt(journal[i]) => adm[r].seq < i
    BY <1>1, <2>2
  <2>3. QED
    BY <2>1, <2>2 DEF History, AdmissionsFollowOpen
<1>6. DrainReceiptIsFinal'
  BY <1>1 DEF History, DrainReceiptIsFinal, Has, IsDrainReceipt
<1>7. SingleOpen'
  BY <1>1 DEF History, SingleOpen
<1>8. QED
  BY <1>2, <1>3, <1>4, <1>5, <1>6, <1>7 DEF History

(* So does the step that records the open.                                    *)
LEMMA OpenKeepsHistory ==
  ASSUME TypeOK, TypeOK', History, OpenStep
  PROVE  History'
<1>1. PICK r \in Row : IsOpenReceipt(r) /\ ~IsDrainReceipt(r) /\ journal' = Append(journal, r)
  BY DEF OpenStep
<1> DEFINE n == Len(journal) + 1
<1>2. /\ journal \in Seq(Row) /\ Len(journal) \in Nat
      /\ \A q \in Requests : adm[q].seq \in Nat
  BY DEF TypeOK, Admission
<1>3. /\ Len(journal') = n /\ DOMAIN journal = 1..Len(journal) /\ DOMAIN journal' = 1..n
      /\ \A i \in 1..Len(journal) : journal'[i] = journal[i]
      /\ journal'[n] = r
  BY <1>1, <1>2, AppendPlaces
<1>4. \A i \in DOMAIN journal : ~IsOpenReceipt(journal[i]) /\ ~IsDrainReceipt(journal[i])
  BY DEF OpenStep, History, NotYetOpen, Before
<1>5. \A i \in DOMAIN journal' : IsOpenReceipt(journal'[i]) <=> i = n
  BY <1>1, <1>2, <1>3, <1>4
<1>6. SeqsBounded'
  BY <1>2, <1>3 DEF OpenStep, History, SeqsBounded
<1>7. NotYetOpen' /\ OpenRecorded'
  BY <1>2, <1>3, <1>5 DEF OpenStep, NotYetOpen, OpenRecorded, Before, PreOpen, NoRow
<1>8. AdmissionsFollowOpen'
  BY <1>2, <1>3, <1>4, <1>5 DEF OpenStep, History, AdmissionsFollowOpen, SeqsBounded
<1>9. DrainReceiptIsFinal'
  <2>1. \A i \in DOMAIN journal' : ~IsDrainReceipt(journal'[i])
    BY <1>1, <1>2, <1>3, <1>4
  <2>2. QED
    BY <2>1 DEF DrainReceiptIsFinal, Has, IsDrainReceipt
<1>10. SingleOpen'
  BY <1>5 DEF SingleOpen
<1>11. QED
  BY <1>6, <1>7, <1>8, <1>9, <1>10 DEF History

(* So does the step that records the drain receipt.                           *)
LEMMA DrainKeepsHistory ==
  ASSUME TypeOK, TypeOK', History, DrainStep
  PROVE  History'
<1>1. PICK r \in Row : ~IsOpenReceipt(r) /\ journal' = Append(journal, r)
  BY DEF DrainStep
<1> DEFINE n == Len(journal) + 1
<1>2. /\ journal \in Seq(Row) /\ Len(journal) \in Nat /\ gs.seq \in Nat
      /\ \A q \in Requests : adm[q].seq \in Nat
  BY DEF TypeOK, Admission
<1>3. /\ Len(journal') = n /\ DOMAIN journal = 1..Len(journal) /\ DOMAIN journal' = 1..n
      /\ \A i \in 1..Len(journal) : journal'[i] = journal[i]
      /\ journal'[n] = r
  BY <1>1, <1>2, AppendPlaces
<1>4. SeqsBounded'
  BY <1>2, <1>3 DEF DrainStep, History, SeqsBounded
<1>5. NotYetOpen'
  BY DEF DrainStep, NotYetOpen, Before, PreOpen, NoRow
<1>6. OpenRecorded'
  <2>1. PICK i \in DOMAIN journal : IsOpenReceipt(journal[i]) /\ i <= gs.seq
    BY DEF DrainStep, History, OpenRecorded, Exposed
  <2>2. i \in DOMAIN journal' /\ IsOpenReceipt(journal'[i]) /\ i <= gs'.seq
    BY <1>2, <1>3, <2>1 DEF DrainStep
  <2>3. gs'.routeGen = "cand" /\ gs'.routeFence = "fence-cand"
    BY DEF DrainStep, History, OpenRecorded, Exposed
  <2>4. QED
    BY <2>2, <2>3 DEF OpenRecorded
<1>7. AdmissionsFollowOpen'
  <2> SUFFICES ASSUME NEW q \in Requests, adm[q] # NotAdmitted
               PROVE  \/ /\ adm[q].gen = "cand" /\ adm[q].fence = "fence-cand"
                         /\ \E i \in DOMAIN journal' :
                              IsOpenReceipt(journal'[i]) /\ i <= adm[q].seq
                      \/ /\ adm[q].gen = "pred" /\ adm[q].fence = "fence-pred"
                         /\ \A i \in DOMAIN journal' :
                              IsOpenReceipt(journal'[i]) => adm[q].seq < i
    BY DEF AdmissionsFollowOpen, DrainStep
  <2>1. CASE /\ adm[q].gen = "cand" /\ adm[q].fence = "fence-cand"
             /\ \E i \in DOMAIN journal : IsOpenReceipt(journal[i]) /\ i <= adm[q].seq
    BY <1>2, <1>3, <2>1
  <2>2. CASE /\ adm[q].gen = "pred" /\ adm[q].fence = "fence-pred"
             /\ \A i \in DOMAIN journal : IsOpenReceipt(journal[i]) => adm[q].seq < i
    BY <1>1, <1>2, <1>3, <2>2
  <2>3. QED
    BY <2>1, <2>2 DEF History, AdmissionsFollowOpen
<1>8. DrainReceiptIsFinal'
  BY DEF DrainStep, DrainReceiptIsFinal, Unfinished
<1>9. SingleOpen'
  BY <1>1, <1>2, <1>3 DEF History, SingleOpen
<1>10. QED
  BY <1>4, <1>5, <1>6, <1>7, <1>8, <1>9 DEF History

(* So does an admission: the gate is open and not drained.                    *)
LEMMA AdmitKeepsHistory ==
  ASSUME TypeOK, TypeOK', History, NEW r \in Requests, Admit(r)
  PROVE  History'
<1> DEFINE a == [gen |-> route.gen, fence |-> route.fence, seq |-> gs.seq, done |-> FALSE]
<1>1. /\ adm' = [adm EXCEPT ![r] = a] /\ gs' = gs /\ journal' = journal
      /\ adm'[r] = a /\ \A q \in Requests : q # r => adm'[q] = adm[q]
  BY DEF Admit, TypeOK
<1>2. gs.st \in PreOpen \/ gs.st \in Exposed
  BY DEF Admit, Idle, Blocked, Terminal, PreOpen, Exposed, TypeOK, GateState, NoRow
<1>3. CASE gs.st \in PreOpen
  <2>1. a.gen = "pred" /\ a.fence = "fence-pred" /\ a.seq = gs.seq
    BY <1>3 DEF Admit, PredecessorMismatch, PredRoute
  <2>2. \A i \in DOMAIN journal : ~IsOpenReceipt(journal[i]) /\ ~IsDrainReceipt(journal[i])
    BY <1>3 DEF History, NotYetOpen, Before
  <2>3. AdmissionsFollowOpen'
    BY <1>1, <2>1, <2>2 DEF History, AdmissionsFollowOpen
  <2>4. DrainReceiptIsFinal'
    BY <1>1, <2>2 DEF DrainReceiptIsFinal, Has, IsDrainReceipt
  <2>5. SeqsBounded' /\ NotYetOpen' /\ OpenRecorded' /\ SingleOpen'
    BY <1>1, <2>1 DEF History, SeqsBounded, NotYetOpen, OpenRecorded, SingleOpen
  <2>6. QED
    BY <2>3, <2>4, <2>5 DEF History
<1>4. CASE gs.st \in Exposed
  <2>1. a.gen = "cand" /\ a.fence = "fence-cand" /\ a.seq = gs.seq
    BY <1>4 DEF Admit, RouteKnown, History, OpenRecorded
  <2>2. \E i \in DOMAIN journal : IsOpenReceipt(journal[i]) /\ i <= gs.seq
    BY <1>4 DEF History, OpenRecorded
  <2>3. AdmissionsFollowOpen'
    BY <1>1, <2>1, <2>2 DEF History, AdmissionsFollowOpen
  <2>4. DrainReceiptIsFinal'
    BY <1>1, <2>1 DEF History, DrainReceiptIsFinal
  <2>5. SeqsBounded' /\ NotYetOpen' /\ OpenRecorded' /\ SingleOpen'
    BY <1>1, <2>1 DEF History, SeqsBounded, NotYetOpen, OpenRecorded, SingleOpen
  <2>6. QED
    BY <2>3, <2>4, <2>5 DEF History
<1>5. QED
  BY <1>2, <1>3, <1>4

(* So does the end of a request.                                              *)
LEMMA FinishKeepsHistory ==
  ASSUME TypeOK, History, NEW r \in Requests, Finish(r)
  PROVE  History'
<1>1. /\ gs' = gs /\ journal' = journal
      /\ adm'[r] = [adm[r] EXCEPT !.done = TRUE]
      /\ adm[r] # NotAdmitted
      /\ \A q \in Requests : q # r => adm'[q] = adm[q]
  BY DEF Finish, TypeOK
<1>2. /\ \A q \in Requests : adm'[q].gen = adm[q].gen /\ adm'[q].fence = adm[q].fence
                             /\ adm'[q].seq = adm[q].seq
      /\ adm'[r].done
  BY <1>1 DEF TypeOK, Admission
<1>3. \A q \in Requests : adm'[q] # NotAdmitted => adm[q] # NotAdmitted
  BY <1>1
<1>4. AdmissionsFollowOpen'
  BY <1>1, <1>2, <1>3 DEF History, AdmissionsFollowOpen
<1>5. DrainReceiptIsFinal'
  BY <1>1, <1>2 DEF History, DrainReceiptIsFinal
<1>6. SeqsBounded' /\ NotYetOpen' /\ OpenRecorded' /\ SingleOpen'
  BY <1>1, <1>2 DEF History, SeqsBounded, NotYetOpen, OpenRecorded, SingleOpen
<1>7. QED
  BY <1>4, <1>5, <1>6 DEF History

(* Steps that write nothing, a row that changes no state, or an end state.    *)
LEMMA SameQuiet ==
  ASSUME TypeOK, UNCHANGED <<gs, journal, adm>>
  PROVE  QuietStep
  BY DEF QuietStep, Extends, TypeOK

(* Appending an intent or receipt is quiet.                                   *)
LEMMA NoteQuiet ==
  ASSUME TypeOK, NEW r \in Row, ~IsOpenReceipt(r), ~IsDrainReceipt(r),
         Append1(r), adm' = adm
  PROVE  QuietStep
<1>1. journal \in Seq(Row) /\ Len(journal) \in Nat
  BY DEF TypeOK
<1>2. QED
  BY <1>1, AppendPlaces DEF QuietStep, Extends, Append1

(* A transition that does not open is quiet.                                  *)
LEMMA TransitionQuiet ==
  ASSUME TypeOK, gs.st # NoRow, NEW k \in {"intent", "receipt"}, NEW o \in Ops,
         NEW t \in GateState, NEW g \in GateRow,
         Transition(k, o, t, g), adm' = adm,
         k = "receipt" => o # "drain" /\ t # "CANDIDATE_OPEN",
         \/ t \in Terminal
         \/ gs.st \in Before /\ t \in Before
         \/ gs.st \in Exposed /\ t \in Exposed /\ g = gs
  PROVE  QuietStep
<1> DEFINE r == [kind |-> k, op |-> o, from |-> gs.st, to |-> t]
<1>1. r \in Row /\ ~IsOpenReceipt(r) /\ ~IsDrainReceipt(r)
  BY RowState DEF Row, IsOpenReceipt, IsDrainReceipt
<1>2. journal \in Seq(Row) /\ Len(journal) \in Nat /\ journal' = Append(journal, r)
  BY DEF TypeOK, Transition
<1>3. /\ Len(journal') = Len(journal) + 1
      /\ DOMAIN journal = 1..Len(journal) /\ DOMAIN journal' = 1..(Len(journal) + 1)
      /\ \A i \in 1..Len(journal) : journal'[i] = journal[i]
      /\ journal'[Len(journal) + 1] = r
  BY <1>1, <1>2, AppendPlaces
<1>4. /\ gs'.seq = Len(journal') /\ gs'.st = t
      /\ gs'.routeGen = g.routeGen /\ gs'.routeFence = g.routeFence
  BY <1>3 DEF Transition, GateRow
<1>5. \A i \in DOMAIN journal' : i \notin DOMAIN journal =>
        ~IsOpenReceipt(journal'[i]) /\ ~IsDrainReceipt(journal'[i])
  BY <1>1, <1>2, <1>3
<1>6. Extends /\ Len(journal) <= Len(journal')
  BY <1>2, <1>3 DEF Extends
<1>7. QED
  BY <1>4, <1>5, <1>6 DEF QuietStep

(* Returning from a call is quiet.                                            *)
LEMMA EndQuiet ==
  ASSUME TypeOK, gs.st # NoRow, NEW o \in Ops \ {"drain"}, NEW t \in Terminal,
         NEW g \in GateRow, CommitReceipt(o, t, g), adm' = adm
  PROVE  QuietStep
<1>1. t \in GateState /\ t # "CANDIDATE_OPEN"
  BY DEF Terminal, GateState
<1>2. CASE Transition("receipt", o, t, g)
  BY <1>1, <1>2, TransitionQuiet
<1>3. CASE UNCHANGED <<gs, journal>>
  BY <1>3, SameQuiet
<1>4. QED
  BY <1>2, <1>3 DEF CommitReceipt

(* The receipt that opens the gate, written by open() or by reconcile().      *)
LEMMA OpenReceiptOpens ==
  ASSUME TypeOK, gs.st = "OPENING", NEW o \in {"open", "open.reconcile"},
         CommitReceipt(o, "CANDIDATE_OPEN", AsOpened), adm' = adm
  PROVE  OpenStep
<1> DEFINE r == [kind |-> "receipt", op |-> o, from |-> gs.st, to |-> "CANDIDATE_OPEN"]
<1>1. r \in Row /\ IsOpenReceipt(r) /\ ~IsDrainReceipt(r)
  BY DEF Row, Ops, GateState, IsOpenReceipt, IsDrainReceipt
<1>2. Transition("receipt", o, "CANDIDATE_OPEN", AsOpened)
  BY DEF CommitReceipt, Allowed, Targets
<1>3. journal' = Append(journal, r)
  BY <1>2 DEF Transition
<1>4. /\ gs'.st = "CANDIDATE_OPEN" /\ gs'.seq = Len(journal) + 1
      /\ gs'.routeGen = "cand" /\ gs'.routeFence = "fence-cand"
  BY <1>2 DEF Transition, AsOpened, TypeOK
<1>5. QED
  BY <1>1, <1>3, <1>4 DEF OpenStep

(* Every step is quiet, opens the gate, finishes a drain, admits or finishes. *)
LEMMA StepKeepsHistory ==
  ASSUME GateInv, Next
  PROVE  History'
<1> USE DEF At, Idle
<1>0. TypeOK /\ TypeOK' /\ CallStaged /\ CallInState /\ History
  BY StepTypeOK DEF GateInv
<1>1. CASE Stage
  <2>1. journal = <<>> /\ adm' = adm /\ gs.st = NoRow
    BY <1>0, <1>1 DEF Stage, CallStaged
  <2>2. /\ journal' = <<Receipt("stage", "PREDECESSOR_OPEN", "CANDIDATE_STAGED")>>
        /\ gs'.seq = 1 /\ gs'.st = "CANDIDATE_STAGED"
    BY <1>1 DEF Stage
  <2>3. /\ ~IsOpenReceipt(Receipt("stage", "PREDECESSOR_OPEN", "CANDIDATE_STAGED"))
        /\ ~IsDrainReceipt(Receipt("stage", "PREDECESSOR_OPEN", "CANDIDATE_STAGED"))
    BY DEF Receipt, IsOpenReceipt, IsDrainReceipt
  <2>4. QuietStep
    BY <2>1, <2>2, <2>3 DEF QuietStep, Extends, Before, PreOpen
  <2>5. QED
    BY <1>0, <2>4, QuietKeepsHistory
<1>2. CASE CloseIntent
  <2>1. /\ Intent("close", gs.st, Keep) \in Row
        /\ ~IsOpenReceipt(Intent("close", gs.st, Keep))
        /\ ~IsDrainReceipt(Intent("close", gs.st, Keep))
    BY <1>0, <1>2, RowState, RowTypes DEF CloseIntent, Ops, Intent, IsOpenReceipt, IsDrainReceipt
  <2>2. QuietStep
    BY <1>0, <1>2, <2>1, NoteQuiet, SameQuiet DEF CloseIntent
  <2>3. QED
    BY <1>0, <2>2, QuietKeepsHistory
<1>3. CASE CloseCommit
  <2>1. gs.st \in GateState /\ gs \in GateRow /\ adm' = adm
    BY <1>0, <1>3, RowState DEF CloseCommit, CallStaged, TypeOK, GateRow
  <2>2. /\ Receipt("close", gs.st, Keep) \in Row
        /\ ~IsOpenReceipt(Receipt("close", gs.st, Keep))
        /\ ~IsDrainReceipt(Receipt("close", gs.st, Keep))
    BY <2>1, RowTypes DEF Ops, Receipt, IsOpenReceipt, IsDrainReceipt
  <2>3. ASSUME CommitReceipt("close", "CANDIDATE_CLOSED", gs)
        PROVE  QuietStep
    <3>1. CASE Transition("receipt", "close", "CANDIDATE_CLOSED", gs)
      <4>1. gs.st \in Before /\ gs.st # NoRow
        BY <2>1, <3>1 DEF Transition, Allowed, Targets, Terminal, Before, PreOpen,
                          GateState, NoRow
      <4>2. "CANDIDATE_CLOSED" \in Before /\ "CANDIDATE_CLOSED" \in GateState
        BY DEF Before, PreOpen, GateState
      <4>3. QED
        BY <1>0, <2>1, <3>1, <4>1, <4>2, TransitionQuiet DEF Ops
    <3>2. CASE UNCHANGED <<gs, journal>>
      BY <1>0, <2>1, <3>2, SameQuiet
    <3>3. QED
      BY <2>3, <3>1, <3>2 DEF CommitReceipt
  <2>4. QuietStep
    BY <1>0, <1>3, <2>1, <2>2, <2>3, NoteQuiet DEF CloseCommit
  <2>5. QED
    BY <1>0, <2>4, QuietKeepsHistory
<1>4. CASE \E p \in Proof : OpenIntent(p)
  <2>1. PICK p \in Proof : OpenIntent(p)
    BY <1>4
  <2>2. gs.st \in GateState /\ gs.st # NoRow /\ gs \in GateRow /\ adm' = adm
    BY <1>0, <2>1, RowState DEF OpenIntent, TypeOK, GateRow
  <2>3. Transition("intent", "open", "OPENING", gs)
    BY <2>1 DEF OpenIntent
  <2>4. gs.st \in Before
    BY <2>2, <2>3 DEF Transition, Allowed, Targets, Terminal, Before, PreOpen, GateState
  <2>5. "OPENING" \in Before /\ "OPENING" \in GateState
    BY DEF Before, GateState
  <2>6. QuietStep
    BY <1>0, <2>2, <2>3, <2>4, <2>5, TransitionQuiet DEF Ops
  <2>7. QED
    BY <1>0, <2>6, QuietKeepsHistory
<1>5. CASE OpenCommit
  <2>1. gs.st = "OPENING" /\ adm' = adm
    BY <1>0, <1>5 DEF OpenCommit, CallInState, Opening
  <2>2. /\ Receipt("open", "OPENING", Keep) \in Row
        /\ ~IsOpenReceipt(Receipt("open", "OPENING", Keep))
        /\ ~IsDrainReceipt(Receipt("open", "OPENING", Keep))
    BY RowTypes DEF Ops, GateState, Receipt, IsOpenReceipt, IsDrainReceipt, Keep
  <2>3. QuietStep \/ OpenStep
    BY <1>0, <1>5, <2>1, <2>2, NoteQuiet, OpenReceiptOpens DEF OpenCommit
  <2>4. QED
    BY <1>0, <2>3, QuietKeepsHistory, OpenKeepsHistory
<1>6. CASE \E r \in Requests : Admit(r)
  BY <1>0, <1>6, AdmitKeepsHistory
<1>7. CASE \E r \in Requests : Finish(r)
  BY <1>0, <1>7, FinishKeepsHistory
<1>8. CASE DrainIntent
  <2>1. gs.st \in GateState /\ gs.st # NoRow /\ gs \in GateRow /\ adm' = adm
    BY <1>0, <1>8, RowState DEF DrainIntent, TypeOK, GateRow
  <2>2. ASSUME gs.st # "DRAINING", Transition("intent", "drain", "DRAINING", gs)
        PROVE  QuietStep
    <3>1. gs.st \in Exposed /\ "DRAINING" \in Exposed /\ "DRAINING" \in GateState
      BY <2>1, <2>2 DEF Transition, Allowed, Targets, Terminal, Exposed, GateState
    <3>2. QED
      BY <1>0, <2>1, <2>2, <3>1, TransitionQuiet DEF Ops
  <2>3. QuietStep
    BY <1>0, <1>8, <2>1, <2>2, SameQuiet DEF DrainIntent
  <2>4. QED
    BY <1>0, <2>3, QuietKeepsHistory
<1>9. CASE DrainCheck
  <2>1. gs.st = "DRAINING" /\ adm' = adm /\ gs \in GateRow
    BY <1>0, <1>9 DEF DrainCheck, CallInState, TypeOK, GateRow
  <2>2. CASE UNCHANGED <<gs, journal>>
    BY <1>0, <2>1, <2>2, SameQuiet, QuietKeepsHistory
  <2>3. CASE ~Unfinished /\ Transition("receipt", "drain", "CANDIDATE_OPEN", gs)
    <3> DEFINE r == [kind |-> "receipt", op |-> "drain", from |-> gs.st,
                     to |-> "CANDIDATE_OPEN"]
    <3>1. r \in Row /\ ~IsOpenReceipt(r)
      BY <2>1 DEF Row, Ops, GateState, IsOpenReceipt
    <3>2. journal' = Append(journal, r)
      BY <2>3 DEF Transition
    <3>3. /\ gs'.st = "CANDIDATE_OPEN" /\ gs'.seq = Len(journal) + 1
          /\ gs'.routeGen = gs.routeGen /\ gs'.routeFence = gs.routeFence
      BY <2>1, <2>3 DEF Transition, GateRow
    <3>4. DrainStep
      BY <2>1, <2>3, <3>1, <3>2, <3>3 DEF DrainStep
    <3>5. QED
      BY <1>0, <3>4, DrainKeepsHistory
  <2>4. QED
    BY <1>9, <2>2, <2>3 DEF DrainCheck, CommitReceipt
<1>10. CASE FailCloseIntent
  <2>1. /\ Intent("fail_close", gs.st, Keep) \in Row
        /\ ~IsOpenReceipt(Intent("fail_close", gs.st, Keep))
        /\ ~IsDrainReceipt(Intent("fail_close", gs.st, Keep))
    BY <1>0, <1>10, RowState, RowTypes
    DEF FailCloseIntent, CallStaged, Ops, Intent, IsOpenReceipt, IsDrainReceipt
  <2>2. QuietStep
    BY <1>0, <1>10, <2>1, NoteQuiet DEF FailCloseIntent
  <2>3. QED
    BY <1>0, <2>2, QuietKeepsHistory
<1>11. CASE FailCloseCommit
  <2>1. gs.st # NoRow /\ call.tgt \in Terminal /\ WithRoute(call.seen) \in GateRow /\ adm' = adm
    BY <1>0, <1>11, WithRouteTypes
    DEF FailCloseCommit, CallStaged, CallInState, Closing, TypeOK, Call
  <2>2. QuietStep
    BY <1>0, <1>11, <2>1, EndQuiet DEF FailCloseCommit, Ops
  <2>3. QED
    BY <1>0, <2>2, QuietKeepsHistory
<1>12. CASE RollbackCommit
  <2>1. gs.st # NoRow /\ call.tgt \in Terminal /\ WithRoute(call.seen) \in GateRow /\ adm' = adm
    BY <1>0, <1>12, WithRouteTypes
    DEF RollbackCommit, CallStaged, CallInState, Closing, TypeOK, Call
  <2>2. QuietStep
    BY <1>0, <1>12, <2>1, EndQuiet DEF RollbackCommit, Ops
  <2>3. QED
    BY <1>0, <2>2, QuietKeepsHistory
<1>13. CASE ReconcileFailCloseCommit
  <2>1. gs.st # NoRow /\ call.tgt \in Terminal /\ WithRoute(call.seen) \in GateRow /\ adm' = adm
    BY <1>0, <1>13, WithRouteTypes
    DEF ReconcileFailCloseCommit, CallStaged, CallInState, Closing, TypeOK, Call
  <2>2. QuietStep
    BY <1>0, <1>13, <2>1, EndQuiet DEF ReconcileFailCloseCommit, Ops
  <2>3. QED
    BY <1>0, <2>2, QuietKeepsHistory
<1>14. CASE ReconcileRollbackCommit
  <2>1. gs.st # NoRow /\ call.tgt \in Terminal /\ gs \in GateRow /\ adm' = adm
    BY <1>0, <1>14
    DEF ReconcileRollbackCommit, CallStaged, CallInState, Closing, TypeOK, GateRow
  <2>2. QuietStep
    BY <1>0, <1>14, <2>1, EndQuiet DEF ReconcileRollbackCommit, Ops
  <2>3. QED
    BY <1>0, <2>2, QuietKeepsHistory
<1>15. CASE \E o \in BOOLEAN : RollbackIntent(o)
  <2>1. PICK o \in BOOLEAN : RollbackIntent(o)
    BY <1>15
  <2>2. /\ Intent("rollback", gs.st, Keep) \in Row
        /\ ~IsOpenReceipt(Intent("rollback", gs.st, Keep))
        /\ ~IsDrainReceipt(Intent("rollback", gs.st, Keep))
    BY <1>0, <2>1, RowState, RowTypes
    DEF RollbackIntent, Ops, Intent, IsOpenReceipt, IsDrainReceipt
  <2>3. QuietStep
    BY <1>0, <2>1, <2>2, NoteQuiet DEF RollbackIntent
  <2>4. QED
    BY <1>0, <2>3, QuietKeepsHistory
<1>16. CASE RetryCommit
  <2>1. gs.st \in GateState /\ call.tgt \in Terminal /\ adm' = adm /\ gs \in GateRow
    BY <1>0, <1>16, RowState
    DEF RetryCommit, CallStaged, CallInState, Closing, TypeOK, GateRow
  <2> DEFINE r1 == Receipt("open.reconcile.close_all", "OPENING", Keep)
             r2 == Receipt("open", gs.st, call.tgt)
  <2>2. CASE UNCHANGED <<gs, journal>>
    BY <1>0, <2>1, <2>2, SameQuiet, QuietKeepsHistory
  <2>3. CASE /\ journal' = journal \o <<r1, r2>>
             /\ gs' = [gs EXCEPT !.st = call.tgt, !.seq = Len(journal) + 2]
    <3>1. /\ ~IsOpenReceipt(r1) /\ ~IsDrainReceipt(r1)
          /\ ~IsOpenReceipt(r2) /\ ~IsDrainReceipt(r2)
      BY <2>1 DEF Receipt, IsOpenReceipt, IsDrainReceipt, Terminal
    <3>2. r1 \in Row /\ r2 \in Row
      BY <2>1, RowTypes DEF Ops, GateState, Terminal
    <3>3. journal \in Seq(Row) /\ <<r1, r2>> \in Seq(Row) /\ Len(<<r1, r2>>) = 2
      BY <1>0, <3>2 DEF TypeOK
    <3>4. Len(journal) \in Nat
      BY <3>3
    <3> HIDE DEF r1, r2
    <3>5. /\ Len(journal') = Len(journal) + 2
          /\ DOMAIN journal = 1..Len(journal) /\ DOMAIN journal' = 1..(Len(journal) + 2)
          /\ \A i \in 1..Len(journal) : journal'[i] = journal[i]
          /\ journal'[Len(journal) + 1] = r1 /\ journal'[Len(journal) + 2] = r2
      BY <2>3, <3>3, <3>4
    <3>6. gs'.seq = Len(journal') /\ gs'.st \in Terminal
      BY <2>1, <2>3, <3>5 DEF GateRow
    <3>7. QuietStep
      BY <2>1, <3>1, <3>4, <3>5, <3>6 DEF QuietStep, Extends
    <3>8. QED
      BY <1>0, <3>7, QuietKeepsHistory
  <2>4. QED
    BY <1>16, <2>2, <2>3 DEF RetryCommit
<1>17. CASE ReconcileCancel
  <2>1. /\ Receipt("open", "OPENING", Keep) \in Row
        /\ ~IsOpenReceipt(Receipt("open", "OPENING", Keep))
        /\ ~IsDrainReceipt(Receipt("open", "OPENING", Keep))
    BY RowTypes DEF Ops, GateState, Receipt, IsOpenReceipt, IsDrainReceipt, Keep
  <2>2. QuietStep
    BY <1>0, <1>17, <2>1, NoteQuiet DEF ReconcileCancel
  <2>3. QED
    BY <1>0, <2>2, QuietKeepsHistory
<1>18. CASE ReconcileOpen
  <2>1. gs.st = "OPENING" /\ adm' = adm
    BY <1>0, <1>18 DEF ReconcileOpen, CallInState, Opening
  <2>2. /\ Intent("open.reconcile.close_all", "OPENING", Keep) \in Row
        /\ ~IsOpenReceipt(Intent("open.reconcile.close_all", "OPENING", Keep))
        /\ ~IsDrainReceipt(Intent("open.reconcile.close_all", "OPENING", Keep))
    BY RowTypes DEF Ops, GateState, Intent, IsOpenReceipt, IsDrainReceipt
  <2>3. QuietStep \/ OpenStep
    BY <1>0, <1>18, <2>1, <2>2, NoteQuiet, OpenReceiptOpens DEF ReconcileOpen
  <2>4. QED
    BY <1>0, <2>3, QuietKeepsHistory, OpenKeepsHistory
<1>19. CASE RecoveryReceipt
  <2>1. /\ Receipt("open.reconcile.close_all", "OPENING", Keep) \in Row
        /\ ~IsOpenReceipt(Receipt("open.reconcile.close_all", "OPENING", Keep))
        /\ ~IsDrainReceipt(Receipt("open.reconcile.close_all", "OPENING", Keep))
    BY RowTypes DEF Ops, GateState, Receipt, IsOpenReceipt, IsDrainReceipt, Keep
  <2>2. QuietStep
    BY <1>0, <1>19, <2>1, NoteQuiet DEF RecoveryReceipt
  <2>3. QED
    BY <1>0, <2>2, QuietKeepsHistory
<1>20. CASE RecoveryFinish
  <2>1. /\ Receipt("open", "OPENING", Keep) \in Row
        /\ ~IsOpenReceipt(Receipt("open", "OPENING", Keep))
        /\ ~IsDrainReceipt(Receipt("open", "OPENING", Keep))
    BY RowTypes DEF Ops, GateState, Receipt, IsOpenReceipt, IsDrainReceipt, Keep
  <2>2. /\ gs.st # NoRow /\ WithRoute(ClosedRoute) \in GateRow /\ adm' = adm
        /\ "FAILED_SAFE" \in Terminal
    BY <1>0, <1>20, RouteTypes, WithRouteTypes DEF RecoveryFinish, CallStaged, Terminal
  <2>3. QuietStep
    BY <1>0, <1>20, <2>1, <2>2, NoteQuiet, EndQuiet DEF RecoveryFinish, Ops
  <2>4. QED
    BY <1>0, <2>3, QuietKeepsHistory
<1>21. CASE CloseQuery \/ OpenEffect \/ OpenRefused \/ OpenQuery \/ AdmitMismatch
               \/ FailCloseCall \/ FailCloseEffect \/ FailCloseQuery \/
               RollbackEffect \/ RollbackQuery \/ RollbackClose \/ RollbackRequery \/
               ReconcileFailClose \/ RetryStart \/ RetryEffect \/ RetryQuery \/
               ReconcileRollback \/ ReconcileQuery \/ RecoveryEffect \/ RecoveryQuery
               \/ CutOff \/ LeaseLost \/ Drift
  <2>1. UNCHANGED <<gs, journal, adm>>
    BY <1>21 DEF CloseQuery, OpenEffect, OpenRefused, OpenQuery, AdmitMismatch,
           FailCloseCall, FailCloseEffect, FailCloseQuery, RollbackEffect,
           RollbackQuery, RollbackClose, RollbackRequery, ReconcileFailClose,
           RetryStart, RetryEffect, RetryQuery, ReconcileRollback, ReconcileQuery,
           RecoveryEffect, RecoveryQuery, CutOff, LeaseLost, Drift
  <2>2. QED
    BY <1>0, <2>1, SameQuiet, QuietKeepsHistory
<1>22. QED
  BY <1>1, <1>2, <1>3, <1>4, <1>5, <1>6, <1>7, <1>8, <1>9, <1>10, <1>11, <1>12,
     <1>13, <1>14, <1>15, <1>16, <1>17, <1>18, <1>19, <1>20, <1>21
  DEF Next, Operate, Traffic, Reconcile, Continue, Environment

-----------------------------------------------------------------------------
(* The durable state moves only along the table: _transition() is the only    *)
(* writer of gate_state.state, whichever operation or recovery calls it.      *)
LEMMA GateMoves ==
  ASSUME TypeOK, Next
  PROVE  \/ gs' = gs
         \/ Stage
         \/ Allowed(gs.st, gs'.st)
<1>1. ASSUME NEW k, NEW o, NEW t, NEW g, g \in GateRow, Transition(k, o, t, g)
      PROVE  Allowed(gs.st, gs'.st)
  <2>1. gs'.st = t
    BY <1>1 DEF Transition, GateRow
  <2>2. QED
    BY <1>1, <2>1 DEF Transition
<1>2. ASSUME NEW o, NEW t, NEW g, g \in GateRow, CommitReceipt(o, t, g)
      PROVE  gs' = gs \/ Allowed(gs.st, gs'.st)
  BY <1>1, <1>2 DEF CommitReceipt
<1>3. gs \in GateRow /\ AsOpened \in GateRow /\ WithRoute(call.seen) \in GateRow
      /\ WithRoute(ClosedRoute) \in GateRow
  BY WithRouteTypes, RouteTypes
  DEF AsOpened, TypeOK, Call, GateRow, Gens, Fences, Snaps
<1>4. CASE CloseCommit \/ OpenCommit \/ DrainCheck \/ FailCloseCommit \/
               RollbackCommit \/ ReconcileFailCloseCommit \/
               ReconcileRollbackCommit \/ ReconcileOpen \/ RecoveryFinish
  BY <1>2, <1>3, <1>4
  DEF CloseCommit, OpenCommit, DrainCheck, FailCloseCommit, RollbackCommit,
      ReconcileFailCloseCommit, ReconcileRollbackCommit, ReconcileOpen,
      RecoveryFinish, Append1
<1>5. CASE CloseIntent \/ CloseQuery \/ OpenEffect \/ OpenRefused \/
               OpenQuery \/ AdmitMismatch \/ FailCloseCall \/
               FailCloseIntent \/ FailCloseEffect \/ FailCloseQuery \/
               RollbackEffect \/ RollbackQuery \/ RollbackClose \/
               RollbackRequery \/ ReconcileFailClose \/ RetryStart \/
               RetryEffect \/ RetryQuery \/ ReconcileRollback \/
               ReconcileCancel \/ ReconcileQuery \/ RecoveryEffect \/
               RecoveryQuery \/ RecoveryReceipt \/ CutOff \/ LeaseLost \/
               Drift
  BY <1>5
  DEF CloseIntent, CloseQuery, OpenEffect, OpenRefused, OpenQuery,
      AdmitMismatch, FailCloseCall, FailCloseIntent, FailCloseEffect,
      FailCloseQuery, RollbackEffect, RollbackQuery, RollbackClose,
      RollbackRequery, ReconcileFailClose, RetryStart, RetryEffect,
      RetryQuery, ReconcileRollback, ReconcileCancel, ReconcileQuery,
      RecoveryEffect, RecoveryQuery, RecoveryReceipt, CutOff, LeaseLost, Drift, Append1
<1>6. CASE \/ \E p \in Proof : OpenIntent(p)
           \/ DrainIntent
  BY <1>1, <1>3, <1>6 DEF OpenIntent, DrainIntent
<1>7. CASE \/ \E o \in BOOLEAN : RollbackIntent(o)
           \/ \E r \in Requests : Admit(r) \/ Finish(r)
  BY <1>7 DEF RollbackIntent, Append1, Admit, Finish
<1>8. CASE RetryCommit
  <2>1. [gs EXCEPT !.st = call.tgt, !.seq = Len(journal) + 2].st = call.tgt
    BY DEF TypeOK
  <2>2. QED
    BY <1>8, <2>1 DEF RetryCommit
<1>9. QED
  BY <1>4, <1>5, <1>6, <1>7, <1>8
  DEF Next, Operate, Traffic, Reconcile, Continue, Environment

(* A staged gate stays staged, and its calls begin on a staged gate.          *)
LEMMA StepCallStaged ==
  ASSUME TypeOK, CallStaged, Next
  PROVE  CallStaged'
<1> USE DEF At, Idle
<1>1. CASE Stage
  BY <1>1 DEF Stage, CallStaged, NoRow
<1>2. CASE LeaseLost \/ Drift
  BY <1>2 DEF LeaseLost, Drift, CallStaged
<1>3. CASE gs.st # NoRow
  <2>1. gs.st \in GateState
    BY <1>3, RowState
  <2>2. gs'.st \in GateState
    BY <1>3, <2>1, GateMoves, AllowedTypes DEF Stage
  <2>3. gs'.st # NoRow
    BY <2>2 DEF GateState, NoRow
  <2>4. QED
    BY <2>3 DEF CallStaged
<1>4. CASE CloseIntent \/ CloseQuery \/ OpenEffect \/ OpenRefused \/
               OpenQuery \/ AdmitMismatch \/ FailCloseCall \/
               FailCloseIntent \/ FailCloseEffect \/ FailCloseQuery \/
               RollbackEffect \/ RollbackQuery \/ RollbackClose \/
               RollbackRequery \/ ReconcileFailClose \/ RetryStart \/
               RetryEffect \/ RetryQuery \/ ReconcileRollback \/
               ReconcileCancel \/ ReconcileQuery \/ RecoveryEffect \/
               RecoveryQuery \/ RecoveryReceipt \/ CutOff \/ CloseCommit \/
               OpenCommit \/ DrainCheck \/ FailCloseCommit \/ RollbackCommit
               \/ ReconcileFailCloseCommit \/ ReconcileRollbackCommit \/
               ReconcileOpen \/ RecoveryFinish \/ RetryCommit \/ DrainIntent
  <2>1. gs.st # NoRow
    BY <1>4
    DEF CallStaged, OpeningUnresolved,
        CloseIntent, CloseQuery, OpenEffect, OpenRefused, OpenQuery,
        AdmitMismatch, FailCloseCall, FailCloseIntent, FailCloseEffect,
        FailCloseQuery, RollbackEffect, RollbackQuery, RollbackClose,
        RollbackRequery, ReconcileFailClose, RetryStart, RetryEffect,
        RetryQuery, ReconcileRollback, ReconcileCancel, ReconcileQuery,
        RecoveryEffect, RecoveryQuery, RecoveryReceipt, CutOff, CloseCommit,
        OpenCommit, DrainCheck, FailCloseCommit, RollbackCommit,
        ReconcileFailCloseCommit, ReconcileRollbackCommit, ReconcileOpen,
        RecoveryFinish, RetryCommit, DrainIntent
  <2>2. QED
    BY <1>3, <2>1
<1>5. CASE \/ \E p \in Proof : OpenIntent(p)
           \/ \E o \in BOOLEAN : RollbackIntent(o)
           \/ \E r \in Requests : Admit(r) \/ Finish(r)
  <2>1. gs.st # NoRow
    BY <1>5 DEF OpenIntent, RollbackIntent, Admit, Finish
  <2>2. QED
    BY <1>3, <2>1
<1>6. QED
  BY <1>1, <1>2, <1>4, <1>5
  DEF Next, Operate, Traffic, Reconcile, Continue, Environment

(* The place a call has reached agrees with the durable state.                *)
LEMMA StepCallInState ==
  ASSUME TypeOK, CallInState, Next
  PROVE  CallInState'
<1> USE DEF At, Idle
<1>1. \A p \in Pcs \ (Opening \cup Closing \cup {"drain.check"}) :
        call'.pc = p => CallInState'
  BY DEF CallInState, Opening, Closing
<1>2. \A p : Goto(p) => call'.pc = p
  BY DEF Goto, TypeOK, Call
<1>3. Return \/ Raise => call'.pc = "idle"
  BY DEF Return, Raise, Done
<1>4. \A r : Closure(r) \in Terminal
  BY ClosureTypes DEF Terminal
<1>5. CASE CloseIntent \/ CloseCommit \/ OpenRefused \/ OpenCommit \/
               AdmitMismatch \/ DrainCheck \/ FailCloseCall \/
               FailCloseIntent \/ FailCloseEffect \/ FailCloseCommit \/
               RollbackEffect \/ RollbackClose \/ RollbackCommit \/
               ReconcileFailCloseCommit \/ ReconcileRollbackCommit \/
               RetryStart \/ RetryEffect \/ RetryCommit \/ ReconcileCancel
               \/ ReconcileOpen \/ RecoveryReceipt \/ RecoveryFinish \/
               CutOff
  <2>1. call'.pc \in {"idle", "close.query", "fail_close.intent", "fail_close.effect",
                     "fail_close.query", "rollback.close", "rollback.query",
                     "rollback.requery", "retry.effect", "retry.query",
                     "recovery.effect", "recovery.finish"}
    BY <1>2, <1>3, <1>5
    DEF CommitReceipt,
        CloseIntent, CloseCommit, OpenRefused, OpenCommit, AdmitMismatch,
        DrainCheck, FailCloseCall, FailCloseIntent, FailCloseEffect,
        FailCloseCommit, RollbackEffect, RollbackClose, RollbackCommit,
        ReconcileFailCloseCommit, ReconcileRollbackCommit, RetryStart,
        RetryEffect, RetryCommit, ReconcileCancel, ReconcileOpen,
        RecoveryReceipt, RecoveryFinish, CutOff
  <2>2. QED
    BY <1>1, <2>1 DEF Opening, Closing, Pcs
<1>6. CASE Stage \/ LeaseLost \/ Drift
  BY <1>6 DEF Stage, LeaseLost, Drift, CallInState, Opening, Closing
<1>7. CASE \/ CloseQuery \/ RecoveryEffect \/ RecoveryQuery
           \/ \E o \in BOOLEAN : RollbackIntent(o)
  <2>1. call'.pc \in {"close.commit", "recovery.query", "recovery.receipt",
                     "rollback.effect"}
    BY <1>7 DEF CloseQuery, RecoveryEffect, RecoveryQuery, RollbackIntent, TypeOK, Call
  <2>2. QED
    BY <1>1, <2>1 DEF Opening, Closing, Pcs
<1>8. CASE \E p \in Proof : OpenIntent(p)
  <2>1. call'.pc = "open.effect" /\ gs'.st = "OPENING"
    BY <1>2, <1>8 DEF OpenIntent, Transition, TypeOK
  <2>2. QED
    BY <2>1 DEF CallInState, Opening, Closing
<1>9. CASE OpenEffect \/ OpenQuery \/ ReconcileQuery
  <2>1. call'.pc \in Opening /\ gs'.st = "OPENING"
    BY <1>2, <1>9 DEF OpenEffect, OpenQuery, ReconcileQuery, OpeningUnresolved,
                     CallInState, Opening, TypeOK, Call
  <2>2. QED
    BY <2>1 DEF CallInState, Opening, Closing
<1>10. CASE DrainIntent
  <2>1. call'.pc = "drain.check" /\ gs'.st = "DRAINING"
    BY <1>2, <1>10 DEF DrainIntent, Transition, TypeOK
  <2>2. QED
    BY <2>1 DEF CallInState, Opening, Closing
<1>11. CASE FailCloseQuery \/ RollbackRequery \/ RetryQuery \/ ReconcileFailClose
             \/ ReconcileRollback
  <2>0. "ROLLED_BACK" \in Terminal
    BY DEF Terminal
  <2>1. CASE FailCloseQuery
    <3>1. call'.pc \in Closing /\ call'.tgt \in Terminal
      BY <1>4, <2>0, <2>1 DEF FailCloseQuery, Closing, TypeOK, Call
    <3>2. QED
      BY <3>1 DEF CallInState, Opening, Closing
  <2>2. CASE RollbackRequery
    <3>1. call'.pc \in Closing /\ call'.tgt \in Terminal
      BY <1>4, <2>0, <2>2 DEF RollbackRequery, Closing, TypeOK, Call
    <3>2. QED
      BY <3>1 DEF CallInState, Opening, Closing
  <2>3. CASE RetryQuery
    <3>1. call'.pc \in Closing /\ call'.tgt \in Terminal
      BY <1>4, <2>0, <2>3 DEF RetryQuery, Closing, TypeOK, Call
    <3>2. QED
      BY <3>1 DEF CallInState, Opening, Closing
  <2>4. CASE ReconcileFailClose
    <3>1. call'.pc \in Closing /\ call'.tgt \in Terminal
      BY <1>4, <2>0, <2>4 DEF ReconcileFailClose, Closing, TypeOK, Call
    <3>2. QED
      BY <3>1 DEF CallInState, Opening, Closing
  <2>5. CASE ReconcileRollback
    <3>1. call'.pc \in Closing /\ call'.tgt \in Terminal
      BY <1>4, <2>0, <2>5 DEF ReconcileRollback, Closing, TypeOK, Call
    <3>2. QED
      BY <3>1 DEF CallInState, Opening, Closing
  <2>6. QED
    BY <1>11, <2>1, <2>2, <2>3, <2>4, <2>5
<1>12. CASE RollbackQuery
  <2>1. \/ call'.pc = "rollback.close"
        \/ call'.pc = "rollback.commit" /\ call'.tgt = "ROLLED_BACK"
    BY <1>2, <1>12 DEF RollbackQuery, TypeOK, Call
  <2>2. QED
    BY <2>1 DEF CallInState, Opening, Closing, Terminal
<1>13. CASE \E r \in Requests : Admit(r) \/ Finish(r)
  BY <1>13 DEF Admit, Finish, CallInState
<1>14. QED
  BY <1>5, <1>6, <1>7, <1>8, <1>9, <1>10, <1>11, <1>12, <1>13
  DEF Next, Operate, Traffic, Reconcile, Continue, Environment

-----------------------------------------------------------------------------
(* The theorems. *)

(* The inductive invariant holds at the start.                                *)
LEMMA InitGateInv == Init => GateInv
<1> SUFFICES ASSUME Init PROVE GateInv
  OBVIOUS
<1>1. TypeOK
  BY InitTypeOK
<1>2. CallStaged /\ CallInState
  BY DEF Init, CallStaged, CallInState, At, Done, Opening, Closing
<1>3. journal = <<>> /\ gs.seq = 0 /\ Len(journal) = 0 /\ DOMAIN journal = {}
      /\ \A r \in Requests : adm[r] = NotAdmitted
  BY DEF Init
<1>4. History
  BY <1>3 DEF Init, History, SeqsBounded, NotYetOpen, OpenRecorded, Exposed, NoRow,
              AdmissionsFollowOpen, DrainReceiptIsFinal, Has, SingleOpen, NotAdmitted
<1>5. QED
  BY <1>1, <1>2, <1>4 DEF GateInv

(* Every step keeps it.                                                       *)
LEMMA StepGateInv == GateInv /\ [Next]_vars => GateInv'
<1> SUFFICES ASSUME GateInv, [Next]_vars PROVE GateInv'
  OBVIOUS
<1>1. CASE Next
  <2>1. TypeOK' /\ CallStaged' /\ CallInState'
    BY <1>1, StepTypeOK, StepCallStaged, StepCallInState DEF GateInv
  <2>2. History'
    BY <1>1, StepKeepsHistory
  <2>3. QED
    BY <2>1, <2>2 DEF GateInv
<1>2. CASE UNCHANGED vars
  <2>1. UNCHANGED <<gs, journal, adm, route, leaseLive, call, budget>>
    BY <1>2 DEF vars
  <2>2. TypeOK' /\ CallStaged' /\ CallInState'
    BY <2>1 DEF GateInv, TypeOK, CallStaged, CallInState, At
  <2>3. History'
    BY <2>1 DEF GateInv, History, SeqsBounded, NotYetOpen, OpenRecorded,
                AdmissionsFollowOpen, DrainReceiptIsFinal, SingleOpen
  <2>4. QED
    BY <2>2, <2>3 DEF GateInv
<1>3. QED
  BY <1>1, <1>2

(* GateInv is an invariant.                                                   *)
LEMMA Invariance == Spec => []GateInv
  BY InitGateInv, StepGateInv, PTL DEF Spec

(* Every table, the route and the running call keep their types: in           *)
(* particular no operation or recovery stores a state outside the table.      *)
THEOREM TypeCorrect == Spec => []TypeOK
<1>1. GateInv => TypeOK
  BY DEF GateInv
<1>2. QED
  BY <1>1, Invariance, PTL

(* No request reaches the candidate before a durable open receipt, and none   *)
(* reaches the predecessor after it, for every number of requests, crashes,   *)
(* adapter failures and lease losses.                                         *)
THEOREM AdmissionSafety == Spec => []AdmissionsFollowOpen
<1>1. GateInv => AdmissionsFollowOpen
  BY DEF GateInv, History
<1>2. QED
  BY <1>1, Invariance, PTL

(* What drain() reported stays true: no predecessor request is unfinished     *)
(* once a drain receipt exists.                                               *)
THEOREM DrainSafety == Spec => []DrainReceiptIsFinal
<1>1. GateInv => DrainReceiptIsFinal
  BY DEF GateInv, History
<1>2. QED
  BY <1>1, Invariance, PTL

(* A gate opens once: open() and every recovery of it together write at most  *)
(* one open receipt.                                                          *)
THEOREM OpensOnce == Spec => []SingleOpen
<1>1. GateInv => SingleOpen
  BY DEF GateInv, History
<1>2. QED
  BY <1>1, Invariance, PTL

(* ROLLED_BACK, FAILED_SAFE and SAFETY_UNKNOWN are never left.                *)
THEOREM TerminalStatesFinal == Spec => TerminalIsFinal
<1>1. TypeOK /\ [Next]_vars => [gs.st \in Terminal => gs'.st = gs.st]_vars
  <2> SUFFICES ASSUME TypeOK, Next, gs.st \in Terminal
               PROVE  gs'.st = gs.st
    OBVIOUS
  <2>1. gs.st # NoRow
    BY DEF Terminal, NoRow
  <2>2. gs' = gs \/ Allowed(gs.st, gs'.st)
    BY <2>1, GateMoves DEF Stage
  <2>3. QED
    BY <2>2 DEF Allowed, Targets, Terminal
<1>2. QED
  BY <1>1, TypeCorrect, PTL DEF Spec, TerminalIsFinal

-----------------------------------------------------------------------------
(* What one step writes into the journal and the row. *)

(* What a step writes: nothing, a row that moves no state, a row that moves   *)
(* the state along the table, or the two receipts of a repeated recovery.     *)
Noted(r) == r.to = Keep /\ Append1(r) /\ (r.kind = "receipt" => r.op # "rollback")

Moved(r) ==
  /\ r.from = gs.st /\ r.to \in GateState /\ Allowed(gs.st, r.to)
  /\ journal' = Append(journal, r) /\ gs'.st = r.to
  /\ r.to = "OPENING" => r.kind = "intent" /\ r.op = "open"
  /\ r.to \in Exposed => gs'.obs = "cand" \/ (gs.st \in Exposed /\ gs'.obs = gs.obs)
  /\ r.kind = "receipt" /\ r.op = "rollback" => RollbackCommit \/ ReconcileRollbackCommit

Retried ==
  /\ Allowed(gs.st, call.tgt) /\ call.tgt \in Terminal /\ gs.st \in GateState
  /\ journal' = journal \o
       <<Receipt("open.reconcile.close_all", "OPENING", Keep),
         Receipt("open", gs.st, call.tgt)>>
  /\ gs'.st = call.tgt

(* _transition() writes one row that moves the state.                         *)
LEMMA TransitionMoves ==
  ASSUME TypeOK, gs.st # NoRow, NEW k \in {"intent", "receipt"}, NEW o \in Ops,
         NEW t, NEW g \in GateRow, Transition(k, o, t, g),
         t = "OPENING" => k = "intent" /\ o = "open",
         t \in Exposed => g.obs = "cand" \/ (gs.st \in Exposed /\ g.obs = gs.obs),
         k = "receipt" /\ o = "rollback" => RollbackCommit \/ ReconcileRollbackCommit
  PROVE  \E r \in Row : Moved(r)
<1> DEFINE r == [kind |-> k, op |-> o, from |-> gs.st, to |-> t]
<1>1. t \in GateState
  BY RowState, AllowedTypes DEF Transition
<1>2. r \in Row
  BY <1>1, RowState DEF Row
<1>3. gs'.st = t /\ gs'.obs = g.obs
  BY DEF Transition, GateRow
<1>4. r.from = gs.st /\ r.to = t /\ r.kind = k /\ r.op = o
  OBVIOUS
<1>5. journal' = Append(journal, r) /\ Allowed(gs.st, t)
  BY DEF Transition
<1> HIDE DEF r
<1>6. Moved(r)
  BY <1>1, <1>3, <1>4, <1>5 DEF Moved
<1>7. QED
  BY <1>2, <1>6

(* So does a receipt, unless the table refuses it.                            *)
LEMMA ReceiptMoves ==
  ASSUME TypeOK, gs.st # NoRow, NEW o \in Ops,
         NEW t, NEW g \in GateRow, CommitReceipt(o, t, g), t # "OPENING",
         t \in Exposed => g.obs = "cand" \/ (gs.st \in Exposed /\ g.obs = gs.obs),
         o = "rollback" => RollbackCommit \/ ReconcileRollbackCommit
  PROVE  UNCHANGED <<gs, journal>> \/ \E r \in Row : Moved(r)
<1>1. CASE Transition("receipt", o, t, g)
  BY <1>1, TransitionMoves
<1>2. CASE UNCHANGED <<gs, journal>>
  BY <1>2
<1>3. QED
  BY <1>1, <1>2 DEF CommitReceipt

(* Every step writes one of these.                                            *)
LEMMA StepWrites ==
  ASSUME GateInv, Next
  PROVE  \/ Stage \/ Retried
         \/ UNCHANGED <<gs, journal>>
         \/ \E r \in Row : Noted(r)
         \/ \E r \in Row : Moved(r)
<1> USE DEF At, Idle
<1>0. TypeOK /\ CallStaged /\ CallInState
  BY DEF GateInv
<1>1. gs \in GateRow /\ AsOpened \in GateRow /\ WithRoute(call.seen) \in GateRow
      /\ WithRoute(ClosedRoute) \in GateRow /\ AsOpened.obs = "cand"
  BY <1>0, WithRouteTypes, RouteTypes
  DEF AsOpened, TypeOK, Call, GateRow, Gens, Fences, Snaps
<1>2. ASSUME gs.st \in GateState
      PROVE  /\ \A o \in Ops : /\ Intent(o, gs.st, Keep) \in Row
                               /\ Append1(Intent(o, gs.st, Keep)) => Noted(Intent(o, gs.st, Keep))
             /\ \A o \in Ops \ {"rollback"} :
                   /\ Receipt(o, gs.st, Keep) \in Row
                   /\ Append1(Receipt(o, gs.st, Keep)) => Noted(Receipt(o, gs.st, Keep))
  BY <1>2, RowTypes DEF Noted, Intent, Receipt
<1>3. /\ \A o \in Ops : /\ Intent(o, "OPENING", Keep) \in Row
                        /\ Append1(Intent(o, "OPENING", Keep)) => Noted(Intent(o, "OPENING", Keep))
      /\ \A o \in Ops \ {"rollback"} :
                   /\ Receipt(o, "OPENING", Keep) \in Row
                   /\ Append1(Receipt(o, "OPENING", Keep)) => Noted(Receipt(o, "OPENING", Keep))
  BY RowTypes DEF Noted, Intent, Receipt, GateState
<1>4. \A s \in Terminal : s # "OPENING" /\ s \notin Exposed
  BY DEF Terminal, Exposed
<1>5. CASE Stage
  BY <1>5
<1>6. CASE CloseIntent \/ FailCloseIntent \/ \E o \in BOOLEAN : RollbackIntent(o)
  <2>1. gs.st \in GateState
    BY <1>0, <1>6, RowState DEF CloseIntent, FailCloseIntent, RollbackIntent, CallStaged
  <2>2. QED
    BY <1>2, <1>6, <2>1 DEF CloseIntent, FailCloseIntent, RollbackIntent, Ops
<1>7. CASE CloseCommit
  <2>1. gs.st \in GateState /\ gs.st # NoRow
    BY <1>0, <1>7, RowState DEF CloseCommit, CallStaged
  <2>2. CASE CommitReceipt("close", "CANDIDATE_CLOSED", gs)
    BY <1>0, <1>1, <2>1, <2>2, ReceiptMoves DEF Ops, Exposed
  <2>3. CASE Append1(Receipt("close", gs.st, Keep))
    BY <1>2, <2>1, <2>3 DEF Ops
  <2>4. QED
    BY <1>7, <2>2, <2>3 DEF CloseCommit
<1>8. CASE \E p \in Proof : OpenIntent(p)
  <2>1. gs.st # NoRow /\ Transition("intent", "open", "OPENING", gs)
    BY <1>8 DEF OpenIntent
  <2>2. QED
    BY <1>0, <1>1, <2>1, TransitionMoves DEF Ops, Exposed
<1>9. CASE OpenCommit \/ ReconcileOpen
  <2>1. gs.st = "OPENING" /\ gs.st # NoRow
    BY <1>0, <1>9 DEF OpenCommit, ReconcileOpen, CallInState, Opening, NoRow
  <2>2. ASSUME NEW o \in {"open", "open.reconcile"}, CommitReceipt(o, "CANDIDATE_OPEN", AsOpened)
        PROVE  UNCHANGED <<gs, journal>> \/ \E r \in Row : Moved(r)
    <3>1. o \in Ops /\ o # "rollback"
      BY DEF Ops
    <3>2. QED
      BY <1>0, <1>1, <2>1, <2>2, <3>1, ReceiptMoves
  <2>3. QED
    BY <1>3, <1>9, <2>2 DEF OpenCommit, ReconcileOpen, Ops
<1>10. CASE DrainIntent
  <2>1. gs.st # NoRow
    BY <1>10 DEF DrainIntent
  <2>2. ASSUME gs.st # "DRAINING", Transition("intent", "drain", "DRAINING", gs)
        PROVE  \E r \in Row : Moved(r)
    <3>1. gs.st \in Exposed
      BY <1>0, <2>1, <2>2, RowState DEF Transition, Allowed, Targets, Terminal, Exposed, GateState
    <3>2. QED
      BY <1>0, <1>1, <2>1, <2>2, <3>1, TransitionMoves DEF Ops
  <2>3. QED
    BY <1>10, <2>2 DEF DrainIntent
<1>11. CASE DrainCheck
  <2>1. gs.st = "DRAINING" /\ gs.st # NoRow /\ gs.st \in Exposed
    BY <1>0, <1>11 DEF DrainCheck, CallInState, NoRow, Exposed
  <2>2. QED
    BY <1>0, <1>1, <1>11, <2>1, ReceiptMoves DEF DrainCheck, Ops
<1>12. CASE FailCloseCommit \/ ReconcileFailCloseCommit
  <2>1. gs.st # NoRow /\ call.tgt \in Terminal
    BY <1>0, <1>12 DEF FailCloseCommit, ReconcileFailCloseCommit, CallStaged, CallInState, Closing
  <2>2. CommitReceipt("fail_close", call.tgt, WithRoute(call.seen))
    BY <1>12 DEF FailCloseCommit, ReconcileFailCloseCommit
  <2>3. QED
    BY <1>0, <1>1, <1>4, <2>1, <2>2, ReceiptMoves DEF Ops
<1>13. CASE RollbackCommit \/ ReconcileRollbackCommit
  <2>1. gs.st # NoRow /\ call.tgt \in Terminal
    BY <1>0, <1>13 DEF RollbackCommit, ReconcileRollbackCommit, CallStaged, CallInState, Closing
  <2>2. \E g \in GateRow : CommitReceipt("rollback", call.tgt, g)
    BY <1>1, <1>13 DEF RollbackCommit, ReconcileRollbackCommit
  <2>3. QED
    BY <1>0, <1>4, <1>13, <2>1, <2>2, ReceiptMoves DEF Ops
<1>14. CASE RetryCommit
  <2>1. gs.st \in GateState /\ call.tgt \in Terminal
    BY <1>0, <1>14, RowState DEF RetryCommit, CallStaged, CallInState, Closing
  <2>2. [gs EXCEPT !.st = call.tgt, !.seq = Len(journal) + 2].st = call.tgt
    BY <1>0 DEF TypeOK
  <2>3. QED
    BY <1>14, <2>1, <2>2 DEF RetryCommit, Retried
<1>15. CASE ReconcileCancel \/ RecoveryReceipt
  BY <1>3, <1>15 DEF ReconcileCancel, RecoveryReceipt, Ops
<1>16. CASE RecoveryFinish
  <2>1. gs.st # NoRow
    BY <1>0, <1>16 DEF RecoveryFinish, CallStaged
  <2>2. CASE CommitReceipt("open", "FAILED_SAFE", WithRoute(ClosedRoute))
    BY <1>0, <1>1, <2>1, <2>2, ReceiptMoves DEF Ops, Exposed
  <2>3. CASE Append1(Receipt("open", "OPENING", Keep))
    BY <1>3, <2>3 DEF Ops
  <2>4. QED
    BY <1>16, <2>2, <2>3 DEF RecoveryFinish
<1>17. CASE CloseQuery \/ OpenEffect \/ OpenRefused \/ OpenQuery \/ AdmitMismatch
               \/ FailCloseCall \/ FailCloseEffect \/ FailCloseQuery \/
               RollbackEffect \/ RollbackQuery \/ RollbackClose \/ RollbackRequery \/
               ReconcileFailClose \/ RetryStart \/ RetryEffect \/ RetryQuery \/
               ReconcileRollback \/ ReconcileQuery \/ RecoveryEffect \/ RecoveryQuery
               \/ CutOff \/ LeaseLost \/ Drift
  BY <1>17 DEF CloseQuery, OpenEffect, OpenRefused, OpenQuery, AdmitMismatch,
           FailCloseCall, FailCloseEffect, FailCloseQuery, RollbackEffect,
           RollbackQuery, RollbackClose, RollbackRequery, ReconcileFailClose,
           RetryStart, RetryEffect, RetryQuery, ReconcileRollback, ReconcileQuery,
           RecoveryEffect, RecoveryQuery, CutOff, LeaseLost, Drift
<1>18. CASE \E r \in Requests : Admit(r) \/ Finish(r)
  BY <1>18 DEF Admit, Finish
<1>19. QED
  BY <1>5, <1>6, <1>7, <1>8, <1>9, <1>10, <1>11, <1>12, <1>13, <1>14, <1>15, <1>16,
     <1>17, <1>18
  DEF Next, Operate, Traffic, Reconcile, Continue, Environment

(* Every set of naturals that has a member has a least one.                   *)
LEMMA LeastNat ==
  ASSUME NEW A, A \subseteq Nat, A # {}
  PROVE  \E n \in A : \A m \in A : n <= m
<1> DEFINE T == {0..n : n \in A}
           R == StrictSubsetOrdering(Nat)
<1>1. IsWellFoundedOn(R, FiniteSubsetsOf(Nat))
  BY FS_StrictSubsetOrderingWellFounded
<1>2. T \subseteq FiniteSubsetsOf(Nat)
  <2>1. ASSUME NEW n \in A PROVE 0..n \in SUBSET Nat /\ IsFiniteSet(0..n)
    BY <2>1, FS_Interval
  <2>2. QED
    BY <2>1 DEF FiniteSubsetsOf
<1>3. T # {}
  OBVIOUS
<1>4. PICK x \in T : \A y \in T : ~(<<y, x>> \in R)
  BY <1>1, <1>2, <1>3, WFMin
<1>5. PICK n \in A : x = 0..n
  OBVIOUS
<1>6. ASSUME NEW m \in A, ~(n <= m)
      PROVE  FALSE
  <2>1. n \in Nat /\ m \in Nat /\ m < n
    BY <1>6
  <2>2. 0..m \subseteq 0..n /\ 0..m # 0..n /\ 0..m \in T
    BY <2>1
  <2>3. 0..m \in SUBSET Nat /\ 0..n \in SUBSET Nat
    OBVIOUS
  <2>4. <<0..m, 0..n>> \in R
    BY <2>2, <2>3 DEF StrictSubsetOrdering
  <2>5. QED
    BY <1>4, <1>5, <2>2, <2>4
<1>7. QED
  BY <1>6

-----------------------------------------------------------------------------
(* What the journal and the durable state say about each other.               *)

(* The last row that moved the state moved it to the durable state.           *)
LastMove ==
  gs.st # NoRow =>
    \E k \in DOMAIN journal :
      /\ journal[k].to = gs.st
      /\ \A m \in DOMAIN journal : k < m => journal[m].to = Keep

(* The row of an exposed gate records the candidate snapshot it observed.     *)
ObservedOpen == gs.st \in Exposed => gs.obs = "cand"

(* No row changes the state in a way the oracle does not know.                *)
MovesKnown ==
  gs.st # NoRow =>
    \A i \in DOMAIN journal : TargetKnown(i) \/ ReplayedBefore(i) = "DRAINING"

OracleInv == LastMove /\ ObservedOpen /\ MovesKnown

(* A set of naturals has one greatest member.                                 *)
LEMMA LastUnique ==
  ASSUME NEW W, W \subseteq Nat, NEW k \in W, \A m \in W : m <= k
  PROVE  (CHOOSE n \in W : \A m \in W : m <= n) = k
<1>1. \A n \in W : (\A m \in W : m <= n) => n = k
  OBVIOUS
<1>2. QED
  BY <1>1

(* The replay reaches the target of the last row before i that has one.       *)
LEMMA ReplayOf ==
  ASSUME TypeOK, NEW i \in Nat, i <= Len(journal) + 1,
         NEW k \in 1..(i - 1), journal[k].to # Keep,
         \A m \in 1..(i - 1) : k < m => journal[m].to = Keep
  PROVE  ReplayedBefore(i) = journal[k].to
<1>1. Len(journal) \in Nat
  BY DEF TypeOK
<1>2. Writers(i) \subseteq Nat /\ k \in Writers(i) /\ \A m \in Writers(i) : m <= k
  BY <1>1 DEF Writers
<1>3. QED
  BY <1>2, LastUnique DEF ReplayedBefore

(* The whole journal replays to the durable state.                            *)
LEMMA ReplayEnds ==
  ASSUME TypeOK, LastMove, gs.st # NoRow
  PROVE  ReplayedBefore(Len(journal) + 1) = gs.st
<1>1. Len(journal) \in Nat /\ DOMAIN journal = 1..Len(journal)
  BY DEF TypeOK
<1>2. PICK k \in DOMAIN journal :
        /\ journal[k].to = gs.st
        /\ \A m \in DOMAIN journal : k < m => journal[m].to = Keep
  BY DEF LastMove
<1>3. journal[k].to # Keep
  BY <1>2, RowState DEF GateState, Keep
<1>4. (Len(journal) + 1) - 1 = Len(journal)
  BY <1>1
<1>5. QED
  BY <1>1, <1>2, <1>3, <1>4, ReplayOf

(* Rows already written replay as they did.                                   *)
LEMMA ReplayStays ==
  ASSUME TypeOK, Extends, NEW i \in Nat, i <= Len(journal) + 1
  PROVE  ReplayedBefore(i)' = ReplayedBefore(i)
<1>1. Len(journal) \in Nat /\ DOMAIN journal = 1..Len(journal)
  BY DEF TypeOK
<1>2. \A m \in 1..(i - 1) : journal'[m] = journal[m]
  BY <1>1 DEF Extends
<1>3. Writers(i)' = Writers(i)
  BY <1>2 DEF Writers
<1>4. CASE Writers(i) = {}
  BY <1>3, <1>4 DEF ReplayedBefore
<1>5. CASE Writers(i) # {}
  <2> DEFINE c == CHOOSE n \in Writers(i) : \A m \in Writers(i) : m <= n
  <2>1. c' = c
    BY <1>3
  <2>2. ReplayedBefore(i) = journal[c].to /\ ReplayedBefore(i)' = journal'[c].to
    BY <1>3, <1>5, <2>1 DEF ReplayedBefore
  <2>3. \E n \in Writers(i) : \A m \in Writers(i) : m <= n
    <3> DEFINE S == {n \in Nat : \A m \in Writers(i) : m <= n}
    <3>1. Writers(i) \subseteq 1..(i - 1)
      BY DEF Writers
    <3>2. i \in S /\ S \subseteq Nat
      BY <3>1
    <3>3. PICK n \in S : \A m \in S : n <= m
      BY <3>2, LeastNat
    <3>4. CASE n \in Writers(i)
      BY <3>3, <3>4
    <3>5. CASE n \notin Writers(i)
      <4>1. n # 0
        BY <1>5, <3>1, <3>3
      <4>2. n - 1 \in S
        BY <3>1, <3>3, <3>5, <4>1
      <4>3. QED
        BY <3>3, <4>2
    <3>6. QED
      BY <3>4, <3>5
  <2>4. c \in Writers(i)
    BY <2>3
  <2>5. journal'[c] = journal[c]
    BY <1>2, <2>4 DEF Writers
  <2>6. QED
    BY <2>2, <2>5
<1>6. QED
  BY <1>4, <1>5

(* A row appended to the journal is known to the oracle when the table allows *)
(* it, or when it leaves a draining gate.                                     *)
LEMMA AllowedKnown ==
  ASSUME NEW s, NEW t, Allowed(s, t), s # "DRAINING"
  PROVE  t = s \/ t \in OracleTargets(s)
  BY DEF Allowed, OracleTargets

(* A step that writes no row.                                                 *)
LEMMA StillOracle ==
  ASSUME OracleInv, UNCHANGED <<gs, journal>>
  PROVE  OracleInv'
<1>1. \A i : ReplayedBefore(i)' = ReplayedBefore(i)
  BY DEF ReplayedBefore, Writers
<1>2. \A i : TargetKnown(i)' <=> TargetKnown(i)
  BY <1>1 DEF TargetKnown
<1>3. QED
  BY <1>1, <1>2 DEF OracleInv, LastMove, ObservedOpen, MovesKnown

(* The journal grows by one row that the oracle knows.                        *)
LEMMA RowOracle ==
  ASSUME TypeOK, TypeOK', MovesKnown, LastMove, gs.st # NoRow,
         NEW r \in Row, journal' = Append(journal, r),
         r.to = Keep \/ Allowed(gs.st, r.to)
  PROVE  MovesKnown'
<1>1. /\ Len(journal) \in Nat
      /\ Len(journal') = Len(journal) + 1
      /\ DOMAIN journal = 1..Len(journal) /\ DOMAIN journal' = 1..(Len(journal) + 1)
      /\ \A i \in 1..Len(journal) : journal'[i] = journal[i]
      /\ journal'[Len(journal) + 1] = r
  BY AppendPlaces DEF TypeOK
<1>2. Extends
  BY <1>1 DEF Extends
<1>3. ASSUME NEW i \in DOMAIN journal'
      PROVE  (TargetKnown(i) \/ ReplayedBefore(i) = "DRAINING")'
  <2>1. i \in Nat /\ i <= Len(journal) + 1
    BY <1>1
  <2>2. ReplayedBefore(i)' = ReplayedBefore(i)
    BY <1>2, <2>1, ReplayStays
  <2>3. CASE i \in DOMAIN journal
    <3>1. journal'[i].to = journal[i].to
      BY <1>1, <2>3
    <3>2. TargetKnown(i) \/ ReplayedBefore(i) = "DRAINING"
      BY <2>3 DEF MovesKnown
    <3>3. QED
      BY <2>2, <3>1, <3>2 DEF TargetKnown
  <2>4. CASE i = Len(journal) + 1
    <3>1. ReplayedBefore(i) = gs.st /\ journal'[i] = r
      BY <1>1, <2>4, ReplayEnds
    <3>2. QED
      BY <2>2, <3>1, AllowedKnown DEF TargetKnown
  <2>5. QED
    BY <1>1, <2>3, <2>4
<1>4. QED
  BY <1>3 DEF MovesKnown

(* Every step keeps the journal and the durable state in agreement.           *)
LEMMA StepOracleInv ==
  ASSUME GateInv, OracleInv, Next
  PROVE  OracleInv'
<1>0. TypeOK /\ TypeOK' /\ CallStaged /\ journal \in Seq(Row) /\ Len(journal) \in Nat
  BY StepTypeOK DEF GateInv, TypeOK
<1>1. CASE Stage
  <2> DEFINE r == Receipt("stage", "PREDECESSOR_OPEN", "CANDIDATE_STAGED")
  <2>1. journal' = <<r>> /\ gs'.st = "CANDIDATE_STAGED" /\ r.to = "CANDIDATE_STAGED"
    BY <1>1 DEF Stage, Receipt
  <2> HIDE DEF r
  <2>2. DOMAIN journal' = {1} /\ journal'[1] = r
    BY <2>1
  <2>3. LastMove' /\ ObservedOpen'
    BY <2>1, <2>2 DEF LastMove, ObservedOpen, Exposed
  <2>4. ReplayedBefore(1)' = "PREDECESSOR_OPEN"
    BY DEF ReplayedBefore, Writers
  <2>5. TargetKnown(1)'
    BY <2>1, <2>2, <2>4 DEF TargetKnown, OracleTargets, Targets
  <2>6. QED
    BY <2>2, <2>3, <2>5 DEF OracleInv, MovesKnown
<1>2. CASE Retried
  <2> DEFINE r1 == Receipt("open.reconcile.close_all", "OPENING", Keep)
             r2 == Receipt("open", gs.st, call.tgt)
  <2>1. r1 \in Row /\ r2 \in Row /\ r1.to = Keep /\ r2.to = call.tgt
    BY <1>2, RowTypes DEF Retried, Ops, GateState, Terminal, Receipt
  <2>2. journal' = journal \o <<r1, r2>> /\ gs'.st = call.tgt
    BY <1>2 DEF Retried
  <2>3. call.tgt \in Terminal /\ Allowed(gs.st, call.tgt) /\ gs.st \in GateState
    BY <1>2 DEF Retried
  <2> HIDE DEF r1, r2
  <2>4. /\ Len(journal') = Len(journal) + 2
        /\ DOMAIN journal = 1..Len(journal) /\ DOMAIN journal' = 1..(Len(journal) + 2)
        /\ \A i \in 1..Len(journal) : journal'[i] = journal[i]
        /\ journal'[Len(journal) + 1] = r1 /\ journal'[Len(journal) + 2] = r2
    BY <1>0, <2>1, <2>2
  <2>5. gs.st # NoRow /\ call.tgt # Keep
    BY <2>3 DEF GateState, NoRow, Terminal, Keep
  <2>6. LastMove'
    <3>1. Len(journal) + 2 \in DOMAIN journal' /\ journal'[Len(journal) + 2].to = gs'.st
      BY <1>0, <2>1, <2>2, <2>4
    <3>2. \A m \in DOMAIN journal' : ~(Len(journal) + 2 < m)
      BY <1>0, <2>4
    <3>3. QED
      BY <3>1, <3>2 DEF LastMove
  <2>7. ObservedOpen'
    BY <2>2, <2>3 DEF ObservedOpen, Terminal, Exposed
  <2>8. Extends
    BY <1>0, <2>4 DEF Extends
  <2>9. ASSUME NEW i \in DOMAIN journal, NEW n \in Nat, n = i
        PROVE  (TargetKnown(i) \/ ReplayedBefore(i) = "DRAINING")'
    <3>1. ReplayedBefore(i)' = ReplayedBefore(i) /\ journal'[i].to = journal[i].to
      BY <1>0, <2>4, <2>8, <2>9, ReplayStays
    <3>2. TargetKnown(i) \/ ReplayedBefore(i) = "DRAINING"
      BY <2>5 DEF OracleInv, MovesKnown
    <3>3. QED
      BY <3>1, <3>2 DEF TargetKnown
  <2>10. ASSUME NEW i \in {Len(journal) + 1, Len(journal) + 2}
         PROVE  (TargetKnown(i) \/ ReplayedBefore(i) = "DRAINING")'
    <3>1. CASE i = Len(journal) + 1
      <4>1. journal'[i].to = Keep
        BY <2>1, <2>4, <3>1
      <4>2. QED
        BY <4>1 DEF TargetKnown
    <3>2. CASE i = Len(journal) + 2
      <4>1. PICK k \in DOMAIN journal :
              /\ journal[k].to = gs.st
              /\ \A m \in DOMAIN journal : k < m => journal[m].to = Keep
        BY <2>5 DEF OracleInv, LastMove
      <4>2. gs.st # Keep /\ i \in Nat /\ i <= Len(journal') + 1 /\ k \in 1..(i - 1)
        BY <1>0, <2>3, <2>4, <3>2 DEF GateState, Keep
      <4>3. journal'[k].to = gs.st
        BY <2>4, <4>1
      <4>4. \A m \in 1..(i - 1) : k < m => journal'[m].to = Keep
        BY <1>0, <2>1, <2>4, <3>2, <4>1
      <4>5. ReplayedBefore(i)' = gs.st
        <5>1. Writers(i)' \subseteq Nat /\ k \in Writers(i)'
              /\ \A m \in Writers(i)' : m <= k
          BY <1>0, <4>2, <4>3, <4>4 DEF Writers
        <5>2. QED
          BY <4>3, <5>1, LastUnique DEF ReplayedBefore
      <4>6. journal'[i].to = call.tgt
        BY <2>1, <2>4, <3>2
      <4>7. QED
        BY <2>3, <4>5, <4>6, AllowedKnown DEF TargetKnown
    <3>3. QED
      BY <3>1, <3>2
  <2>11. MovesKnown'
    BY <1>0, <2>4, <2>9, <2>10 DEF MovesKnown
  <2>12. QED
    BY <2>6, <2>7, <2>11 DEF OracleInv
<1>3. CASE UNCHANGED <<gs, journal>>
  BY <1>3, StillOracle
<1>4. CASE \E r \in Row : Noted(r)
  <2>1. PICK r \in Row : Noted(r)
    BY <1>4
  <2>2. journal' = Append(journal, r) /\ gs' = gs /\ r.to = Keep
    BY <2>1 DEF Noted, Append1
  <2>3. ObservedOpen'
    BY <2>2 DEF OracleInv, ObservedOpen
  <2>4. /\ DOMAIN journal = 1..Len(journal) /\ DOMAIN journal' = 1..(Len(journal) + 1)
        /\ \A i \in 1..Len(journal) : journal'[i] = journal[i]
        /\ journal'[Len(journal) + 1] = r
    BY <1>0, <2>2, AppendPlaces
  <2>5. LastMove'
    <3>1. CASE gs.st = NoRow
      BY <2>2, <3>1 DEF LastMove
    <3>2. CASE gs.st # NoRow
      <4>1. PICK k \in DOMAIN journal :
              /\ journal[k].to = gs.st
              /\ \A m \in DOMAIN journal : k < m => journal[m].to = Keep
        BY <3>2 DEF OracleInv, LastMove
      <4>2. k \in DOMAIN journal' /\ journal'[k].to = gs'.st
        BY <1>0, <2>2, <2>4, <4>1
      <4>3. \A m \in DOMAIN journal' : k < m => journal'[m].to = Keep
        BY <1>0, <2>2, <2>4, <4>1
      <4>4. QED
        BY <4>2, <4>3 DEF LastMove
    <3>3. QED
      BY <3>1, <3>2
  <2>6. MovesKnown'
    <3>1. CASE gs.st = NoRow
      BY <2>2, <3>1 DEF MovesKnown
    <3>2. CASE gs.st # NoRow
      BY <1>0, <2>2, <3>2, RowOracle DEF OracleInv
    <3>3. QED
      BY <3>1, <3>2
  <2>7. QED
    BY <2>3, <2>5, <2>6 DEF OracleInv
<1>5. CASE \E r \in Row : Moved(r)
  <2>1. PICK r \in Row : Moved(r)
    BY <1>5
  <2>2. /\ journal' = Append(journal, r) /\ gs'.st = r.to /\ Allowed(gs.st, r.to)
        /\ r.from = gs.st /\ r.to \in GateState
        /\ r.to \in Exposed => gs'.obs = "cand" \/ (gs.st \in Exposed /\ gs'.obs = gs.obs)
    BY <2>1 DEF Moved
  <2>3. gs.st # NoRow
    BY <2>2 DEF Row, GateState, NoRow
  <2>4. ObservedOpen'
    BY <2>2 DEF OracleInv, ObservedOpen
  <2>5. /\ DOMAIN journal = 1..Len(journal) /\ DOMAIN journal' = 1..(Len(journal) + 1)
        /\ \A i \in 1..Len(journal) : journal'[i] = journal[i]
        /\ journal'[Len(journal) + 1] = r
    BY <1>0, <2>2, AppendPlaces
  <2>6. LastMove'
    BY <1>0, <2>2, <2>5 DEF LastMove
  <2>7. MovesKnown'
    BY <1>0, <2>2, <2>3, RowOracle DEF OracleInv
  <2>8. QED
    BY <2>4, <2>6, <2>7 DEF OracleInv
<1>6. QED
  BY <1>1, <1>2, <1>3, <1>4, <1>5, StepWrites

(* Init, step and conclusion of the oracle's invariant.                       *)
LEMMA OracleInvariance == Spec => [](GateInv /\ OracleInv)
<1>1. Init => OracleInv
  BY DEF Init, OracleInv, LastMove, ObservedOpen, MovesKnown, Exposed, NoRow
<1>2. GateInv /\ OracleInv /\ [Next]_vars => OracleInv'
  <2>1. CASE Next
    BY <2>1, StepOracleInv
  <2>2. CASE UNCHANGED vars
    BY <2>2, StillOracle DEF vars
  <2>3. QED
    BY <2>1, <2>2
<1>3. QED
  BY <1>1, <1>2, Invariance, PTL DEF Spec

(* The offline oracle and the gate never disagree about the state: after any  *)
(* sequence of operations, crashes, recoveries and adapter failures, silent   *)
(* ones included, the journal replays to the durable state, CANDIDATE_OPEN is *)
(* explained by an open receipt, and only rows written while DRAINING may be  *)
(* unknown to the oracle's table.                                             *)
THEOREM OracleAgrees == Spec => []OracleReplaysState
<1>1. GateInv /\ OracleInv => OracleReplaysState
  <2> SUFFICES ASSUME GateInv, OracleInv, gs.st # NoRow
               PROVE  /\ ReplayedBefore(Len(journal) + 1) = gs.st
                      /\ FinalRouteExplained
                      /\ \A i \in DOMAIN journal :
                           TargetKnown(i) \/ ReplayedBefore(i) = "DRAINING"
    BY DEF OracleReplaysState
  <2>1. ReplayedBefore(Len(journal) + 1) = gs.st
    BY ReplayEnds DEF GateInv, OracleInv
  <2>2. FinalRouteExplained
    BY DEF FinalRouteExplained, OpenSeqs, GateInv, History, OpenRecorded, OracleInv,
           ObservedOpen, Exposed
  <2>3. QED
    BY <2>1, <2>2 DEF OracleInv, MovesKnown
<1>2. QED
  BY <1>1, OracleInvariance, PTL

-----------------------------------------------------------------------------
(* What the gate knows about the route.  FailedSafeHeld and                   *)
(* CandidateExposureKnown speak of the actual route, which the adapter and    *)
(* the world change behind the durable row; they need to know what a call in  *)
(* progress has learned of the route and that it is still so.                 *)

(* OPENING stands behind a durable open intent, and so does the candidate.    *)
OpenIntended ==
  gs.st = "OPENING" \/ route.gen = "cand" => Has(journal, "intent", "open")

(* A call about to record FAILED_SAFE has seen all traffic closed; only a     *)
(* rollback records ROLLED_BACK.                                              *)
ClosedKnown ==
  call.pc \in Closing =>
    /\ call.tgt = "FAILED_SAFE" => IsClosed(route)
    /\ call.tgt = "ROLLED_BACK" => call.pc \in {"rollback.commit", "reconcile.rollback"}

(* A rollback past its intent has no receipt.                                 *)
Undoing == {"rollback.effect", "rollback.query", "rollback.close", "rollback.requery",
            "rollback.commit"}
RollbackPending == call.pc \in Undoing => PendingRollback

(* A recovery close that met no error has closed the route.                   *)
Recovering == {"recovery.query", "recovery.receipt", "recovery.finish"}
RecoveryKnown == call.pc \in Recovering /\ ~call.err => IsClosed(route)

(* A rollback whose adapter call returned has taken the candidate off.        *)
RestoredKnown ==
  \/ call.pc = "rollback.query"
  \/ call.pc \in {"rollback.commit", "reconcile.rollback"} /\ call.tgt = "ROLLED_BACK"
  => route.gen # "cand"

ExposureInv ==
  /\ OpenIntended /\ ClosedKnown /\ RollbackPending
  /\ ~SilentFaults =>
       RecoveryKnown /\ RestoredKnown /\ CandidateExposureKnown /\ FailedSafeHeld

(* The journal is append-only.                                                *)
LEMMA StepExtends ==
  ASSUME GateInv, Next
  PROVE  Extends
<1>0. journal \in Seq(Row) /\ Len(journal) \in Nat /\ CallStaged
  BY DEF GateInv, TypeOK
<1>1. CASE Stage
  BY <1>0, <1>1 DEF Stage, CallStaged, Extends
<1>2. CASE Retried
  <2>1. Receipt("open.reconcile.close_all", "OPENING", Keep) \in Row
        /\ Receipt("open", gs.st, call.tgt) \in Row
    BY <1>2, RowTypes DEF Retried, Ops, GateState, Terminal
  <2>2. PICK r1, r2 \in Row : journal' = journal \o <<r1, r2>>
    BY <1>2, <2>1 DEF Retried
  <2>3. QED
    BY <1>0, <2>2 DEF Extends
<1>3. CASE UNCHANGED <<gs, journal>>
  BY <1>3 DEF Extends
<1>4. ASSUME NEW r \in Row, Noted(r) \/ Moved(r)
      PROVE  Extends
  <2>1. journal' = Append(journal, r)
    BY <1>4 DEF Noted, Moved, Append1
  <2>2. QED
    BY <1>0, <2>1, AppendPlaces DEF Extends
<1>5. QED
  BY <1>1, <1>2, <1>3, <1>4, StepWrites

(* Who may change the route, and to what.                                     *)
LEMMA RouteMoves ==
  ASSUME TypeOK, Next
  PROVE  \/ route' = route
         \/ OpenEffect /\ route' = CandRoute
         \/ (FailCloseEffect \/ RetryEffect \/ RecoveryEffect \/ RollbackClose)
            /\ route' = ClosedRoute
         \/ RollbackEffect /\ route' = Restored
         \/ Drift /\ route.gen # "none" /\ route'.gen \in {route.gen, "other"}
<1>1. ASSUME NEW r, NEW x, Effect(r, x)
      PROVE  route' \in {r, route}
  BY <1>1 DEF Effect
<1>2. CASE OpenEffect
  BY <1>1, <1>2 DEF OpenEffect
<1>3. CASE FailCloseEffect \/ RetryEffect \/ RecoveryEffect \/ RollbackClose
  BY <1>1, <1>3 DEF FailCloseEffect, RetryEffect, RecoveryEffect, RollbackClose
<1>4. CASE RollbackEffect
  BY <1>1, <1>4 DEF RollbackEffect
<1>5. CASE Drift
  <2>1. route \in Route
    BY DEF TypeOK
  <2>2. QED
    BY <1>5, <2>1 DEF Drift, Route
<1>6. CASE \/ \E p \in Proof : OpenIntent(p)
           \/ \E o \in BOOLEAN : RollbackIntent(o)
           \/ \E r \in Requests : Admit(r) \/ Finish(r)
  BY <1>6 DEF OpenIntent, RollbackIntent, Admit, Finish
<1>7. CASE Stage \/ CloseIntent \/ CloseQuery \/ CloseCommit \/ OpenRefused \/ OpenQuery
           \/ OpenCommit \/ AdmitMismatch \/ DrainIntent \/ DrainCheck \/ FailCloseCall
           \/ FailCloseIntent \/ FailCloseQuery \/ FailCloseCommit \/ RollbackQuery
           \/ RollbackRequery \/ RollbackCommit \/ ReconcileFailClose
           \/ ReconcileFailCloseCommit \/ RetryStart \/ RetryQuery \/ RetryCommit
           \/ ReconcileRollback \/ ReconcileRollbackCommit \/ ReconcileCancel
           \/ ReconcileQuery \/ ReconcileOpen \/ RecoveryQuery \/ RecoveryReceipt
           \/ RecoveryFinish \/ CutOff \/ LeaseLost
  BY <1>7
  DEF Stage, CloseIntent, CloseQuery, CloseCommit, OpenRefused, OpenQuery, OpenCommit,
      AdmitMismatch, DrainIntent, DrainCheck, FailCloseCall, FailCloseIntent,
      FailCloseQuery, FailCloseCommit, RollbackQuery, RollbackRequery, RollbackCommit,
      ReconcileFailClose, ReconcileFailCloseCommit, RetryStart, RetryQuery, RetryCommit,
      ReconcileRollback, ReconcileRollbackCommit, ReconcileCancel, ReconcileQuery,
      ReconcileOpen, RecoveryQuery, RecoveryReceipt, RecoveryFinish, CutOff, LeaseLost
<1>8. QED
  BY <1>2, <1>3, <1>4, <1>5, <1>6, <1>7
  DEF Next, Operate, Traffic, Reconcile, Continue, Environment

(* Where a call goes, apart from the places ExposureInv does not speak of.    *)
Untracked == Pcs \ (Closing \cup Undoing \cup Recovering)

LEMMA CallMoves ==
  ASSUME TypeOK, Next
  PROVE  \/ call' = call
         \/ call'.pc \in Untracked
         \/ FailCloseQuery \/ RollbackRequery \/ RetryQuery \/ ReconcileFailClose
         \/ ReconcileRollback \/ RollbackQuery \/ RollbackEffect \/ RollbackClose
         \/ RecoveryEffect \/ RecoveryQuery \/ RecoveryReceipt
         \/ \E o \in BOOLEAN : RollbackIntent(o)
<1> USE DEF At, Idle
<1>1. \A p : Goto(p) => call'.pc = p
  BY DEF Goto, TypeOK, Call
<1>2. Return \/ Raise => call'.pc = "idle"
  BY DEF Return, Raise, Done
<1>3. {"idle", "close.query", "close.commit", "fail_close.intent", "fail_close.effect",
       "fail_close.query", "retry.effect", "retry.query", "recovery.effect", "open.effect",
       "open.query", "open.commit", "reconcile.open", "drain.check"} \subseteq Untracked
  BY DEF Untracked, Pcs, Closing, Undoing, Recovering
<1>4. CASE CloseIntent \/ CloseCommit \/ OpenRefused \/ OpenCommit \/
               AdmitMismatch \/ DrainCheck \/ FailCloseCall \/ DrainIntent \/
               FailCloseIntent \/ FailCloseEffect \/ FailCloseCommit \/
               RollbackCommit \/ ReconcileFailCloseCommit \/ ReconcileRollbackCommit \/
               RetryStart \/ RetryEffect \/ RetryCommit \/ ReconcileCancel
               \/ ReconcileOpen \/ RecoveryFinish \/ CutOff \/ OpenEffect
  <2>1. call'.pc \in {"idle", "close.query", "fail_close.intent", "fail_close.effect",
                     "fail_close.query", "retry.effect", "retry.query",
                     "recovery.effect", "drain.check", "open.query"}
    BY <1>1, <1>2, <1>4
    DEF CommitReceipt,
        CloseIntent, CloseCommit, OpenRefused, OpenCommit, AdmitMismatch, DrainIntent,
        DrainCheck, FailCloseCall, FailCloseIntent, FailCloseEffect,
        FailCloseCommit, RollbackCommit,
        ReconcileFailCloseCommit, ReconcileRollbackCommit, RetryStart,
        RetryEffect, RetryCommit, ReconcileCancel, ReconcileOpen,
        RecoveryFinish, CutOff, OpenEffect
  <2>2. QED
    BY <1>3, <2>1
<1>5. CASE CloseQuery \/ OpenQuery \/ ReconcileQuery \/ \E p \in Proof : OpenIntent(p)
  <2>1. call'.pc \in {"close.commit", "open.commit", "reconcile.open", "open.effect"}
    BY <1>1, <1>5 DEF CloseQuery, OpenQuery, ReconcileQuery, OpenIntent, TypeOK, Call
  <2>2. QED
    BY <1>3, <2>1
<1>6. CASE Stage \/ LeaseLost \/ Drift \/ \E r \in Requests : Admit(r) \/ Finish(r)
  BY <1>6 DEF Stage, LeaseLost, Drift, Admit, Finish
<1>7. QED
  BY <1>4, <1>5, <1>6
  DEF Next, Operate, Traffic, Reconcile, Continue, Environment

(* Terminal states are entered by a call that carries them as its target, or  *)
(* by a recovery close without an error.                                      *)
LEMMA EndsBy ==
  ASSUME GateInv, Next, gs'.st \in Terminal, gs'.st # gs.st
  PROVE  /\ route' = route
         /\ \/ call.pc \in Closing /\ gs'.st = call.tgt
            \/ call.pc = "recovery.finish" /\ ~call.err /\ gs'.st = "FAILED_SAFE"
<1> USE DEF At, Idle
<1>0. TypeOK /\ CallInState /\ gs \in GateRow
  BY DEF GateInv, TypeOK, GateRow
<1>1. ASSUME NEW k, NEW o, NEW t, NEW g \in GateRow, Transition(k, o, t, g)
      PROVE  gs'.st = t
  BY <1>1 DEF Transition, GateRow
<1>2. ASSUME NEW o, NEW t, NEW g \in GateRow, CommitReceipt(o, t, g)
      PROVE  gs'.st = t
  BY <1>1, <1>2 DEF CommitReceipt
<1>3. gs \in GateRow /\ AsOpened \in GateRow /\ WithRoute(call.seen) \in GateRow
      /\ WithRoute(ClosedRoute) \in GateRow
  BY <1>0, WithRouteTypes, RouteTypes
  DEF AsOpened, TypeOK, Call, GateRow, Gens, Fences, Snaps
<1>4. CASE FailCloseCommit \/ RollbackCommit \/ ReconcileFailCloseCommit
           \/ ReconcileRollbackCommit
  BY <1>2, <1>3, <1>4
  DEF FailCloseCommit, RollbackCommit, ReconcileFailCloseCommit, ReconcileRollbackCommit,
      Closing
<1>5. CASE RetryCommit
  <2>1. [gs EXCEPT !.st = call.tgt, !.seq = Len(journal) + 2].st = call.tgt
    BY <1>0 DEF GateRow
  <2>2. QED
    BY <1>5, <2>1 DEF RetryCommit, Closing
<1>6. CASE RecoveryFinish
  BY <1>2, <1>3, <1>6 DEF RecoveryFinish, Append1
<1>7. CASE CloseCommit \/ OpenCommit \/ DrainCheck \/ ReconcileOpen
  BY <1>2, <1>3, <1>7 DEF CloseCommit, OpenCommit, DrainCheck, ReconcileOpen, Append1, Terminal
<1>8. CASE DrainIntent \/ Stage \/ \E p \in Proof : OpenIntent(p)
  <2>1. gs' = gs \/ gs'.st \in {"CANDIDATE_STAGED", "DRAINING", "OPENING"}
    BY <1>1, <1>3, <1>8 DEF DrainIntent, Stage, OpenIntent
  <2>2. QED
    BY <2>1 DEF Terminal
<1>9. CASE \/ \E o \in BOOLEAN : RollbackIntent(o)
           \/ \E r \in Requests : Admit(r) \/ Finish(r)
  BY <1>9 DEF RollbackIntent, Append1, Admit, Finish
<1>10. CASE CloseIntent \/ CloseQuery \/ OpenEffect \/ OpenRefused \/
               OpenQuery \/ AdmitMismatch \/ FailCloseCall \/
               FailCloseIntent \/ FailCloseEffect \/ FailCloseQuery \/
               RollbackEffect \/ RollbackQuery \/ RollbackClose \/
               RollbackRequery \/ ReconcileFailClose \/ RetryStart \/
               RetryEffect \/ RetryQuery \/ ReconcileRollback \/
               ReconcileCancel \/ ReconcileQuery \/ RecoveryEffect \/
               RecoveryQuery \/ RecoveryReceipt \/ CutOff \/ LeaseLost \/
               Drift
  BY <1>10
  DEF CloseIntent, CloseQuery, OpenEffect, OpenRefused, OpenQuery,
      AdmitMismatch, FailCloseCall, FailCloseIntent, FailCloseEffect,
      FailCloseQuery, RollbackEffect, RollbackQuery, RollbackClose,
      RollbackRequery, ReconcileFailClose, RetryStart, RetryEffect,
      RetryQuery, ReconcileRollback, ReconcileCancel, ReconcileQuery,
      RecoveryEffect, RecoveryQuery, RecoveryReceipt, CutOff, LeaseLost, Drift, Append1
<1>11. QED
  BY <1>4, <1>5, <1>6, <1>7, <1>8, <1>9, <1>10
  DEF Next, Operate, Traffic, Reconcile, Continue, Environment

(* A pending intent stays pending until a receipt of its operation is         *)
(* written, and an intent just written is pending.                            *)
LEMMA StillOutstanding ==
  ASSUME NEW j \in Seq(Row), NEW r \in Row, NEW o, Outstanding(j, o),
         r.kind = "receipt" => r.op # o
  PROVE  Outstanding(Append(j, r), o)
<1>1. /\ Len(j) \in Nat /\ DOMAIN j = 1..Len(j) /\ DOMAIN Append(j, r) = 1..(Len(j) + 1)
      /\ \A i \in 1..Len(j) : Append(j, r)[i] = j[i]
      /\ Append(j, r)[Len(j) + 1] = r
  BY AppendPlaces
<1>2. PICK i \in DOMAIN j :
        /\ j[i].kind = "intent" /\ j[i].op = o
        /\ \A k \in DOMAIN j : (j[k].kind = "receipt" /\ j[k].op = o) => k < i
  BY DEF Outstanding
<1> DEFINE J == Append(j, r)
<1>3. i \in DOMAIN J /\ J[i].kind = "intent" /\ J[i].op = o
  BY <1>1, <1>2
<1>4. \A k \in DOMAIN J : (J[k].kind = "receipt" /\ J[k].op = o) => k < i
  BY <1>1, <1>2
<1>5. QED
  BY <1>3, <1>4 DEF Outstanding

(* An intent just written is pending.                                         *)
LEMMA NewlyOutstanding ==
  ASSUME NEW j \in Seq(Row), NEW r \in Row, r.kind = "intent"
  PROVE  Outstanding(Append(j, r), r.op)
<1>1. /\ Len(j) \in Nat /\ DOMAIN j = 1..Len(j) /\ DOMAIN Append(j, r) = 1..(Len(j) + 1)
      /\ Append(j, r)[Len(j) + 1] = r
  BY AppendPlaces
<1> DEFINE J == Append(j, r)
<1>2. Len(j) + 1 \in DOMAIN J /\ J[Len(j) + 1].kind = "intent" /\ J[Len(j) + 1].op = r.op
  BY <1>1
<1>3. \A k \in DOMAIN J : (J[k].kind = "receipt" /\ J[k].op = r.op) => k < Len(j) + 1
  BY <1>1
<1>4. QED
  BY <1>2, <1>3 DEF Outstanding

(* Only the receipts of a rollback end one.                                   *)
LEMMA PendingKept ==
  ASSUME GateInv, Next, PendingRollback, ~RollbackCommit, ~ReconcileRollbackCommit
  PROVE  PendingRollback'
<1>0. journal \in Seq(Row) /\ Len(journal) \in Nat /\ CallStaged
  BY DEF GateInv, TypeOK
<1>1. CASE Stage
  BY <1>0, <1>1 DEF Stage, CallStaged, PendingRollback, Outstanding
<1>2. CASE Retried
  <2> DEFINE r1 == Receipt("open.reconcile.close_all", "OPENING", Keep)
             r2 == Receipt("open", gs.st, call.tgt)
  <2>1. r1 \in Row /\ r2 \in Row /\ r1.op # "rollback" /\ r2.op # "rollback"
    BY <1>2, RowTypes DEF Retried, Ops, GateState, Terminal, Receipt
  <2>2. journal' = journal \o <<r1, r2>>
    BY <1>2 DEF Retried
  <2> HIDE DEF r1, r2
  <2>3. journal' = Append(Append(journal, r1), r2)
    BY <1>0, <2>1, <2>2
  <2>4. Append(journal, r1) \in Seq(Row)
    BY <1>0, <2>1
  <2>5. Outstanding(Append(journal, r1), "rollback")
    BY <1>0, <2>1, StillOutstanding DEF PendingRollback
  <2>6. QED
    BY <2>1, <2>3, <2>4, <2>5, StillOutstanding DEF PendingRollback
<1>3. CASE UNCHANGED <<gs, journal>>
  BY <1>3 DEF PendingRollback
<1>4. ASSUME NEW r \in Row, Noted(r) \/ Moved(r)
      PROVE  PendingRollback'
  <2>1. journal' = Append(journal, r) /\ (r.kind = "receipt" => r.op # "rollback")
    BY <1>4 DEF Noted, Moved, Append1
  <2>2. QED
    BY <1>0, <2>1, StillOutstanding DEF PendingRollback
<1>5. QED
  BY <1>1, <1>2, <1>3, <1>4, StepWrites

(* Every step keeps what the call in progress knows of the route.             *)
LEMMA StepCallKnown ==
  ASSUME GateInv, ExposureInv, Next
  PROVE  /\ ClosedKnown' /\ RollbackPending'
         /\ ~SilentFaults => RecoveryKnown' /\ RestoredKnown'
<1> USE DEF At, Idle
<1>0. TypeOK /\ ClosedKnown /\ RollbackPending /\ call \in Call /\ route \in Route
  BY DEF GateInv, ExposureInv, TypeOK
<1>1. ASSUME NEW r \in {route, Unread}, Closure(r) = "FAILED_SAFE"
      PROVE  IsClosed(route)
  BY <1>1 DEF Closure, IsClosed, Unread
<1>2. CASE call'.pc \in Untracked
  BY <1>2 DEF Untracked, ClosedKnown, RollbackPending, RecoveryKnown, RestoredKnown,
              Closing, Undoing, Recovering
<1>3. CASE FailCloseQuery \/ RetryQuery \/ ReconcileFailClose
  <2>1. PICK r \in {route, Unread} :
          /\ call'.pc \in {"fail_close.commit", "retry.commit", "reconcile.fail_close"}
          /\ call'.tgt = Closure(r) /\ route' = route
    BY <1>0, <1>3 DEF FailCloseQuery, RetryQuery, ReconcileFailClose, Call
  <2>2. QED
    BY <1>1, <2>1, ClosureTypes DEF ClosedKnown, RollbackPending, RecoveryKnown,
              RestoredKnown, Closing, Undoing, Recovering, IsClosed
<1>4. CASE RollbackRequery
  <2>1. PICK r \in {route, Unread} :
          /\ call'.pc = "rollback.commit"
          /\ call'.tgt = Closure(r) /\ route' = route /\ journal' = journal
    BY <1>0, <1>4 DEF RollbackRequery, Call
  <2>2. PendingRollback /\ PendingRollback'
    BY <1>0, <1>4, <2>1 DEF RollbackRequery, RollbackPending, Undoing, PendingRollback
  <2>3. QED
    BY <1>1, <2>1, <2>2, ClosureTypes DEF ClosedKnown, RollbackPending, RecoveryKnown,
              RestoredKnown, Closing, Undoing, Recovering, IsClosed
<1>5. CASE ReconcileRollback
  <2>1. PICK r \in {route, Unread} :
          /\ call'.pc = "reconcile.rollback" /\ route' = route
          /\ call'.tgt = IF r = PredRoute THEN "ROLLED_BACK" ELSE Closure(r)
    BY <1>0, <1>5 DEF ReconcileRollback, Call
  <2>2. call'.tgt = "ROLLED_BACK" => route'.gen # "cand"
    BY <2>1, ClosureTypes DEF PredRoute, Unread
  <2>3. call'.tgt = "FAILED_SAFE" => IsClosed(route)
    BY <1>1, <2>1
  <2>4. QED
    BY <2>1, <2>2, <2>3 DEF ClosedKnown, RollbackPending, RecoveryKnown,
              RestoredKnown, Closing, Undoing, Recovering, IsClosed
<1>6. CASE RollbackQuery
  <2>1. /\ route' = route /\ journal' = journal
        /\ \/ call'.pc = "rollback.commit" /\ call'.tgt = "ROLLED_BACK"
           \/ call'.pc = "rollback.close"
    BY <1>0, <1>6 DEF RollbackQuery, Goto, Call
  <2>2. PendingRollback'
    BY <1>0, <1>6, <2>1 DEF RollbackQuery, RollbackPending, Undoing, PendingRollback
  <2>3. ~SilentFaults => route.gen # "cand"
    BY <1>6 DEF RollbackQuery, ExposureInv, RestoredKnown
  <2>4. QED
    BY <2>1, <2>2, <2>3 DEF ClosedKnown, RollbackPending, RecoveryKnown,
              RestoredKnown, Closing, Undoing, Recovering, IsClosed
<1>7. CASE RollbackEffect
  <2>1. PICK raised \in BOOLEAN :
          /\ Effect(Restored, raised)
          /\ Goto(IF raised THEN "rollback.close" ELSE "rollback.query")
    BY <1>7 DEF RollbackEffect
  <2>2. call'.pc = IF raised THEN "rollback.close" ELSE "rollback.query"
    BY <1>0, <2>1 DEF Goto, Call
  <2>3. PendingRollback'
    BY <1>0, <1>7 DEF RollbackEffect, RollbackPending, Undoing, PendingRollback
  <2>4. ~SilentFaults /\ ~raised => route'.gen # "cand"
    BY <2>1 DEF Effect, Restored, PredRoute
  <2>5. QED
    BY <2>2, <2>3, <2>4 DEF ClosedKnown, RollbackPending, RecoveryKnown,
              RestoredKnown, Closing, Undoing, Recovering, IsClosed
<1>8. CASE RollbackClose
  <2>1. call'.pc = "rollback.requery"
    BY <1>0, <1>8 DEF RollbackClose, Goto, Call
  <2>2. PendingRollback'
    BY <1>0, <1>8 DEF RollbackClose, RollbackPending, Undoing, PendingRollback
  <2>3. QED
    BY <2>1, <2>2 DEF ClosedKnown, RollbackPending, RecoveryKnown,
              RestoredKnown, Closing, Undoing, Recovering
<1>9. CASE \E o \in BOOLEAN : RollbackIntent(o)
  <2>1. PICK o \in BOOLEAN : RollbackIntent(o)
    BY <1>9
  <2>2. call'.pc = "rollback.effect"
    BY <1>0, <2>1 DEF RollbackIntent, Call
  <2>3. Intent("rollback", gs.st, Keep) \in Row
    BY <1>0, <2>1, RowState, RowTypes DEF RollbackIntent, Ops
  <2>4. PendingRollback'
    BY <1>0, <2>1, <2>3, NewlyOutstanding
    DEF RollbackIntent, Append1, PendingRollback, Intent, TypeOK
  <2>5. QED
    BY <2>2, <2>4 DEF ClosedKnown, RollbackPending, RecoveryKnown,
              RestoredKnown, Closing, Undoing, Recovering
<1>10. CASE RecoveryEffect
  <2>1. PICK raised \in BOOLEAN :
          Effect(ClosedRoute, raised) /\ call' = [call EXCEPT !.pc = "recovery.query", !.err = raised]
    BY <1>10 DEF RecoveryEffect
  <2>2. call'.pc = "recovery.query" /\ call'.err = raised
    BY <1>0, <2>1 DEF Call
  <2>3. ~SilentFaults /\ ~raised => IsClosed(route')
    BY <2>1 DEF Effect, ClosedRoute, IsClosed
  <2>4. QED
    BY <2>2, <2>3 DEF ClosedKnown, RollbackPending, RecoveryKnown,
              RestoredKnown, Closing, Undoing, Recovering, IsClosed
<1>11. CASE RecoveryQuery \/ RecoveryReceipt
  <2>1. /\ call.pc \in {"recovery.query", "recovery.receipt"} /\ route' = route
        /\ call'.pc \in {"recovery.receipt", "recovery.finish"}
        /\ ~call'.err => ~call.err
    BY <1>0, <1>11 DEF RecoveryQuery, RecoveryReceipt, Goto, Call
  <2>2. ~SilentFaults /\ ~call'.err => IsClosed(route')
    BY <2>1 DEF ExposureInv, RecoveryKnown, Recovering
  <2>3. QED
    BY <2>1, <2>2 DEF ClosedKnown, RollbackPending, RecoveryKnown,
              RestoredKnown, Closing, Undoing, Recovering, IsClosed
<1>12. CASE call' = call
  <2>1. \/ route' = route
        \/ route'.gen # "cand"
        \/ route.gen = "cand"
    <3>1. ~OpenEffect
      BY <1>0, <1>12 DEF OpenEffect, Goto, Call
    <3>2. ClosedRoute.gen # "cand" /\ Restored.gen # "cand"
      BY DEF ClosedRoute, Restored, PredRoute
    <3>3. QED
      BY <1>0, <3>1, <3>2, RouteMoves
  <2>2. IsClosed(route) => IsClosed(route')
    <3>1. CASE OpenEffect \/ RollbackEffect
      BY <1>0, <1>12, <3>1 DEF OpenEffect, RollbackEffect, Goto, Call
    <3>2. QED
      BY <1>0, <3>1, RouteMoves DEF ClosedRoute, IsClosed
  <2>3. CASE call.pc \in Undoing
    <3>1. PendingRollback'
      <4>1. CASE RollbackCommit
        <5>1. call'.pc = "idle"
          BY <4>1 DEF RollbackCommit, CommitReceipt, Return, Raise, Done
        <5>2. QED
          BY <1>12, <5>1, <2>3 DEF Undoing
      <4>2. CASE ReconcileRollbackCommit
        BY <2>3, <4>2 DEF ReconcileRollbackCommit, Undoing
      <4>3. QED
        BY <1>0, <2>3, <4>1, <4>2, PendingKept DEF RollbackPending
    <3>2. QED
      BY <1>0, <1>12, <2>1, <2>2, <3>1
      DEF ExposureInv, ClosedKnown, RollbackPending, RecoveryKnown, RestoredKnown
  <2>4. CASE call.pc \notin Undoing
    BY <1>0, <1>12, <2>1, <2>2, <2>4
    DEF ExposureInv, ClosedKnown, RollbackPending, RecoveryKnown, RestoredKnown
  <2>5. QED
    BY <2>3, <2>4
<1>13. QED
  BY <1>0, <1>2, <1>3, <1>4, <1>5, <1>6, <1>7, <1>8, <1>9, <1>10, <1>11, <1>12, CallMoves

(* An open intent stays in the journal.                                       *)
LEMMA StepOpenIntended ==
  ASSUME GateInv, ExposureInv, Next
  PROVE  OpenIntended'
<1>0. TypeOK /\ OpenIntended /\ CallInState /\ journal \in Seq(Row)
  BY DEF GateInv, ExposureInv, TypeOK
<1>1. Has(journal, "intent", "open") => Has(journal', "intent", "open")
  <2>1. Extends
    BY StepExtends
  <2>2. QED
    BY <2>1 DEF Extends, Has
<1>2. ASSUME gs'.st = "OPENING" PROVE Has(journal', "intent", "open")
  <2>1. CASE Stage
    BY <1>2, <2>1 DEF Stage
  <2>2. CASE Retried
    BY <1>2, <2>2 DEF Retried, Terminal
  <2>3. CASE gs' = gs
    BY <1>0, <1>1, <1>2, <2>3 DEF OpenIntended
  <2>4. ASSUME NEW r \in Row, Moved(r)
        PROVE  Has(journal', "intent", "open")
    <3>1. r.kind = "intent" /\ r.op = "open" /\ journal' = Append(journal, r)
      BY <1>2, <2>4 DEF Moved
    <3>2. Len(journal) + 1 \in DOMAIN journal' /\ journal'[Len(journal) + 1] = r
      BY <1>0, <3>1
    <3>3. QED
      BY <3>1, <3>2 DEF Has
  <2>5. QED
    BY <2>1, <2>2, <2>3, <2>4, StepWrites DEF Noted, Append1
<1>3. ASSUME route'.gen = "cand" PROVE Has(journal', "intent", "open")
  <2>1. CASE OpenEffect
    BY <1>0, <1>1, <2>1 DEF OpenEffect, At, CallInState, Opening, OpenIntended
  <2>2. CASE ~OpenEffect
    <3>1. route.gen = "cand"
      BY <1>0, <1>3, <2>2, RouteMoves DEF ClosedRoute, Restored, PredRoute
    <3>2. QED
      BY <1>0, <1>1, <3>1 DEF OpenIntended
  <2>3. QED
    BY <2>1, <2>2
<1>4. QED
  BY <1>2, <1>3 DEF OpenIntended

(* Where the adapter reports its failures, FAILED_SAFE stays true of the      *)
(* route and the candidate is routed only where the row admits it.            *)
LEMMA StepHonest ==
  ASSUME GateInv, ExposureInv, Next, ~SilentFaults
  PROVE  FailedSafeHeld' /\ (route'.gen = "cand" =>
            gs'.st \in {"OPENING", "SAFETY_UNKNOWN"} \cup Exposed)
<1>0. /\ TypeOK /\ ClosedKnown /\ RollbackPending /\ CallInState /\ RecoveryKnown
      /\ RestoredKnown /\ CandidateExposureKnown /\ FailedSafeHeld /\ gs \in GateRow
  BY DEF GateInv, ExposureInv, TypeOK, GateRow
<1>1. ASSUME gs'.st = "FAILED_SAFE", gs.st # "FAILED_SAFE"
      PROVE  IsClosed(route')
  <2>1. /\ route' = route
        /\ \/ call.pc \in Closing /\ call.tgt = "FAILED_SAFE"
           \/ call.pc = "recovery.finish" /\ ~call.err
    BY <1>1, EndsBy DEF Terminal
  <2>2. QED
    BY <1>0, <2>1 DEF ClosedKnown, RecoveryKnown, Recovering
<1>2. ASSUME gs'.st = "ROLLED_BACK", gs.st # "ROLLED_BACK"
      PROVE  route' = route /\ route.gen # "cand"
  <2>1. route' = route /\ call.pc \in Closing /\ call.tgt = "ROLLED_BACK"
    BY <1>2, EndsBy DEF Terminal
  <2>2. QED
    BY <1>0, <2>1 DEF ClosedKnown, RestoredKnown
<1>3. ASSUME gs'.st = "FAILED_SAFE", ~PendingRollback', gs.st = "FAILED_SAFE"
      PROVE  IsClosed(route')
  <2>1. CASE PendingRollback
    <3>1. RollbackCommit \/ ReconcileRollbackCommit
      BY <1>3, <2>1, PendingKept
    <3>2. PICK g \in GateRow : CommitReceipt("rollback", call.tgt, g)
      <4>1. WithRoute(call.seen) \in GateRow
        BY <1>0, WithRouteTypes DEF TypeOK, Call
      <4>2. QED
        BY <1>0, <3>1, <4>1 DEF RollbackCommit, ReconcileRollbackCommit
    <3>3. CASE Transition("receipt", "rollback", call.tgt, g)
      <4>1. call.tgt = "FAILED_SAFE"
        BY <1>3, <3>3 DEF Transition, GateRow
      <4>2. call.pc \in Closing /\ route' = route
        BY <3>1 DEF RollbackCommit, ReconcileRollbackCommit, At, Closing
      <4>3. QED
        BY <1>0, <4>1, <4>2 DEF ClosedKnown
    <3>4. CASE UNCHANGED <<gs, journal>>
      BY <1>3, <2>1, <3>4 DEF PendingRollback
    <3>5. QED
      BY <3>2, <3>3, <3>4 DEF CommitReceipt
  <2>2. CASE ~PendingRollback
    <3>1. IsClosed(route)
      BY <1>0, <1>3, <2>2 DEF FailedSafeHeld
    <3>2. ~OpenEffect
      BY <1>0, <1>3 DEF OpenEffect, At, CallInState, Opening
    <3>3. ~RollbackEffect
      BY <1>0, <2>2 DEF RollbackEffect, At, RollbackPending, Undoing
    <3>4. QED
      BY <1>0, <3>1, <3>2, <3>3, RouteMoves DEF IsClosed, ClosedRoute
  <2>3. QED
    BY <2>1, <2>2
<1>4. FailedSafeHeld'
  BY <1>1, <1>3 DEF FailedSafeHeld
<1>5. ASSUME route'.gen = "cand"
      PROVE  gs'.st \in {"OPENING", "SAFETY_UNKNOWN"} \cup Exposed
  <2>1. CASE OpenEffect
    BY <1>0, <2>1 DEF OpenEffect, At, CallInState, Opening
  <2>2. CASE ~OpenEffect
    <3>1. route.gen = "cand"
      BY <1>0, <1>5, <2>2, RouteMoves DEF ClosedRoute, Restored, PredRoute
    <3>2. gs.st \in {"OPENING", "SAFETY_UNKNOWN"} \cup Exposed
      BY <1>0, <3>1 DEF CandidateExposureKnown
    <3>3. gs' = gs \/ Allowed(gs.st, gs'.st)
      BY <1>0, <3>2, GateMoves DEF Stage, NoRow, Exposed
    <3>4. gs'.st # "FAILED_SAFE" /\ gs'.st # "ROLLED_BACK"
      BY <1>1, <1>2, <1>5, <3>2 DEF IsClosed, Exposed
    <3>5. QED
      BY <3>2, <3>3, <3>4 DEF Allowed, Targets, Terminal, Exposed
  <2>3. QED
    BY <2>1, <2>2
<1>6. QED
  BY <1>4, <1>5

(* Every step keeps the invariant.                                            *)
LEMMA StepExposureInv == GateInv /\ ExposureInv /\ [Next]_vars => ExposureInv'
<1> SUFFICES ASSUME GateInv, ExposureInv, [Next]_vars PROVE ExposureInv'
  OBVIOUS
<1>1. CASE Next
  <2>1. OpenIntended'
    BY <1>1, StepOpenIntended
  <2>2. ClosedKnown' /\ RollbackPending' /\ (~SilentFaults => RecoveryKnown' /\ RestoredKnown')
    BY <1>1, StepCallKnown
  <2>3. ~SilentFaults => FailedSafeHeld' /\ CandidateExposureKnown'
    BY <1>1, <2>1, StepHonest DEF CandidateExposureKnown, OpenIntended
  <2>4. QED
    BY <2>1, <2>2, <2>3 DEF ExposureInv
<1>2. CASE UNCHANGED vars
  <2>1. UNCHANGED <<gs, journal, adm, route, leaseLive, call, budget>>
    BY <1>2 DEF vars
  <2>2. QED
    BY <2>1 DEF ExposureInv, OpenIntended, ClosedKnown, RollbackPending, RecoveryKnown,
             RestoredKnown, CandidateExposureKnown, FailedSafeHeld, PendingRollback
<1>3. QED
  BY <1>1, <1>2

(* Before the row is there, nothing is routed to the candidate.               *)
LEMMA InitExposureInv == Init => ExposureInv
  BY DEF Init, Done, PredRoute, ExposureInv, OpenIntended, ClosedKnown, RollbackPending,
         RecoveryKnown, RestoredKnown, CandidateExposureKnown, FailedSafeHeld, NoRow,
         Closing, Undoing, Recovering

(* ExposureInv holds of every behaviour of the gate.                          *)
LEMMA ExposureInvariance == Spec => []ExposureInv
  BY InitExposureInv, StepExposureInv, Invariance, PTL DEF Spec

(* The candidate is never routed without a durable open intent, whatever the  *)
(* adapter does; where the adapter reports its failures it is routed only     *)
(* while the row is OPENING, CANDIDATE_OPEN, DRAINING or SAFETY_UNKNOWN.      *)
THEOREM CandidateExposure == Spec => []CandidateExposureKnown
<1>1. ExposureInv => CandidateExposureKnown
  BY DEF ExposureInv, OpenIntended, CandidateExposureKnown
<1>2. QED
  BY <1>1, ExposureInvariance, PTL

(* Where the adapter reports its failures, FAILED_SAFE means that all traffic *)
(* is closed, through every crash, drift and later call of the gate, except   *)
(* behind a rollback that was called on it and has no receipt.                *)
THEOREM FailedSafeStays == Spec => [](~SilentFaults => FailedSafeHeld)
<1>1. ExposureInv => (~SilentFaults => FailedSafeHeld)
  BY DEF ExposureInv
<1>2. QED
  BY <1>1, ExposureInvariance, PTL

=============================================================================
