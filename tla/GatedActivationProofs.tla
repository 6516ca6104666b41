----------------------- MODULE GatedActivationProofs -----------------------
(***************************************************************************)
(* The durable coordinator over the exposure gate, for every set of         *)
(* requests, journal bound and number of faults: the outcomes the two       *)
(* databases record agree, requests reach the candidate only behind the     *)
(* commit WAL row, an exposed gate has an owner, and the composition         *)
(* implements the activation contract.                                      *)
(*                                                                         *)
(* The gate's own invariants (GateInv and ExposureInv of ExposureGateProofs) *)
(* hold in the composition because each step of it is a step of the gate,    *)
(* leaves the gate alone, or ends its call.  On top of them GatedInv relates *)
(* the place the coordinator has reached to the gate's call, row and route.  *)
(***************************************************************************)
EXTENDS GatedActivation, ExposureGateProofs

-----------------------------------------------------------------------------
(* What the gate does in one step, told by the place of its call.             *)

FailClosing == {"fail_close.intent", "fail_close.effect", "fail_close.query",
                "fail_close.commit"}
Closes == {"close.query", "close.commit"}
Opens == {"open.effect", "open.query", "open.commit"}
Recoveries == {"retry.effect", "retry.query", "retry.commit", "recovery.effect",
               "recovery.query", "recovery.receipt", "recovery.finish"}
Reconciles == {"reconcile.fail_close", "reconcile.rollback", "reconcile.open"}
                \cup Recoveries

(* The calls of the gate keep to their own code, apart from fail_close(),     *)
(* which others end in.                                                       *)
LEMMA ContinueMoves ==
  ASSUME TypeOK, Continue
  PROVE  /\ call.pc # "idle"
         /\ \/ call'.pc \in {"idle"} \cup FailClosing
            \/ call.pc \in Closes /\ call'.pc \in Closes
            \/ call.pc \in Opens /\ call'.pc \in Opens
            \/ call.pc \in Undoing /\ call'.pc \in Undoing
            \/ call.pc \in Recoveries /\ call'.pc \in Recoveries
            \/ call.pc = "reconcile.open" /\ call'.pc = "recovery.effect"
         /\ call.pc = "drain.check" => call'.pc = "idle"
         /\ call'.pc = "fail_close.intent" =>
              call.pc \in {"close.commit", "open.commit", "recovery.finish"} /\ gs' = gs
<1> USE DEF At
<1>1. \A p : Goto(p) => call'.pc = p
  BY DEF Goto, TypeOK, Call
<1>2. Return \/ Raise => call'.pc = "idle"
  BY DEF Return, Raise, Done
<1>3. CASE CloseQuery
  <2>1. call.pc = "close.query" /\ call'.pc = "close.commit"
    BY <1>3 DEF CloseQuery, TypeOK, Call
  <2>2. QED
    BY <2>1 DEF Closes
<1>4. CASE OpenEffect \/ OpenQuery
  <2>1. call.pc \in {"open.effect", "open.query"} /\ call'.pc \in {"open.query", "open.commit"}
    BY <1>1, <1>4 DEF OpenEffect, OpenQuery, TypeOK, Call
  <2>2. QED
    BY <2>1 DEF Opens
<1>5. CASE OpenRefused \/ DrainCheck \/ FailCloseCommit \/ RollbackCommit
           \/ ReconcileFailCloseCommit \/ ReconcileRollbackCommit \/ RetryCommit
  <2>1. call.pc # "idle" /\ call'.pc = "idle"
    BY <1>2, <1>5 DEF OpenRefused, DrainCheck, FailCloseCommit, RollbackCommit, RetryCommit,
       ReconcileFailCloseCommit, ReconcileRollbackCommit, CommitReceipt
  <2>2. QED
    BY <2>1
<1>6. CASE CloseCommit \/ OpenCommit \/ RecoveryFinish
  <2>1. call.pc \in {"close.commit", "open.commit", "recovery.finish"}
    BY <1>6 DEF CloseCommit, OpenCommit, RecoveryFinish
  <2>2. call'.pc = "idle" \/ (call'.pc = "fail_close.intent" /\ gs' = gs)
    BY <1>1, <1>2, <1>6 DEF CloseCommit, OpenCommit, RecoveryFinish, CommitReceipt, Append1
  <2>3. QED
    BY <2>1, <2>2 DEF FailClosing
<1>7. CASE FailCloseIntent \/ FailCloseEffect \/ FailCloseQuery
  <2>1. call.pc \in FailClosing
        /\ call'.pc \in {"fail_close.effect", "fail_close.query", "fail_close.commit"}
    BY <1>1, <1>7 DEF FailCloseIntent, FailCloseEffect, FailCloseQuery, FailClosing, TypeOK, Call
  <2>2. QED
    BY <2>1 DEF FailClosing
<1>8. CASE RollbackEffect \/ RollbackQuery \/ RollbackClose \/ RollbackRequery
  <2>1. call.pc \in {"rollback.effect", "rollback.query", "rollback.close", "rollback.requery"}
    BY <1>8 DEF RollbackEffect, RollbackQuery, RollbackClose, RollbackRequery
  <2>2. call'.pc \in {"rollback.query", "rollback.close", "rollback.requery", "rollback.commit"}
    <3>1. CASE RollbackEffect
      BY <1>1, <3>1 DEF RollbackEffect
    <3>2. CASE RollbackQuery
      BY <1>1, <3>2 DEF RollbackQuery, TypeOK, Call
    <3>3. CASE RollbackClose
      BY <1>1, <3>3 DEF RollbackClose
    <3>4. CASE RollbackRequery
      BY <3>4 DEF RollbackRequery, TypeOK, Call
    <3>5. QED
      BY <1>8, <3>1, <3>2, <3>3, <3>4
  <2>3. QED
    BY <2>1, <2>2 DEF Undoing
<1>9. CASE ReconcileOpen
  BY <1>1, <1>2, <1>9 DEF ReconcileOpen, CommitReceipt
<1>10. CASE RetryEffect \/ RetryQuery \/ RecoveryEffect \/ RecoveryQuery \/ RecoveryReceipt
  <2>1. call.pc \in Recoveries
        /\ call'.pc \in {"retry.query", "retry.commit", "recovery.query", "recovery.receipt",
                         "recovery.finish"}
    BY <1>1, <1>10 DEF RetryEffect, RetryQuery, RecoveryEffect, RecoveryQuery, RecoveryReceipt,
                       Recoveries, TypeOK, Call
  <2>2. QED
    BY <2>1 DEF Recoveries
<1>11. QED
  BY <1>3, <1>4, <1>5, <1>6, <1>7, <1>8, <1>9, <1>10 DEF Continue

(* The states a step may enter.                                               *)
LEMMA EntersBy ==
  ASSUME GateInv, Next
  PROVE  /\ gs.st = NoRow /\ gs'.st # NoRow => Stage
         /\ gs'.st = "OPENING" /\ gs.st # "OPENING" => call'.pc = "open.effect"
         /\ gs'.st = "DRAINING" /\ gs.st # "DRAINING" =>
              gs.st \in Exposed /\ Has(journal', "intent", "drain")
         /\ gs'.st = "CANDIDATE_OPEN" /\ gs.st \notin Exposed =>
              /\ call.pc \in {"open.commit", "reconcile.open"} /\ call.seen = CandRoute
              /\ call'.pc = "idle" /\ route' = route
<1> USE DEF At, Idle
<1>0. TypeOK /\ CallInState /\ CallStaged /\ gs \in GateRow /\ journal \in Seq(Row)
  BY DEF GateInv, TypeOK, GateRow
<1>1. ASSUME NEW k, NEW o, NEW t, NEW g \in GateRow, Transition(k, o, t, g)
      PROVE  gs'.st = t
  BY <1>1 DEF Transition, GateRow
<1>2. ASSUME NEW o, NEW t, NEW g \in GateRow, CommitReceipt(o, t, g)
      PROVE  gs' = gs \/ gs'.st = t
  BY <1>1, <1>2 DEF CommitReceipt
<1>3. gs \in GateRow /\ AsOpened \in GateRow /\ WithRoute(call.seen) \in GateRow
      /\ WithRoute(ClosedRoute) \in GateRow
  BY <1>0, WithRouteTypes, RouteTypes
  DEF AsOpened, TypeOK, Call, GateRow, Gens, Fences, Snaps
<1>4. \A s \in Terminal : s \notin {"OPENING", "DRAINING", "CANDIDATE_OPEN"}
  BY DEF Terminal
<1>5. CASE Stage
  BY <1>5 DEF Stage
<1>6. CASE FailCloseCommit \/ RollbackCommit \/ ReconcileFailCloseCommit
           \/ ReconcileRollbackCommit
  <2>1. call.tgt \in Terminal /\ gs.st # NoRow
    BY <1>0, <1>6 DEF FailCloseCommit, RollbackCommit, ReconcileFailCloseCommit,
      ReconcileRollbackCommit, CallInState, Closing, CallStaged
  <2>2. gs' = gs \/ gs'.st = call.tgt
    BY <1>2, <1>3, <1>6 DEF FailCloseCommit, RollbackCommit, ReconcileFailCloseCommit,
      ReconcileRollbackCommit
  <2>3. QED
    BY <1>4, <2>1, <2>2 DEF Exposed
<1>7. CASE RetryCommit
  <2>1. call.tgt \in Terminal /\ gs.st # NoRow
    BY <1>0, <1>7 DEF RetryCommit, CallInState, Closing, CallStaged
  <2>2. [gs EXCEPT !.st = call.tgt, !.seq = Len(journal) + 2].st = call.tgt
    BY <1>0 DEF GateRow
  <2>3. QED
    BY <1>4, <1>7, <2>1, <2>2 DEF RetryCommit, Exposed
<1>8. CASE RecoveryFinish \/ CloseCommit
  <2>1. gs' = gs \/ gs'.st \in {"FAILED_SAFE", "CANDIDATE_CLOSED"}
    BY <1>2, <1>3, <1>8 DEF RecoveryFinish, CloseCommit, Append1
  <2>2. gs.st # NoRow
    BY <1>0, <1>8 DEF RecoveryFinish, CloseCommit, CallStaged
  <2>3. QED
    BY <2>1, <2>2 DEF Exposed
<1>9. CASE OpenCommit \/ ReconcileOpen
  <2>1. call.pc \in {"open.commit", "reconcile.open"} /\ gs.st = "OPENING" /\ route' = route
    BY <1>0, <1>9 DEF OpenCommit, ReconcileOpen, CallInState, Opening
  <2>2. gs' = gs \/ (gs'.st = "CANDIDATE_OPEN" /\ call.seen = CandRoute /\ call'.pc = "idle")
    BY <1>2, <1>3, <1>9 DEF OpenCommit, ReconcileOpen, Append1, CommitReceipt, Return, Raise, Done
  <2>3. QED
    BY <2>1, <2>2 DEF NoRow, Exposed
<1>10. CASE DrainCheck
  <2>1. gs.st = "DRAINING"
    BY <1>0, <1>10 DEF DrainCheck, CallInState
  <2>2. gs' = gs \/ gs'.st = "CANDIDATE_OPEN"
    BY <1>2, <1>3, <1>10 DEF DrainCheck
  <2>3. QED
    BY <2>1, <2>2 DEF NoRow, Exposed
<1>11. CASE DrainIntent
  <2>1. CASE gs.st # "DRAINING" /\ Transition("intent", "drain", "DRAINING", gs)
    <3>1. gs'.st = "DRAINING" /\ gs.st # NoRow
      BY <1>1, <1>3, <1>11, <2>1 DEF DrainIntent
    <3>2. gs.st \in Exposed
      BY <1>0, <2>1, <3>1, RowState
      DEF Transition, Allowed, Targets, Terminal, Exposed, GateState
    <3>3. PICK r \in Row : r.kind = "intent" /\ r.op = "drain" /\ journal' = Append(journal, r)
      <4>1. gs.st \in GateState
        BY <1>0, <3>1, RowState
      <4>2. QED
        BY <2>1, <4>1 DEF Transition, Row, Ops, GateState
    <3>4. Has(journal', "intent", "drain")
      <4>1. Len(journal) + 1 \in DOMAIN journal' /\ journal'[Len(journal) + 1] = r
        BY <1>0, <3>3
      <4>2. QED
        BY <3>3, <4>1 DEF Has
    <3>5. QED
      BY <3>1, <3>2, <3>4
  <2>2. CASE UNCHANGED <<gs, journal>>
    BY <2>2 DEF Exposed
  <2>3. QED
    BY <1>11, <2>1, <2>2 DEF DrainIntent
<1>12. ASSUME NEW p \in Proof, OpenIntent(p)
       PROVE  gs'.st = "OPENING" /\ gs.st # NoRow /\ call'.pc = "open.effect"
  BY <1>0, <1>1, <1>3, <1>12 DEF OpenIntent, Goto, TypeOK, Call
<1>13. CASE \E p \in Proof : OpenIntent(p)
  BY <1>12, <1>13
<1>14. CASE gs' = gs
  BY <1>14 DEF Exposed
<1>15. CASE \/ \E o \in BOOLEAN : RollbackIntent(o)
           \/ \E r \in Requests : Admit(r) \/ Finish(r)
  BY <1>14, <1>15 DEF RollbackIntent, Append1, Admit, Finish
<1>16. CASE CloseIntent \/ CloseQuery \/ OpenEffect \/ OpenRefused \/
               OpenQuery \/ AdmitMismatch \/ FailCloseCall \/
               FailCloseIntent \/ FailCloseEffect \/ FailCloseQuery \/
               RollbackEffect \/ RollbackQuery \/ RollbackClose \/
               RollbackRequery \/ ReconcileFailClose \/ RetryStart \/
               RetryEffect \/ RetryQuery \/ ReconcileRollback \/
               ReconcileCancel \/ ReconcileQuery \/ RecoveryEffect \/
               RecoveryQuery \/ RecoveryReceipt \/ CutOff \/ LeaseLost \/
               Drift
  <2>1. gs' = gs
    BY <1>16
    DEF CloseIntent, CloseQuery, OpenEffect, OpenRefused, OpenQuery,
      AdmitMismatch, FailCloseCall, FailCloseIntent, FailCloseEffect,
      FailCloseQuery, RollbackEffect, RollbackQuery, RollbackClose,
      RollbackRequery, ReconcileFailClose, RetryStart, RetryEffect,
      RetryQuery, ReconcileRollback, ReconcileCancel, ReconcileQuery,
      RecoveryEffect, RecoveryQuery, RecoveryReceipt, CutOff, LeaseLost, Drift, Append1
  <2>2. QED
    BY <1>14, <2>1
<1>17. QED
  BY <1>5, <1>6, <1>7, <1>8, <1>9, <1>10, <1>11, <1>13, <1>15, <1>16
  DEF Next, Operate, Traffic, Reconcile, Continue, Environment

(* A gate leaves its exposed states only for a terminal one.                  *)
LEMMA LeavesBy ==
  ASSUME GateInv, Next, gs.st \in Exposed, gs'.st \notin Exposed
  PROVE  gs'.st \in Terminal /\ call.pc \in Closing \cup {"recovery.finish"}
<1>1. TypeOK
  BY DEF GateInv
<1>2. gs' = gs \/ Allowed(gs.st, gs'.st)
  BY <1>1, GateMoves DEF Stage, NoRow, Exposed
<1>3. gs'.st \in Terminal /\ gs'.st # gs.st
  BY <1>2 DEF Allowed, Targets, Terminal, Exposed
<1>4. QED
  BY <1>3, EndsBy

(* An appended row adds to what the journal has only what it is itself.       *)
LEMMA RowHas ==
  ASSUME NEW j \in Seq(Row), NEW r, NEW k, NEW o, Has(Append(j, r), k, o)
  PROVE  Has(j, k, o) \/ (r.kind = k /\ r.op = o)
<1>1. /\ Len(j) \in Nat /\ DOMAIN j = 1..Len(j)
      /\ DOMAIN Append(j, r) = 1..(Len(j) + 1)
      /\ \A i \in 1..Len(j) : Append(j, r)[i] = j[i]
      /\ Append(j, r)[Len(j) + 1] = r
  OBVIOUS
<1>2. QED
  BY <1>1 DEF Has

(* Only reconcile() of an OPENING gate asks for the recovery close.           *)
LEMMA RecoveryAsked ==
  ASSUME GateInv, Next, PendingRecovery', ~PendingRecovery
  PROVE  gs' = gs /\ gs.st = "OPENING" /\ call'.pc = "recovery.effect"
<1> DEFINE X == "open.reconcile.close_all"
<1> USE DEF At, Idle
<1>0. TypeOK /\ CallInState /\ CallStaged /\ journal \in Seq(Row)
  BY DEF GateInv, TypeOK
<1>1. ~Has(journal, "intent", X) /\ Has(journal', "intent", X)
  <2>1. Extends
    BY StepExtends
  <2>2. Has(journal, "receipt", X) => Has(journal', "receipt", X)
    BY <2>1 DEF Extends, Has
  <2>3. QED
    BY <2>2 DEF PendingRecovery, NeverReceipted
<1>2. ASSUME NEW r, journal' = Append(journal, r) PROVE r.kind = "intent" /\ r.op = X
  BY <1>0, <1>1, <1>2, RowHas
<1>3. ASSUME NEW o, NEW f, NEW t, journal' = Append(journal, Intent(o, f, t)) PROVE o = X
  BY <1>2, <1>3 DEF Intent
<1>4. ASSUME NEW o, NEW f, NEW t PROVE journal' # Append(journal, Receipt(o, f, t))
  BY <1>2, <1>4 DEF Receipt
<1>5. ASSUME NEW k, NEW o, NEW t, NEW g, Transition(k, o, t, g) PROVE k = "intent" /\ o = X
  BY <1>2, <1>5 DEF Transition
<1>6. ASSUME NEW o, NEW t, NEW g, CommitReceipt(o, t, g) PROVE FALSE
  BY <1>1, <1>5, <1>6 DEF CommitReceipt
<1>7. ~Retried
  <2>1. SUFFICES ASSUME Retried PROVE FALSE
    OBVIOUS
  <2> DEFINE r1 == Receipt("open.reconcile.close_all", "OPENING", Keep)
             r2 == Receipt("open", gs.st, call.tgt)
  <2>2. r1 \in Row /\ r2 \in Row /\ r1.kind = "receipt" /\ r2.kind = "receipt"
    BY <2>1, RowTypes DEF Retried, Ops, GateState, Terminal, Receipt
  <2>3. journal' = journal \o <<r1, r2>>
    BY <2>1 DEF Retried
  <2> HIDE DEF r1, r2
  <2>4. /\ Len(journal) \in Nat /\ DOMAIN journal = 1..Len(journal)
        /\ DOMAIN journal' = 1..(Len(journal) + 2)
        /\ \A i \in 1..Len(journal) : journal'[i] = journal[i]
        /\ journal'[Len(journal) + 1] = r1 /\ journal'[Len(journal) + 2] = r2
    BY <1>0, <2>2, <2>3
  <2>5. QED
    BY <1>1, <2>2, <2>4 DEF Has
<1>8. CASE ReconcileOpen
  BY <1>0, <1>1, <1>6, <1>8 DEF ReconcileOpen, Append1, Goto, TypeOK, Call, CallInState, Opening
<1>9. CASE Stage
  BY <1>0, <1>4, <1>9 DEF Stage, CallStaged
<1>10. CASE CloseCommit \/ OpenCommit \/ RecoveryFinish \/ ReconcileCancel \/ RecoveryReceipt
  BY <1>4, <1>6, <1>10
  DEF CloseCommit, OpenCommit, RecoveryFinish, ReconcileCancel, RecoveryReceipt, Append1
<1>11. CASE DrainCheck \/ FailCloseCommit \/ RollbackCommit \/ ReconcileFailCloseCommit
            \/ ReconcileRollbackCommit
  BY <1>1, <1>6, <1>11
  DEF DrainCheck, FailCloseCommit, RollbackCommit, ReconcileFailCloseCommit,
      ReconcileRollbackCommit
<1>12. CASE CloseIntent \/ FailCloseIntent \/ \E o \in BOOLEAN : RollbackIntent(o)
  BY <1>1, <1>3, <1>12 DEF CloseIntent, FailCloseIntent, RollbackIntent, Append1
<1>13. CASE DrainIntent \/ \E p \in Proof : OpenIntent(p)
  BY <1>1, <1>5, <1>13 DEF DrainIntent, OpenIntent
<1>14. CASE RetryCommit
  <2>1. gs.st \in GateState /\ call.tgt \in Terminal
    BY <1>0, <1>14, RowState DEF RetryCommit, CallStaged, CallInState, Closing
  <2>2. [gs EXCEPT !.st = call.tgt, !.seq = Len(journal) + 2].st = call.tgt
    BY <1>0 DEF TypeOK
  <2>3. QED
    BY <1>1, <1>7, <1>14, <2>1, <2>2 DEF RetryCommit, Retried
<1>15. CASE \/ \E r \in Requests : Admit(r) \/ Finish(r)
            \/ CloseQuery \/ OpenEffect \/ OpenRefused \/
               OpenQuery \/ AdmitMismatch \/ FailCloseCall \/
               FailCloseEffect \/ FailCloseQuery \/
               RollbackEffect \/ RollbackQuery \/ RollbackClose \/
               RollbackRequery \/ ReconcileFailClose \/ RetryStart \/
               RetryEffect \/ RetryQuery \/ ReconcileRollback \/
               ReconcileQuery \/ RecoveryEffect \/
               RecoveryQuery \/ CutOff \/ LeaseLost \/ Drift
  BY <1>1, <1>15
    DEF Admit, Finish, CloseQuery, OpenEffect, OpenRefused, OpenQuery,
      AdmitMismatch, FailCloseCall, FailCloseEffect,
      FailCloseQuery, RollbackEffect, RollbackQuery, RollbackClose,
      RollbackRequery, ReconcileFailClose, RetryStart, RetryEffect,
      RetryQuery, ReconcileRollback, ReconcileQuery,
      RecoveryEffect, RecoveryQuery, CutOff, LeaseLost, Drift
<1>16. QED
  BY <1>8, <1>9, <1>10, <1>11, <1>12, <1>13, <1>14, <1>15
  DEF Next, Operate, Traffic, Reconcile, Continue, Environment

(* A rollback that returned, and every fail_close(), has ended the gate.      *)
LEMMA ClosesEnd ==
  ASSUME GateInv, ExposureInv, Continue, call.pc \in Undoing \cup FailClosing,
         call'.pc = "idle", call'.ret = "ok" \/ call.pc \in FailClosing
  PROVE  gs'.st \in Terminal
<1> USE DEF At
<1>0. TypeOK /\ CallInState /\ CallStaged /\ ClosedKnown /\ gs \in GateRow
  BY DEF GateInv, TypeOK, GateRow, ExposureInv
<1>1. FailCloseCommit \/ RollbackCommit
  <2>1. \A p : Goto(p) => call'.pc = p
    BY <1>0 DEF Goto, TypeOK, Call
  <2>2. ~FailCloseIntent /\ ~FailCloseEffect /\ ~FailCloseQuery /\ ~RollbackEffect
        /\ ~RollbackClose /\ ~RollbackRequery
    BY <1>0, <2>1 DEF FailCloseIntent, FailCloseEffect, FailCloseQuery, RollbackEffect,
       RollbackClose, RollbackRequery, TypeOK, Call
  <2>3. ~RollbackQuery
    BY <1>0, <2>1 DEF RollbackQuery, TypeOK, Call
  <2>4. ~CloseQuery /\ ~CloseCommit /\ ~OpenEffect /\ ~OpenRefused /\ ~OpenQuery /\ ~OpenCommit
        /\ ~DrainCheck /\ ~ReconcileFailCloseCommit /\ ~ReconcileRollbackCommit
        /\ ~ReconcileOpen /\ ~RetryEffect /\ ~RetryQuery /\ ~RetryCommit /\ ~RecoveryEffect
        /\ ~RecoveryQuery /\ ~RecoveryReceipt /\ ~RecoveryFinish
    BY DEF CloseQuery, CloseCommit, OpenEffect, OpenRefused, OpenQuery, OpenCommit, DrainCheck,
       ReconcileFailCloseCommit, ReconcileRollbackCommit, ReconcileOpen, RetryEffect,
       RetryQuery, RetryCommit, RecoveryEffect, RecoveryQuery, RecoveryReceipt, RecoveryFinish,
       Undoing, FailClosing
  <2>5. QED
    BY <2>2, <2>3, <2>4 DEF Continue
<1>2. PICK o : CommitReceipt(o, call.tgt, WithRoute(call.seen))
  BY <1>1 DEF FailCloseCommit, RollbackCommit
<1>3. WithRoute(call.seen) \in GateRow /\ call.tgt \in Terminal /\ gs.st \in GateState
  <2>1. gs.st # NoRow
    BY <1>0, <1>1 DEF CallStaged, FailCloseCommit, RollbackCommit
  <2>2. QED
  BY <1>0, <1>1, <2>1, RowState, WithRouteTypes
    DEF TypeOK, Call, CallInState, Closing, FailCloseCommit, RollbackCommit
<1>4. CASE Transition("receipt", o, call.tgt, WithRoute(call.seen))
  BY <1>3, <1>4 DEF Transition, GateRow
<1>5. CASE ~Allowed(gs.st, call.tgt) /\ UNCHANGED <<gs, journal>> /\ Raise
  <2>1. call'.ret = "raised"
    BY <1>5 DEF Raise, Done
  <2>2. call.tgt \in {"FAILED_SAFE", "SAFETY_UNKNOWN"}
    BY <1>0, <1>1, <1>3, <2>1
    DEF ClosedKnown, Closing, FailCloseCommit, RollbackCommit, FailClosing, Terminal
  <2>3. gs.st \in Terminal
    BY <1>3, <1>5, <2>2 DEF Allowed, Targets, GateState, Terminal
  <2>4. QED
    BY <1>5, <2>3
<1>6. QED
  BY <1>2, <1>4, <1>5 DEF CommitReceipt

(* What a step that ends in the two places of an open has seen.               *)
LEMMA SeenBy ==
  ASSUME TypeOK, Next, call'.pc \in {"open.commit", "reconcile.open"}
  PROVE  call' = call \/ (call'.seen = route /\ route' = route)
<1> USE DEF At, Idle
<1>1. \A p : Goto(p) => call'.pc = p
  BY DEF Goto, TypeOK, Call
<1>2. Return \/ Raise => call'.pc = "idle"
  BY DEF Return, Raise, Done
<1>3. CASE CloseIntent \/ CloseCommit \/ OpenRefused \/ OpenCommit \/
               AdmitMismatch \/ DrainCheck \/ FailCloseCall \/ DrainIntent \/
               FailCloseIntent \/ FailCloseEffect \/ FailCloseCommit \/
               RollbackCommit \/ ReconcileFailCloseCommit \/ ReconcileRollbackCommit \/
               RetryStart \/ RetryEffect \/ RetryCommit \/ ReconcileCancel
               \/ ReconcileOpen \/ RecoveryFinish \/ CutOff \/ OpenEffect
               \/ RecoveryReceipt \/ RollbackEffect \/ RollbackClose
    BY <1>1, <1>2, <1>3
    DEF CommitReceipt, RecoveryReceipt, RollbackEffect, RollbackClose,
        CloseIntent, CloseCommit, OpenRefused, OpenCommit, AdmitMismatch, DrainIntent,
        DrainCheck, FailCloseCall, FailCloseIntent, FailCloseEffect,
        FailCloseCommit, RollbackCommit,
        ReconcileFailCloseCommit, ReconcileRollbackCommit, RetryStart,
        RetryEffect, RetryCommit, ReconcileCancel, ReconcileOpen,
        RecoveryFinish, CutOff, OpenEffect
<1>4. CASE \/ CloseQuery \/ FailCloseQuery \/ RollbackRequery \/ ReconcileFailClose
           \/ RetryQuery \/ ReconcileRollback \/ RecoveryEffect \/ RecoveryQuery
           \/ \E p \in Proof : OpenIntent(p)
           \/ \E o \in BOOLEAN : RollbackIntent(o)
  BY <1>1, <1>4
  DEF CloseQuery, FailCloseQuery, RollbackRequery, ReconcileFailClose, RetryQuery,
      ReconcileRollback, RecoveryEffect, RecoveryQuery, OpenIntent, RollbackIntent, TypeOK, Call
<1>5. CASE RollbackQuery
  BY <1>1, <1>5 DEF RollbackQuery, TypeOK, Call
<1>6. CASE OpenQuery \/ ReconcileQuery
  BY <1>6 DEF OpenQuery, ReconcileQuery, TypeOK, Call
<1>7. CASE Stage \/ LeaseLost \/ Drift \/ \E r \in Requests : Admit(r) \/ Finish(r)
  BY <1>7 DEF Stage, LeaseLost, Drift, Admit, Finish
<1>8. QED
  BY <1>3, <1>4, <1>5, <1>6, <1>7
  DEF Next, Operate, Traffic, Reconcile, Continue, Environment

(* Without the behavioural oracle, ROLLED_BACK is decided on the              *)
(* predecessor's own route.                                                   *)
LEMMA RestoredBy ==
  ASSUME TypeOK, Next, call'.pc \in {"rollback.commit", "reconcile.rollback"},
         call'.tgt = "ROLLED_BACK", call.oracle = FALSE
  PROVE  call' = call \/ (route = PredRoute /\ route' = route)
<1> USE DEF At, Idle
<1>1. \A p : Goto(p) => call'.pc = p
  BY DEF Goto, TypeOK, Call
<1>2. call'.pc \notin Untracked
  BY DEF Untracked, Closing
<1>3. \A r : Closure(r) # "ROLLED_BACK"
  BY DEF Closure
<1>4. PredRoute # Unread
  BY DEF PredRoute, Unread
<1>5. CASE ReconcileRollback
  BY <1>3, <1>4, <1>5 DEF ReconcileRollback, TypeOK, Call
<1>6. CASE RollbackQuery
  BY <1>1, <1>4, <1>6 DEF RollbackQuery
<1>7. CASE RollbackRequery
  BY <1>3, <1>7 DEF RollbackRequery, TypeOK, Call
<1>8. CASE FailCloseQuery \/ RetryQuery \/ ReconcileFailClose \/ RollbackEffect
           \/ RollbackClose \/ RecoveryEffect \/ RecoveryQuery \/ RecoveryReceipt
           \/ \E o \in BOOLEAN : RollbackIntent(o)
  BY <1>1, <1>8 DEF FailCloseQuery, RetryQuery, ReconcileFailClose, RollbackEffect,
     RollbackClose, RecoveryEffect, RecoveryQuery, RecoveryReceipt, RollbackIntent, TypeOK, Call
<1>9. QED
  BY <1>2, <1>5, <1>6, <1>7, <1>8, CallMoves

(* Nothing but rollback() takes an oracle.                                    *)
LEMMA OracleKept ==
  ASSUME TypeOK, Next, call.oracle = FALSE, call'.oracle # FALSE
  PROVE  RollbackIntent(TRUE)
<1>0. call \in Call
  BY DEF TypeOK
<1>1. \A p : ~Goto(p)
  BY <1>0 DEF Goto, Call
<1>2. ~Return /\ ~Raise
  <2>1. \A r : Done(r).oracle = FALSE
    BY DEF Done
  <2>2. QED
    BY <2>1 DEF Return, Raise
<1>3. CASE CloseIntent \/ CloseCommit \/ OpenRefused \/ OpenCommit \/
               AdmitMismatch \/ DrainCheck \/ FailCloseCall \/ DrainIntent \/
               FailCloseIntent \/ FailCloseEffect \/ FailCloseCommit \/
               RollbackCommit \/ ReconcileFailCloseCommit \/ ReconcileRollbackCommit \/
               RetryStart \/ RetryEffect \/ RetryCommit \/ ReconcileCancel
               \/ ReconcileOpen \/ RecoveryFinish \/ CutOff \/ OpenEffect
               \/ RecoveryReceipt \/ RollbackEffect \/ RollbackClose
               \/ \E p \in Proof : OpenIntent(p)
    BY <1>1, <1>2, <1>3
    DEF CommitReceipt, RecoveryReceipt, RollbackEffect, RollbackClose, OpenIntent,
        CloseIntent, CloseCommit, OpenRefused, OpenCommit, AdmitMismatch, DrainIntent,
        DrainCheck, FailCloseCall, FailCloseIntent, FailCloseEffect,
        FailCloseCommit, RollbackCommit,
        ReconcileFailCloseCommit, ReconcileRollbackCommit, RetryStart,
        RetryEffect, RetryCommit, ReconcileCancel, ReconcileOpen,
        RecoveryFinish, CutOff, OpenEffect
<1>4. CASE CloseQuery \/ FailCloseQuery \/ RollbackRequery \/ ReconcileFailClose \/ RetryQuery
           \/ ReconcileRollback \/ RecoveryEffect \/ RecoveryQuery \/ OpenQuery \/ ReconcileQuery
  BY <1>0, <1>4
  DEF CloseQuery, FailCloseQuery, RollbackRequery, ReconcileFailClose, RetryQuery,
      ReconcileRollback, RecoveryEffect, RecoveryQuery, OpenQuery, ReconcileQuery, Call
<1>5. CASE RollbackQuery
  BY <1>0, <1>1, <1>5 DEF RollbackQuery, Call
<1>6. CASE Stage \/ LeaseLost \/ Drift \/ \E r \in Requests : Admit(r) \/ Finish(r)
  BY <1>6 DEF Stage, LeaseLost, Drift, Admit, Finish
<1>7. CASE \E o \in BOOLEAN : RollbackIntent(o)
  <2>1. PICK o \in BOOLEAN : RollbackIntent(o)
    BY <1>7
  <2>2. call'.oracle = o
    BY <1>0, <2>1 DEF RollbackIntent, Call
  <2>3. QED
    BY <2>1, <2>2
<1>8. QED
  BY <1>3, <1>4, <1>5, <1>6, <1>7
  DEF Next, Operate, Traffic, Reconcile, Continue, Environment

(* What a step of the gate may do to the state and to the route, when the     *)
(* candidate's route changes only through the adapter.                        *)
GateMayDo ==
  /\ gs.st = NoRow /\ gs'.st # NoRow => Stage
  /\ gs'.st = "OPENING" /\ gs.st # "OPENING" => call'.pc = "open.effect"
  /\ gs.st \notin Exposed /\ gs'.st \in Exposed =>
       /\ call.pc \in {"open.commit", "reconcile.open"} /\ call.seen = CandRoute
       /\ call'.pc = "idle" /\ route' = route
  /\ gs.st \in Exposed /\ gs'.st \notin Exposed =>
       gs'.st \in Terminal /\ call.pc \in Closing \cup {"recovery.finish"}
  /\ gs.st \in Terminal => gs'.st = gs.st
  /\ gs'.st = "ROLLED_BACK" /\ gs.st # "ROLLED_BACK" =>
       /\ call.pc \in {"rollback.commit", "reconcile.rollback"} /\ call.tgt = "ROLLED_BACK"
       /\ route' = route
  /\ gs'.st = "DRAINING" /\ gs.st # "DRAINING" => Has(journal', "intent", "drain")
  /\ Has(journal, "intent", "drain") => Has(journal', "intent", "drain")
  /\ route'.gen = "cand" /\ route.gen # "cand" => call.pc = "open.effect"
  /\ route.gen = "cand" /\ route'.gen # "cand" =>
       call.pc \in {"fail_close.effect", "retry.effect", "recovery.effect", "rollback.close",
                    "rollback.effect"}

(* Every step of the gate keeps to this.                                      *)
LEMMA StepMayDo ==
  ASSUME GateInv, ExposureInv, Next, Drift => route.gen = "pred"
  PROVE  GateMayDo
<1>0. TypeOK /\ ClosedKnown
  BY DEF GateInv, ExposureInv
<1>1. gs.st = NoRow /\ gs'.st # NoRow => Stage
  BY EntersBy
<1>2. gs'.st = "OPENING" /\ gs.st # "OPENING" => call'.pc = "open.effect"
  BY EntersBy
<1>3. gs.st \notin Exposed /\ gs'.st \in Exposed =>
       /\ call.pc \in {"open.commit", "reconcile.open"} /\ call.seen = CandRoute
       /\ call'.pc = "idle" /\ route' = route
  BY EntersBy DEF Exposed
<1>4. gs.st \in Exposed /\ gs'.st \notin Exposed =>
       gs'.st \in Terminal /\ call.pc \in Closing \cup {"recovery.finish"}
  BY LeavesBy
<1>5. gs.st \in Terminal => gs'.st = gs.st
  <2>1. gs.st \in Terminal => gs' = gs \/ Allowed(gs.st, gs'.st)
    BY <1>0, GateMoves DEF Stage, NoRow, Terminal
  <2>2. QED
    BY <2>1 DEF Allowed, Targets, Terminal
<1>6. gs'.st = "ROLLED_BACK" /\ gs.st # "ROLLED_BACK" =>
       /\ call.pc \in {"rollback.commit", "reconcile.rollback"} /\ call.tgt = "ROLLED_BACK"
       /\ route' = route
  BY <1>0, EndsBy DEF ClosedKnown, Terminal
<1>7. gs'.st = "DRAINING" /\ gs.st # "DRAINING" => Has(journal', "intent", "drain")
  BY EntersBy
<1>8. Has(journal, "intent", "drain") => Has(journal', "intent", "drain")
  <2>1. Extends
    BY StepExtends
  <2>2. QED
    BY <2>1 DEF Extends, Has
<1>a. /\ ClosedRoute.gen # "cand" /\ Restored.gen # "cand"
      /\ OpenEffect => call.pc = "open.effect"
      /\ FailCloseEffect \/ RetryEffect \/ RecoveryEffect \/ RollbackClose \/ RollbackEffect =>
           call.pc \in {"fail_close.effect", "retry.effect", "recovery.effect",
                       "rollback.close", "rollback.effect"}
  <2>1. ClosedRoute.gen # "cand" /\ Restored.gen # "cand"
    BY DEF ClosedRoute, Restored, PredRoute
  <2>2. QED
    BY <2>1 DEF OpenEffect, FailCloseEffect, RetryEffect, RecoveryEffect, RollbackClose,
                RollbackEffect, At
<1>9. route'.gen = "cand" /\ route.gen # "cand" => call.pc = "open.effect"
  BY <1>0, <1>a, RouteMoves
<1>10. route.gen = "cand" /\ route'.gen # "cand" =>
       call.pc \in {"fail_close.effect", "retry.effect", "recovery.effect", "rollback.close",
                    "rollback.effect"}
  <2>1. CandRoute.gen = "cand"
    BY DEF CandRoute
  <2>2. QED
    BY <1>0, <1>a, <2>1, RouteMoves
<1>11. QED
  BY <1>1, <1>2, <1>3, <1>4, <1>5, <1>6, <1>7, <1>8, <1>9, <1>10 DEF GateMayDo

(* A step that leaves the gate's tables and route alone.                      *)
LEMMA StillMayDo ==
  ASSUME UNCHANGED <<gs, journal, route>>
  PROVE  GateMayDo
  BY DEF GateMayDo, Has

-----------------------------------------------------------------------------
(* The four shapes of a step of the composition. *)

(* The coordinator alone, gate and database.                                  *)
PrepareSkip == CoAt("prepare.close") /\ Local /\ CoEnd /\ UNCHANGED tables
CommitSkip == CoAt("commit.open") /\ Local /\ CoEnd /\ UNCHANGED tables
RollbackUnstaged ==
  /\ CoAt("rollback.gate") /\ ~Staged
  /\ Local /\ CoEndAt("rollback.commit", "SafetyUnknown") /\ UNCHANGED tables
RecoverUnstaged == CoIdle /\ Local /\ CoEnd /\ UNCHANGED tables

Alone ==
  \/ PlanInsert \/ PlanUndo \/ PrepareWal \/ PrepareReceipt \/ PrepareSkip \/ PrepareEnd
  \/ LaunchWal \/ LaunchReceipt \/ Observe \/ CommitWal \/ CommitSkip \/ CommitAnswer
  \/ GateReceipt \/ LeaseDegrade \/ LeaseFallback \/ RollbackWal \/ RollbackHost
  \/ RollbackUnstaged \/ RollbackAnswer \/ RollbackClosed \/ RollbackOutcome
  \/ RecoverUnstaged \/ RecoverAnswer \/ RecoverClosed \/ RecoverFinish
  \/ RecoverCommitAnswer \/ RecoverCommit \/ RecoverEarly \/ RecoverUndone
  \/ ResumeObserving \/ MethodError

(* The coordinator calls the gate.                                            *)
Calls(p, q) == co.pc = p /\ co' = [co EXCEPT !.pc = q] /\ UNCHANGED tables
Reads == Idle /\ call' = Done("ok") /\ UNCHANGED <<gs, journal, adm, route, leaseLive, budget>>

Starts ==
  \/ PlanStage
  \/ CloseIntent /\ Calls("prepare.close", "prepare.wait")
  \/ OpenIntent(OpenProof) /\ Calls("commit.open", "commit.wait")
  \/ RollbackIntent(FALSE) /\ Calls("rollback.gate", "rollback.wait")
  \/ RollbackIntent(FALSE) /\ Calls("recover.undo", "recover.undo.wait")
  \/ FailCloseCall /\ Calls("rollback.gate", "rollback.wait")
  \/ FailCloseCall /\ Calls("rollback.close", "rollback.close.wait")
  \/ FailCloseCall /\ Calls("recover.close", "recover.close.wait")
  \/ (Reconcile \/ Reads) /\ st = "Rollback" /\ Calls("idle", "recover.rollback.wait")
  \/ (Reconcile \/ Reads) /\ st = "CommitReady" /\ Calls("idle", "recover.commit.wait")

(* The gate works, or the world does something to it.                         *)
Works == GateRuns \/ DataPlane \/ AdapterError \/ GrantLost \/ PredecessorDrift

(* Every step of the composition has one of the four shapes.                  *)
LEMMA Shapes ==
  ASSUME GatedNext
  PROVE  Alone \/ Starts \/ Works \/ Restart
<1>1. CASE Forward
  BY <1>1 DEF Forward, Alone
<1>2. ASSUME NEW p, GateReconcile(p), CoIdle, UNCHANGED tables
      PROVE  RecoverUnstaged \/ ((Reconcile \/ Reads) /\ Calls("idle", p))
  BY <1>2 DEF GateReconcile, RecoverUnstaged, Reads, Calls, CoIdle, CoAt, CoGoto
<1>3. CASE Recover
  BY <1>2, <1>3 DEF Recover, RecoverRollback, RecoverCommitReady, Alone, Starts
<1>4. CASE PrepareClose
  BY <1>4 DEF PrepareClose, PrepareSkip, Calls, CoGoto, CoAt, Alone, Starts
<1>5. CASE CommitOpen
  BY <1>5 DEF CommitOpen, CommitSkip, Calls, CoGoto, CoAt, Alone, Starts
<1>6. CASE RollbackGate
  BY <1>6 DEF RollbackGate, RollbackUnstaged, Calls, CoGoto, CoAt, Alone, Starts
<1>7. CASE RollbackFailClose \/ RecoverClose \/ RecoverUndo
  BY <1>7 DEF RollbackFailClose, RecoverClose, RecoverUndo, Calls, CoGoto, CoAt, Starts
<1>8. CASE CoContinue
  BY <1>4, <1>5, <1>6, <1>7, <1>8 DEF CoContinue, Alone, Starts
<1>9. CASE GateRuns \/ DataPlane \/ Disturb
  BY <1>9 DEF Works, Disturb, Alone
<1>10. QED
  BY <1>1, <1>3, <1>8, <1>9 DEF GatedNext

(* A step of the coordinator alone leaves the gate as it is, waits for no     *)
(* gate call, and does not abandon one.                                       *)
LEMMA AloneFacts ==
  ASSUME GatedTypeOK, Alone
  PROVE  /\ UNCHANGED <<gs, journal, adm, route, leaseLive, call>>
         /\ budget' \in Nat
         /\ co'.pc \in CoPcs \ Waits
         /\ co.pc \in Waits => call.pc = "idle"
<1> USE DEF At, CoAt, CoIdle, CoGoto, CoEnd, CoEndAt, CoDone, Answered
<1>0. budget \in Nat /\ co \in [pc: CoPcs, tgt: State \cup {Absent}]
  BY DEF GatedTypeOK, TypeOK
<1>1. ASSUME NEW p, CoGoto(p) PROVE co'.pc = p
  BY <1>0, <1>1
<1>2. ASSUME Local PROVE UNCHANGED <<gs, journal, adm, route, leaseLive, call>> /\ budget' = budget
  BY <1>2 DEF Local, vars
<1>3. Spend => budget' \in Nat
  BY <1>0 DEF Spend
<1>4. {"idle", "plan.stage", "prepare.receipt", "prepare.close", "launch.receipt",
       "commit.open", "commit.receipt", "lease.fallback", "rollback.wal",
       "rollback.host", "rollback.gate", "rollback.close", "rollback.commit",
       "recover.close", "recover.finish", "recover.commit", "recover.undo"}
         = CoPcs \ Waits
  BY DEF CoPcs, Waits
<1>5. CASE PlanUndo \/ RollbackHost \/ MethodError
  BY <1>0, <1>1, <1>3, <1>4, <1>5 DEF PlanUndo, RollbackHost, MethodError, gate, Waits
<1>6. CASE PlanInsert \/ PrepareWal \/ PrepareReceipt \/ PrepareSkip \/ LaunchWal
           \/ LaunchReceipt \/ CommitWal \/ CommitSkip \/ GateReceipt
           \/ LeaseFallback \/ RollbackWal \/ RollbackUnstaged \/ RollbackOutcome
           \/ RecoverUnstaged \/ RecoverFinish \/ RecoverCommit \/ RecoverEarly \/ ResumeObserving
  BY <1>0, <1>1, <1>2, <1>4, <1>6
  DEF PlanInsert, PrepareWal, PrepareReceipt, PrepareSkip, LaunchWal, LaunchReceipt,
      CommitWal, CommitSkip, GateReceipt, LeaseFallback, RollbackWal,
      RollbackUnstaged, RollbackOutcome, RecoverUnstaged, RecoverFinish, RecoverCommit,
      RecoverEarly, ResumeObserving, Waits
<1>7. CASE Observe \/ LeaseDegrade
  BY <1>0, <1>1, <1>2, <1>4, <1>7 DEF Observe, LeaseDegrade, Waits
<1>8. CASE PrepareEnd \/ CommitAnswer \/ RollbackAnswer \/ RollbackClosed \/ RecoverAnswer
           \/ RecoverClosed \/ RecoverCommitAnswer \/ RecoverUndone
  <2>1. call.pc = "idle" /\ Local
    BY <1>8 DEF PrepareEnd, CommitAnswer, RollbackAnswer, RollbackClosed, RecoverAnswer,
        RecoverClosed, RecoverCommitAnswer, RecoverUndone
  <2>2. co'.pc \in CoPcs \ Waits
    BY <1>0, <1>1, <1>4, <1>8 DEF PrepareEnd, CommitAnswer, RollbackAnswer, RollbackClosed,
       RecoverAnswer, RecoverClosed, RecoverCommitAnswer, RecoverUndone
  <2>3. QED
    BY <1>0, <1>2, <2>1, <2>2
<1>9. QED
  BY <1>5, <1>6, <1>7, <1>8 DEF Alone

(* A call moves on with every step of its own.                                *)
LEMMA ContinueAdvances ==
  ASSUME TypeOK, Continue
  PROVE  call'.pc # call.pc
<1> USE DEF At
<1>1. \A p : Goto(p) => call'.pc = p
  BY DEF Goto, TypeOK, Call
<1>2. Return \/ Raise => call'.pc = "idle"
  BY DEF Return, Raise, Done
<1>3. CASE CloseCommit \/ OpenRefused \/ OpenCommit \/ DrainCheck \/ FailCloseCommit
           \/ RollbackCommit \/ ReconcileFailCloseCommit \/ ReconcileRollbackCommit
           \/ ReconcileOpen \/ RetryCommit \/ RecoveryFinish
  BY <1>1, <1>2, <1>3
  DEF CloseCommit, OpenRefused, OpenCommit, DrainCheck, FailCloseCommit, RollbackCommit,
      ReconcileFailCloseCommit, ReconcileRollbackCommit, ReconcileOpen, RetryCommit,
      RecoveryFinish, CommitReceipt
<1>4. CASE OpenEffect \/ FailCloseIntent \/ FailCloseEffect \/ RollbackEffect \/ RollbackClose
           \/ RetryEffect \/ RecoveryReceipt
  BY <1>1, <1>4
  DEF OpenEffect, FailCloseIntent, FailCloseEffect, RollbackEffect, RollbackClose, RetryEffect,
      RecoveryReceipt
<1>5. CASE CloseQuery \/ OpenQuery \/ FailCloseQuery \/ RollbackRequery \/ RetryQuery
           \/ RecoveryEffect \/ RecoveryQuery
  BY <1>5
  DEF CloseQuery, OpenQuery, FailCloseQuery, RollbackRequery, RetryQuery, RecoveryEffect,
      RecoveryQuery, TypeOK, Call
<1>6. CASE RollbackQuery
  BY <1>1, <1>6 DEF RollbackQuery, TypeOK, Call
<1>7. QED
  BY <1>3, <1>4, <1>5, <1>6 DEF Continue

(* The gate's own work.                                                       *)
LEMMA WorksFacts ==
  ASSUME GatedTypeOK, Works
  PROVE  /\ Next /\ UNCHANGED <<st, committed, evidence, hostReceipt, outcome, fallback, co>>
         /\ Drift => route.gen = "pred"
         /\ ~Stage /\ ~RollbackIntent(TRUE)
         /\ \/ Continue
            \/ /\ co.pc \notin Waits /\ call.pc = "idle"
               /\ \/ call' = call
                  \/ call'.pc = "drain.check"
                  \/ call'.pc = "fail_close.intent" /\ gs' = gs /\ gs.st \in PreOpen
            \/ /\ call.pc \in {"close.query", "open.effect", "open.query"} /\ gs' = gs
               /\ call' = Done("raised")
            \/ call' = call /\ gs' = gs
<1> USE DEF At, Idle
<1>0. TypeOK /\ call \in Call /\ budget \in Nat
  BY DEF GatedTypeOK, TypeOK
<1>1. UNCHANGED <<st, committed, evidence, hostReceipt, outcome, fallback, co>>
  BY DEF Works, GateRuns, DataPlane, AdapterError, GrantLost, PredecessorDrift, tables, columns
<1>2. Stage => gs' # gs /\ call' = call /\ call.pc = "idle" /\ gs.st = NoRow
  BY <1>0 DEF Stage, NoRow
<1>3. ASSUME RollbackIntent(TRUE)
      PROVE  call.pc = "idle" /\ gs.st # NoRow /\ call'.pc = "rollback.effect"
  BY <1>0, <1>3 DEF RollbackIntent, Call
<1>4. Drift => call' = call /\ budget' # budget /\ leaseLive' = leaseLive
  BY <1>0 DEF Drift, Spend
<1>5. CASE GateRuns
  <2>1. Continue /\ call.pc # "idle" /\ call'.pc # call.pc
    BY <1>0, <1>5, ContinueMoves, ContinueAdvances DEF GateRuns
  <2>2. QED
    BY <1>1, <1>2, <1>3, <1>4, <2>1 DEF Next
<1>6. CASE DataPlane
  <2>1. co.pc \notin Waits /\ call.pc = "idle" /\ gs.st # NoRow /\ budget' = budget
    BY <1>6 DEF DataPlane, GateFree, Traffic, Admit, Finish, AdmitMismatch, DrainIntent
  <2>2. Next
    BY <1>6 DEF DataPlane, Next, Operate
  <2>3. \/ call' = call
        \/ call'.pc = "drain.check"
        \/ call'.pc = "fail_close.intent" /\ gs' = gs /\ gs.st \in PreOpen
    BY <1>0, <1>6 DEF DataPlane, Traffic, Admit, Finish, AdmitMismatch, DrainIntent, Goto, Call,
                      PredecessorMismatch
  <2>4. QED
    BY <1>1, <1>2, <1>3, <1>4, <2>1, <2>2, <2>3
<1>7. CASE AdapterError
  <2>1. CutOff /\ call.pc \in {"close.query", "open.effect", "open.query"}
        /\ call' = Done("raised") /\ gs' = gs
    BY <1>7 DEF AdapterError, CutOff, Raise
  <2>2. call'.pc = "idle"
    BY <2>1 DEF Done
  <2>3. QED
    BY <1>1, <1>2, <1>3, <1>4, <2>1, <2>2 DEF Next, Environment
<1>8. CASE GrantLost
  <2>1. LeaseLost /\ call' = call /\ gs' = gs /\ leaseLive /\ ~leaseLive'
    BY <1>8 DEF GrantLost, LeaseLost
  <2>2. QED
    BY <1>1, <1>2, <1>3, <1>4, <2>1 DEF Next, Environment
<1>9. CASE PredecessorDrift
  <2>1. Drift /\ call' = call /\ gs' = gs /\ route.gen = "pred"
    BY <1>9 DEF PredecessorDrift, Drift
  <2>2. QED
    BY <1>1, <1>2, <1>3, <2>1 DEF Next, Environment
<1>10. QED
  BY <1>5, <1>6, <1>7, <1>8, <1>9 DEF Works

(* A call the coordinator begins.                                             *)
LEMMA StartsFacts ==
  ASSUME GatedTypeOK, Starts
  PROVE  /\ call.pc = "idle" /\ UNCHANGED <<st, committed, evidence, hostReceipt, outcome, fallback>>
         /\ UNCHANGED <<adm, route>>
         /\ \/ Next /\ ~Drift
            \/ Reads
         /\ ~RollbackIntent(TRUE)
         /\ Stage => PlanStage
         /\ \/ PlanStage /\ call' = call /\ co'.pc = "idle"
            \/ /\ co' = [co EXCEPT !.pc = co'.pc]
               /\ \/ call'.pc = "close.query" /\ co.pc = "prepare.close" /\ co'.pc = "prepare.wait"
                  \/ call'.pc = "open.effect" /\ co.pc = "commit.open" /\ co'.pc = "commit.wait"
                  \/ call'.pc = "rollback.effect" /\ co.pc = "rollback.gate"
                       /\ co'.pc = "rollback.wait"
                  \/ call'.pc = "rollback.effect" /\ co.pc = "recover.undo"
                       /\ co'.pc = "recover.undo.wait"
                  \/ call'.pc = "fail_close.intent" /\ gs' = gs
                       /\ \/ co.pc = "rollback.gate" /\ co'.pc = "rollback.wait"
                          \/ co.pc = "rollback.close" /\ co'.pc = "rollback.close.wait"
                          \/ co.pc = "recover.close" /\ co'.pc = "recover.close.wait"
                  \/ /\ co.pc = "idle" /\ gs' = gs
                     /\ \/ co'.pc = "recover.rollback.wait" /\ st = "Rollback"
                        \/ co'.pc = "recover.commit.wait" /\ st = "CommitReady"
                     /\ \/ call'.pc \in {"idle", "reconcile.fail_close", "reconcile.rollback"}
                        \/ call'.pc = "retry.effect" /\ PendingRecovery
                        \/ /\ call'.pc \in {"fail_close.intent", "reconcile.open"}
                           /\ gs.st = "OPENING" /\ ~PendingRecovery
<1> USE DEF At, Idle
<1>0. TypeOK /\ call \in Call /\ budget \in Nat /\ co \in [pc: CoPcs, tgt: State \cup {Absent}]
  BY DEF GatedTypeOK, TypeOK
<1> DEFINE Frame == UNCHANGED <<st, committed, evidence, hostReceipt, outcome, fallback>>
<1>1. \A p : Goto(p) => call'.pc = p
  BY <1>0 DEF Goto, Call
<1>2. ASSUME NEW p, NEW q, Calls(p, q)
      PROVE  /\ co.pc = p /\ co'.pc = q /\ co' = [co EXCEPT !.pc = q] /\ Frame
  BY <1>0, <1>2 DEF Calls, tables, columns
<1>3. Stage => gs.st = NoRow /\ call' = call
  BY DEF Stage
<1>4. Drift => call' = call /\ budget' # budget /\ gs' = gs
  BY <1>0 DEF Drift, Spend
<1>5. RollbackIntent(TRUE) => call'.oracle = TRUE /\ call'.pc = "rollback.effect"
  BY <1>0 DEF RollbackIntent, Call
<1>6. CASE PlanStage
  <2>1. Stage /\ co'.pc = "idle" /\ Frame
    BY <1>6 DEF PlanStage, CoEnd, CoDone, tables, columns
  <2>2. gs'.st # gs.st /\ call.pc = "idle" /\ call' = call /\ UNCHANGED <<adm, route>>
    BY <2>1 DEF Stage, NoRow
  <2>3. QED
    BY <1>4, <1>5, <1>6, <2>1, <2>2 DEF Next, Operate
<1>7. CASE CloseIntent /\ Calls("prepare.close", "prepare.wait")
  <2>1. Next /\ call.pc = "idle" /\ gs.st # NoRow /\ call'.pc = "close.query"
        /\ UNCHANGED <<adm, route>>
    BY <1>1, <1>7 DEF CloseIntent, Next, Operate
  <2>2. QED
    BY <1>2, <1>3, <1>4, <1>5, <1>7, <2>1
<1>8. CASE OpenIntent(OpenProof) /\ Calls("commit.open", "commit.wait")
  <2>1. OpenProof \in Proof
    BY DEF OpenProof, Proof, GatedTypeOK, TypeOK
  <2>2. Next /\ call.pc = "idle" /\ gs.st # NoRow /\ call'.pc = "open.effect"
        /\ UNCHANGED <<adm, route>>
    BY <1>1, <1>8, <2>1 DEF OpenIntent, Next, Operate
  <2>3. QED
    BY <1>2, <1>3, <1>4, <1>5, <1>8, <2>2
<1>9. ASSUME RollbackIntent(FALSE)
      PROVE  Next /\ call.pc = "idle" /\ gs.st # NoRow /\ call'.pc = "rollback.effect"
             /\ UNCHANGED <<adm, route>> /\ ~RollbackIntent(TRUE)
  <2>1. call'.oracle = FALSE /\ call'.pc = "rollback.effect"
    BY <1>0, <1>9 DEF RollbackIntent, Call
  <2>2. Next
    BY <1>9 DEF Next, Operate
  <2>3. QED
    BY <1>5, <1>9, <2>1, <2>2 DEF RollbackIntent
<1>10. CASE RollbackIntent(FALSE) /\ (Calls("rollback.gate", "rollback.wait")
                                      \/ Calls("recover.undo", "recover.undo.wait"))
  BY <1>2, <1>3, <1>4, <1>9, <1>10
<1>11. CASE /\ FailCloseCall
            /\ \/ Calls("rollback.gate", "rollback.wait")
               \/ Calls("rollback.close", "rollback.close.wait")
               \/ Calls("recover.close", "recover.close.wait")
  <2>1. Next /\ call.pc = "idle" /\ gs.st # NoRow /\ call'.pc = "fail_close.intent"
        /\ UNCHANGED <<adm, route>> /\ gs' = gs
    BY <1>1, <1>11 DEF FailCloseCall, Next, Operate
  <2>2. QED
    BY <1>2, <1>3, <1>4, <1>5, <1>11, <2>1
<1>12. ASSUME Reconcile
       PROVE  /\ Next /\ call.pc = "idle" /\ gs.st # NoRow /\ gs' = gs /\ UNCHANGED <<adm, route>>
              /\ \/ call'.pc \in {"reconcile.fail_close", "reconcile.rollback"}
                 \/ call'.pc = "retry.effect" /\ PendingRecovery
                 \/ /\ call'.pc \in {"fail_close.intent", "reconcile.open"}
                    /\ gs.st = "OPENING" /\ ~PendingRecovery
  <2>1. Next
    BY <1>12 DEF Next
  <2>2. CASE ReconcileFailClose \/ ReconcileRollback
    BY <1>0, <2>1, <2>2 DEF ReconcileFailClose, ReconcileRollback, Call
  <2>3. CASE RetryStart
    BY <1>1, <2>1, <2>3 DEF RetryStart
  <2>4. CASE ReconcileCancel
    BY <1>1, <2>1, <2>4 DEF ReconcileCancel, OpeningUnresolved, Append1
  <2>5. CASE ReconcileQuery
    BY <1>0, <2>1, <2>5 DEF ReconcileQuery, OpeningUnresolved, Call
  <2>6. QED
    BY <1>12, <2>2, <2>3, <2>4, <2>5 DEF Reconcile
<1>13. CASE /\ Reconcile
            /\ \/ st = "Rollback" /\ Calls("idle", "recover.rollback.wait")
               \/ st = "CommitReady" /\ Calls("idle", "recover.commit.wait")
  <2>1. call.pc # call'.pc /\ call'.pc # "rollback.effect"
    BY <1>12, <1>13
  <2>2. QED
    BY <1>2, <1>3, <1>4, <1>5, <1>12, <1>13, <2>1
<1>14. CASE /\ Reads
            /\ \/ st = "Rollback" /\ Calls("idle", "recover.rollback.wait")
               \/ st = "CommitReady" /\ Calls("idle", "recover.commit.wait")
  <2>1. call.pc = "idle" /\ gs.st # NoRow /\ gs' = gs /\ UNCHANGED <<adm, route>>
        /\ call'.pc = "idle"
    BY <1>14 DEF Reads, Done
  <2>2. QED
    BY <1>2, <1>3, <1>5, <1>14, <2>1
<1>15. QED
  BY <1>6, <1>7, <1>8, <1>10, <1>11, <1>13, <1>14 DEF Starts

-----------------------------------------------------------------------------
(* The inductive invariant of the composition. *)

(* Each gate call is the one the coordinator waits for, or the data plane's   *)
(* drain or fail_close().                                                     *)
Owner ==
  /\ call.pc \in Closes => co.pc = "prepare.wait"
  /\ call.pc \in Opens => co.pc = "commit.wait"
  /\ call.pc \in Undoing => co.pc \in {"rollback.wait", "recover.undo.wait"}
  /\ call.pc \in Reconciles => co.pc \in {"recover.rollback.wait", "recover.commit.wait"}
  /\ call.pc = "drain.check" => co.pc \notin Waits

(* An exposed gate is failed closed only for prepare() and rollback().        *)
Shutters == {"prepare.wait", "rollback.wait", "rollback.close.wait",
             "recover.rollback.wait", "recover.close.wait"}
ShutKnown == call.pc \in FailClosing /\ gs.st \in Exposed => co.pc \in Shutters

(* A recovery close is of a gate that did not open.                           *)
RecoveryState == call.pc \in Recoveries => gs.st \notin Exposed
PendingRecoveryKnown ==
  PendingRecovery => gs.st \in {"OPENING"} \cup Terminal /\ call.pc \notin Opening

(* What the call has seen is still so.                                        *)
SeenHolds ==
  call.pc \in {"open.commit", "reconcile.open"} /\ call.seen = CandRoute => route.gen = "cand"

(* The coordinator rolls back without a behavioural oracle, so ROLLED_BACK    *)
(* means that the candidate is off.                                           *)
NoOracle == call.oracle = FALSE
RestoredGate ==
  /\ gs.st = "ROLLED_BACK" => route.gen # "cand"
  /\ call.pc \in {"rollback.commit", "reconcile.rollback"} /\ call.tgt = "ROLLED_BACK" =>
       route.gen # "cand"

DrainIntended == gs.st = "DRAINING" => Has(journal, "intent", "drain")

(* A rollback or fail_close() that returned has ended the gate.               *)
Undone == {"rollback.wait", "recover.undo.wait", "rollback.close.wait", "recover.close.wait"}
GateEnded ==
  /\ co.pc \in Undone /\ call.pc = "idle" /\ call.ret = "ok" => gs.st \in Terminal
  /\ co.pc = "rollback.close.wait" /\ call.pc = "idle" => gs.st \in Terminal

GateSide ==
  /\ Owner /\ ShutKnown /\ RecoveryState /\ PendingRecoveryKnown /\ SeenHolds /\ NoOracle
  /\ RestoredGate /\ DrainIntended /\ GateEnded

(* The states a plan may be in where the coordinator is.                      *)
CoState ==
  /\ co.pc = "plan.stage" => st = "Planned"
  /\ co.pc = "prepare.receipt" => st = "Preparing"
  /\ co.pc \in {"prepare.close", "prepare.wait"} => st = "Prepared"
  /\ co.pc = "launch.receipt" => st = "Launching"
  /\ co.pc \in {"commit.open", "commit.wait", "commit.receipt", "recover.commit.wait"} =>
       st = "CommitReady"
  /\ co.pc \in {"lease.fallback", "rollback.wal"} => st = "Degraded"
  /\ co.pc \in {"recover.undo", "recover.undo.wait", "recover.commit"} =>
       st \in {"Preparing", "Launching", "Observing", "CommitReady"}
  /\ co.pc \in {"rollback.host", "rollback.gate", "rollback.wait", "rollback.close",
                "rollback.close.wait", "rollback.commit", "recover.rollback.wait",
                "recover.close", "recover.close.wait", "recover.finish"} => st = "Rollback"

(* Behind the candidate, opening, open or routed, is the commit WAL row.      *)
Logged ==
  /\ st \in {"CommitReady", "Effective"} => committed
  /\ gs.st \in Exposed \cup {"OPENING"} => committed
  /\ route.gen = "cand" => committed
  /\ AdmittedIsCommitted

(* While the commit stands, an open gate has the candidate routed.            *)
CommitRouted == st = "CommitReady" /\ gs.st \in Exposed => route.gen = "cand"
UndoFrom ==
  co.pc \in {"recover.undo", "recover.undo.wait"} /\ st = "CommitReady" => gs.st \notin Exposed

(* What the coordinator is about to record of the gate is true of it.         *)
Pending ==
  /\ co.pc \in {"rollback.commit", "recover.finish"} =>
       /\ co.tgt \in {"RolledBack", "FailedSafe", "SafetyUnknown"}
       /\ co.tgt = "RolledBack" => gs.st = "ROLLED_BACK" /\ hostReceipt = "done"
       /\ co.tgt = "SafetyUnknown" => gs.st \in Terminal \cup {NoRow}
       /\ co.tgt = "FailedSafe" => gs.st \notin Exposed \/ hostReceipt = "failed"
  /\ co.pc = "recover.commit" =>
       \/ co.tgt = "Effective" /\ st = "CommitReady" /\ gs.st \in Exposed
       \/ co.tgt = "Reconcile" /\ (gs.st \notin Exposed \/ Has(journal, "intent", "drain"))
  /\ co.pc = "commit.receipt" => gs.st \in Exposed
  /\ co.pc = "lease.fallback" => fallback

Recorded ==
  /\ st = "Effective" => gs.st \in Exposed
  /\ st = "RolledBack" => gs.st = "ROLLED_BACK" /\ hostReceipt = "done"
  /\ st = "SafetyUnknown" => gs.st \in Terminal \cup {NoRow}

PlanSide ==
  /\ CoState /\ Logged /\ CommitRouted /\ UndoFrom /\ Pending /\ Recorded /\ ExposureOwned

GatedInv == GatedTypeOK /\ GateInv /\ ExposureInv /\ GateSide /\ PlanSide

-----------------------------------------------------------------------------
(* The gate's own invariants hold in the composition. *)

(* A call that ends, or a budget that shrinks, disturbs none of them.         *)
LEMMA CallEnds ==
  ASSUME GateInv, ExposureInv, UNCHANGED <<gs, journal, adm, route, leaseLive>>, budget' \in Nat,
         call' = call \/ \E r \in {"ok", "raised"} : call' = Done(r)
  PROVE  GateInv' /\ ExposureInv'
<1>0. TypeOK /\ CallStaged /\ CallInState /\ History
  BY DEF GateInv
<1>1. History'
  BY <1>0 DEF History, SeqsBounded, NotYetOpen, OpenRecorded,
                AdmissionsFollowOpen, DrainReceiptIsFinal, SingleOpen
<1>2. CASE call' = call
  <2>1. TypeOK' /\ CallStaged' /\ CallInState'
    BY <1>0, <1>2 DEF TypeOK, CallStaged, CallInState, At
  <2>2. ExposureInv'
    BY <1>2 DEF ExposureInv, OpenIntended, ClosedKnown, RollbackPending, RecoveryKnown,
             RestoredKnown, CandidateExposureKnown, FailedSafeHeld, PendingRollback
  <2>3. QED
    BY <1>1, <2>1, <2>2 DEF GateInv
<1>3. CASE \E r \in {"ok", "raised"} : call' = Done(r)
  <2>a. \A r : Done(r).pc = "idle"
    BY DEF Done
  <2>1. call' \in Call /\ call'.pc = "idle"
    BY <1>3, <2>a, DoneTypes
  <2>2. TypeOK' /\ CallStaged' /\ CallInState'
    BY <1>0, <2>1 DEF TypeOK, CallStaged, CallInState, At, Opening, Closing
  <2>3. ExposureInv'
    BY <2>1 DEF ExposureInv, OpenIntended, ClosedKnown, RollbackPending, RecoveryKnown,
             RestoredKnown, CandidateExposureKnown, FailedSafeHeld, PendingRollback,
             Closing, Undoing, Recovering
  <2>4. QED
    BY <1>1, <2>2, <2>3 DEF GateInv
<1>4. QED
  BY <1>2, <1>3

(* The gate's invariants are kept by every step of the composition: the       *)
(* coordinator's own steps, its calls, the gate's work and a restart.         *)
LEMMA StepGate ==
  ASSUME GatedTypeOK, GateInv, ExposureInv, GatedNext
  PROVE  GateInv' /\ ExposureInv'
<1>1. CASE Alone
  BY <1>1, AloneFacts, CallEnds
<1>2. ASSUME Next PROVE GateInv' /\ ExposureInv'
  BY <1>2, StepGateInv, StepExposureInv
<1>3. CASE Starts
  <2>1. CASE Reads
    BY <2>1, CallEnds DEF Reads, GatedTypeOK, TypeOK
  <2>2. QED
    BY <1>2, <1>3, <2>1, StartsFacts
<1>4. CASE Works
  BY <1>2, <1>4, WorksFacts
<1>5. CASE Restart
  <2>1. budget' \in Nat
    BY <1>5 DEF Restart, Spend, GatedTypeOK, TypeOK
  <2>2. QED
    BY <1>5, <2>1, CallEnds DEF Restart
<1>6. QED
  BY <1>1, <1>3, <1>4, <1>5, Shapes

-----------------------------------------------------------------------------
(* The side of the gate. *)
LEMMA AloneGateSide ==
  ASSUME GatedInv, Alone
  PROVE  GateSide'
<1>0. GatedTypeOK /\ GateSide
  BY DEF GatedInv
<1>1. /\ UNCHANGED <<gs, journal, route, call>>
      /\ co'.pc \notin Waits
      /\ co.pc \in Waits => call.pc = "idle"
  BY <1>0, AloneFacts
<1>2. Owner'
  <2>1. {"prepare.wait", "commit.wait", "rollback.wait", "recover.undo.wait",
         "recover.rollback.wait", "recover.commit.wait"} \subseteq Waits
    BY DEF Waits
  <2>2. "idle" \notin Closes \cup Opens \cup Undoing \cup Reconciles
    BY DEF Closes, Opens, Undoing, Reconciles, Recoveries
  <2>3. QED
    BY <1>0, <1>1, <2>1, <2>2 DEF GateSide, Owner
<1>3. ShutKnown'
  <2>1. Shutters \subseteq Waits /\ "idle" \notin FailClosing
    BY DEF Shutters, Waits, FailClosing
  <2>2. QED
    BY <1>0, <1>1, <2>1 DEF GateSide, ShutKnown
<1>4. GateEnded'
  <2>1. Undone \subseteq Waits /\ "rollback.close.wait" \in Waits
    BY DEF Undone, Waits
  <2>2. QED
    BY <1>1, <2>1 DEF GateEnded
<1>5. RecoveryState' /\ PendingRecoveryKnown' /\ SeenHolds' /\ NoOracle' /\ RestoredGate'
      /\ DrainIntended'
  BY <1>0, <1>1 DEF GateSide, RecoveryState, PendingRecoveryKnown, PendingRecovery, SeenHolds,
     NoOracle, RestoredGate, DrainIntended
<1>6. QED
  BY <1>2, <1>3, <1>4, <1>5 DEF GateSide

(* The pieces of it that speak of the gate alone, for any step of the gate.   *)
LEMMA StepSeen ==
  ASSUME GatedInv, Next, Drift => route.gen = "pred", ~RollbackIntent(TRUE)
  PROVE  /\ SeenHolds' /\ NoOracle' /\ RestoredGate' /\ DrainIntended'
         /\ PendingRecoveryKnown'
<1>0. /\ GateInv /\ ExposureInv /\ TypeOK /\ SeenHolds /\ NoOracle /\ RestoredGate
      /\ DrainIntended /\ PendingRecoveryKnown /\ CallInState
  BY DEF GatedInv, GateSide, GateInv
<1>1. GateMayDo
  BY <1>0, StepMayDo
<1>2. SeenHolds'
  <2> SUFFICES ASSUME call'.pc \in {"open.commit", "reconcile.open"}, call'.seen = CandRoute
               PROVE  route'.gen = "cand"
    BY DEF SeenHolds
  <2>1. CASE call' = call
    <3>1. route.gen = "cand"
      BY <1>0, <2>1 DEF SeenHolds
    <3>2. QED
      BY <1>1, <2>1, <3>1 DEF GateMayDo
  <2>2. QED
    BY <1>0, <2>1, SeenBy DEF CandRoute
<1>3. NoOracle'
  BY <1>0, OracleKept DEF NoOracle
<1>4. RestoredGate'
  <2>1. ASSUME gs'.st = "ROLLED_BACK" PROVE route'.gen # "cand"
    <3>1. CASE gs.st = "ROLLED_BACK"
      <4>1. call.pc # "open.effect"
        BY <1>0, <3>1 DEF CallInState, Opening
      <4>2. QED
        BY <1>0, <1>1, <3>1, <4>1 DEF RestoredGate, GateMayDo
    <3>2. CASE gs.st # "ROLLED_BACK"
      BY <1>0, <1>1, <2>1, <3>2 DEF RestoredGate, GateMayDo
    <3>3. QED
      BY <3>1, <3>2
  <2>2. ASSUME call'.pc \in {"rollback.commit", "reconcile.rollback"}, call'.tgt = "ROLLED_BACK"
        PROVE  route'.gen # "cand"
    <3>1. CASE call' = call
      BY <1>0, <1>1, <2>2, <3>1 DEF RestoredGate, GateMayDo
    <3>2. CASE call' # call
      <4>1. call.oracle = FALSE
        BY <1>0 DEF NoOracle
      <4>2. route = PredRoute /\ route' = route
        BY <1>0, <2>2, <3>2, <4>1, RestoredBy
      <4>3. QED
        BY <4>2 DEF PredRoute
    <3>3. QED
      BY <3>1, <3>2
  <2>3. QED
    BY <2>1, <2>2 DEF RestoredGate
<1>5. DrainIntended'
  BY <1>0, <1>1 DEF DrainIntended, GateMayDo
<1>6. PendingRecoveryKnown'
  <2> SUFFICES ASSUME PendingRecovery'
               PROVE  gs'.st \in {"OPENING"} \cup Terminal /\ call'.pc \notin Opening
    BY DEF PendingRecoveryKnown
  <2>1. CASE ~PendingRecovery
    BY <1>0, <2>1, RecoveryAsked DEF Opening
  <2>2. CASE PendingRecovery
    <3>1. gs.st \in {"OPENING"} \cup Terminal /\ call.pc \notin Opening
      BY <1>0, <2>2 DEF PendingRecoveryKnown
    <3>2. gs' = gs \/ Allowed(gs.st, gs'.st)
      BY <1>0, <3>1, GateMoves DEF Stage, NoRow, Terminal
    <3>3. gs'.st # "CANDIDATE_OPEN"
      BY <1>1, <3>1 DEF GateMayDo, Exposed, Terminal, Opening
    <3>4. gs'.st \in {"OPENING"} \cup Terminal
      BY <3>1, <3>2, <3>3 DEF Allowed, Targets, Terminal
    <3>5. call'.pc \notin Opening
      <4> SUFFICES ASSUME call'.pc \in Opening PROVE FALSE
        OBVIOUS
      <4>1. ~Continue
        <5>1. SUFFICES ASSUME Continue PROVE FALSE
          OBVIOUS
        <5>2. call.pc \in Opens
          BY <1>0, <5>1, ContinueMoves DEF Opening, Opens, FailClosing, Closes, Undoing, Recoveries
        <5>3. QED
          BY <3>1, <5>2 DEF Opens, Opening
      <4>2. ~Traffic /\ ~Environment
        BY <1>0, <3>1 DEF Traffic, Admit, Finish, Environment, CutOff, LeaseLost, Drift, Raise,
                          Done, Opening
      <4>3. ~Reconcile
        <5>1. \A p : Goto(p) => call'.pc = p
          BY <1>0 DEF Goto, TypeOK, Call
        <5>2. ~ReconcileQuery
          BY <2>2 DEF ReconcileQuery, OpeningUnresolved
        <5>3. ~ReconcileCancel /\ ~RetryStart
          BY <5>1 DEF ReconcileCancel, RetryStart, Opening
        <5>4. ~ReconcileFailClose /\ ~ReconcileRollback
          BY <1>0 DEF ReconcileFailClose, ReconcileRollback, Opening, TypeOK, Call
        <5>5. QED
          BY <5>2, <5>3, <5>4 DEF Reconcile
      <4>4. ~Operate
        <5>1. \A p : Goto(p) => call'.pc = p
          BY <1>0 DEF Goto, TypeOK, Call
        <5>2. ASSUME NEW p \in Proof, OpenIntent(p) PROVE FALSE
          BY <3>1, <5>2 DEF OpenIntent, Transition, Allowed, Targets, Terminal
        <5>3. ASSUME NEW o \in BOOLEAN, RollbackIntent(o) PROVE FALSE
          BY <1>0, <5>3 DEF RollbackIntent, TypeOK, Call, Opening
        <5>4. ~Stage
          BY <3>1 DEF Stage, Opening, At
        <5>5. QED
          BY <5>1, <5>2, <5>3, <5>4 DEF Operate, CloseIntent, DrainIntent, FailCloseCall, AdmitMismatch,
             Opening
      <4>5. QED
        BY <4>1, <4>2, <4>3, <4>4 DEF Next
    <3>6. QED
      BY <3>4, <3>5
  <2>3. QED
    BY <2>1, <2>2
<1>7. QED
  BY <1>2, <1>3, <1>4, <1>5, <1>6

(* fail_close() is entered at its intent.                                     *)
LEMMA FailCloseEntered ==
  ASSUME TypeOK, Continue, call'.pc \in FailClosing, call.pc \notin FailClosing
  PROVE  call'.pc = "fail_close.intent"
<1>1. ~FailCloseIntent /\ ~FailCloseEffect /\ ~FailCloseQuery
  BY DEF FailCloseIntent, FailCloseEffect, FailCloseQuery, At, FailClosing
<1>2. \A p : Goto(p) => call'.pc = p
  BY DEF Goto, TypeOK, Call
<1>3. Return \/ Raise => call'.pc = "idle"
  BY DEF Return, Raise, Done
<1>4. CASE CloseCommit \/ OpenCommit \/ RecoveryFinish
  BY <1>2, <1>3, <1>4 DEF CloseCommit, OpenCommit, RecoveryFinish, CommitReceipt, FailClosing
<1>5. CASE OpenRefused \/ DrainCheck \/ FailCloseCommit \/ RollbackCommit \/ RetryCommit
           \/ ReconcileFailCloseCommit \/ ReconcileRollbackCommit \/ ReconcileOpen
           \/ OpenEffect \/ RollbackEffect \/ RollbackClose \/ RetryEffect \/ RecoveryReceipt
  BY <1>2, <1>3, <1>5
  DEF OpenRefused, DrainCheck, FailCloseCommit, RollbackCommit, RetryCommit,
      ReconcileFailCloseCommit, ReconcileRollbackCommit, ReconcileOpen, CommitReceipt,
      OpenEffect, RollbackEffect, RollbackClose, RetryEffect, RecoveryReceipt, FailClosing
<1>6. CASE CloseQuery \/ OpenQuery \/ RollbackRequery \/ RetryQuery \/ RecoveryEffect
           \/ RecoveryQuery
  BY <1>6 DEF CloseQuery, OpenQuery, RollbackRequery, RetryQuery, RecoveryEffect,
              RecoveryQuery, FailClosing, TypeOK, Call
<1>7. CASE RollbackQuery
  BY <1>2, <1>7 DEF RollbackQuery, FailClosing, TypeOK, Call
<1>8. QED
  BY <1>1, <1>4, <1>5, <1>6, <1>7 DEF Continue

(* The gate side through the gate's own work: what a call returns with, and   *)
(* what it has seen, are facts about the row and the route.                   *)
LEMMA WorksGateSide ==
  ASSUME GatedInv, Works
  PROVE  GateSide'
<1>0. /\ GatedTypeOK /\ GateSide /\ GateInv /\ ExposureInv /\ TypeOK /\ CallInState
      /\ Owner /\ ShutKnown /\ RecoveryState /\ GateEnded
  BY DEF GatedInv, GateSide, GateInv
<1>1. /\ Next /\ co' = co /\ (Drift => route.gen = "pred") /\ ~RollbackIntent(TRUE)
      /\ \/ Continue
         \/ /\ co.pc \notin Waits /\ call.pc = "idle"
            /\ \/ call' = call
               \/ call'.pc = "drain.check"
               \/ call'.pc = "fail_close.intent" /\ gs' = gs /\ gs.st \in PreOpen
         \/ /\ call.pc \in {"close.query", "open.effect", "open.query"} /\ gs' = gs
            /\ call' = Done("raised")
         \/ call' = call /\ gs' = gs
  BY <1>0, WorksFacts
<1>2. GateMayDo
  BY <1>0, <1>1, StepMayDo
<1>3. SeenHolds' /\ NoOracle' /\ RestoredGate' /\ DrainIntended' /\ PendingRecoveryKnown'
  BY <1>1, StepSeen
<1>4. Done("raised").pc = "idle" /\ Done("raised").ret = "raised"
  BY DEF Done
<1>5. Owner' /\ ShutKnown' /\ RecoveryState' /\ GateEnded'
  <2>1. CASE Continue
    <3>0. /\ call.pc # "idle"
          /\ \/ call'.pc \in {"idle"} \cup FailClosing
             \/ call.pc \in Closes /\ call'.pc \in Closes
             \/ call.pc \in Opens /\ call'.pc \in Opens
             \/ call.pc \in Undoing /\ call'.pc \in Undoing
             \/ call.pc \in Recoveries /\ call'.pc \in Recoveries
             \/ call.pc = "reconcile.open" /\ call'.pc = "recovery.effect"
          /\ call.pc = "drain.check" => call'.pc = "idle"
          /\ call'.pc = "fail_close.intent" =>
               call.pc \in {"close.commit", "open.commit", "recovery.finish"} /\ gs' = gs
      BY <1>0, <2>1, ContinueMoves
    <3>1. Owner'
      <4>1. "idle" \notin Closes \cup Opens \cup Undoing \cup Reconciles
        BY DEF Closes, Opens, Undoing, Reconciles, Recoveries
      <4>2. \A p \in FailClosing \cup {"idle"} :
              p \notin Closes \cup Opens \cup Undoing \cup Reconciles \cup {"drain.check"}
        BY DEF Closes, Opens, Undoing, Reconciles, Recoveries, FailClosing
      <4>3. QED
        BY <1>0, <1>1, <3>0, <4>1, <4>2 DEF Owner, Closes, Opens, Undoing, Reconciles, Recoveries
    <3>2. gs.st \notin Exposed /\ call'.pc # "idle" => gs'.st \notin Exposed
      BY <1>2 DEF GateMayDo
    <3>3. RecoveryState'
      <4> SUFFICES ASSUME call'.pc \in Recoveries PROVE gs'.st \notin Exposed
        BY DEF RecoveryState
      <4>1. call.pc \in Recoveries \/ call.pc = "reconcile.open"
        BY <3>0 DEF Recoveries, FailClosing, Closes, Opens, Undoing
      <4>2. gs.st \notin Exposed
        BY <1>0, <4>1 DEF RecoveryState, CallInState, Opening, Exposed
      <4>3. QED
        BY <3>2, <4>2 DEF Recoveries
    <3>4. ShutKnown'
      <4> SUFFICES ASSUME call'.pc \in FailClosing, gs'.st \in Exposed PROVE co.pc \in Shutters
        BY <1>1 DEF ShutKnown
      <4>1. gs.st \in Exposed
        BY <3>2 DEF FailClosing
      <4>2. CASE call.pc \in FailClosing
        BY <1>0, <4>1, <4>2 DEF ShutKnown
      <4>3. CASE call.pc \notin FailClosing
        <5>1. call'.pc = "fail_close.intent"
          BY <1>0, <2>1, <4>3, FailCloseEntered
        <5>2. call.pc = "close.commit"
          BY <1>0, <3>0, <4>1, <5>1
          DEF CallInState, Opening, Exposed, RecoveryState, Recoveries
        <5>3. QED
          BY <1>0, <5>2 DEF Owner, Closes, Shutters
      <4>4. QED
        BY <4>2, <4>3
    <3>5. GateEnded'
      <4> SUFFICES ASSUME co.pc \in Undone, call'.pc = "idle",
                          call'.ret = "ok" \/ co.pc = "rollback.close.wait"
                   PROVE  gs'.st \in Terminal
        BY <1>1 DEF GateEnded, Undone
      <4>1. call.pc \in Undoing \cup FailClosing
        <5>1. call.pc \in Pcs
          BY <1>0 DEF TypeOK, Call
        <5>2. Pcs = {"idle", "drain.check"} \cup Closes \cup Opens \cup FailClosing \cup Undoing
                     \cup Reconciles
          BY DEF Pcs, Closes, Opens, FailClosing, Undoing, Reconciles, Recoveries
        <5>3. QED
          BY <1>0, <3>0, <5>1, <5>2 DEF Owner, Undone, Waits
      <4>2. co.pc = "rollback.close.wait" => call.pc \in FailClosing
        BY <1>0, <4>1 DEF Owner
      <4>3. QED
        BY <1>0, <2>1, <4>1, <4>2, ClosesEnd
    <3>6. QED
      BY <3>1, <3>3, <3>4, <3>5
  <2>2. CASE call' = call
    <3>1. gs.st \notin Exposed => gs'.st \notin Exposed
      <4>1. SUFFICES ASSUME gs.st \notin Exposed, gs'.st \in Exposed PROVE FALSE
        OBVIOUS
      <4>2. QED
        BY <1>2, <2>2, <4>1 DEF GateMayDo
    <3>2. gs.st \in Terminal => gs'.st \in Terminal
      BY <1>2 DEF GateMayDo
    <3>3. QED
      BY <1>0, <1>1, <2>2, <3>1, <3>2 DEF Owner, ShutKnown, RecoveryState, GateEnded
  <2>3. CASE co.pc \notin Waits /\ call'.pc \in {"drain.check", "fail_close.intent"}
             /\ (call'.pc = "fail_close.intent" => gs' = gs /\ gs.st \in PreOpen)
    <3>1. GateEnded' /\ RecoveryState'
      BY <1>1, <2>3 DEF GateEnded, RecoveryState, Recoveries
    <3>2. ShutKnown'
      BY <1>1, <2>3 DEF ShutKnown, FailClosing, PreOpen, Exposed
    <3>3. Owner'
      BY <1>1, <2>3 DEF Owner, Closes, Opens, Undoing, Reconciles, Recoveries
    <3>4. QED
      BY <3>1, <3>2, <3>3
  <2>4. CASE call.pc \in {"close.query", "open.effect", "open.query"} /\ call' = Done("raised")
    <3>1. call'.pc = "idle" /\ call'.ret = "raised"
      BY <1>4, <2>4
    <3>2. co.pc \in {"prepare.wait", "commit.wait"}
      BY <1>0, <2>4 DEF Owner, Closes, Opens
    <3>3. QED
      BY <1>1, <3>1, <3>2 DEF Owner, ShutKnown, RecoveryState, GateEnded, Closes, Opens, Undoing,
         Reconciles, Recoveries, FailClosing, Undone
  <2>5. QED
    BY <1>1, <2>1, <2>2, <2>3, <2>4
<1>6. QED
  BY <1>3, <1>5 DEF GateSide

(* The gate side when the coordinator calls the gate: the call has its owner. *)
LEMMA StartsGateSide ==
  ASSUME GatedInv, Starts
  PROVE  GateSide'
<1>0. /\ GatedTypeOK /\ GateSide /\ GateInv /\ ExposureInv /\ TypeOK /\ PlanSide
      /\ PendingRecoveryKnown
  BY DEF GatedInv, GateSide, GateInv
<1>1. SeenHolds' /\ NoOracle' /\ RestoredGate' /\ DrainIntended' /\ PendingRecoveryKnown'
  <2>1. CASE Reads
    <3>1. UNCHANGED <<gs, journal, route>> /\ call' = Done("ok")
      BY <2>1 DEF Reads
    <3>2. Done("ok").pc = "idle"
      BY DEF Done
    <3>3. Done("ok").oracle = FALSE
      BY DEF Done
    <3>4. NoOracle'
      BY <3>1, <3>3 DEF NoOracle
    <3>5. SeenHolds' /\ RestoredGate' /\ DrainIntended' /\ PendingRecoveryKnown'
      BY <1>0, <3>1, <3>2 DEF GateSide, SeenHolds, RestoredGate, DrainIntended,
         PendingRecoveryKnown, PendingRecovery, Opening
    <3>6. QED
      BY <3>4, <3>5
  <2>2. QED
    BY <1>0, <2>1, StartsFacts, StepSeen
<1>2. Owner' /\ ShutKnown' /\ RecoveryState' /\ GateEnded'
  <2>1. CASE PlanStage /\ call' = call /\ co'.pc = "idle"
    <3>1. call'.pc = "idle"
      BY <1>0, <2>1, StartsFacts
    <3>2. QED
      BY <2>1, <3>1 DEF Owner, ShutKnown, RecoveryState, GateEnded, Closes, Opens, Undoing,
         Reconciles, Recoveries, FailClosing, Undone
  <2>2. CASE \/ call'.pc = "close.query" /\ co'.pc = "prepare.wait"
             \/ call'.pc = "open.effect" /\ co'.pc = "commit.wait"
             \/ call'.pc = "rollback.effect" /\ co'.pc \in {"rollback.wait", "recover.undo.wait"}
    BY <2>2 DEF Owner, ShutKnown, RecoveryState, GateEnded, Closes, Opens, Undoing,
         Reconciles, Recoveries, FailClosing
  <2>3. CASE call'.pc = "fail_close.intent"
             /\ co'.pc \in {"rollback.wait", "rollback.close.wait", "recover.close.wait"}
    BY <2>3 DEF Owner, ShutKnown, RecoveryState, GateEnded, Closes, Opens, Undoing,
         Reconciles, Recoveries, FailClosing, Shutters
  <2>4. CASE /\ gs' = gs /\ co'.pc \in {"recover.rollback.wait", "recover.commit.wait"}
             /\ \/ call'.pc \in {"idle", "reconcile.fail_close", "reconcile.rollback"}
                \/ call'.pc = "retry.effect" /\ PendingRecovery
                \/ /\ call'.pc \in {"fail_close.intent", "reconcile.open"}
                   /\ gs.st = "OPENING" /\ ~PendingRecovery
    <3>1. Owner'
      BY <2>4 DEF Owner, Closes, Opens, Undoing, Reconciles, Recoveries
    <3>2. GateEnded'
      BY <2>4 DEF GateEnded, Undone
    <3>3. call'.pc = "retry.effect" => gs.st \notin Exposed
      BY <1>0, <2>4 DEF PendingRecoveryKnown, Terminal, Exposed
    <3>4. RecoveryState' /\ ShutKnown'
      BY <2>4, <3>3 DEF RecoveryState, ShutKnown, Recoveries, FailClosing, Exposed
    <3>5. QED
      BY <3>1, <3>2, <3>4
  <2>5. QED
    BY <1>0, <2>1, <2>2, <2>3, <2>4, StartsFacts
<1>3. QED
  BY <1>1, <1>2 DEF GateSide

(* The gate side when the manager dies: no call is left.                      *)
LEMMA RestartGateSide ==
  ASSUME GatedInv, Restart
  PROVE  GateSide'
<1>0. GateSide
  BY DEF GatedInv
<1>1. UNCHANGED <<gs, journal, route>> /\ call' = Done("raised") /\ co'.pc = "idle"
  BY DEF Restart, CoEnd, CoDone
<1>2. Done("raised").pc = "idle"
  BY DEF Done
<1>3. Done("raised").oracle = FALSE
  BY DEF Done
<1>4. NoOracle'
  BY <1>1, <1>3 DEF NoOracle
<1>5. Owner' /\ ShutKnown' /\ RecoveryState' /\ GateEnded'
  BY <1>1, <1>2 DEF Owner, ShutKnown, RecoveryState, GateEnded, Closes, Opens, Undoing,
         Reconciles, Recoveries, FailClosing, Undone
<1>6. SeenHolds' /\ RestoredGate' /\ DrainIntended' /\ PendingRecoveryKnown'
  BY <1>0, <1>1, <1>2 DEF GateSide, SeenHolds, RestoredGate, DrainIntended,
         PendingRecoveryKnown, PendingRecovery, Opening
<1>7. QED
  BY <1>4, <1>5, <1>6 DEF GateSide

-----------------------------------------------------------------------------
(* The side of the plan. *)

(* Where nobody waits for the gate, it is neither opened nor closed.          *)
LEMMA UnattendedExposure ==
  ASSUME GateSide, GateMayDo, co.pc \notin Waits
  PROVE  gs'.st \in Exposed <=> gs.st \in Exposed
<1>1. call.pc \notin Opens \cup Undoing \cup Reconciles
  BY DEF GateSide, Owner, Waits
<1>2. gs.st \in Exposed => call.pc # "fail_close.commit"
  <2>1. Shutters \subseteq Waits /\ "fail_close.commit" \in FailClosing
    BY DEF Shutters, Waits, FailClosing
  <2>2. QED
    BY <2>1 DEF GateSide, ShutKnown
<1>3. Closing \cup {"recovery.finish"} \subseteq {"fail_close.commit"} \cup Undoing \cup Reconciles
      /\ {"open.commit", "reconcile.open"} \subseteq Opens \cup Reconciles
  BY DEF Closing, Undoing, Reconciles, Recoveries, Opens
<1>4. QED
  BY <1>1, <1>2, <1>3 DEF GateMayDo

(* A request is admitted to the generation that is routed.                    *)
LEMMA AdmissionRouted ==
  ASSUME TypeOK, Next, NEW r \in Requests
  PROVE  adm'[r].gen \in {adm[r].gen, route.gen}
<1>0. adm \in [Requests -> Admission]
  BY DEF TypeOK
<1>1. ASSUME NEW q \in Requests, Admit(q) PROVE adm'[r].gen \in {adm[r].gen, route.gen}
  BY <1>0, <1>1 DEF Admit
<1>2. ASSUME NEW q \in Requests, Finish(q) PROVE adm'[r].gen \in {adm[r].gen, route.gen}
  BY <1>0, <1>2 DEF Finish, Admission
<1>3. CASE adm' = adm
  BY <1>3
<1>4. Next => adm' = adm \/ \E q \in Requests : Admit(q) \/ Finish(q)
  <2>1. CASE Continue
    BY <2>1 DEF Continue, CloseQuery, CloseCommit, OpenEffect, OpenRefused, OpenQuery, OpenCommit,
       DrainCheck, FailCloseIntent, FailCloseEffect, FailCloseQuery, FailCloseCommit,
       RollbackEffect, RollbackQuery, RollbackClose, RollbackRequery, RollbackCommit,
       ReconcileFailCloseCommit, ReconcileRollbackCommit, ReconcileOpen, RetryEffect, RetryQuery,
       RetryCommit, RecoveryEffect, RecoveryQuery, RecoveryReceipt, RecoveryFinish
  <2>2. CASE Operate
    BY <2>2 DEF Operate, Stage, CloseIntent, DrainIntent, FailCloseCall, AdmitMismatch, OpenIntent,
       RollbackIntent
  <2>3. CASE Reconcile \/ Environment
    BY <2>3 DEF Reconcile, ReconcileFailClose, RetryStart, ReconcileRollback, ReconcileCancel,
       ReconcileQuery, Environment, CutOff, LeaseLost, Drift
  <2>4. QED
    BY <2>1, <2>2, <2>3 DEF Next, Traffic
<1>5. QED
  BY <1>1, <1>2, <1>3, <1>4

(* The plan side through the gate's own work: the gate opens only for a       *)
(* commit that waits, and an exposed gate closes only for a rollback.         *)
LEMMA WorksPlanSide ==
  ASSUME GatedInv, Works
  PROVE  PlanSide'
<1>0. /\ GatedTypeOK /\ GateSide /\ GateInv /\ ExposureInv /\ TypeOK /\ CallInState /\ PlanSide
      /\ Owner /\ ShutKnown /\ RecoveryState /\ SeenHolds
      /\ CoState /\ Logged /\ CommitRouted /\ UndoFrom /\ Pending /\ Recorded /\ ExposureOwned
  BY DEF GatedInv, GateSide, GateInv, PlanSide
<1>1. /\ Next /\ (Drift => route.gen = "pred") /\ ~RollbackIntent(TRUE) /\ ~Stage
      /\ UNCHANGED <<st, committed, hostReceipt, fallback, co>>
  BY <1>0, WorksFacts
<1>2. GateMayDo
  BY <1>0, <1>1, StepMayDo
<1>3. Owner'
  BY WorksGateSide DEF GateSide
<1>4. CoState'
  BY <1>0, <1>1 DEF CoState
<1>5. gs.st \notin Exposed /\ gs'.st \in Exposed =>
        /\ gs.st = "OPENING" /\ route.gen = "cand" /\ route' = route
        /\ co.pc \in {"commit.wait", "recover.rollback.wait", "recover.commit.wait"}
  <2> SUFFICES ASSUME gs.st \notin Exposed, gs'.st \in Exposed
               PROVE  /\ gs.st = "OPENING" /\ route.gen = "cand" /\ route' = route
                      /\ co.pc \in {"commit.wait", "recover.rollback.wait", "recover.commit.wait"}
    OBVIOUS
  <2>1. call.pc \in {"open.commit", "reconcile.open"} /\ call.seen = CandRoute /\ route' = route
    BY <1>2 DEF GateMayDo
  <2>2. gs.st = "OPENING" /\ route.gen = "cand"
    BY <1>0, <2>1 DEF CallInState, Opening, SeenHolds
  <2>3. QED
    BY <1>0, <2>1, <2>2 DEF Owner, Opens, Reconciles
<1>6. Logged'
  <2>1. st' \in {"CommitReady", "Effective"} => committed'
    BY <1>0, <1>1 DEF Logged
  <2>2. gs'.st \in Exposed => committed'
    BY <1>0, <1>1, <1>5 DEF Logged
  <2>3. gs'.st = "OPENING" => committed'
    <3>1. CASE gs.st = "OPENING"
      BY <1>0, <1>1, <3>1 DEF Logged
    <3>2. CASE gs.st # "OPENING" /\ gs'.st = "OPENING"
      <4>1. co.pc = "commit.wait"
        BY <1>1, <1>2, <1>3, <3>2 DEF GateMayDo, Owner, Opens
      <4>2. QED
        BY <1>0, <1>1, <4>1 DEF CoState, Logged
    <3>3. QED
      BY <3>1, <3>2
  <2>4. route'.gen = "cand" => committed'
    <3>1. route'.gen = "cand" /\ route.gen # "cand" => gs.st = "OPENING"
      BY <1>0, <1>2 DEF GateMayDo, CallInState, Opening
    <3>2. QED
      BY <1>0, <1>1, <3>1 DEF Logged
  <2>5. AdmittedIsCommitted'
    <3> SUFFICES ASSUME NEW r \in Requests, adm'[r].gen = "cand" PROVE committed'
      BY DEF AdmittedIsCommitted
    <3>1. adm[r].gen = "cand" \/ route.gen = "cand"
      BY <1>0, <1>1, AdmissionRouted
    <3>2. QED
      BY <1>0, <1>1, <3>1 DEF Logged, AdmittedIsCommitted
  <2>6. QED
    BY <2>1, <2>2, <2>3, <2>4, <2>5 DEF Logged
<1>7. CommitRouted'
  <2> SUFFICES ASSUME st = "CommitReady", gs'.st \in Exposed PROVE route'.gen = "cand"
    BY <1>1 DEF CommitRouted
  <2>1. CASE gs.st \notin Exposed
    BY <1>5, <2>1
  <2>2. CASE gs.st \in Exposed
    <3>1. route.gen = "cand"
      BY <1>0, <2>2 DEF CommitRouted
    <3>2. call.pc \notin {"fail_close.effect", "retry.effect", "recovery.effect"}
      <4>1. co.pc \notin Shutters
        BY <1>0 DEF CoState, Shutters
      <4>2. QED
        BY <1>0, <2>2, <4>1 DEF ShutKnown, FailClosing, RecoveryState, Recoveries
    <3>3. call.pc \notin {"rollback.close", "rollback.effect"}
      BY <1>0, <2>2 DEF Owner, Undoing, CoState, UndoFrom
    <3>4. QED
      BY <1>2, <3>1, <3>2, <3>3 DEF GateMayDo
  <2>3. QED
    BY <2>1, <2>2
<1>8. UndoFrom'
  BY <1>0, <1>1, <1>5 DEF UndoFrom
<1>9. co.pc \notin Waits => (gs'.st \in Exposed <=> gs.st \in Exposed)
  BY <1>0, <1>2, UnattendedExposure
<1>10. /\ gs.st \in Terminal \cup {NoRow} => gs'.st \in Terminal \cup {NoRow}
       /\ gs.st = "ROLLED_BACK" => gs'.st = "ROLLED_BACK"
       /\ Has(journal, "intent", "drain") => Has(journal', "intent", "drain")
  BY <1>1, <1>2 DEF GateMayDo, Terminal
<1>11. Pending'
  <2>1. \A p \in {"rollback.commit", "recover.finish", "recover.commit", "commit.receipt",
                  "lease.fallback"} : p \notin Waits
    BY DEF Waits
  <2>2. QED
    BY <1>0, <1>1, <1>9, <1>10, <2>1 DEF Pending
<1>12. Recorded'
  <2>1. st = "Effective" => co.pc \notin Waits
    BY <1>0 DEF CoState, Waits
  <2>2. QED
    BY <1>0, <1>1, <1>9, <1>10, <2>1 DEF Recorded
<1>13. ExposureOwned'
  <2> SUFFICES ASSUME gs'.st \in Exposed
               PROVE  \/ st \in {"CommitReady", "Effective", "Degraded", "Rollback"}
                      \/ fallback
                      \/ Has(journal', "intent", "drain")
                      \/ st = "FailedSafe" /\ hostReceipt = "failed"
    BY <1>1 DEF ExposureOwned
  <2>1. CASE gs.st \in Exposed
    BY <1>0, <1>10, <2>1 DEF ExposureOwned
  <2>2. CASE gs.st \notin Exposed
    BY <1>0, <1>5, <2>2 DEF CoState
  <2>3. QED
    BY <2>1, <2>2
<1>14. QED
  BY <1>4, <1>6, <1>7, <1>8, <1>11, <1>12, <1>13 DEF PlanSide

(* The plan side when the coordinator calls the gate: no table but the gate's *)
(* moves.                                                                     *)
LEMMA StartsPlanSide ==
  ASSUME GatedInv, Starts
  PROVE  PlanSide'
<1>0. /\ GatedTypeOK /\ GateInv /\ ExposureInv /\ TypeOK
      /\ CoState /\ Logged /\ CommitRouted /\ UndoFrom /\ Pending /\ Recorded /\ ExposureOwned
  BY DEF GatedInv, GateInv, PlanSide
<1>1. /\ call.pc = "idle" /\ UNCHANGED <<st, committed, hostReceipt, fallback, adm, route>>
      /\ Stage => PlanStage
  BY <1>0, StartsFacts
<1>2. GateMayDo
  BY <1>0, StartsFacts, StepMayDo, StillMayDo DEF Reads
<1>3. \/ PlanStage /\ co'.pc = "idle"
      \/ co.pc = "prepare.close" /\ co'.pc = "prepare.wait"
      \/ co.pc = "commit.open" /\ co'.pc = "commit.wait"
      \/ co.pc = "rollback.gate" /\ co'.pc = "rollback.wait"
      \/ co.pc = "recover.undo" /\ co'.pc = "recover.undo.wait"
      \/ co.pc = "rollback.close" /\ co'.pc = "rollback.close.wait"
      \/ co.pc = "recover.close" /\ co'.pc = "recover.close.wait"
      \/ st = "Rollback" /\ co'.pc = "recover.rollback.wait"
      \/ st = "CommitReady" /\ co'.pc = "recover.commit.wait"
  BY <1>0, StartsFacts
<1>4. gs'.st \in Exposed <=> gs.st \in Exposed
  BY <1>1, <1>2 DEF GateMayDo, Closing
<1>5. CoState'
  BY <1>0, <1>1, <1>3 DEF CoState
<1>6. UndoFrom'
  BY <1>0, <1>1, <1>3, <1>4 DEF UndoFrom
<1>7. Pending'
  BY <1>3 DEF Pending
<1>8. Logged'
  <2>1. gs'.st = "OPENING" /\ gs.st # "OPENING" => co.pc = "commit.open"
    BY <1>0, <1>2, StartsFacts DEF GateMayDo
  <2>2. gs'.st \in Exposed \cup {"OPENING"} => committed
    BY <1>0, <1>4, <2>1 DEF Logged, CoState
  <2>3. QED
    BY <1>0, <1>1, <2>2 DEF Logged, AdmittedIsCommitted
<1>9. CommitRouted'
  BY <1>0, <1>1, <1>4 DEF CommitRouted
<1>10. Recorded'
  <2>1. PlanStage => st = "Planned"
    BY <1>0 DEF PlanStage, CoAt, CoState
  <2>2. st # "Planned" /\ gs.st \in Terminal \cup {NoRow} => gs'.st \in Terminal \cup {NoRow}
    BY <1>1, <1>2, <2>1 DEF GateMayDo
  <2>3. gs.st = "ROLLED_BACK" => gs'.st = "ROLLED_BACK"
    BY <1>2 DEF GateMayDo, Terminal
  <2>4. QED
    BY <1>0, <1>1, <1>4, <2>2, <2>3 DEF Recorded
<1>11. ExposureOwned'
  BY <1>0, <1>1, <1>2, <1>4 DEF ExposureOwned, GateMayDo
<1>12. QED
  BY <1>5, <1>6, <1>7, <1>8, <1>9, <1>10, <1>11 DEF PlanSide

(* The plan side when the manager dies: the tables stand.                     *)
LEMMA RestartPlanSide ==
  ASSUME GatedInv, Restart
  PROVE  PlanSide'
<1>0. CoState /\ Logged /\ CommitRouted /\ UndoFrom /\ Pending /\ Recorded /\ ExposureOwned
  BY DEF GatedInv, PlanSide
<1>1. UNCHANGED <<gs, journal, adm, route, st, committed, hostReceipt, fallback>>
      /\ co'.pc = "idle"
  BY DEF Restart, CoEnd, CoDone
<1>2. CoState' /\ UndoFrom' /\ Pending'
  BY <1>1 DEF CoState, UndoFrom, Pending
<1>3. Logged' /\ CommitRouted' /\ Recorded' /\ ExposureOwned'
  BY <1>0, <1>1 DEF Logged, AdmittedIsCommitted, CommitRouted, Recorded, ExposureOwned
<1>4. QED
  BY <1>2, <1>3 DEF PlanSide

(* Where the transition table leads from.                                     *)
LEMMA MovesFrom ==
  ASSUME NEW s
  PROVE  /\ "Preparing" \in Moves(s) => s = "Planned"
         /\ "Prepared" \in Moves(s) => s = "Preparing"
         /\ "Launching" \in Moves(s) => s = "Prepared"
         /\ "Observing" \in Moves(s) => s \in {"Launching", "Reconcile"}
         /\ "CommitReady" \in Moves(s) => s = "Observing"
         /\ "Effective" \in Moves(s) => s = "CommitReady"
         /\ "Degraded" \in Moves(s) => s \in {"Observing", "Effective"}
         /\ "Rollback" \in Moves(s) =>
              s \in {"Prepared", "Observing", "Effective", "Degraded", "Reconcile"}
  BY DEF Moves

(* What each verdict on a rollback says of the gate and of the host.          *)
LEMMA VerdictIs ==
  /\ Verdict \in {"RolledBack", "FailedSafe", "SafetyUnknown"}
  /\ Verdict = "SafetyUnknown" => gs.st = "SAFETY_UNKNOWN"
  /\ Verdict = "FailedSafe" => gs.st = "FAILED_SAFE" \/ hostReceipt # "done"
  /\ Verdict = "RolledBack" => gs.st \notin {"SAFETY_UNKNOWN", "FAILED_SAFE"} /\ hostReceipt = "done"
  BY DEF Verdict

(* The coordinator alone leaves the tables well typed.                        *)
LEMMA AloneTypes ==
  ASSUME GatedTypeOK, PlanSide, Alone
  PROVE  /\ st' \in State \cup {Absent} /\ committed' \in BOOLEAN /\ evidence' \in BOOLEAN
         /\ hostReceipt' \in {"none", "done", "failed"} /\ outcome' \subseteq BOOLEAN
         /\ fallback' \in BOOLEAN /\ co' \in [pc: CoPcs, tgt: State \cup {Absent}]
<1> USE DEF CoGoto, CoEnd, CoEndAt, CoDone, CoAt, CoIdle
<1>0. /\ st \in State \cup {Absent} /\ committed \in BOOLEAN /\ evidence \in BOOLEAN
      /\ hostReceipt \in {"none", "done", "failed"} /\ outcome \subseteq BOOLEAN
      /\ fallback \in BOOLEAN /\ co \in [pc: CoPcs, tgt: State \cup {Absent}]
  BY DEF GatedTypeOK
<1>1. co'.pc \in CoPcs
  BY AloneFacts
<1>2. /\ {"Planned", "Preparing", "Prepared", "Launching", "Observing", "CommitReady",
          "Effective", "Degraded", "Reconcile", "Rollback", "RolledBack", "FailedSafe",
          "SafetyUnknown", Absent} \subseteq State \cup {Absent}
      /\ Verdict \in State
  BY VerdictIs DEF State
<1>3. ASSUME NEW p, CoGoto(p) PROVE co' \in [pc: CoPcs, tgt: State \cup {Absent}]
  <2>1. co'.pc = p /\ co' = [co EXCEPT !.pc = p]
    BY <1>0, <1>3
  <2>2. QED
    BY <1>0, <1>1, <2>1
<1>4. ASSUME NEW p, NEW t \in State \cup {Absent}, CoEndAt(p, t)
      PROVE  co' \in [pc: CoPcs, tgt: State \cup {Absent}]
  BY <1>1, <1>4
<1>5. CoEnd => co' \in [pc: CoPcs, tgt: State \cup {Absent}]
  BY <1>2 DEF CoPcs
<1>6. co' \in [pc: CoPcs, tgt: State \cup {Absent}]
  <2>1. CASE PlanInsert \/ PlanUndo \/ PrepareWal \/ PrepareReceipt \/ PrepareSkip \/ PrepareEnd
             \/ LaunchWal \/ LaunchReceipt \/ CommitWal \/ CommitSkip \/ CommitAnswer
             \/ GateReceipt \/ LeaseDegrade \/ LeaseFallback \/ RollbackWal \/ RollbackHost
             \/ RollbackOutcome \/ RecoverUnstaged \/ RecoverFinish \/ RecoverCommit
             \/ RecoverEarly \/ ResumeObserving \/ MethodError
    <3>1. (\E p : CoGoto(p)) \/ CoEnd
      BY <2>1 DEF PlanInsert, PlanUndo, PrepareWal, PrepareReceipt, PrepareSkip, PrepareEnd,
         LaunchWal, LaunchReceipt, CommitWal, CommitSkip, CommitAnswer, GateReceipt,
         LeaseDegrade, LeaseFallback, RollbackWal, RollbackHost, RollbackOutcome,
         RecoverUnstaged, RecoverFinish, RecoverCommit, RecoverEarly, ResumeObserving,
         MethodError
    <3>2. QED
      BY <1>3, <1>5, <3>1
  <2>2. CASE Observe
    BY <1>0, <2>2 DEF Observe
  <2>3. CASE RollbackUnstaged \/ RollbackAnswer \/ RollbackClosed \/ RecoverAnswer
             \/ RecoverClosed \/ RecoverCommitAnswer \/ RecoverUndone
    <3>1. (\E p : CoGoto(p)) \/ CoEnd \/ (\E p, t : t \in State \cup {Absent} /\ CoEndAt(p, t))
      <4>1. {"SafetyUnknown", "Effective", "Reconcile", Verdict} \subseteq State \cup {Absent}
        BY <1>2
      <4>2. QED
        BY <2>3, <4>1 DEF RollbackUnstaged, RollbackAnswer, RollbackClosed, RecoverAnswer, RecoverClosed,
           RecoverCommitAnswer, RecoverUndone
    <3>2. QED
      BY <1>3, <1>4, <1>5, <3>1
  <2>4. QED
    BY <2>1, <2>2, <2>3 DEF Alone
<1>7. ASSUME NEW t \in State, Move(t) PROVE st' \in State
  BY <1>7 DEF Move
<1>8. CASE PlanInsert \/ PrepareWal \/ PrepareReceipt \/ LaunchWal \/ LaunchReceipt
           \/ GateReceipt \/ LeaseDegrade \/ LeaseFallback \/ RollbackWal \/ ResumeObserving
           \/ PlanUndo
  <2>1. UNCHANGED <<committed, evidence, hostReceipt, outcome, fallback>>
    BY <1>8 DEF PlanInsert, PrepareWal, PrepareReceipt, LaunchWal, LaunchReceipt, GateReceipt,
       LeaseDegrade, LeaseFallback, RollbackWal, ResumeObserving, PlanUndo, columns
  <2>2. st' \in State \cup {Absent}
    BY <1>2, <1>8 DEF PlanInsert, PrepareWal, PrepareReceipt, LaunchWal, LaunchReceipt, GateReceipt,
       LeaseDegrade, LeaseFallback, RollbackWal, ResumeObserving, PlanUndo, Move
  <2>3. QED
    BY <1>0, <1>6, <2>1, <2>2
<1>9. CASE RecoverCommit
  <2>1. UNCHANGED <<committed, evidence, hostReceipt, outcome, fallback>> /\ st' = co.tgt
    BY <1>9 DEF RecoverCommit, columns, Move
  <2>2. QED
    BY <1>0, <1>6, <2>1
<1>10. CASE RollbackOutcome \/ RecoverFinish
  <2>1. UNCHANGED <<committed, evidence, hostReceipt, fallback>> /\ st' = co.tgt
        /\ outcome' = outcome \cup {co.tgt = "RolledBack"}
    BY <1>10 DEF RollbackOutcome, RecoverFinish, Move
  <2>2. (co.tgt = "RolledBack") \in BOOLEAN
    OBVIOUS
  <2>3. outcome' \subseteq BOOLEAN
    BY <1>0, <2>1, <2>2
  <2>4. QED
    BY <1>0, <1>6, <2>1, <2>3
<1>11. CASE Observe \/ CommitWal \/ RollbackHost
  BY <1>0, <1>2, <1>6, <1>11 DEF Observe, CommitWal, RollbackHost, Move
<1>12. CASE PrepareSkip \/ PrepareEnd \/ CommitSkip \/ CommitAnswer \/ RollbackUnstaged
            \/ RollbackAnswer \/ RollbackClosed \/ RecoverUnstaged \/ RecoverAnswer
            \/ RecoverClosed \/ RecoverCommitAnswer \/ RecoverEarly \/ RecoverUndone \/ MethodError
  <2>1. UNCHANGED tables
    BY <1>12 DEF PrepareSkip, PrepareEnd, CommitSkip, CommitAnswer, RollbackUnstaged, RollbackAnswer,
       RollbackClosed, RecoverUnstaged, RecoverAnswer, RecoverClosed, RecoverCommitAnswer,
       RecoverEarly, RecoverUndone, MethodError
  <2>2. QED
    BY <1>0, <1>6, <2>1 DEF tables, columns
<1>13. QED
  BY <1>8, <1>9, <1>10, <1>11, <1>12 DEF Alone

(* A step that leaves the plan alone.                                         *)
LEMMA PlanKept ==
  ASSUME PlanSide, UNCHANGED <<gs, journal, adm, route, st, committed, hostReceipt, fallback>>,
         CoState', UndoFrom', Pending'
  PROVE  PlanSide'
<1>1. Logged' /\ CommitRouted' /\ Recorded' /\ ExposureOwned'
  BY DEF PlanSide, Logged, AdmittedIsCommitted, CommitRouted, Recorded, ExposureOwned
<1>2. QED
  BY <1>1 DEF PlanSide

(* A step that moves the plan, to no state that says something of the gate.   *)
LEMMA PlanMoved ==
  ASSUME PlanSide, UNCHANGED <<gs, journal, adm, route, committed, hostReceipt, fallback>>,
         st' \notin {"CommitReady", "Effective", "RolledBack", "SafetyUnknown"},
         st # "FailedSafe",
         \/ st \notin {"CommitReady", "Effective", "Degraded", "Rollback"}
         \/ st' \in {"Degraded", "Rollback"}
         \/ fallback
         \/ Has(journal, "intent", "drain")
         \/ gs.st \notin Exposed,
         CoState', UndoFrom', Pending'
  PROVE  PlanSide'
<1>1. Logged' /\ CommitRouted' /\ Recorded'
  BY DEF PlanSide, Logged, AdmittedIsCommitted, CommitRouted, Recorded
<1>2. ExposureOwned'
  BY DEF PlanSide, ExposureOwned
<1>3. QED
  BY <1>1, <1>2 DEF PlanSide

(* The plan side through the steps of the coordinator alone: what it records  *)
(* of the gate is what it has read, and the gate has not moved since.         *)
LEMMA AlonePlanSide ==
  ASSUME GatedInv, Alone
  PROVE  PlanSide'
<1> USE DEF CoAt, CoIdle, Move
<1>0. /\ GatedTypeOK /\ PlanSide /\ GateEnded /\ DrainIntended
      /\ CoState /\ Logged /\ CommitRouted /\ UndoFrom /\ Pending /\ Recorded /\ ExposureOwned
      /\ co \in [pc: CoPcs, tgt: State \cup {Absent}]
      /\ hostReceipt \in {"none", "done", "failed"}
  BY DEF GatedInv, PlanSide, GateSide, GatedTypeOK
<1>1. UNCHANGED <<gs, journal, adm, route, call>>
  BY <1>0, AloneFacts
<1>2. ASSUME NEW p, CoGoto(p) PROVE co'.pc = p
  BY <1>0, <1>2 DEF CoGoto
<1>3. CoEnd => co'.pc = "idle"
  BY DEF CoEnd, CoDone
<1>4. ASSUME NEW p, NEW t, CoEndAt(p, t) PROVE co'.pc = p /\ co'.tgt = t
  BY <1>4 DEF CoEndAt
<1>5. ASSUME UNCHANGED tables PROVE UNCHANGED <<st, committed, hostReceipt, fallback>>
  BY <1>5 DEF tables, columns
<1>6. ASSUME UNCHANGED columns PROVE UNCHANGED <<committed, hostReceipt, fallback>>
  BY <1>6 DEF columns
<1>7. ASSUME co'.pc = "idle" PROVE CoState' /\ UndoFrom' /\ Pending'
  BY <1>7 DEF CoState, UndoFrom, Pending
<1>8. CASE PrepareSkip \/ PrepareEnd \/ CommitSkip \/ RecoverUnstaged \/ MethodError
  <2>1. UNCHANGED tables /\ CoEnd
    BY <1>8 DEF PrepareSkip, PrepareEnd, CommitSkip, RecoverUnstaged, MethodError
  <2>2. QED
    BY <1>0, <1>1, <1>3, <1>5, <1>7, <2>1, PlanKept
<1>9. CASE Observe
  <2>1. UNCHANGED <<st, committed, hostReceipt, fallback, co>>
    BY <1>9 DEF Observe
  <2>2. CoState' /\ UndoFrom' /\ Pending'
    BY <1>0, <1>1, <2>1 DEF CoState, UndoFrom, Pending
  <2>3. QED
    BY <1>0, <1>1, <2>1, <2>2, PlanKept
<1>10. CASE PlanInsert
  <2>1. st = Absent /\ st' = "Planned" /\ co'.pc = "plan.stage"
        /\ UNCHANGED <<committed, hostReceipt, fallback>>
    BY <1>2, <1>6, <1>10 DEF PlanInsert
  <2>2. CoState' /\ UndoFrom' /\ Pending'
    BY <2>1 DEF CoState, UndoFrom, Pending
  <2>3. QED
    BY <1>0, <1>1, <2>1, <2>2, PlanMoved DEF Absent
<1>11. CASE PlanUndo
  <2>1. st = "Planned" /\ st' = Absent /\ co'.pc = "idle"
        /\ UNCHANGED <<committed, hostReceipt, fallback>>
    BY <1>0, <1>3, <1>6, <1>11 DEF PlanUndo, CoState
  <2>2. QED
    BY <1>0, <1>1, <1>7, <2>1, PlanMoved DEF Absent
<1>12. CASE PrepareWal \/ PrepareReceipt \/ LaunchWal
  <2>1. UNCHANGED <<committed, hostReceipt, fallback>>
    BY <1>6, <1>12 DEF PrepareWal, PrepareReceipt, LaunchWal
  <2>2. \/ st = "Planned" /\ st' = "Preparing" /\ co'.pc = "prepare.receipt"
        \/ st = "Preparing" /\ st' = "Prepared" /\ co'.pc = "prepare.close"
        \/ st = "Prepared" /\ st' = "Launching" /\ co'.pc = "launch.receipt"
    BY <1>2, <1>12, MovesFrom DEF PrepareWal, PrepareReceipt, LaunchWal
  <2>3. CoState' /\ UndoFrom' /\ Pending'
    BY <2>2 DEF CoState, UndoFrom, Pending
  <2>4. QED
    BY <1>0, <1>1, <2>1, <2>2, <2>3, PlanMoved
<1>13. CASE LaunchReceipt \/ ResumeObserving
  <2>1. UNCHANGED <<committed, hostReceipt, fallback>> /\ co'.pc = "idle" /\ st' = "Observing"
    BY <1>3, <1>6, <1>13 DEF LaunchReceipt, ResumeObserving
  <2>2. st \in {"Launching", "Reconcile"}
    BY <1>13, MovesFrom DEF LaunchReceipt, ResumeObserving
  <2>3. QED
    BY <1>0, <1>1, <1>7, <2>1, <2>2, PlanMoved
<1>14. CASE LeaseDegrade
  <2>1. UNCHANGED <<committed, hostReceipt, fallback>> /\ st' = "Degraded"
        /\ co'.pc = IF fallback THEN "lease.fallback" ELSE "rollback.wal"
    BY <1>2, <1>6, <1>14 DEF LeaseDegrade
  <2>2. st \in {"Observing", "Effective"}
    BY <1>14, MovesFrom DEF LeaseDegrade
  <2>3. CoState' /\ UndoFrom' /\ Pending'
    BY <2>1 DEF CoState, UndoFrom, Pending
  <2>4. QED
    BY <1>0, <1>1, <2>1, <2>2, <2>3, PlanMoved
<1>15. CASE LeaseFallback
  <2>1. UNCHANGED <<committed, hostReceipt, fallback>> /\ st' = "Reconcile" /\ co'.pc = "idle"
        /\ co.pc = "lease.fallback"
    BY <1>3, <1>6, <1>15 DEF LeaseFallback
  <2>2. fallback /\ st = "Degraded"
    BY <1>0, <2>1 DEF Pending, CoState
  <2>3. QED
    BY <1>0, <1>1, <1>7, <2>1, <2>2, PlanMoved
<1>16. CASE RollbackWal
  <2>1. UNCHANGED <<committed, hostReceipt, fallback>> /\ st' = "Rollback"
        /\ co'.pc = "rollback.host"
    BY <1>2, <1>6, <1>16 DEF RollbackWal
  <2>2. st # "FailedSafe"
    BY <1>16, MovesFrom DEF RollbackWal
  <2>3. CoState' /\ UndoFrom' /\ Pending'
    BY <2>1 DEF CoState, UndoFrom, Pending
  <2>4. QED
    BY <1>0, <1>1, <2>1, <2>2, <2>3, PlanMoved
<1>17. CASE CommitWal
  <2>1. ~committed /\ committed' /\ st' = "CommitReady" /\ co'.pc = "commit.open"
        /\ UNCHANGED <<hostReceipt, fallback>>
    BY <1>2, <1>17 DEF CommitWal
  <2>2. gs.st \notin Exposed
    BY <1>0, <2>1 DEF Logged
  <2>3. CoState' /\ UndoFrom' /\ Pending'
    BY <2>1 DEF CoState, UndoFrom, Pending
  <2>4. Logged' /\ CommitRouted' /\ Recorded' /\ ExposureOwned'
    BY <1>1, <2>1, <2>2 DEF Logged, AdmittedIsCommitted, CommitRouted, Recorded, ExposureOwned
  <2>5. QED
    BY <2>3, <2>4 DEF PlanSide
<1>18. ASSUME UNCHANGED columns, st' = "Effective", gs.st \in Exposed, st = "CommitReady", CoEnd
       PROVE  PlanSide'
  <2>1. UNCHANGED <<committed, hostReceipt, fallback>> /\ co'.pc = "idle"
    BY <1>3, <1>6, <1>18
  <2>2. Logged' /\ CommitRouted' /\ Recorded' /\ ExposureOwned'
    BY <1>0, <1>1, <1>18, <2>1
    DEF Logged, AdmittedIsCommitted, CommitRouted, Recorded, ExposureOwned
  <2>3. QED
    BY <1>7, <2>1, <2>2 DEF PlanSide
<1>19. CASE GateReceipt
  <2>1. UNCHANGED columns /\ st' = "Effective" /\ CoEnd /\ co.pc = "commit.receipt"
    BY <1>19 DEF GateReceipt
  <2>2. gs.st \in Exposed /\ st = "CommitReady"
    BY <1>0, <2>1 DEF Pending, CoState
  <2>3. QED
    BY <1>18, <2>1, <2>2
<1>20. CASE RecoverCommit
  <2>1. UNCHANGED columns /\ st' = co.tgt /\ CoEnd /\ co.pc = "recover.commit"
    BY <1>20 DEF RecoverCommit
  <2>2. CASE co.tgt = "Effective"
    BY <1>0, <1>18, <2>1, <2>2 DEF Pending
  <2>3. CASE co.tgt = "Reconcile" /\ (gs.st \notin Exposed \/ Has(journal, "intent", "drain"))
    <3>1. st \in {"Preparing", "Launching", "Observing", "CommitReady"}
      BY <1>0, <2>1 DEF CoState
    <3>2. UNCHANGED <<committed, hostReceipt, fallback>> /\ co'.pc = "idle"
      BY <1>3, <1>6, <2>1
    <3>3. QED
      BY <1>0, <1>1, <1>7, <2>1, <2>3, <3>1, <3>2, PlanMoved
  <2>4. QED
    BY <1>0, <2>1, <2>2, <2>3 DEF Pending
<1>21. CASE RollbackHost
  <2>1. UNCHANGED <<st, committed, fallback>> /\ co'.pc = "rollback.gate" /\ st = "Rollback"
    BY <1>0, <1>2, <1>21 DEF RollbackHost, CoState
  <2>2. CoState' /\ UndoFrom' /\ Pending'
    BY <2>1 DEF CoState, UndoFrom, Pending
  <2>3. Logged' /\ CommitRouted' /\ Recorded' /\ ExposureOwned'
    BY <1>0, <1>1, <2>1 DEF Logged, AdmittedIsCommitted, CommitRouted, Recorded, ExposureOwned
  <2>4. QED
    BY <2>2, <2>3 DEF PlanSide
<1>22. CASE RollbackOutcome \/ RecoverFinish
  <2>1. UNCHANGED <<committed, hostReceipt, fallback>> /\ st' = co.tgt /\ co'.pc = "idle"
        /\ co.pc \in {"rollback.commit", "recover.finish"}
    BY <1>3, <1>22 DEF RollbackOutcome, RecoverFinish
  <2>2. /\ co.tgt \in {"RolledBack", "FailedSafe", "SafetyUnknown"}
        /\ co.tgt = "RolledBack" => gs.st = "ROLLED_BACK" /\ hostReceipt = "done"
        /\ co.tgt = "SafetyUnknown" => gs.st \in Terminal \cup {NoRow}
        /\ co.tgt = "FailedSafe" => gs.st \notin Exposed \/ hostReceipt = "failed"
    BY <1>0, <2>1 DEF Pending
  <2>3. Logged' /\ CommitRouted' /\ Recorded'
    BY <1>0, <1>1, <2>1, <2>2 DEF Logged, AdmittedIsCommitted, CommitRouted, Recorded
  <2>4. ExposureOwned'
    BY <1>1, <2>1, <2>2 DEF ExposureOwned, Exposed, Terminal, NoRow
  <2>5. QED
    BY <1>7, <2>1, <2>3, <2>4 DEF PlanSide
<1>23. ASSUME UNCHANGED tables, CoState', UndoFrom', Pending' PROVE PlanSide'
  BY <1>0, <1>1, <1>5, <1>23, PlanKept
<1>24. CASE CommitAnswer
  <2>1. UNCHANGED tables /\ co.pc = "commit.wait" /\ st' = st /\ st = "CommitReady"
    BY <1>0, <1>5, <1>24 DEF CommitAnswer, Answered, CoState
  <2>2. co'.pc = "idle" \/ (co'.pc = "commit.receipt" /\ gs.st \in Exposed)
    BY <1>2, <1>3, <1>24 DEF CommitAnswer, CommitOpened, Exposed
  <2>3. CoState' /\ UndoFrom' /\ Pending'
    BY <1>1, <2>1, <2>2 DEF CoState, UndoFrom, Pending
  <2>4. QED
    BY <1>23, <2>1, <2>3
<1>25. CASE RollbackUnstaged
  <2>1. UNCHANGED tables /\ st' = st /\ st = "Rollback" /\ gs.st = NoRow
        /\ co'.pc = "rollback.commit" /\ co'.tgt = "SafetyUnknown"
    BY <1>0, <1>4, <1>5, <1>25 DEF RollbackUnstaged, Staged, CoState
  <2>2. CoState' /\ UndoFrom' /\ Pending'
    BY <1>1, <2>1 DEF CoState, UndoFrom, Pending
  <2>3. QED
    BY <1>23, <2>1, <2>2
<1>26. ASSUME NEW p \in {"rollback.commit", "recover.finish"}, CoEndAt(p, Verdict), st = "Rollback",
              UNCHANGED tables, gs.st \in Terminal \/ hostReceipt = "failed"
       PROVE  PlanSide'
  <2>1. co'.pc = p /\ co'.tgt = Verdict /\ UNCHANGED <<st, committed, hostReceipt, fallback>>
    BY <1>4, <1>5, <1>26
  <2>2. CoState' /\ UndoFrom'
    BY <1>26, <2>1 DEF CoState, UndoFrom
  <2>3. Pending'
    BY <1>1, <1>26, <2>1, VerdictIs DEF Pending, Terminal, Exposed
  <2>4. QED
    BY <1>23, <1>26, <2>2, <2>3
<1>27. CASE RollbackAnswer
  <2>1. UNCHANGED tables /\ co.pc = "rollback.wait" /\ st' = st /\ st = "Rollback"
        /\ call.pc = "idle"
    BY <1>0, <1>5, <1>27 DEF RollbackAnswer, Answered, CoState, At
  <2>2. CASE Returned /\ CoEndAt("rollback.commit", Verdict)
    <3>1. gs.st \in Terminal
      BY <1>0, <2>1, <2>2 DEF GateEnded, Undone, Returned
    <3>2. QED
      BY <1>26, <2>1, <2>2, <3>1
  <2>3. CASE CoGoto("rollback.close")
    <3>1. co'.pc = "rollback.close"
      BY <1>2, <2>3
    <3>2. CoState' /\ UndoFrom' /\ Pending'
      BY <2>1, <3>1 DEF CoState, UndoFrom, Pending
    <3>3. QED
      BY <1>23, <2>1, <3>2
  <2>4. QED
    BY <1>27, <2>2, <2>3 DEF RollbackAnswer
<1>28. CASE RollbackClosed
  <2>1. UNCHANGED tables /\ co.pc = "rollback.close.wait" /\ st' = st /\ st = "Rollback"
        /\ call.pc = "idle"
    BY <1>0, <1>5, <1>28 DEF RollbackClosed, Answered, CoState, At
  <2>2. gs.st \in Terminal
    BY <1>0, <2>1 DEF GateEnded
  <2>3. CASE CoEndAt("rollback.commit", Verdict)
    BY <1>26, <2>1, <2>2, <2>3
  <2>4. CASE CoEndAt("rollback.commit", "SafetyUnknown")
    <3>1. co'.pc = "rollback.commit" /\ co'.tgt = "SafetyUnknown"
      BY <1>4, <2>4
    <3>2. CoState' /\ UndoFrom' /\ Pending'
      BY <1>1, <2>1, <2>2, <3>1 DEF CoState, UndoFrom, Pending
    <3>3. QED
      BY <1>23, <2>1, <3>2
  <2>5. QED
    BY <1>28, <2>3, <2>4 DEF RollbackClosed
<1>29. CASE RecoverAnswer
  <2>1. UNCHANGED tables /\ st' = st /\ st = "Rollback"
    BY <1>0, <1>5, <1>29 DEF RecoverAnswer, Answered, CoState
  <2>2. CASE CoEnd
    BY <1>3, <1>7, <1>23, <2>1, <2>2
  <2>3. CASE CoGoto("recover.close")
    <3>1. co'.pc = "recover.close"
      BY <1>2, <2>3
    <3>2. CoState' /\ UndoFrom' /\ Pending'
      BY <2>1, <3>1 DEF CoState, UndoFrom, Pending
    <3>3. QED
      BY <1>23, <2>1, <3>2
  <2>4. CASE ~NeedsClose /\ CoEndAt("recover.finish", Verdict)
    <3>1. gs.st \in Terminal \/ hostReceipt = "failed"
      BY <1>0, <2>4 DEF NeedsClose
    <3>2. QED
      BY <1>26, <2>1, <2>4, <3>1
  <2>5. QED
    BY <1>29, <2>2, <2>3, <2>4 DEF RecoverAnswer
<1>30. CASE RecoverClosed
  <2>1. UNCHANGED tables /\ co.pc = "recover.close.wait" /\ st' = st /\ st = "Rollback"
        /\ call.pc = "idle"
    BY <1>0, <1>5, <1>30 DEF RecoverClosed, Answered, CoState, At
  <2>2. CASE CoEnd
    BY <1>3, <1>7, <1>23, <2>1, <2>2
  <2>3. CASE Returned /\ CoEndAt("recover.finish", Verdict)
    <3>1. gs.st \in Terminal
      BY <1>0, <2>1, <2>3 DEF GateEnded, Undone, Returned
    <3>2. QED
      BY <1>26, <2>1, <2>3, <3>1
  <2>4. QED
    BY <1>30, <2>2, <2>3 DEF RecoverClosed
<1>31. CASE RecoverCommitAnswer
  <2>1. UNCHANGED tables /\ st' = st /\ st = "CommitReady"
    BY <1>0, <1>5, <1>31 DEF RecoverCommitAnswer, Answered, CoState
  <2>2. CASE CoEnd
    BY <1>3, <1>7, <1>23, <2>1, <2>2
  <2>3. CASE gs.st = "CANDIDATE_OPEN" /\ CoEndAt("recover.commit", "Effective")
    <3>1. co'.pc = "recover.commit" /\ co'.tgt = "Effective"
      BY <1>4, <2>3
    <3>2. CoState' /\ UndoFrom' /\ Pending'
      BY <1>1, <2>1, <2>3, <3>1 DEF CoState, UndoFrom, Pending, Exposed
    <3>3. QED
      BY <1>23, <2>1, <3>2
  <2>4. CASE gs.st = "CANDIDATE_CLOSED" /\ CoGoto("recover.undo")
    <3>1. co'.pc = "recover.undo"
      BY <1>2, <2>4
    <3>2. CoState' /\ UndoFrom' /\ Pending'
      BY <1>1, <2>1, <2>4, <3>1 DEF CoState, UndoFrom, Pending, Exposed
    <3>3. QED
      BY <1>23, <2>1, <3>2
  <2>5. CASE gs.st # "CANDIDATE_OPEN" /\ CoEndAt("recover.commit", "Reconcile")
    <3>1. co'.pc = "recover.commit" /\ co'.tgt = "Reconcile"
      BY <1>4, <2>5
    <3>2. gs.st \notin Exposed \/ Has(journal, "intent", "drain")
      BY <1>0, <2>5 DEF DrainIntended, Exposed
    <3>3. CoState' /\ UndoFrom' /\ Pending'
      BY <1>1, <2>1, <3>1, <3>2 DEF CoState, UndoFrom, Pending
    <3>4. QED
      BY <1>23, <2>1, <3>3
  <2>6. QED
    BY <1>31, <2>2, <2>3, <2>4, <2>5 DEF RecoverCommitAnswer
<1>32. CASE RecoverEarly
  <2>1. UNCHANGED tables /\ st' = st /\ st \in {"Preparing", "Launching", "Observing"}
        /\ co'.pc = "recover.undo"
    BY <1>2, <1>5, <1>32 DEF RecoverEarly
  <2>2. CoState' /\ UndoFrom' /\ Pending'
    BY <2>1 DEF CoState, UndoFrom, Pending
  <2>3. QED
    BY <1>23, <2>1, <2>2
<1>33. CASE RecoverUndone
  <2>1. UNCHANGED tables /\ co.pc = "recover.undo.wait" /\ st' = st /\ call.pc = "idle"
        /\ st \in {"Preparing", "Launching", "Observing", "CommitReady"}
    BY <1>0, <1>5, <1>33 DEF RecoverUndone, Answered, CoState, At
  <2>2. CASE CoEnd
    BY <1>3, <1>7, <1>23, <2>1, <2>2
  <2>3. CASE Returned /\ CoEndAt("recover.commit", "Reconcile")
    <3>1. gs.st \in Terminal
      BY <1>0, <2>1, <2>3 DEF GateEnded, Undone, Returned
    <3>2. co'.pc = "recover.commit" /\ co'.tgt = "Reconcile" /\ gs.st \notin Exposed
      BY <1>4, <2>3, <3>1 DEF Terminal, Exposed
    <3>3. CoState' /\ UndoFrom' /\ Pending'
      BY <1>1, <2>1, <3>2 DEF CoState, UndoFrom, Pending
    <3>4. QED
      BY <1>23, <2>1, <3>3
  <2>4. QED
    BY <1>33, <2>2, <2>3 DEF RecoverUndone
<1>34. QED
  BY <1>8, <1>9, <1>10, <1>11, <1>12, <1>13, <1>14, <1>15, <1>16, <1>17, <1>19, <1>20, <1>21,
     <1>22, <1>24, <1>25, <1>27, <1>28, <1>29, <1>30, <1>31, <1>32, <1>33 DEF Alone

-----------------------------------------------------------------------------
(* The inductive invariant holds. *)

(* It holds before the plan exists.                                           *)
LEMMA InitGatedInv == GatedInit => GatedInv
<1> SUFFICES ASSUME GatedInit PROVE GatedInv
  OBVIOUS
<1>0. /\ Init /\ st = Absent /\ committed = FALSE /\ evidence = FALSE /\ hostReceipt = "none"
      /\ outcome = {} /\ fallback \in BOOLEAN /\ co = [pc |-> "idle", tgt |-> Absent]
  BY DEF GatedInit, CoDone
<1>1. GateInv
  BY <1>0, InitGateInv
<1>2. ExposureInv
  BY <1>0, InitExposureInv
<1>3. GatedTypeOK
  BY <1>0, <1>1 DEF GateInv, GatedTypeOK, CoPcs, Absent, State
<1>a. gs.st = NoRow /\ call.pc = "idle" /\ route.gen = "pred" /\ journal = <<>>
  BY <1>0 DEF Init, Done, PredRoute
<1>b. call.oracle = FALSE
  BY <1>0 DEF Init, Done
<1>4. GateSide
  <2>1. ~PendingRecovery
    BY <1>a DEF PendingRecovery, NeverReceipted, Has
  <2>2. QED
    BY <1>0, <1>a, <1>b, <2>1
    DEF GateSide, Owner, ShutKnown, RecoveryState, PendingRecoveryKnown, SeenHolds, NoOracle,
        RestoredGate, DrainIntended, GateEnded, Undone, Shutters, Closes, Opens, Undoing,
        Reconciles, Recoveries, FailClosing, NoRow
<1>5. PlanSide
  <2>1. \A r \in Requests : adm[r].gen # "cand"
    BY <1>0 DEF Init, NotAdmitted
  <2>2. QED
    BY <1>0, <1>a, <2>1
    DEF PlanSide, CoState, Logged, AdmittedIsCommitted, CommitRouted, UndoFrom, Pending, Recorded,
        ExposureOwned, Exposed, NoRow, Absent
<1>6. QED
  BY <1>1, <1>2, <1>3, <1>4, <1>5 DEF GatedInv

(* The coordinator's variables keep their types.                              *)
LEMMA StepGatedTypes ==
  ASSUME GatedInv, GatedNext
  PROVE  GatedTypeOK'
<1>0. /\ GatedTypeOK /\ GateInv /\ ExposureInv /\ PlanSide
      /\ co \in [pc: CoPcs, tgt: State \cup {Absent}]
  BY DEF GatedInv, GatedTypeOK
<1>1. TypeOK'
  BY <1>0, StepGate DEF GateInv
<1>2. CASE Alone
  BY <1>0, <1>1, <1>2, AloneTypes DEF GatedTypeOK
<1>3. CASE Works
  BY <1>0, <1>1, <1>3, WorksFacts DEF GatedTypeOK
<1>4. CASE Starts
  <2>1. CASE PlanStage
    BY <1>0, <1>1, <2>1 DEF PlanStage, CoEnd, CoDone, tables, columns, GatedTypeOK, CoPcs
  <2>2. ASSUME NEW p, NEW q \in CoPcs, Calls(p, q) PROVE GatedTypeOK'
    <3>1. co' = [co EXCEPT !.pc = q] /\ UNCHANGED <<st, committed, evidence, hostReceipt, outcome, fallback>>
      BY <2>2 DEF Calls, tables, columns
    <3>2. co' \in [pc: CoPcs, tgt: State \cup {Absent}]
      BY <1>0, <3>1
    <3>3. QED
      BY <1>0, <1>1, <3>1, <3>2 DEF GatedTypeOK
  <2>3. Waits \subseteq CoPcs
    BY DEF CoPcs
  <2>4. PlanStage \/ \E p : \E q \in Waits : Calls(p, q)
    <3>1. {"prepare.wait", "commit.wait", "rollback.wait", "recover.undo.wait",
           "rollback.close.wait", "recover.close.wait", "recover.rollback.wait",
           "recover.commit.wait"} \subseteq Waits
      BY DEF Waits
    <3>2. QED
      BY <1>4, <3>1 DEF Starts
  <2>5. QED
    BY <2>1, <2>2, <2>3, <2>4
<1>5. CASE Restart
  <2>1. co' \in [pc: CoPcs, tgt: State \cup {Absent}] /\ evidence' \in BOOLEAN
    BY <1>5 DEF Restart, CoEnd, CoDone, CoPcs
  <2>2. QED
    BY <1>0, <1>1, <1>5, <2>1 DEF Restart, GatedTypeOK
<1>6. QED
  BY <1>2, <1>3, <1>4, <1>5, Shapes

(* Every step of the composition keeps the inductive invariant.               *)
LEMMA StepGatedInv == GatedInv /\ [GatedNext]_gatedVars => GatedInv'
<1> SUFFICES ASSUME GatedInv, [GatedNext]_gatedVars PROVE GatedInv'
  OBVIOUS
<1>1. CASE GatedNext
  <2>1. GatedTypeOK /\ GateInv /\ ExposureInv
    BY DEF GatedInv
  <2>2. GateInv' /\ ExposureInv'
    BY <1>1, <2>1, StepGate
  <2>3. GatedTypeOK'
    BY <1>1, StepGatedTypes
  <2>4. GateSide'
    BY <1>1, Shapes, AloneGateSide, StartsGateSide, WorksGateSide, RestartGateSide
  <2>5. PlanSide'
    BY <1>1, Shapes, AlonePlanSide, StartsPlanSide, WorksPlanSide, RestartPlanSide
  <2>6. QED
    BY <2>2, <2>3, <2>4, <2>5 DEF GatedInv
<1>2. CASE UNCHANGED gatedVars
  <2>0. /\ UNCHANGED vars /\ UNCHANGED <<gs, journal, adm, route, leaseLive, call, budget>>
        /\ UNCHANGED <<st, committed, evidence, hostReceipt, outcome, fallback, co>>
    BY <1>2 DEF gatedVars, vars, tables, columns
  <2>1. GateInv' /\ ExposureInv'
    BY <2>0, StepGateInv, StepExposureInv DEF GatedInv
  <2>2. GatedTypeOK'
    BY <2>0, <2>1 DEF GatedInv, GatedTypeOK, GateInv
  <2>3. GateSide'
    BY <2>0 DEF GatedInv, GateSide, Owner, ShutKnown, RecoveryState, PendingRecoveryKnown,
       PendingRecovery, SeenHolds, NoOracle, RestoredGate, DrainIntended, GateEnded
  <2>4. CoState' /\ UndoFrom' /\ Pending'
    BY <2>0 DEF GatedInv, PlanSide, CoState, UndoFrom, Pending
  <2>5. PlanSide'
    BY <2>0, <2>4, PlanKept DEF GatedInv
  <2>6. QED
    BY <2>1, <2>2, <2>3, <2>5 DEF GatedInv
<1>3. QED
  BY <1>1, <1>2

(* So it holds of every behaviour of the composition.                         *)
LEMMA GatedInvariance == GatedSpec => []GatedInv
  BY InitGatedInv, StepGatedInv, PTL DEF GatedSpec

(* The rows of both databases and the coordinator's place have their types.   *)
THEOREM GatedTypes == GatedSpec => []GatedTypeOK
<1>1. GatedInv => GatedTypeOK
  BY DEF GatedInv
<1>2. QED
  BY <1>1, GatedInvariance, PTL

(* Through every crash and adapter error between the two databases, a plan is *)
(* Effective only over an open gate, RolledBack only over a gate that         *)
(* measured the predecessor route, SafetyUnknown never over an open gate.     *)
THEOREM OutcomesHold == GatedSpec => []OutcomesAgree
<1>1. GatedInv => OutcomesAgree
  <2>1. (Terminal \cup {NoRow}) \cap Exposed = {}
    BY DEF Terminal, NoRow, Exposed
  <2>2. QED
    BY <2>1 DEF GatedInv, PlanSide, Recorded, OutcomesAgree
<1>2. QED
  BY <1>1, GatedInvariance, PTL

(* The gate admits a request to the candidate only when the coordinator's     *)
(* database has the commit WAL row.                                           *)
THEOREM AdmissionsCommitted == GatedSpec => []AdmittedIsCommitted
<1>1. GatedInv => AdmittedIsCommitted
  BY DEF GatedInv, PlanSide, Logged
<1>2. QED
  BY <1>1, GatedInvariance, PTL

(* No plan leaves an admitting gate behind, but with a proven fallback, a     *)
(* draining gate that recover() took for closed, or a host rollback that had  *)
(* failed.                                                                    *)
THEOREM ExposureHasOwner == GatedSpec => []ExposureOwned
<1>1. GatedInv => ExposureOwned
  BY DEF GatedInv, PlanSide
<1>2. QED
  BY <1>1, GatedInvariance, PTL

-----------------------------------------------------------------------------
(* The activation contract. *)

Ends == {"RolledBack", "FailedSafe", "SafetyUnknown"}

(* The phase each state is in.                                                *)
LEMMA PhaseAt ==
  /\ st \in Ends => Phase = st
  /\ st = "Effective" => Phase = "effective"
  /\ st = "CommitReady" => Phase = "committed"
  /\ st \notin Ends \cup {"Effective", "CommitReady"} =>
       Phase = (IF committed THEN "lapsed" ELSE "candidate")
  BY DEF Phase, Ends

(* What the coordinator alone may do to a plan.                               *)
Logs == st = "Observing" /\ ~committed /\ st' = "CommitReady" /\ committed' = TRUE
Confirms == st = "CommitReady" /\ st' = "Effective" /\ route.gen = "cand" /\ committed' = committed
Finishes ==
  /\ st = "Rollback" /\ st' \in Ends /\ committed' = committed
  /\ st' = "RolledBack" => route.gen # "cand"
Wanders == st \notin Ends /\ st' \notin Ends \cup {"CommitReady", "Effective"} /\ committed' = committed

(* Every step of the coordinator alone is one of these, or leaves the plan.   *)
LEMMA AloneMoves ==
  ASSUME GatedInv, Alone
  PROVE  Logs \/ Confirms \/ Finishes \/ Wanders \/ UNCHANGED <<st, committed>>
<1> USE DEF CoAt, CoIdle, Move
<1>0. /\ CoState /\ Pending /\ CommitRouted /\ RestoredGate /\ Exposed \subseteq GateState
  BY DEF GatedInv, PlanSide, GateSide, Exposed, GateState
<1>1. \A t : t \in Moves(st) => st \notin Ends
  BY DEF Moves, Ends
<1>2. CASE PlanInsert \/ PlanUndo
  BY <1>0, <1>2 DEF PlanInsert, PlanUndo, columns, CoState, Wanders, Ends, Absent
<1>3. CASE PrepareWal \/ PrepareReceipt \/ LaunchWal \/ LaunchReceipt \/ LeaseDegrade
           \/ LeaseFallback \/ RollbackWal \/ ResumeObserving
  <2>1. /\ committed' = committed /\ st' \in Moves(st)
        /\ st' \in {"Preparing", "Prepared", "Launching", "Observing", "Degraded", "Reconcile", "Rollback"}
    BY <1>3 DEF PrepareWal, PrepareReceipt, LaunchWal, LaunchReceipt, LeaseDegrade,
       LeaseFallback, RollbackWal, ResumeObserving, columns
  <2>2. QED
    BY <1>1, <2>1 DEF Wanders, Ends
<1>4. CASE CommitWal
  BY <1>4, MovesFrom DEF CommitWal, Logs
<1>5. CASE GateReceipt
  <2>1. st = "CommitReady" /\ st' = "Effective" /\ committed' = committed /\ gs.st \in Exposed
    BY <1>0, <1>5 DEF GateReceipt, CoState, Pending, columns
  <2>2. QED
    BY <1>0, <2>1 DEF CommitRouted, Confirms
<1>6. CASE RecoverCommit
  <2>1. /\ st' = co.tgt /\ st' \in Moves(st) /\ committed' = committed
        /\ \/ co.tgt = "Effective" /\ st = "CommitReady" /\ gs.st \in Exposed
           \/ co.tgt = "Reconcile"
    BY <1>0, <1>6 DEF RecoverCommit, Pending, columns
  <2>2. QED
    BY <1>0, <1>1, <2>1 DEF CommitRouted, Confirms, Wanders, Ends
<1>7. CASE RollbackOutcome \/ RecoverFinish
  <2>1. /\ st' = co.tgt /\ committed' = committed /\ st = "Rollback" /\ co.tgt \in Ends
        /\ co.tgt = "RolledBack" => gs.st = "ROLLED_BACK"
    BY <1>0, <1>7 DEF RollbackOutcome, RecoverFinish, CoState, Pending, Ends
  <2>2. QED
    BY <1>0, <2>1 DEF RestoredGate, Finishes
<1>8. CASE Observe \/ RollbackHost
  BY <1>8 DEF Observe, RollbackHost
<1>9. CASE PrepareSkip \/ PrepareEnd \/ CommitSkip \/ CommitAnswer \/ RollbackUnstaged
           \/ RollbackAnswer \/ RollbackClosed \/ RecoverUnstaged \/ RecoverAnswer
           \/ RecoverClosed \/ RecoverCommitAnswer \/ RecoverEarly \/ RecoverUndone \/ MethodError
  <2>1. UNCHANGED tables
    BY <1>9 DEF PrepareSkip, PrepareEnd, CommitSkip, CommitAnswer, RollbackUnstaged, RollbackAnswer,
       RollbackClosed, RecoverUnstaged, RecoverAnswer, RecoverClosed, RecoverCommitAnswer,
       RecoverEarly, RecoverUndone, MethodError
  <2>2. QED
    BY <2>1 DEF tables, columns
<1>10. QED
  BY <1>2, <1>3, <1>4, <1>5, <1>6, <1>7, <1>8, <1>9 DEF Alone

(* Phase as a function of the two columns, so that it can be primed.          *)
LEMMA PhaseNext ==
  /\ st' \in Ends => Phase' = st'
  /\ st' = "Effective" => Phase' = "effective"
  /\ st' = "CommitReady" => Phase' = "committed"
  /\ st' \notin Ends \cup {"Effective", "CommitReady"} =>
       Phase' = (IF committed' THEN "lapsed" ELSE "candidate")
  BY DEF Phase, Ends

(* A step that moves the plan is a step of the contract, or none.             *)
LEMMA PlanSimulates ==
  ASSUME GatedInv, route' = route,
         Logs \/ Confirms \/ Finishes \/ Wanders \/ UNCHANGED <<st, committed>>
  PROVE  [Contract!Next]_(Contract!contractVars)
<1> USE DEF Contract!Next, Contract!contractVars
<1>0. st \in {"CommitReady", "Effective"} => committed
  BY DEF GatedInv, PlanSide, Logged
<1>a. (route.gen = "cand")' = (route.gen = "cand")
  OBVIOUS
<1>1. CASE Logs
  <2>1. Phase = "candidate" /\ Phase' = "committed"
    BY <1>1, PhaseAt, PhaseNext DEF Logs, Ends
  <2>2. Contract!Commit
    BY <1>a, <2>1 DEF Contract!Commit
  <2>3. QED
    BY <2>2
<1>2. CASE Confirms
  <2>1. Phase = "committed" /\ Phase' = "effective" /\ route.gen = "cand"
    BY <1>2, PhaseAt, PhaseNext DEF Confirms
  <2>2. Contract!Confirm
    BY <1>a, <2>1 DEF Contract!Confirm
  <2>3. QED
    BY <2>2
<1>3. CASE Finishes
  <2>1. Phase \in {"candidate", "lapsed"} /\ Phase' \in Ends /\ (Phase' = "RolledBack" => route.gen # "cand")
    BY <1>3, PhaseAt, PhaseNext DEF Finishes, Ends
  <2>2. Contract!End
    BY <1>a, <2>1 DEF Contract!End, Contract!Ended, Ends
  <2>3. QED
    BY <2>2
<1>4. CASE Wanders
  <2>1. CASE st \in {"CommitReady", "Effective"}
    <3>1. Phase \in {"committed", "effective"} /\ Phase' = "lapsed"
      BY <1>0, <1>4, <2>1, PhaseAt, PhaseNext DEF Wanders
    <3>2. Contract!Lapse
      BY <1>a, <3>1 DEF Contract!Lapse
    <3>3. QED
      BY <3>2
  <2>2. CASE st \notin {"CommitReady", "Effective"}
    <3>1. Phase' = Phase
      BY <1>4, <2>2, PhaseAt, PhaseNext DEF Wanders
    <3>2. QED
      BY <1>a, <3>1
  <2>3. QED
    BY <2>1, <2>2
<1>5. CASE UNCHANGED <<st, committed>>
  BY <1>a, <1>5 DEF Phase
<1>6. QED
  BY <1>1, <1>2, <1>3, <1>4, <1>5

(* So is a step of the gate: the route turns to the candidate only for a      *)
(* commit that stands, and may leave it at any time.                          *)
LEMMA RouteSimulates ==
  ASSUME GatedInv, Works
  PROVE  [Contract!Next]_(Contract!contractVars)
<1> USE DEF Contract!Next, Contract!contractVars
<1>0. GatedTypeOK /\ GateInv /\ ExposureInv /\ Owner /\ CoState
  BY DEF GatedInv, GateSide, PlanSide
<1>1. UNCHANGED <<st, committed>> /\ GateMayDo
  BY <1>0, WorksFacts, StepMayDo
<1>2. Phase' = Phase
  BY <1>1 DEF Phase
<1>3. CASE (route.gen = "cand")' = (route.gen = "cand")
  BY <1>2, <1>3
<1>4. CASE route'.gen = "cand" /\ route.gen # "cand"
  <2>1. call.pc = "open.effect"
    BY <1>1, <1>4 DEF GateMayDo
  <2>2. st = "CommitReady"
    BY <1>0, <2>1 DEF Owner, Opens, CoState
  <2>3. Contract!Expose
    BY <1>2, <1>4, <2>2, PhaseAt DEF Contract!Expose
  <2>4. QED
    BY <2>3
<1>5. CASE route.gen = "cand" /\ route'.gen # "cand"
  <2>1. Contract!Withdraw
    BY <1>2, <1>5 DEF Contract!Withdraw
  <2>2. QED
    BY <2>1
<1>6. QED
  BY <1>3, <1>4, <1>5

(* Every step of the composition is a step of the contract, or none.          *)
LEMMA GatedSimulates ==
  GatedInv /\ [GatedNext]_gatedVars => [Contract!Next]_(Contract!contractVars)
<1> SUFFICES ASSUME GatedInv, [GatedNext]_gatedVars
             PROVE  [Contract!Next]_(Contract!contractVars)
  OBVIOUS
<1>0. GatedTypeOK
  BY DEF GatedInv
<1>1. CASE Alone
  BY <1>0, <1>1, AloneFacts, AloneMoves, PlanSimulates
<1>2. CASE Starts
  BY <1>0, <1>2, StartsFacts, PlanSimulates
<1>3. CASE Restart
  BY <1>3, PlanSimulates DEF Restart
<1>4. CASE UNCHANGED gatedVars
  BY <1>4, PlanSimulates DEF gatedVars, vars, tables, columns
<1>5. QED
  BY <1>1, <1>2, <1>3, <1>4, RouteSimulates, Shapes

(* The coordinator over the exposure gate, two databases and every crash      *)
(* between them, keeps the activation contract: the candidate is exposed only *)
(* between its commit and its withdrawal, is Effective only when exposed and  *)
(* RolledBack only when it is not, commits once and stays ended.              *)
THEOREM GatedRefinement == GatedSpec => GateMeetsContract
<1>1. GatedInit => Contract!Init
  <2> SUFFICES ASSUME GatedInit PROVE Contract!Init
    OBVIOUS
  <2>1. st = Absent /\ committed = FALSE /\ route.gen = "pred"
    BY DEF GatedInit, Init, PredRoute
  <2>2. Phase = "candidate"
    BY <2>1, PhaseAt DEF Ends, Absent
  <2>3. QED
    BY <2>1, <2>2 DEF Contract!Init
<1>2. QED
  BY <1>1, GatedSimulates, GatedInvariance, PTL DEF GatedSpec, GateMeetsContract, Contract!Spec

=============================================================================
