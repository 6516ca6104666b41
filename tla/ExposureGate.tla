---------------------------- MODULE ExposureGate ----------------------------
(***************************************************************************)
(* The durable reference ExposureGate (src/vllm_hust_ext/exposure_gate.py):*)
(* one SQLite row (gate_state), an append-only journal (gate_transition),  *)
(* the admission table, and the traffic authority the gate drives.         *)
(*                                                                         *)
(* Every operation of ReferenceExposureGate is a sequence of steps, one    *)
(* per SQLite transaction and one per call of the traffic adapter, so an   *)
(* operation can be cut off (CutOff: a crash or an exception) between any  *)
(* two of them.  call.pc is the place the running operation has reached;   *)
(* the gate is single-writer, so at most one operation runs at a time.     *)
(*                                                                         *)
(* Calls the code rejects before its first write leave every table alone   *)
(* and are stuttering steps here.                                          *)
(***************************************************************************)
EXTENDS Naturals, Sequences

CONSTANTS
  Requests,            \* request identities presented to observe()
  MaxJournal,          \* bound: a call is started only below this journal length
  MaxFaults,           \* bound: crashes, adapter failures, drifts, lease losses
  SilentFaults,        \* may an adapter call return normally without its effect?
  BehavioralRestore    \* traffic.behavioral_restore

ASSUME GateConstants ==
  /\ MaxJournal \in Nat
  /\ MaxFaults \in Nat
  /\ SilentFaults \in BOOLEAN
  /\ BehavioralRestore \in BOOLEAN

VARIABLES
  gs,        \* the gate_state row
  journal,   \* the gate_transition table
  adm,       \* the admission table
  route,     \* the traffic authority's actual route
  leaseLive, \* the grant recorded at stage() is still the authority's, unexpired
  call,      \* the operation in progress and its local variables
  budget     \* faults still to come

vars == <<gs, journal, adm, route, leaseLive, call, budget>>

-----------------------------------------------------------------------------
(* States and the transition table. *)

GateState == {"PREDECESSOR_OPEN", "CANDIDATE_STAGED", "CANDIDATE_CLOSED", "OPENING",
              "CANDIDATE_OPEN", "DRAINING", "ROLLED_BACK", "FAILED_SAFE",
              "SAFETY_UNKNOWN"}
NoRow == "NO_ROW"        \* stage() has not inserted the row yet
Keep == "KEEP"           \* to_state NULL: the journal row changes no state
Terminal == {"ROLLED_BACK", "FAILED_SAFE", "SAFETY_UNKNOWN"}
PreOpen == {"PREDECESSOR_OPEN", "CANDIDATE_STAGED", "CANDIDATE_CLOSED"}
Exposed == {"CANDIDATE_OPEN", "DRAINING"}

TargetsUnchecked(s) == GateState                          \* mutant

Targets(s) ==
  CASE s = "PREDECESSOR_OPEN" -> {"CANDIDATE_STAGED", "FAILED_SAFE", "SAFETY_UNKNOWN"}
    [] s = "CANDIDATE_STAGED" -> {"CANDIDATE_CLOSED"} \cup Terminal
    [] s = "CANDIDATE_CLOSED" -> {"OPENING"} \cup Terminal
    [] s = "OPENING" -> {"CANDIDATE_OPEN", "FAILED_SAFE", "SAFETY_UNKNOWN"}
    [] s = "CANDIDATE_OPEN" -> {"DRAINING"} \cup Terminal
    [] s = "DRAINING" -> {"CANDIDATE_OPEN"} \cup Terminal
    [] OTHER -> {}

Allowed(s, t) == t = s \/ t \in Targets(s)

-----------------------------------------------------------------------------
(* Routes.  Generations, fences and snapshot digests are named by what the   *)
(* code compares them with; "other" and "bad" are any value that matches     *)
(* neither generation, "equiv" the behaviourally equivalent snapshot.        *)

Gens == {"pred", "cand", "other", "none"}
Fences == {"fence-pred", "fence-cand", "other", "closed", "unknown"}
Snaps == {"pred", "cand", "equiv", "bad", "none"}
Route == [gen: Gens, fence: Fences, snap: Snaps]

PredRoute == [gen |-> "pred", fence |-> "fence-pred", snap |-> "pred"]
CandRoute == [gen |-> "cand", fence |-> "fence-cand", snap |-> "cand"]
ClosedRoute == [gen |-> "none", fence |-> "closed", snap |-> "none"]
Unread == [gen |-> "none", fence |-> "unknown", snap |-> "none"]   \* query failed

IsClosed(r) == r.gen = "none" /\ r.fence = "closed"

-----------------------------------------------------------------------------
(* The journal. *)

Ops == {"stage", "close", "open", "open.reconcile", "open.reconcile.close_all",
        "drain", "rollback", "fail_close"}
Row == [kind: {"intent", "receipt"}, op: Ops, from: GateState,
        to: GateState \cup {Keep}]

Intent(o, f, t) == [kind |-> "intent", op |-> o, from |-> f, to |-> t]
Receipt(o, f, t) == [kind |-> "receipt", op |-> o, from |-> f, to |-> t]

Has(j, k, o) == \E i \in DOMAIN j : j[i].kind = k /\ j[i].op = o

(* "no receipt after the latest intent", the query reconcile() makes for      *)
(* fail_close and rollback.                                                   *)
Outstanding(j, o) ==
  \E i \in DOMAIN j :
    /\ j[i].kind = "intent" /\ j[i].op = o
    /\ \A k \in DOMAIN j : (j[k].kind = "receipt" /\ j[k].op = o) => k < i

(* "an intent and no receipt at all with that operation id", the query made   *)
(* for close and for the recovery close.                                      *)
NeverReceipted(j, o) == Has(j, "intent", o) /\ ~Has(j, "receipt", o)

(* Rows that record the candidate as open: the oracle's open_receipts.        *)
IsOpenReceipt(r) ==
  r.kind = "receipt" /\ r.to = "CANDIDATE_OPEN" /\ r.op \in {"open", "open.reconcile"}

-----------------------------------------------------------------------------
(* The running call. *)

Pcs == {"idle", "close.query", "close.commit", "open.effect", "open.query",
        "open.commit", "drain.check", "fail_close.intent", "fail_close.effect",
        "fail_close.query", "fail_close.commit", "rollback.effect",
        "rollback.query", "rollback.close", "rollback.requery", "rollback.commit",
        "reconcile.fail_close", "reconcile.rollback", "reconcile.open",
        "recovery.effect", "recovery.query", "recovery.receipt", "recovery.finish",
        "retry.effect", "retry.query", "retry.commit"}

Call == [pc: Pcs, seen: Route, tgt: GateState \cup {Keep}, err: BOOLEAN,
         oracle: BOOLEAN, ret: {"ok", "raised"}]

Done(r) == [pc |-> "idle", seen |-> Unread, tgt |-> Keep, err |-> FALSE,
            oracle |-> FALSE, ret |-> r]

At(p) == call.pc = p
Goto(p) == call' = [call EXCEPT !.pc = p, !.ret = "ok"]
Return == call' = Done("ok")
Raise == call' = Done("raised")

(* Start of a public method: nothing else is running and the row exists.      *)
Idle == At("idle") /\ gs.st # NoRow
Room == Len(journal) < MaxJournal

Spend == budget > 0 /\ budget' = budget - 1

-----------------------------------------------------------------------------
(* SQLite transactions. *)

(* _append: a journal row and nothing else. *)
Append1(r) == journal' = Append(journal, r) /\ gs' = gs

(* _transition: the row, the new state and its sequence number, in one        *)
(* transaction; rest is the row with the other columns written in it.  A      *)
(* target the table refuses aborts the transaction and raises.                *)
Transition(kind, o, t, rest) ==
  /\ Allowed(gs.st, t)
  /\ journal' = Append(journal, [kind |-> kind, op |-> o, from |-> gs.st, to |-> t])
  /\ gs' = [rest EXCEPT !.st = t, !.seq = Len(journal) + 1]

WithRouteSwapped(r) ==                                     \* mutant
  [gs EXCEPT !.routeGen = r.snap, !.routeFence = r.fence]

WithRoute(r) == [gs EXCEPT !.routeGen = r.gen, !.routeFence = r.fence]

(* A receipt that ends the call, or the exception of a refused transition.    *)
CommitReceipt(o, t, rest) ==
  \/ Transition("receipt", o, t, rest) /\ Return
  \/ ~Allowed(gs.st, t) /\ UNCHANGED <<gs, journal>> /\ Raise

-----------------------------------------------------------------------------
(* Calls of the traffic adapter. *)

(* query_route() in a try block: the route, or a failure the caller handles.  *)
Query(r) ==
  \/ r = route /\ budget' = budget
  \/ r = Unread /\ Spend

(* An adapter call that should set the route to r.  raised tells whether it   *)
(* raised; an adapter that fails silently returns with the route unchanged.   *)
Effect(r, raised) ==
  \/ ~raised /\ route' = r /\ budget' = budget
  \/ raised /\ route' \in {r, route} /\ Spend
  \/ SilentFaults /\ ~raised /\ route' = route /\ Spend

-----------------------------------------------------------------------------
(* stage(candidate, predecessor): the actual route must be the predecessor;  *)
(* the row is inserted and moved to CANDIDATE_STAGED in one transaction.      *)
Stage ==
  /\ At("idle") /\ gs.st = NoRow
  /\ route = PredRoute
  /\ gs' = [st |-> "CANDIDATE_STAGED", seq |-> 1, routeGen |-> "pred",
            routeFence |-> "fence-pred", obs |-> "none"]
  /\ journal' = <<Receipt("stage", "PREDECESSOR_OPEN", "CANDIDATE_STAGED")>>
  /\ UNCHANGED <<adm, route, leaseLive, call, budget>>

(* close(generation): the intent, unless a close intent is still pending.     *)
CloseIntent ==
  /\ Idle /\ Room
  /\ gs.st # "CANDIDATE_CLOSED"
  /\ IF NeverReceipted(journal, "close")
       THEN UNCHANGED <<gs, journal>>
       ELSE Append1(Intent("close", gs.st, Keep))
  /\ Goto("close.query")
  /\ UNCHANGED <<adm, route, leaseLive, budget>>

(* traffic.close() and query_route(); neither failure is caught (CutOff).     *)
CloseQuery ==
  /\ At("close.query")
  /\ call' = [call EXCEPT !.pc = "close.commit", !.seen = route]
  /\ UNCHANGED <<gs, journal, adm, route, leaseLive, budget>>

PredecessorSeen ==
  /\ call.seen.gen = "pred"
  /\ call.seen.fence = gs.routeFence
  /\ call.seen.snap = "pred"

(* The receipt: CANDIDATE_CLOSED, or cancelled and on to fail_close().        *)
CloseCommit ==
  /\ At("close.commit")
  /\ \/ PredecessorSeen /\ CommitReceipt("close", "CANDIDATE_CLOSED", gs)
     \/ /\ ~PredecessorSeen
        /\ Append1(Receipt("close", gs.st, Keep))
        /\ Goto("fail_close.intent")
  /\ UNCHANGED <<adm, route, leaseLive, budget>>

-----------------------------------------------------------------------------
(* open(generation, proof).  A proof is abstracted to what open() asks of it: *)
(* bound to this generation, plan and candidate digest; covering evidence;    *)
(* carrying the lease granted at stage().                                     *)
Proof == [bound: BOOLEAN, covered: BOOLEAN, staged: BOOLEAN]

Accepts(p) == p.bound /\ p.covered /\ p.staged /\ leaseLive

OpenIntent(p) ==
  /\ Idle /\ Room
  /\ Accepts(p)
  /\ gs.st \notin {"CANDIDATE_OPEN", "OPENING"}
  /\ Transition("intent", "open", "OPENING", gs)
  /\ Goto("open.effect")
  /\ UNCHANGED <<adm, route, leaseLive, budget>>

(* traffic.open(): the adapter revalidates the grant before it routes.        *)
OpenEffect ==
  /\ At("open.effect")
  /\ leaseLive
  /\ Effect(CandRoute, FALSE)
  /\ Goto("open.query")
  /\ UNCHANGED <<gs, journal, adm, leaseLive>>

OpenRefused ==
  /\ At("open.effect")
  /\ ~leaseLive
  /\ Raise
  /\ UNCHANGED <<gs, journal, adm, route, leaseLive, budget>>

OpenQuery ==
  /\ At("open.query")
  /\ call' = [call EXCEPT !.pc = "open.commit", !.seen = route]
  /\ UNCHANGED <<gs, journal, adm, route, leaseLive, budget>>

AsOpenedUnobserved ==                                      \* mutant
  [gs EXCEPT !.routeGen = "cand", !.routeFence = "fence-cand"]

AsOpened == [gs EXCEPT !.routeGen = "cand", !.routeFence = "fence-cand", !.obs = "cand"]

OpenCommit ==
  /\ At("open.commit")
  /\ \/ call.seen = CandRoute /\ CommitReceipt("open", "CANDIDATE_OPEN", AsOpened)
     \/ /\ call.seen # CandRoute
        /\ Append1(Receipt("open", "OPENING", Keep))
        /\ Goto("fail_close.intent")
  /\ UNCHANGED <<adm, route, leaseLive, budget>>

-----------------------------------------------------------------------------
(* observe(request): admission.  The row of a request is written once.        *)
NotAdmitted == [gen |-> "none", fence |-> "closed", seq |-> 0, done |-> FALSE]
Admission == [gen: Gens, fence: Fences, seq: Nat, done: BOOLEAN]

Blocked == {"OPENING"} \cup Terminal

PredecessorMismatch == gs.st \in PreOpen /\ route # PredRoute

RouteKnownSkipped == TRUE                                  \* mutant

RouteKnown ==
  /\ route.gen = gs.routeGen
  /\ route.fence = gs.routeFence
  /\ route.gen = "cand" => route.snap = gs.obs


Admit(r) ==
  /\ Idle
  /\ adm[r] = NotAdmitted
  /\ gs.st \notin Blocked
  /\ route.gen # "none" /\ route.fence # "closed"
  /\ ~PredecessorMismatch
  /\ RouteKnown
  /\ adm' = [adm EXCEPT ![r] = [gen |-> route.gen, fence |-> route.fence,
                                seq |-> gs.seq, done |-> FALSE]]
  /\ UNCHANGED <<gs, journal, route, leaseLive, call, budget>>

(* A predecessor whose identity changed before the open: fail_close().        *)
AdmitMismatch ==
  /\ Idle /\ Room
  /\ \E r \in Requests : adm[r] = NotAdmitted
  /\ route.gen # "none" /\ route.fence # "closed"
  /\ PredecessorMismatch
  /\ Goto("fail_close.intent")
  /\ UNCHANGED <<gs, journal, adm, route, leaseLive, budget>>

(* observe(request, result) of an admitted request: one-shot completion.      *)
Finish(r) ==
  /\ Idle
  /\ adm[r] # NotAdmitted /\ ~adm[r].done
  /\ adm' = [adm EXCEPT ![r].done = TRUE]
  /\ UNCHANGED <<gs, journal, route, leaseLive, call, budget>>

(* drain(generation): the intent, unless already draining; then the receipt   *)
(* once no predecessor request is unfinished.                                 *)
DrainIntent ==
  /\ Idle /\ Room
  /\ \/ gs.st = "DRAINING" /\ UNCHANGED <<gs, journal>>
     \/ gs.st # "DRAINING" /\ Transition("intent", "drain", "DRAINING", gs)
  /\ Goto("drain.check")
  /\ UNCHANGED <<adm, route, leaseLive, budget>>

UnfinishedIgnored == FALSE                                 \* mutant

Unfinished == \E r \in Requests : adm[r].gen = "pred" /\ ~adm[r].done


DrainCheck ==
  /\ At("drain.check")
  /\ \/ Unfinished /\ UNCHANGED <<gs, journal>> /\ Return
     \/ ~Unfinished /\ CommitReceipt("drain", "CANDIDATE_OPEN", gs)
  /\ UNCHANGED <<adm, route, leaseLive, budget>>

-----------------------------------------------------------------------------
(* fail_close(generation, reason): close both routes, then report what the   *)
(* route query proves.                                                        *)
ClosureAssumed(r) == "FAILED_SAFE"                         \* mutant

Closure(r) == IF IsClosed(r) THEN "FAILED_SAFE" ELSE "SAFETY_UNKNOWN"


FailCloseCall ==
  /\ Idle /\ Room
  /\ Goto("fail_close.intent")
  /\ UNCHANGED <<gs, journal, adm, route, leaseLive, budget>>

FailCloseIntent ==
  /\ At("fail_close.intent")
  /\ Append1(Intent("fail_close", gs.st, Keep))
  /\ Goto("fail_close.effect")
  /\ UNCHANGED <<adm, route, leaseLive, budget>>

FailCloseEffect ==
  /\ At("fail_close.effect")
  /\ \E raised \in BOOLEAN : Effect(ClosedRoute, raised)
  /\ Goto("fail_close.query")
  /\ UNCHANGED <<gs, journal, adm, leaseLive>>

FailCloseQuery ==
  /\ At("fail_close.query")
  /\ \E r \in {route, Unread} :
       /\ Query(r)
       /\ call' = [call EXCEPT !.pc = "fail_close.commit", !.seen = r,
                               !.tgt = Closure(r)]
  /\ UNCHANGED <<gs, journal, adm, route, leaseLive>>

FailCloseCommit ==
  /\ At("fail_close.commit")
  /\ CommitReceipt("fail_close", call.tgt, WithRoute(call.seen))
  /\ UNCHANGED <<adm, route, leaseLive, budget>>

-----------------------------------------------------------------------------
(* rollback(generation, behavioral_oracle).  The side effect is dispatched    *)
(* before the transition table is consulted.                                  *)
RollbackIntent(oracle) ==
  /\ Idle /\ Room
  /\ Append1(Intent("rollback", gs.st, Keep))
  /\ call' = [call EXCEPT !.pc = "rollback.effect", !.oracle = oracle, !.ret = "ok"]
  /\ UNCHANGED <<adm, route, leaseLive, budget>>

Restored == [PredRoute EXCEPT !.snap = IF BehavioralRestore THEN "equiv" ELSE "pred"]

RollbackEffect ==
  /\ At("rollback.effect")
  /\ \E raised \in BOOLEAN :
       /\ Effect(Restored, raised)
       /\ Goto(IF raised THEN "rollback.close" ELSE "rollback.query")
  /\ UNCHANGED <<gs, journal, adm, leaseLive>>

(* RESTORED_STRONG on an exact match, BEHAVIORAL on the oracle's word, and    *)
(* otherwise close_all().                                                     *)
RollbackQuery ==
  /\ At("rollback.query")
  /\ \E r \in {route, Unread} :
       /\ Query(r)
       /\ IF r = PredRoute \/ (call.oracle /\ BehavioralRestore)
            THEN call' = [call EXCEPT !.pc = "rollback.commit", !.seen = r,
                                      !.tgt = "ROLLED_BACK"]
            ELSE Goto("rollback.close")
  /\ UNCHANGED <<gs, journal, adm, route, leaseLive>>

RollbackClose ==
  /\ At("rollback.close")
  /\ \E raised \in BOOLEAN : Effect(ClosedRoute, raised)
  /\ Goto("rollback.requery")
  /\ UNCHANGED <<gs, journal, adm, leaseLive>>

RollbackRequery ==
  /\ At("rollback.requery")
  /\ \E r \in {route, Unread} :
       /\ Query(r)
       /\ call' = [call EXCEPT !.pc = "rollback.commit", !.seen = r, !.tgt = Closure(r)]
  /\ UNCHANGED <<gs, journal, adm, route, leaseLive>>

RollbackCommit ==
  /\ At("rollback.commit")
  /\ CommitReceipt("rollback", call.tgt, WithRoute(call.seen))
  /\ UNCHANGED <<adm, route, leaseLive, budget>>

-----------------------------------------------------------------------------
(* reconcile(): the pending intents in the order the code looks for them.     *)
PendingFailClose == Outstanding(journal, "fail_close")
PendingRecovery == NeverReceipted(journal, "open.reconcile.close_all")
PendingRollback == Outstanding(journal, "rollback")

ReconcileFailClose ==
  /\ Idle /\ PendingFailClose
  /\ \E r \in {route, Unread} :
       /\ Query(r)
       /\ call' = [call EXCEPT !.pc = "reconcile.fail_close", !.seen = r,
                               !.tgt = Closure(r), !.ret = "ok"]
  /\ UNCHANGED <<gs, journal, adm, route, leaseLive>>

ReconcileFailCloseCommit ==
  /\ At("reconcile.fail_close")
  /\ CommitReceipt("fail_close", call.tgt, WithRoute(call.seen))
  /\ UNCHANGED <<adm, route, leaseLive, budget>>

(* A recovery close that was cut off: repeat the close, then both receipts.   *)
RetryStart ==
  /\ Idle /\ ~PendingFailClose /\ PendingRecovery
  /\ Goto("retry.effect")
  /\ UNCHANGED <<gs, journal, adm, route, leaseLive, budget>>

RetryEffect ==
  /\ At("retry.effect")
  /\ \E raised \in BOOLEAN : Effect(ClosedRoute, raised)
  /\ Goto("retry.query")
  /\ UNCHANGED <<gs, journal, adm, leaseLive>>

RetryQuery ==
  /\ At("retry.query")
  /\ \E r \in {route, Unread} :
       /\ Query(r)
       /\ call' = [call EXCEPT !.pc = "retry.commit", !.seen = r, !.tgt = Closure(r)]
  /\ UNCHANGED <<gs, journal, adm, route, leaseLive>>

RetryCommit ==
  /\ At("retry.commit")
  /\ \/ /\ Allowed(gs.st, call.tgt)
        /\ journal' = journal \o
             <<Receipt("open.reconcile.close_all", "OPENING", Keep),
               Receipt("open", gs.st, call.tgt)>>
        /\ gs' = [gs EXCEPT !.st = call.tgt, !.seq = Len(journal) + 2]
        /\ Return
     \/ ~Allowed(gs.st, call.tgt) /\ UNCHANGED <<gs, journal>> /\ Raise
  /\ UNCHANGED <<adm, route, leaseLive, budget>>

ReconcileRollback ==
  /\ Idle /\ ~PendingFailClose /\ ~PendingRecovery /\ PendingRollback
  /\ \E r \in {route, Unread} :
       /\ Query(r)
       /\ call' = [call EXCEPT !.pc = "reconcile.rollback", !.seen = r, !.ret = "ok",
                     !.tgt = IF r = PredRoute THEN "ROLLED_BACK" ELSE Closure(r)]
  /\ UNCHANGED <<gs, journal, adm, route, leaseLive>>

ReconcileRollbackCommit ==
  /\ At("reconcile.rollback")
  /\ CommitReceipt("rollback", call.tgt, gs)
  /\ UNCHANGED <<adm, route, leaseLive, budget>>

(* An OPENING gate.  A stale lease or an unreadable route cancels the open    *)
(* and fails closed; otherwise the actual route decides.                      *)
OpeningUnresolved ==
  /\ Idle /\ ~PendingFailClose /\ ~PendingRecovery /\ ~PendingRollback
  /\ gs.st = "OPENING"

ReconcileCancelUnread ==                                   \* mutant
  /\ OpeningUnresolved
  /\ leaseLive /\ Spend
  /\ Append1(Receipt("open", "OPENING", Keep))
  /\ Goto("fail_close.intent")
  /\ UNCHANGED <<adm, route, leaseLive>>

ReconcileCancel ==
  /\ OpeningUnresolved
  /\ \/ ~leaseLive /\ budget' = budget
     \/ leaseLive /\ Spend
  /\ Append1(Receipt("open", "OPENING", Keep))
  /\ Goto("fail_close.intent")
  /\ UNCHANGED <<adm, route, leaseLive>>

ReconcileQuery ==
  /\ OpeningUnresolved
  /\ leaseLive
  /\ call' = [call EXCEPT !.pc = "reconcile.open", !.seen = route, !.ret = "ok"]
  /\ UNCHANGED <<gs, journal, adm, route, leaseLive, budget>>

ReconcileOpen ==
  /\ At("reconcile.open")
  /\ \/ call.seen = CandRoute /\ CommitReceipt("open.reconcile", "CANDIDATE_OPEN", AsOpened)
     \/ /\ call.seen # CandRoute
        /\ Append1(Intent("open.reconcile.close_all", "OPENING", Keep))
        /\ Goto("recovery.effect")
  /\ UNCHANGED <<adm, route, leaseLive, budget>>

(* The recovery close: err is close_error # None.                             *)
RecoveryEffect ==
  /\ At("recovery.effect")
  /\ \E raised \in BOOLEAN :
       /\ Effect(ClosedRoute, raised)
       /\ call' = [call EXCEPT !.pc = "recovery.query", !.err = raised]
  /\ UNCHANGED <<gs, journal, adm, leaseLive>>

RecoveryQuery ==
  /\ At("recovery.query")
  /\ \E r \in {route, Unread} :
       /\ Query(r)
       /\ call' = [call EXCEPT !.pc = "recovery.receipt", !.seen = r,
                               !.err = call.err \/ r = Unread]
  /\ UNCHANGED <<gs, journal, adm, route, leaseLive>>

RecoveryReceipt ==
  /\ At("recovery.receipt")
  /\ Append1(Receipt("open.reconcile.close_all", "OPENING", Keep))
  /\ Goto("recovery.finish")
  /\ UNCHANGED <<adm, route, leaseLive, budget>>

(* Without an error the code records FAILED_SAFE whatever the query returned. *)
RecoveryFinish ==
  /\ At("recovery.finish")
  /\ \/ /\ call.err
        /\ Append1(Receipt("open", "OPENING", Keep))
        /\ Goto("fail_close.intent")
     \/ ~call.err /\ CommitReceipt("open", "FAILED_SAFE", WithRoute(ClosedRoute))
  /\ UNCHANGED <<adm, route, leaseLive, budget>>

-----------------------------------------------------------------------------
(* The environment. *)

(* A crash of the manager, an injected fault or an uncaught adapter error:    *)
(* the call ends where it is; the tables and the route stay as they are.      *)
CutOff ==
  /\ ~At("idle")
  /\ Spend
  /\ Raise
  /\ UNCHANGED <<gs, journal, adm, route, leaseLive>>

(* The grant recorded at stage() expires or is superseded.                    *)
LeaseLost ==
  /\ leaseLive
  /\ Spend
  /\ leaseLive' = FALSE
  /\ UNCHANGED <<gs, journal, adm, route, call>>

(* The actual route changes identity behind the gate's back.  A closed route  *)
(* is not reopened by anyone but the gate.                                    *)
Drift ==
  /\ route.gen # "none"
  /\ Spend
  /\ route' \in {[route EXCEPT !.snap = "bad"], [route EXCEPT !.gen = "other"],
                 [route EXCEPT !.fence = "other"]}
  /\ UNCHANGED <<gs, journal, adm, leaseLive, call>>

-----------------------------------------------------------------------------
Init ==
  /\ gs = [st |-> NoRow, seq |-> 0, routeGen |-> "none", routeFence |-> "closed",
           obs |-> "none"]
  /\ journal = <<>>
  /\ adm = [r \in Requests |-> NotAdmitted]
  /\ route = PredRoute
  /\ leaseLive = TRUE
  /\ call = Done("ok")
  /\ budget = MaxFaults

(* Steps that continue a call already begun. *)
Continue ==
  \/ CloseQuery \/ CloseCommit
  \/ OpenEffect \/ OpenRefused \/ OpenQuery \/ OpenCommit
  \/ DrainCheck
  \/ FailCloseIntent \/ FailCloseEffect \/ FailCloseQuery \/ FailCloseCommit
  \/ RollbackEffect \/ RollbackQuery \/ RollbackClose \/ RollbackRequery
  \/ RollbackCommit
  \/ ReconcileFailCloseCommit \/ ReconcileRollbackCommit \/ ReconcileOpen
  \/ RetryEffect \/ RetryQuery \/ RetryCommit
  \/ RecoveryEffect \/ RecoveryQuery \/ RecoveryReceipt \/ RecoveryFinish

Reconcile ==
  \/ ReconcileFailClose \/ RetryStart \/ ReconcileRollback
  \/ ReconcileCancel \/ ReconcileQuery

Operate ==
  \/ Stage \/ CloseIntent \/ DrainIntent \/ FailCloseCall \/ AdmitMismatch
  \/ \E p \in Proof : OpenIntent(p)
  \/ \E o \in BOOLEAN : RollbackIntent(o)

Traffic == \E r \in Requests : Admit(r) \/ Finish(r)

Environment == CutOff \/ LeaseLost \/ Drift

Next == Operate \/ Traffic \/ Reconcile \/ Continue \/ Environment

Spec == Init /\ [][Next]_vars

-----------------------------------------------------------------------------
(* Properties. *)

(* Every table, the route and the running call hold values of their types.    *)
TypeOK ==
  /\ gs \in [st: GateState \cup {NoRow}, seq: Nat, routeGen: Gens,
             routeFence: Fences, obs: Snaps]
  /\ journal \in Seq(Row)
  /\ adm \in [Requests -> Admission]
  /\ route \in Route
  /\ leaseLive \in BOOLEAN
  /\ call \in Call
  /\ budget \in Nat

(* What evaluate_trace() demands of the admission table: a request reaches    *)
(* the candidate only behind an open receipt that precedes it and under the   *)
(* open fence; a request admitted behind an open receipt never reaches the    *)
(* predecessor; no request is admitted to an unknown generation.              *)
AdmissionsFollowOpen ==
  \A r \in Requests : adm[r] # NotAdmitted =>
    \/ /\ adm[r].gen = "cand" /\ adm[r].fence = "fence-cand"
       /\ \E i \in DOMAIN journal : IsOpenReceipt(journal[i]) /\ i <= adm[r].seq
    \/ /\ adm[r].gen = "pred" /\ adm[r].fence = "fence-pred"
       /\ \A i \in DOMAIN journal : IsOpenReceipt(journal[i]) => adm[r].seq < i

(* drain() reports zero unfinished predecessor requests only when there are   *)
(* none, and none appears afterwards: once a drain receipt is in the journal  *)
(* every request the predecessor ever admitted has finished.                  *)
DrainReceiptIsFinal ==
  Has(journal, "receipt", "drain") =>
    \A r \in Requests : adm[r].gen = "pred" => adm[r].done

(* Write-ahead discipline of open(): the authority routes to the candidate    *)
(* only after an open intent, and the candidate stays routed only in states   *)
(* that admit it may be (an adapter that reports its failures is assumed).    *)
CandidateExposureKnown ==
  route.gen = "cand" =>
    /\ Has(journal, "intent", "open")
    /\ ~SilentFaults => gs.st \in {"OPENING", "SAFETY_UNKNOWN"} \cup Exposed

(* FAILED_SAFE means traffic is closed, except behind a rollback() that was   *)
(* called on the failed-safe gate and has no receipt.                         *)
FailedSafeHeld ==
  (gs.st = "FAILED_SAFE" /\ ~PendingRollback) => IsClosed(route)

(* The terminal outcomes are final: no operation, recovery included, moves    *)
(* the gate out of ROLLED_BACK, FAILED_SAFE or SAFETY_UNKNOWN.                *)
TerminalIsFinal ==
  [][gs.st \in Terminal => gs'.st = gs.st]_vars

(* One open per gate: the journal never gains a second open receipt, so the   *)
(* open fence names one exposure.                                             *)
SingleOpen ==
  \A i, k \in DOMAIN journal :
    IsOpenReceipt(journal[i]) /\ IsOpenReceipt(journal[k]) => i = k

(* docs/design/reference-exposure-gate.md reports FAILED_SAFE only when all   *)
(* traffic is closed: a gate in FAILED_SAFE has its route closed.             *)
FailedSafeIsClosed == gs.st = "FAILED_SAFE" => IsClosed(route)

(* Fairness: a call that was begun runs on, and whoever owns the gate calls   *)
(* reconcile() again as long as it has something to do.                       *)
FairSpec == Spec /\ WF_vars(Continue) /\ WF_vars(Reconcile)

(* No open is left in doubt: a gate in OPENING is eventually resolved to      *)
(* CANDIDATE_OPEN or to a terminal state, as the design document promises of  *)
(* recovery.                                                                  *)
OpeningResolves == gs.st = "OPENING" ~> gs.st # "OPENING"

(* reconcile() resolves an open that was cut off, whatever failed on the way, *)
(* unless rollback() was called on the gate while it was OPENING.             *)
OpeningResolvesAlone ==
  (gs.st = "OPENING" /\ ~PendingRollback) ~> (gs.st # "OPENING" \/ PendingRollback)

=============================================================================
