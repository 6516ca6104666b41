-------------------------- MODULE QuarantineProofs --------------------------
(***************************************************************************)
(* Proofs about the quarantine, for every set of transactions and journals  *)
(* and with every fault of the model allowed.                               *)
(*                                                                         *)
(* The two safety invariants are not inductive alone: whether a step of the *)
(* critical section may touch a fence or settle a transaction was decided   *)
(* steps before, when the lock was taken.  CallInv keeps those decisions.   *)
(***************************************************************************)
EXTENDS Quarantine, TLAPS

Looping == {"reconcile", "reconcile.unfence", "reconcile.mark"}
Restoring == {"reconcile.unfence", "reconcile.mark"}
Committing == {"commit.fence", "commit.move", "commit.applied", "commit.audit"}
Undoing == {"undo.restore", "undo.unfence", "undo.mark"}

(* A source that has not prepared yet has no records, one that has proposed a *)
(* fact has an intent.                                                        *)
NewHasNoRecord == \A t \in Txns : phase[t] = "new" => rec[t] = NoRecord
ProposedHasIntent == \A t \in Txns : phase[t] = "proposed" => HasIntent(t)

(* The source that goes on to prepare is new.                                 *)
PreparingIsNew ==
  (At("prepare") \/ (call.pc \in Looping /\ call.next = "prepare")) =>
    call.who \in Txns /\ phase[call.who] = "new"

(* The transaction reconciliation is restoring is open, and the fence it      *)
(* removes is its own.                                                        *)
RestoringOpen ==
  /\ call.pc \in Restoring =>
       /\ call.cur \in Txns /\ HasIntent(call.cur) /\ ~Settled(call.cur)
       /\ fence[JournalOf[call.cur]] \in {call.cur, NoTxn}
  /\ At("reconcile.mark") => fence[JournalOf[call.cur]] = NoTxn

(* The transaction being committed or undone is open; it holds its fence from *)
(* the fence to its removal, and the journal is moved only behind it.         *)
CommittingOpen ==
  /\ call.pc \in Committing \cup Undoing =>
       call.who \in Txns /\ HasIntent(call.who) /\ ~Settled(call.who)
  /\ (call.pc \in Committing \cup {"undo.restore", "undo.unfence"} /\ call.fenced) =>
       fence[JournalOf[call.who]] = call.who
  /\ call.pc \in Committing \ {"commit.fence"} => call.fenced
  /\ (call.pc \in Committing \cup Undoing /\ call.moved) => call.fenced
  /\ (At("undo.mark") /\ call.moved) => fence[JournalOf[call.who]] # call.who

(* An applied or finalized transaction has an intent.                         *)
RecordsChain ==
  \A t \in Txns : (rec[t].finalized \/ rec[t].applied) => HasIntent(t)

CallInv == PreparingIsNew /\ RestoringOpen /\ CommittingOpen

FilesInv ==
  /\ NewHasNoRecord /\ ProposedHasIntent /\ RecordsChain
  /\ FinalizedStaysQuarantined /\ RestoredIsReleased

QInv == TypeOK /\ CallInv /\ FilesInv

-----------------------------------------------------------------------------
(* No source of T starts or proposes in this step.                            *)
NoReturn(T) ==
  \A u \in T : phase'[u] \in {"new", "proposed"} => phase'[u] = phase[u]

(* The record of a released lock is well typed.                               *)
LEMMA ReleasedType == Released \in Call
  BY DEF Released, Call, Pcs, NoTxn

(* Going on in the critical section changes nothing but the place.            *)
LEMMA GotoFacts ==
  ASSUME TypeOK, NEW pc \in Pcs, Goto(pc)
  PROVE  /\ call' \in Call /\ call'.pc = pc
         /\ call'.who = call.who /\ call'.cur = call.cur /\ call'.next = call.next
         /\ call'.moved = call.moved /\ call'.fenced = call.fenced
         /\ call'.applied = call.applied
  BY DEF TypeOK, Call, Goto

(* Leaving changes the phase of one source at most.                           *)
LEMMA LeaveFacts ==
  ASSUME TypeOK, NEW t, NEW p \in Phases, Leave(t, p)
  PROVE  /\ phase' \in [Txns -> Phases]
         /\ \A u \in Txns : phase'[u] = IF u = t THEN p ELSE phase[u]
         /\ NoReturn(Txns \ {t})
         /\ p \in {"abort", "exited", "gone"} => NoReturn(Txns)
  BY DEF TypeOK, Leave, NoReturn

(* The phases are the ones listed; none but "new" is "new".                   *)
LEMMA PhaseNames ==
  /\ {"proposed", "abort", "exited", "gone"} \subseteq Phases
  /\ "new" \notin {"proposed", "abort", "exited", "gone"}
  BY DEF Phases

(* No transaction is the absent one.                                          *)
LEMMA NoTxnIsNone == NoTxn \notin Txns /\ \A t \in Txns : JournalOf[t] \in Journals
  BY QuarantineConstants DEF NoTxn

(* With the lock free nothing is promised about the critical section.         *)
LEMMA ReleaseInv == Release => CallInv' /\ call' \in Call
<1> SUFFICES ASSUME Release PROVE CallInv' /\ call' \in Call
  OBVIOUS
<1>1. call' = Released /\ call'.pc = "idle"
  BY DEF Release, Released
<1>2. PreparingIsNew'
  BY <1>1 DEF PreparingIsNew, At, Looping
<1>3. RestoringOpen'
  BY <1>1 DEF RestoringOpen, At, Restoring
<1>4. CommittingOpen'
  BY <1>1 DEF CommittingOpen, At, Committing, Undoing
<1> QED
  BY <1>1, <1>2, <1>3, <1>4, ReleasedType DEF CallInv

(* A step that leaves files and records alone keeps what is said of them.     *)
LEMMA FilesFrame ==
  ASSUME FilesInv, UNCHANGED <<src, qua, fence, rec, foreign>>,
         NoReturn(Txns)
  PROVE  FilesInv'
<1>1. NewHasNoRecord' /\ ProposedHasIntent'
  BY DEF FilesInv, NewHasNoRecord, ProposedHasIntent, HasIntent, NoReturn
<1>2. RecordsChain'
  BY DEF FilesInv, RecordsChain, HasIntent
<1>3. FinalizedStaysQuarantined'
  BY DEF FilesInv, FinalizedStaysQuarantined
<1>4. RestoredIsReleased'
  BY DEF FilesInv, RestoredIsReleased
<1> QED
  BY <1>1, <1>2, <1>3, <1>4 DEF FilesInv

(* A step that leaves the lock, the phases, the fences and the records alone  *)
(* keeps what is said of the critical section.                                *)
LEMMA CallFrame ==
  ASSUME CallInv, UNCHANGED <<fence, rec, call>>,
         \A u \in Txns : phase[u] = "new" => phase'[u] = "new"
  PROVE  CallInv'
<1>1. PreparingIsNew'
  BY DEF CallInv, PreparingIsNew, At
<1>2. RestoringOpen'
  BY DEF CallInv, RestoringOpen, At, HasIntent, Settled
<1>3. CommittingOpen'
  BY DEF CallInv, CommittingOpen, At, HasIntent, Settled
<1> QED
  BY <1>1, <1>2, <1>3 DEF CallInv

-----------------------------------------------------------------------------
(* An empty source directory satisfies the invariant.                         *)
LEMMA InitInv == Init => QInv
<1> SUFFICES ASSUME Init PROVE QInv
  OBVIOUS
<1>1. NoFile \in File /\ NoRecord \in Record
  BY DEF NoFile, File, NoRecord, Record
<1>2. TypeOK
  <2>1. src \in [Journals -> File] /\ qua \in [Journals -> File]
    BY <1>1 DEF Init
  <2>2. fence \in [Journals -> Txns \cup {NoTxn}] /\ rec \in [Txns -> Record]
    BY <1>1 DEF Init
  <2>3. phase \in [Txns -> Phases] /\ call \in Call
    BY ReleasedType DEF Init, Phases
  <2>4. inodes \in Nat /\ foreign \subseteq Journals /\ budget \in Nat
    BY QuarantineConstants DEF Init
  <2> QED
    BY <2>1, <2>2, <2>3, <2>4 DEF TypeOK
<1>3. call.pc = "idle"
  BY DEF Init, Released
<1>4. CallInv
  BY <1>3 DEF CallInv, PreparingIsNew, RestoringOpen, CommittingOpen, At, Looping,
              Restoring, Committing, Undoing
<1>5. \A t \in Txns : rec[t] = NoRecord
  BY DEF Init
<1>6. \A t \in Txns : /\ rec[t].finalized = FALSE /\ rec[t].applied = FALSE
                      /\ rec[t].restored = "no"
  <2>1. NoRecord.finalized = FALSE /\ NoRecord.applied = FALSE /\ NoRecord.restored = "no"
    BY DEF NoRecord
  <2> QED
    BY <1>5, <2>1
<1>7. FilesInv
  BY <1>5, <1>6 DEF Init, ProposedHasIntent, FilesInv, NewHasNoRecord, RecordsChain, FinalizedStaysQuarantined,
                    RestoredIsReleased
<1> QED
  BY <1>2, <1>4, <1>7 DEF QInv

(* What a lock that is taken for reconciliation says.                         *)
LEMMA ReconcileInv ==
  ASSUME QInv, NEW t \in Txns \cup {NoTxn}, NEW n \in {"prepare", "settle", "exit"},
         Reconcile(t, n), n = "prepare" => t \in Txns /\ phase[t] = "new"
  PROVE  QInv'
<1>1. /\ call' \in Call /\ call'.pc = "reconcile" /\ call'.who = t /\ call'.next = n
  BY ReleasedType DEF Reconcile, Released, Call, Pcs
<1>2. UNCHANGED <<src, qua, fence, rec, phase, inodes, foreign, budget>>
  BY DEF Reconcile
<1>3. TypeOK'
  BY <1>1, <1>2 DEF QInv, TypeOK
<1>4. CallInv'
  BY <1>1, <1>2 DEF CallInv, PreparingIsNew, RestoringOpen, CommittingOpen, At,
                    Looping, Restoring, Committing, Undoing
<1> QED
  BY <1>2, <1>3, <1>4, FilesFrame DEF QInv, NoReturn

(* A step that releases the lock and leaves files and records alone.          *)
LEMMA ReleasingInv ==
  ASSUME QInv, Release, NEW t, NEW p \in {"abort", "exited", "gone"},
         Leave(t, p), UNCHANGED <<src, qua, fence, rec, inodes, foreign>>, budget' \in Nat
  PROVE  QInv'
<1>1. CallInv' /\ call' \in Call
  BY ReleaseInv
<1>2. phase' \in [Txns -> Phases] /\ NoReturn(Txns)
  BY LeaveFacts, PhaseNames DEF QInv
<1>3. TypeOK'
  BY <1>1, <1>2 DEF QInv, TypeOK
<1> QED
  BY <1>1, <1>2, <1>3, FilesFrame DEF QInv

(* A step outside the lock that a source of phase q takes.                    *)
LEMMA WaitingInv ==
  ASSUME QInv, NEW t \in Txns, phase[t] # "new",
         NEW p \in {"abort", "exited", "gone"}, Leave(t, p),
         UNCHANGED <<src, qua, fence, rec, call, inodes, foreign>>, budget' \in Nat
  PROVE  QInv'
<1>1. /\ phase' \in [Txns -> Phases]
      /\ NoReturn(Txns) /\ \A u \in Txns : phase[u] = "new" => phase'[u] = "new"
  BY LeaveFacts, PhaseNames DEF QInv
<1>2. TypeOK'
  BY <1>1 DEF QInv, TypeOK
<1> QED
  BY <1>1, <1>2, FilesFrame, CallFrame DEF QInv

(* The budget only shrinks.                                                   *)
LEMMA SpendFacts == TypeOK /\ Spend => budget' \in Nat
  BY DEF TypeOK, Spend

(* A fault-free or faulty end of the critical section.                        *)
LEMMA SimpleSteps ==
  ASSUME QInv,
         \/ \E t \in Txns : Start(t) \/ Abort(t) \/ Withdraw(t) \/ AbortBusy(t)
         \/ \E t \in Txns : ReconcileRaise(t) \/ CrashWaiting(t)
         \/ Sweep \/ CommitAudit \/ UndoRaises \/ Crash
  PROVE  QInv'
<1>t. TypeOK /\ budget \in Nat
  BY DEF QInv, TypeOK
<1>1. ASSUME NEW t \in Txns, Start(t) PROVE QInv'
  BY <1>1, ReconcileInv DEF Start
<1>2. ASSUME NEW t \in Txns, Abort(t) PROVE QInv'
  BY <1>2, ReconcileInv DEF Abort
<1>3. CASE Sweep
  BY <1>3, ReconcileInv DEF Sweep
<1>4. ASSUME NEW t \in Txns, Withdraw(t) PROVE QInv'
  BY <1>t, <1>4, WaitingInv DEF Withdraw
<1>5. ASSUME NEW t \in Txns, AbortBusy(t) PROVE QInv'
  BY <1>t, <1>5, WaitingInv DEF AbortBusy
<1>6. ASSUME NEW t \in Txns, CrashWaiting(t) PROVE QInv'
  BY <1>t, <1>6, WaitingInv, SpendFacts DEF CrashWaiting
<1>7. ASSUME NEW t \in Txns, ReconcileRaise(t) PROVE QInv'
  BY <1>t, <1>7, ReleasingInv DEF ReconcileRaise
<1>8. CASE CommitAudit
  BY <1>t, <1>8, ReleasingInv DEF CommitAudit
<1>9. CASE UndoRaises
  BY <1>t, <1>9, ReleasingInv, SpendFacts DEF UndoRaises
<1>10. CASE Crash
  BY <1>t, <1>10, ReleasingInv, SpendFacts DEF Crash
<1> QED
  BY <1>1, <1>2, <1>3, <1>4, <1>5, <1>6, <1>7, <1>8, <1>9, <1>10

-----------------------------------------------------------------------------
(* What a single record edit means for the other transactions: their files    *)
(* and fences stay, so only the edited transaction needs an argument.         *)
LEMMA EditInv ==
  ASSUME QInv, NEW t \in Txns, NEW r \in Record, rec' = [rec EXCEPT ![t] = r],
         UNCHANGED <<fence, foreign>>,
         \A u \in Txns \ {t} : rec[u].finalized =>
           qua'[JournalOf[u]] = qua[JournalOf[u]] /\ src'[JournalOf[u]] = src[JournalOf[u]],
         NoReturn(Txns \ {t}), phase'[t] # "new", r.snap # NoFile,
         r.finalized => /\ qua'[JournalOf[t]] = r.snap /\ fence[JournalOf[t]] = t
                        /\ src'[JournalOf[t]] # NoFile => JournalOf[t] \in foreign,
         r.restored # "no" => ~r.finalized /\ ~r.blocked /\ fence[JournalOf[t]] # t
  PROVE  FilesInv' /\ rec' \in [Txns -> Record]
<1>1. rec' \in [Txns -> Record] /\ \A u \in Txns : rec'[u] = IF u = t THEN r ELSE rec[u]
  BY DEF QInv, TypeOK
<1>2. NewHasNoRecord' /\ ProposedHasIntent'
  BY <1>1 DEF QInv, FilesInv, NewHasNoRecord, ProposedHasIntent, HasIntent, NoReturn
<1>3. RecordsChain'
  BY <1>1 DEF QInv, FilesInv, RecordsChain, HasIntent
<1>4. FinalizedStaysQuarantined'
  BY <1>1 DEF QInv, FilesInv, FinalizedStaysQuarantined
<1>5. RestoredIsReleased'
  BY <1>1 DEF QInv, FilesInv, RestoredIsReleased
<1> QED
  BY <1>1, <1>2, <1>3, <1>4, <1>5 DEF FilesInv

(* The fields of a record after one of them is written.                       *)
LEMMA RecordEdits ==
  ASSUME NEW r \in Record
  PROVE  /\ \A f \in File : LET s == [r EXCEPT !.snap = f] IN
              /\ s \in Record /\ s.snap = f /\ s.applied = r.applied
              /\ s.finalized = r.finalized /\ s.restored = r.restored
              /\ s.blocked = r.blocked
         /\ LET s == [r EXCEPT !.applied = TRUE] IN
              /\ s \in Record /\ s.snap = r.snap /\ s.applied
              /\ s.finalized = r.finalized /\ s.restored = r.restored
              /\ s.blocked = r.blocked
         /\ LET s == [r EXCEPT !.finalized = TRUE] IN
              /\ s \in Record /\ s.snap = r.snap /\ s.applied = r.applied
              /\ s.finalized /\ s.restored = r.restored /\ s.blocked = r.blocked
         /\ \A x \in {"no", "bare", "chained"} : LET s == [r EXCEPT !.restored = x] IN
              /\ s \in Record /\ s.snap = r.snap /\ s.applied = r.applied
              /\ s.finalized = r.finalized /\ s.restored = x /\ s.blocked = r.blocked
         /\ LET s == [r EXCEPT !.blocked = TRUE] IN
              /\ s \in Record /\ s.snap = r.snap /\ s.applied = r.applied
              /\ s.finalized = r.finalized /\ s.restored = r.restored /\ s.blocked
  BY DEF Record

(* A transaction with an intent is past its preparation.                      *)
LEMMA IntentIsNotNew ==
  ASSUME QInv, NEW t \in Txns, HasIntent(t)
  PROVE  phase[t] # "new"
<1>1. NoRecord.snap = NoFile
  BY DEF NoRecord
<1> QED
  BY <1>1 DEF QInv, FilesInv, NewHasNoRecord, HasIntent

(* mark_quarantine_restored on an open transaction that lost its fence.       *)
LEMMA MarkRestoredInv ==
  ASSUME QInv, NEW t \in Txns, NEW b, MarkRestored(t, b), HasIntent(t), ~Settled(t),
         fence[JournalOf[t]] # t, UNCHANGED <<src, qua, fence, foreign>>,
         NoReturn(Txns)
  PROVE  FilesInv' /\ rec' \in [Txns -> Record]
<1> DEFINE x == IF b THEN "chained" ELSE "bare"
           r == [rec[t] EXCEPT !.restored = x]
<1>1. rec[t] \in Record /\ x \in {"no", "bare", "chained"}
  BY DEF QInv, TypeOK
<1>2. rec' = [rec EXCEPT ![t] = r]
  BY DEF MarkRestored
<1> HIDE DEF x
<1>3. /\ r \in Record /\ r.snap = rec[t].snap /\ r.finalized = rec[t].finalized
      /\ r.blocked = rec[t].blocked
  BY <1>1 DEF Record
<1>4. ~r.finalized /\ ~r.blocked /\ r.snap # NoFile
  BY <1>3 DEF Settled, HasIntent
<1>5. phase'[t] # "new"
  BY IntentIsNotNew DEF NoReturn
<1> HIDE DEF r
<1> QED
  BY <1>2, <1>3, <1>4, <1>5, EditInv DEF NoReturn

(* Blocking a transaction that is open, or finalized and not restored.        *)
LEMMA MarkBlockedInv ==
  ASSUME QInv, NEW t \in Txns, MarkBlocked(t), HasIntent(t), rec[t].restored = "no",
         UNCHANGED <<fence, foreign>>,
         \A u \in Txns : rec[u].finalized =>
           qua'[JournalOf[u]] = qua[JournalOf[u]] /\ src'[JournalOf[u]] = src[JournalOf[u]],
         NoReturn(Txns)
  PROVE  FilesInv' /\ rec' \in [Txns -> Record]
<1> DEFINE r == [rec[t] EXCEPT !.blocked = TRUE]
<1>1. rec[t] \in Record
  BY DEF QInv, TypeOK
<1>2. rec' = [rec EXCEPT ![t] = r]
  BY DEF MarkBlocked
<1>3. /\ r \in Record /\ r.snap = rec[t].snap /\ r.finalized = rec[t].finalized
      /\ r.restored = "no"
  BY <1>1, RecordEdits
<1>4. r.snap # NoFile
  BY <1>3 DEF HasIntent
<1>5. phase'[t] # "new"
  BY IntentIsNotNew DEF NoReturn
<1>6. r.finalized => /\ qua'[JournalOf[t]] = r.snap /\ fence[JournalOf[t]] = t
                     /\ src'[JournalOf[t]] # NoFile => JournalOf[t] \in foreign
  BY <1>3 DEF QInv, FilesInv, FinalizedStaysQuarantined
<1> HIDE DEF r
<1> QED
  BY <1>2, <1>3, <1>4, <1>5, <1>6, EditInv DEF NoReturn

(* Publishing the applied record of an open transaction.                      *)
LEMMA AppliedInv ==
  ASSUME QInv, NEW t \in Txns, rec' = [rec EXCEPT ![t].applied = TRUE], HasIntent(t),
         ~Settled(t), UNCHANGED <<src, qua, fence, foreign, phase>>
  PROVE  FilesInv' /\ rec' \in [Txns -> Record]
<1> DEFINE r == [rec[t] EXCEPT !.applied = TRUE]
<1>1. rec[t] \in Record
  BY DEF QInv, TypeOK
<1>2. rec' = [rec EXCEPT ![t] = r]
  OBVIOUS
<1>3. /\ r \in Record /\ r.snap = rec[t].snap /\ r.finalized = rec[t].finalized
      /\ r.restored = rec[t].restored
  BY <1>1, RecordEdits
<1>4. r.snap # NoFile /\ ~r.finalized /\ r.restored = "no"
  BY <1>3 DEF HasIntent, Settled
<1>5. phase'[t] # "new"
  BY IntentIsNotNew
<1> HIDE DEF r
<1> QED
  BY <1>2, <1>3, <1>4, <1>5, EditInv DEF NoReturn

(* Finalizing a transaction whose files bear it out.                          *)
LEMMA FinalizeInv ==
  ASSUME QInv, NEW t \in Txns, Finalize(t)
  PROVE  QInv'
<1> DEFINE j == JournalOf[t]
           r == [rec[t] EXCEPT !.finalized = TRUE]
<1>1. rec[t] \in Record
  BY DEF QInv, TypeOK
<1>2. /\ UNCHANGED <<src, qua, fence, phase, call, inodes, foreign, budget>>
      /\ rec[t].applied /\ rec[t].restored = "no" /\ qua[j] = rec[t].snap /\ fence[j] = t
      /\ At("idle")
  BY DEF Finalize, Finalizable, Free, At
<1>3. HasIntent(t)
  BY <1>2 DEF QInv, FilesInv, RecordsChain
<1>4. FilesInv' /\ rec' \in [Txns -> Record]
  <2>1. CASE src[j] # NoFile
    <3>1. MarkBlocked(t)
      BY <2>1 DEF Finalize
    <3> QED
      BY <3>1, <1>2, <1>3, MarkBlockedInv DEF NoReturn
  <2>2. CASE src[j] = NoFile
    <3>1. rec' = [rec EXCEPT ![t] = r]
      BY <2>2 DEF Finalize
    <3>2. r \in Record /\ r.snap = rec[t].snap /\ r.restored = "no"
      BY <1>1, <1>2, RecordEdits
    <3>3. r.snap # NoFile /\ phase'[t] # "new"
      BY <3>2, <1>2, <1>3, IntentIsNotNew DEF HasIntent
    <3>4. src[j] # NoFile => j \in foreign
      BY <2>2
    <3> HIDE DEF r
    <3> QED
      BY <3>1, <3>2, <3>3, <3>4, <1>2, EditInv DEF NoReturn
  <2> QED
    BY <2>1, <2>2
<1>5. CallInv'
  BY <1>2 DEF CallInv, PreparingIsNew, RestoringOpen, CommittingOpen, At, Looping,
              Restoring, Committing, Undoing
<1>6. TypeOK'
  BY <1>2, <1>4 DEF QInv, TypeOK
<1> QED
  BY <1>4, <1>5, <1>6 DEF QInv

-----------------------------------------------------------------------------
(* reconcile_quarantine_transactions, step by step.                           *)

(* The transaction at hand has an intent.                                     *)
LEMMA NextHasIntent ==
  ASSUME NEW t \in Txns, IsNext(t)
  PROVE  HasIntent(t) /\ At("reconcile")
  BY DEF IsNext, Waiting

(* Blocking it releases the lock.                                             *)
LEMMA BlockInv ==
  ASSUME QInv, NEW t \in Txns, ReconcileBlock(t) \/ ReconcileRestoreFails(t)
  PROVE  QInv'
<1> DEFINE j == JournalOf[t]
<1>1. /\ HasIntent(t) /\ MarkBlocked(t) /\ Release /\ Leave(call.who, "gone")
      /\ UNCHANGED <<fence, inodes, foreign>>
      /\ Blocks(t) \/ ~Settled(t)
  BY NextHasIntent DEF ReconcileBlock, ReconcileRestoreFails
<1>2. budget' \in Nat
  BY SpendFacts DEF QInv, TypeOK, ReconcileBlock, ReconcileRestoreFails
<1>3. rec[t].restored = "no"
  <2>1. CASE ~Settled(t)
    BY <2>1 DEF Settled
  <2>2. CASE Blocks(t) /\ Settled(t)
    <3>1. rec[t].finalized
      BY <2>2 DEF Blocks
    <3> QED
      BY <3>1 DEF QInv, FilesInv, RestoredIsReleased
  <2> QED
    BY <1>1, <2>1, <2>2
<1>4. phase' \in [Txns -> Phases] /\ NoReturn(Txns)
  BY <1>1, LeaveFacts, PhaseNames DEF QInv
<1>5. /\ src' \in [Journals -> File] /\ qua' \in [Journals -> File]
      /\ \A u \in Txns : rec[u].finalized =>
           qua'[JournalOf[u]] = qua[JournalOf[u]] /\ src'[JournalOf[u]] = src[JournalOf[u]]
  <2>1. CASE UNCHANGED <<src, qua>>
    BY <2>1 DEF QInv, TypeOK
  <2>2. CASE ReconcileRestoreFails(t) /\ CanMove(qua, src, j, rec[t].snap) /\ ToSource(j)
    <3>1. /\ src[j] = NoFile /\ qua[j] # NoFile /\ ~Refuses(t) /\ ~Settled(t)
          /\ ~rec[t].finalized
      BY <1>1, <2>2 DEF ReconcileRestoreFails, CanMove, TargetFree, HasIntent, Settled
    <3>2. fence[j] = t
      BY <3>1 DEF Refuses
    <3>3. \A u \in Txns : rec[u].finalized => JournalOf[u] # j
      BY <3>1, <3>2 DEF QInv, FilesInv, FinalizedStaysQuarantined
    <3>4. NoFile \in File /\ j \in Journals
      BY NoTxnIsNone DEF NoFile, File
    <3>5. /\ src' \in [Journals -> File] /\ qua' \in [Journals -> File]
          /\ \A k \in Journals : k # j => src'[k] = src[k] /\ qua'[k] = qua[k]
      BY <2>2, <3>4 DEF ToSource, QInv, TypeOK
    <3> QED
      BY <3>3, <3>5, NoTxnIsNone
  <2> QED
    BY <2>1, <2>2 DEF ReconcileBlock, ReconcileRestoreFails
<1>6. FilesInv' /\ rec' \in [Txns -> Record]
  BY <1>1, <1>3, <1>4, <1>5, MarkBlockedInv
<1>7. CallInv' /\ call' \in Call
  BY <1>1, ReleaseInv
<1>8. TypeOK'
  BY <1>1, <1>2, <1>4, <1>5, <1>6, <1>7 DEF QInv, TypeOK
<1> QED
  BY <1>6, <1>7, <1>8 DEF QInv

(* A terminal transaction is passed.                                          *)
LEMMA PassInv ==
  ASSUME QInv, NEW t \in Txns, ReconcilePass(t)
  PROVE  QInv'
<1>1. /\ call.pc = "reconcile" /\ call \in Call
      /\ call' = [call EXCEPT !.done = @ \cup {t}]
      /\ UNCHANGED <<src, qua, fence, rec, phase, inodes, foreign, budget>>
  BY NextHasIntent DEF ReconcilePass, Passed, At, QInv, TypeOK
<1>2. /\ call' \in Call /\ call'.pc = "reconcile" /\ call'.who = call.who
      /\ call'.next = call.next
  BY <1>1 DEF Call
<1>3. TypeOK'
  BY <1>1, <1>2 DEF QInv, TypeOK
<1>4. CallInv'
  BY <1>1, <1>2 DEF QInv, CallInv, PreparingIsNew, RestoringOpen, CommittingOpen, At,
                    Looping, Restoring, Committing, Undoing
<1> QED
  BY <1>1, <1>3, <1>4, FilesFrame DEF QInv, NoReturn

(* A journal is moved back only behind the fence of its own transaction, so   *)
(* never the journal of a finalized one.                                      *)
LEMMA ToSourceInv ==
  ASSUME QInv, NEW t \in Txns, ~rec[t].finalized, fence[JournalOf[t]] = t,
         ToSource(JournalOf[t]), UNCHANGED <<fence, rec, phase, foreign>>
  PROVE  FilesInv' /\ src' \in [Journals -> File] /\ qua' \in [Journals -> File]
<1> DEFINE j == JournalOf[t]
<1>1. NoFile \in File /\ j \in Journals
  BY NoTxnIsNone DEF NoFile, File
<1>2. /\ src' \in [Journals -> File] /\ qua' \in [Journals -> File]
      /\ \A k \in Journals : k # j => src'[k] = src[k] /\ qua'[k] = qua[k]
  BY <1>1 DEF ToSource, QInv, TypeOK
<1>3. \A u \in Txns : rec[u].finalized => JournalOf[u] # j
  BY DEF QInv, FilesInv, FinalizedStaysQuarantined
<1>4. FinalizedStaysQuarantined'
  BY <1>2, <1>3, NoTxnIsNone DEF QInv, FilesInv, FinalizedStaysQuarantined
<1>5. NewHasNoRecord' /\ ProposedHasIntent' /\ RecordsChain' /\ RestoredIsReleased'
  BY DEF QInv, FilesInv, NewHasNoRecord, ProposedHasIntent, RecordsChain,
         RestoredIsReleased, HasIntent
<1> QED
  BY <1>2, <1>4, <1>5 DEF FilesInv

(* An open transaction is restored.                                           *)
LEMMA RestoreInv ==
  ASSUME QInv, NEW t \in Txns, ReconcileRestore(t)
  PROVE  QInv'
<1> DEFINE j == JournalOf[t]
<1>1. /\ HasIntent(t) /\ At("reconcile") /\ ~Refuses(t) /\ ~Blocks(t) /\ ~Settled(t)
      /\ call' = [call EXCEPT !.pc = "reconcile.unfence", !.cur = t]
      /\ UNCHANGED <<fence, rec, phase, inodes, foreign, budget>>
  BY NextHasIntent DEF ReconcileRestore
<1>2. /\ call' \in Call /\ call'.pc = "reconcile.unfence" /\ call'.cur = t
      /\ call'.who = call.who /\ call'.next = call.next
  BY <1>1 DEF QInv, TypeOK, Call, Pcs
<1>3. ~rec[t].finalized /\ rec[t].snap # NoFile
  BY <1>1 DEF Settled, HasIntent
<1>4. /\ fence[j] \in {t, NoTxn} /\ FilesInv'
      /\ src' \in [Journals -> File] /\ qua' \in [Journals -> File]
  <2>1. CASE CanMove(qua, src, j, rec[t].snap) /\ ToSource(j)
    <3>1. src[j] = NoFile /\ qua[j] # NoFile
      BY <1>3, <2>1 DEF CanMove, TargetFree
    <3>2. fence[j] = t
      BY <1>1, <3>1 DEF Refuses
    <3> QED
      BY <1>1, <1>3, <2>1, <3>2, ToSourceInv
  <2>2. CASE qua[j] = NoFile /\ UNCHANGED <<src, qua>>
    <3>1. Continues(src[j], rec[t].snap)
      BY <1>1, <1>3, <2>2 DEF Blocks
    <3>2. fence[j] \in {t, NoTxn}
      BY <1>1, <2>2, <3>1 DEF Refuses
    <3> QED
      BY <1>1, <2>2, <3>2, FilesFrame DEF QInv, TypeOK, NoReturn
  <2> QED
    BY <2>1, <2>2 DEF ReconcileRestore
<1>5. TypeOK'
  BY <1>1, <1>2, <1>4 DEF QInv, TypeOK
<1>6. PreparingIsNew'
  BY <1>1, <1>2 DEF QInv, CallInv, PreparingIsNew, At, Looping
<1>7. RestoringOpen'
  BY <1>1, <1>2, <1>4 DEF RestoringOpen, At, Restoring, HasIntent, Settled
<1>8. CommittingOpen'
  BY <1>2 DEF CommittingOpen, At, Committing, Undoing
<1> QED
  BY <1>4, <1>5, <1>6, <1>7, <1>8 DEF QInv, CallInv

(* A fence is given or taken only by an open transaction, and only where no   *)
(* other transaction holds it: finalized ones keep theirs.                    *)
LEMMA FenceInv ==
  ASSUME QInv, NEW t \in Txns, ~Settled(t), NEW f \in {t, NoTxn},
         fence[JournalOf[t]] \in {t, NoTxn}, fence' = [fence EXCEPT ![JournalOf[t]] = f],
         UNCHANGED <<src, qua, rec, phase, foreign>>
  PROVE  /\ FilesInv' /\ fence' \in [Journals -> Txns \cup {NoTxn}]
         /\ fence'[JournalOf[t]] = f
<1> DEFINE j == JournalOf[t]
<1>1. /\ fence' \in [Journals -> Txns \cup {NoTxn}] /\ fence'[j] = f
      /\ \A k \in Journals : k # j => fence'[k] = fence[k]
  BY NoTxnIsNone DEF QInv, TypeOK
<1>2. ~rec[t].finalized /\ rec[t].restored = "no"
  BY DEF Settled
<1>3. FinalizedStaysQuarantined'
  <2>1. \A u \in Txns : rec[u].finalized => JournalOf[u] # j
    BY <1>2, NoTxnIsNone DEF QInv, FilesInv, FinalizedStaysQuarantined
  <2> QED
    BY <1>1, <2>1, NoTxnIsNone DEF QInv, FilesInv, FinalizedStaysQuarantined
<1>4. RestoredIsReleased'
  BY <1>1, <1>2, NoTxnIsNone DEF QInv, FilesInv, RestoredIsReleased
<1>5. NewHasNoRecord' /\ ProposedHasIntent' /\ RecordsChain'
  BY DEF QInv, FilesInv, NewHasNoRecord, ProposedHasIntent, RecordsChain, HasIntent
<1> QED
  BY <1>1, <1>3, <1>4, <1>5 DEF FilesInv

(* The fence of the restored transaction is removed, ...                      *)
LEMMA UnfenceInv ==
  ASSUME QInv, ReconcileUnfence
  PROVE  QInv'
<1> DEFINE t == call.cur
<1>1. /\ call.pc = "reconcile.unfence" /\ Goto("reconcile.mark")
      /\ fence' = [fence EXCEPT ![JournalOf[t]] = NoTxn]
      /\ UNCHANGED <<src, qua, rec, phase, inodes, foreign, budget>>
  BY DEF ReconcileUnfence, At
<1>2. t \in Txns /\ HasIntent(t) /\ ~Settled(t) /\ fence[JournalOf[t]] \in {t, NoTxn}
  BY <1>1 DEF QInv, CallInv, RestoringOpen, Restoring
<1>3. /\ call' \in Call /\ call'.pc = "reconcile.mark" /\ call'.who = call.who
      /\ call'.cur = t /\ call'.next = call.next
  BY <1>1, GotoFacts DEF QInv, Pcs
<1>4. /\ FilesInv' /\ fence' \in [Journals -> Txns \cup {NoTxn}]
      /\ fence'[JournalOf[t]] = NoTxn
  BY <1>1, <1>2, FenceInv
<1>5. TypeOK'
  BY <1>1, <1>3, <1>4 DEF QInv, TypeOK
<1>6. PreparingIsNew'
  BY <1>1, <1>3 DEF QInv, CallInv, PreparingIsNew, At, Looping
<1>7. RestoringOpen'
  BY <1>1, <1>2, <1>3, <1>4 DEF RestoringOpen, At, Restoring, HasIntent, Settled
<1>8. CommittingOpen'
  BY <1>3 DEF CommittingOpen, At, Committing, Undoing
<1> QED
  BY <1>4, <1>5, <1>6, <1>7, <1>8 DEF QInv, CallInv

(* ... and the transaction recorded as restored.                              *)
LEMMA MarkInv ==
  ASSUME QInv, ReconcileMark
  PROVE  QInv'
<1> DEFINE t == call.cur
<1>1. /\ call.pc = "reconcile.mark" /\ MarkRestored(t, rec[t].applied)
      /\ call' = [call EXCEPT !.pc = "reconcile", !.cur = NoTxn, !.done = @ \cup {t}]
      /\ UNCHANGED <<src, qua, fence, phase, inodes, foreign, budget>>
  BY DEF ReconcileMark, At
<1>2. t \in Txns /\ HasIntent(t) /\ ~Settled(t) /\ fence[JournalOf[t]] = NoTxn
  BY <1>1 DEF QInv, CallInv, RestoringOpen, Restoring, At
<1>3. FilesInv' /\ rec' \in [Txns -> Record]
  BY <1>1, <1>2, NoTxnIsNone, MarkRestoredInv DEF NoReturn
<1>4. /\ call' \in Call /\ call'.pc = "reconcile" /\ call'.who = call.who
      /\ call'.next = call.next
  BY <1>1, <1>2 DEF QInv, TypeOK, Call, Pcs
<1>5. TypeOK'
  BY <1>1, <1>3, <1>4 DEF QInv, TypeOK
<1>6. PreparingIsNew'
  BY <1>1, <1>4 DEF QInv, CallInv, PreparingIsNew, At, Looping
<1>7. RestoringOpen' /\ CommittingOpen'
  BY <1>4 DEF RestoringOpen, CommittingOpen, At, Restoring, Committing, Undoing
<1> QED
  BY <1>3, <1>5, <1>6, <1>7 DEF QInv, CallInv

(* The loop ends.                                                             *)
LEMMA DoneInv ==
  ASSUME QInv, ReconcileDone
  PROVE  QInv'
<1>1. /\ call.pc = "reconcile"
      /\ UNCHANGED <<src, qua, fence, rec, inodes, foreign, budget>>
  BY DEF ReconcileDone, At
<1>2. CASE call.next = "prepare" /\ Goto("prepare") /\ phase' = phase
  <2>1. call' \in Call /\ call'.pc = "prepare" /\ call'.who = call.who
    BY <1>2, GotoFacts DEF QInv, Pcs
  <2>2. TypeOK'
    BY <1>1, <1>2, <2>1 DEF QInv, TypeOK
  <2>3. PreparingIsNew'
    BY <1>1, <1>2, <2>1 DEF QInv, CallInv, PreparingIsNew, At, Looping
  <2>4. RestoringOpen' /\ CommittingOpen'
    BY <2>1 DEF RestoringOpen, CommittingOpen, At, Restoring, Committing, Undoing
  <2> QED
    BY <1>1, <1>2, <2>2, <2>3, <2>4, FilesFrame DEF QInv, CallInv, NoReturn
<1>3. CASE Release /\ Leave(call.who, "gone")
  BY <1>1, <1>3, ReleasingInv DEF QInv, TypeOK
<1> QED
  BY <1>2, <1>3 DEF ReconcileDone

(* prepare_quarantine_transaction writes the first record of a new source.    *)
LEMMA PrepareInv ==
  ASSUME QInv, Prepare
  PROVE  QInv'
<1> DEFINE t == call.who
           j == JournalOf[t]
<1>1. /\ call.pc = "prepare" /\ Release
      /\ UNCHANGED <<src, qua, fence, inodes, foreign, budget>>
  BY DEF Prepare, At
<1>2. t \in Txns /\ rec[t] = NoRecord
  BY <1>1 DEF QInv, CallInv, FilesInv, PreparingIsNew, NewHasNoRecord, At
<1>3. CASE src[j] = NoFile
  BY <1>1, <1>3, ReleasingInv DEF Prepare, QInv, TypeOK
<1>4. CASE src[j] # NoFile
  <2> DEFINE r == [NoRecord EXCEPT !.snap = src[j]]
  <2>1. rec' = [rec EXCEPT ![t] = r] /\ Leave(t, "proposed")
    BY <1>2, <1>4 DEF Prepare
  <2>2. /\ phase' \in [Txns -> Phases] /\ phase'[t] = "proposed"
        /\ NoReturn(Txns \ {t})
    BY <1>2, <2>1, LeaveFacts, PhaseNames DEF QInv
  <2>3. src[j] \in File
    BY <1>2, NoTxnIsNone DEF QInv, TypeOK
  <2>4. /\ r \in Record /\ r.snap = src[j] /\ r.finalized = FALSE /\ r.restored = "no"
    BY <2>3 DEF Record, NoRecord
  <2> HIDE DEF r
  <2>5. FilesInv' /\ rec' \in [Txns -> Record]
    BY <1>1, <1>2, <1>4, <2>1, <2>2, <2>4, EditInv
  <2>6. CallInv' /\ call' \in Call
    BY <1>1, ReleaseInv
  <2>7. TypeOK'
    BY <1>1, <2>2, <2>5, <2>6 DEF QInv, TypeOK
  <2> QED
    BY <2>5, <2>6, <2>7 DEF QInv
<1> QED
  BY <1>3, <1>4

-----------------------------------------------------------------------------
(* commit_fault and its handler, step by step.                                *)

(* A journal is moved only into an empty place, so never over one that is     *)
(* retained for a finalized transaction.                                      *)
LEMMA ToQuarantineInv ==
  ASSUME QInv, NEW j \in Journals, qua[j] = NoFile, ToQuarantine(j),
         UNCHANGED <<fence, rec, phase, foreign>>
  PROVE  FilesInv' /\ src' \in [Journals -> File] /\ qua' \in [Journals -> File]
<1>1. NoFile \in File
  BY DEF NoFile, File
<1>2. /\ src' \in [Journals -> File] /\ qua' \in [Journals -> File]
      /\ \A k \in Journals : k # j => src'[k] = src[k] /\ qua'[k] = qua[k]
  BY <1>1 DEF ToQuarantine, QInv, TypeOK
<1>3. \A u \in Txns : rec[u].finalized => JournalOf[u] # j
  BY DEF QInv, FilesInv, FinalizedStaysQuarantined, RecordsChain, HasIntent
<1>4. FinalizedStaysQuarantined'
  BY <1>2, <1>3, NoTxnIsNone DEF QInv, FilesInv, FinalizedStaysQuarantined
<1>5. NewHasNoRecord' /\ ProposedHasIntent' /\ RecordsChain' /\ RestoredIsReleased'
  BY DEF QInv, FilesInv, NewHasNoRecord, ProposedHasIntent, RecordsChain,
         RestoredIsReleased, HasIntent
<1> QED
  BY <1>2, <1>4, <1>5 DEF FilesInv

(* What holds of the transaction in commit_fault.                             *)
LEMMA CommittingFacts ==
  ASSUME QInv, call.pc \in Committing \cup Undoing
  PROVE  /\ call.who \in Txns /\ HasIntent(call.who) /\ ~Settled(call.who)
         /\ ~rec[call.who].finalized /\ JournalOf[call.who] \in Journals
         /\ call.moved => call.fenced
         /\ call.pc \in Committing \ {"commit.fence"} => call.fenced
         /\ (call.pc # "undo.mark" /\ call.fenced) => fence[JournalOf[call.who]] = call.who
<1>1. call.who \in Txns /\ HasIntent(call.who) /\ ~Settled(call.who)
  BY DEF QInv, CallInv, CommittingOpen
<1>2. JournalOf[call.who] \in Journals /\ ~rec[call.who].finalized
  BY <1>1, NoTxnIsNone DEF Settled
<1>3. call.moved => call.fenced
  BY DEF QInv, CallInv, CommittingOpen
<1>4. call.pc \in Committing \ {"commit.fence"} => call.fenced
  BY DEF QInv, CallInv, CommittingOpen
<1>5. (call.pc # "undo.mark" /\ call.fenced) => fence[JournalOf[call.who]] = call.who
  BY DEF QInv, CallInv, CommittingOpen, Committing, Undoing
<1> QED
  BY <1>1, <1>2, <1>3, <1>4, <1>5

(* What must hold after a step inside commit_fault.                           *)
LEMMA InsideCommit ==
  ASSUME call'.pc \in Committing \cup Undoing, call'.who \in Txns,
         HasIntent(call.who)', ~Settled(call.who)',
         call'.moved => call'.fenced,
         call'.pc \in Committing \ {"commit.fence"} => call'.fenced,
         (call'.pc # "undo.mark" /\ call'.fenced) => fence'[JournalOf[call'.who]] = call'.who,
         (call'.pc = "undo.mark" /\ call'.moved) => fence'[JournalOf[call'.who]] # call'.who
  PROVE  CallInv'
<1>1. PreparingIsNew'
  BY DEF PreparingIsNew, At, Looping, Committing, Undoing
<1>2. RestoringOpen'
  BY DEF RestoringOpen, At, Restoring, Committing, Undoing
<1>3. CommittingOpen'
  BY DEF CommittingOpen, At, Committing, Undoing
<1> QED
  BY <1>1, <1>2, <1>3 DEF CallInv

(* Taking the lock to commit, or being refused.                               *)
LEMMA CommitInv ==
  ASSUME QInv, NEW t \in Txns, Commit(t)
  PROVE  QInv'
<1>1. /\ phase[t] = "proposed"
      /\ UNCHANGED <<src, qua, fence, rec, inodes, foreign, budget>>
  BY DEF Commit
<1>2. CASE Committable(t) /\ phase' = phase
           /\ call' = [Released EXCEPT !.pc = "commit.fence", !.who = t]
  <2>1. /\ call' \in Call /\ call'.pc = "commit.fence" /\ call'.who = t
        /\ ~call'.moved /\ ~call'.fenced
    BY <1>2, ReleasedType DEF Released, Call, Pcs
  <2>2. ~Settled(t)
    BY <1>2 DEF Committable
  <2>3. HasIntent(t)
    BY <1>1 DEF QInv, FilesInv, ProposedHasIntent
  <2>4. HasIntent(t)' /\ ~Settled(t)'
    BY <1>1, <2>2, <2>3 DEF HasIntent, Settled
  <2>5. CallInv'
    BY <2>1, <2>4, InsideCommit DEF Committing
  <2>6. TypeOK'
    BY <1>1, <1>2, <2>1 DEF QInv, TypeOK
  <2>7. FilesInv'
    BY <1>1, <1>2, FilesFrame DEF QInv, NoReturn
  <2> QED
    BY <2>5, <2>6, <2>7 DEF QInv
<1>3. CASE Leave(t, "abort") /\ call' = call
  BY <1>1, <1>3, WaitingInv DEF QInv, TypeOK
<1> QED
  BY <1>2, <1>3 DEF Commit

(* The fence, ...                                                             *)
LEMMA CommitFenceInv ==
  ASSUME QInv, CommitFence
  PROVE  QInv'
<1> DEFINE t == call.who
           j == JournalOf[t]
<1>1. /\ call.pc = "commit.fence" /\ fence[j] \in {NoTxn, t}
      /\ fence' = [fence EXCEPT ![j] = t]
      /\ call' = [call EXCEPT !.pc = "commit.move", !.fenced = TRUE]
      /\ UNCHANGED <<src, qua, rec, phase, inodes, foreign, budget>>
  BY DEF CommitFence, At
<1>2. t \in Txns /\ HasIntent(t) /\ ~Settled(t)
  BY <1>1, CommittingFacts DEF Committing
<1>3. /\ call' \in Call /\ call'.pc = "commit.move" /\ call'.who = t /\ call'.fenced
  BY <1>1 DEF QInv, TypeOK, Call, Pcs
<1>4. /\ FilesInv' /\ fence' \in [Journals -> Txns \cup {NoTxn}] /\ fence'[j] = t
  BY <1>1, <1>2, FenceInv
<1>5. HasIntent(t)' /\ ~Settled(t)'
  BY <1>1, <1>2, <1>3 DEF HasIntent, Settled
<1>6. CallInv'
  BY <1>2, <1>3, <1>4, <1>5, InsideCommit DEF Committing
<1>7. TypeOK'
  BY <1>1, <1>3, <1>4 DEF QInv, TypeOK
<1> QED
  BY <1>4, <1>6, <1>7 DEF QInv

(* ... the move, ...                                                          *)
LEMMA CommitMoveInv ==
  ASSUME QInv, CommitMove
  PROVE  QInv'
<1> DEFINE t == call.who
           j == JournalOf[t]
<1>1. /\ call.pc = "commit.move" /\ qua[j] = NoFile /\ ToQuarantine(j)
      /\ call' = [call EXCEPT !.pc = "commit.applied", !.moved = TRUE]
      /\ UNCHANGED <<fence, rec, phase, inodes, foreign, budget>>
  BY DEF CommitMove, At, CanMove, TargetFree
<1>2. /\ t \in Txns /\ HasIntent(t) /\ ~Settled(t) /\ j \in Journals
      /\ call.fenced /\ fence[j] = t
  BY <1>1, CommittingFacts DEF Committing
<1>3. /\ call' \in Call /\ call'.pc = "commit.applied" /\ call'.who = t
      /\ call'.fenced = call.fenced
  BY <1>1 DEF QInv, TypeOK, Call, Pcs
<1>4. FilesInv' /\ src' \in [Journals -> File] /\ qua' \in [Journals -> File]
  BY <1>1, <1>2, ToQuarantineInv
<1>5. HasIntent(t)' /\ ~Settled(t)'
  BY <1>1, <1>2, <1>3 DEF HasIntent, Settled
<1>6. CallInv'
  BY <1>1, <1>2, <1>3, <1>5, InsideCommit DEF Committing
<1>7. TypeOK'
  BY <1>1, <1>3, <1>4 DEF QInv, TypeOK
<1> QED
  BY <1>4, <1>6, <1>7 DEF QInv

(* ... and the applied record.                                                *)
LEMMA CommitAppliedInv ==
  ASSUME QInv, CommitApplied
  PROVE  QInv'
<1> DEFINE t == call.who
<1>1. /\ call.pc = "commit.applied" /\ rec' = [rec EXCEPT ![t].applied = TRUE]
      /\ call' = [call EXCEPT !.pc = "commit.audit", !.applied = TRUE]
      /\ UNCHANGED <<src, qua, fence, phase, inodes, foreign, budget>>
  BY DEF CommitApplied, At
<1>2. t \in Txns /\ HasIntent(t) /\ ~Settled(t) /\ call.fenced /\ fence[JournalOf[t]] = t
  BY <1>1, CommittingFacts DEF Committing
<1>3. /\ call' \in Call /\ call'.pc = "commit.audit" /\ call'.who = t
      /\ call'.fenced = call.fenced
  BY <1>1 DEF QInv, TypeOK, Call, Pcs
<1>4. FilesInv' /\ rec' \in [Txns -> Record]
  BY <1>1, <1>2, AppliedInv
<1>5. HasIntent(t)' /\ ~Settled(t)'
  BY <1>1, <1>2, <1>3 DEF HasIntent, Settled, QInv, TypeOK, Record
<1>6. CallInv'
  BY <1>1, <1>2, <1>3, <1>5, InsideCommit DEF Committing
<1>7. TypeOK'
  BY <1>1, <1>3, <1>4 DEF QInv, TypeOK
<1> QED
  BY <1>4, <1>6, <1>7 DEF QInv

(* A step that raises enters the handler, ...                                 *)
LEMMA RaisesInv ==
  ASSUME QInv, CommitRaises
  PROVE  QInv'
<1>1. /\ call.pc \in Committing /\ Goto("undo.restore")
      /\ UNCHANGED <<src, qua, fence, rec, phase, inodes, foreign>>
  BY DEF CommitRaises, Committing
<1>2. budget' \in Nat
  BY SpendFacts DEF CommitRaises, QInv, TypeOK
<1>3. /\ call.who \in Txns /\ HasIntent(call.who) /\ ~Settled(call.who)
      /\ call.moved => call.fenced
      /\ call.fenced => fence[JournalOf[call.who]] = call.who
  BY <1>1, CommittingFacts DEF Committing
<1>4. /\ call' \in Call /\ call'.pc = "undo.restore" /\ call'.who = call.who
      /\ call'.moved = call.moved /\ call'.fenced = call.fenced
  BY <1>1, GotoFacts DEF QInv, Pcs
<1>5. HasIntent(call.who)' /\ ~Settled(call.who)'
  BY <1>1, <1>3, <1>4 DEF HasIntent, Settled
<1>6. CallInv'
  BY <1>1, <1>3, <1>4, <1>5, InsideCommit DEF Committing, Undoing
<1>7. TypeOK'
  BY <1>1, <1>2, <1>4 DEF QInv, TypeOK
<1> QED
  BY <1>1, <1>6, <1>7, FilesFrame DEF QInv, NoReturn

(* ... also when its effect has taken place.                                  *)
LEMMA RaisesLateInv ==
  ASSUME QInv, CommitRaisesLate
  PROVE  QInv'
<1> DEFINE t == call.who
           j == JournalOf[t]
<1>1. /\ call.pc \in Committing /\ call.pc # "commit.audit" /\ Goto("undo.restore")
      /\ UNCHANGED <<phase, inodes, foreign>> /\ budget' \in Nat
  BY SpendFacts DEF CommitRaisesLate, Committing, At, QInv
<1>2. /\ t \in Txns /\ HasIntent(t) /\ ~Settled(t) /\ j \in Journals
      /\ call.moved => call.fenced
      /\ call.fenced => fence[j] = t
  BY <1>1, CommittingFacts DEF Committing
<1>3. /\ call' \in Call /\ call'.pc = "undo.restore" /\ call'.who = t
      /\ call'.moved = call.moved /\ call'.fenced = call.fenced
  BY <1>1, GotoFacts DEF QInv, Pcs
<1>4. /\ FilesInv' /\ src' \in [Journals -> File] /\ qua' \in [Journals -> File]
      /\ rec' \in [Txns -> Record] /\ fence' \in [Journals -> Txns \cup {NoTxn}]
      /\ call.fenced => fence'[j] = t
      /\ rec'[t].snap = rec[t].snap /\ rec'[t].finalized = rec[t].finalized
      /\ rec'[t].restored = rec[t].restored /\ rec'[t].blocked = rec[t].blocked
  <2>1. CASE /\ fence[j] \in {NoTxn, t} /\ fence' = [fence EXCEPT ![j] = t]
             /\ UNCHANGED <<src, qua, rec>>
    BY <1>1, <1>2, <2>1, FenceInv DEF QInv, TypeOK
  <2>2. CASE /\ CanMove(src, qua, j, rec[t].snap) /\ ToQuarantine(j)
             /\ UNCHANGED <<fence, rec>>
    <3>1. qua[j] = NoFile
      BY <2>2 DEF CanMove, TargetFree
    <3> QED
      BY <1>1, <1>2, <2>2, <3>1, ToQuarantineInv DEF QInv, TypeOK
  <2>3. CASE rec' = [rec EXCEPT ![t].applied = TRUE] /\ UNCHANGED <<src, qua, fence>>
    <3>1. FilesInv' /\ rec' \in [Txns -> Record]
      BY <1>1, <1>2, <2>3, AppliedInv
    <3>2. /\ rec'[t].snap = rec[t].snap /\ rec'[t].finalized = rec[t].finalized
          /\ rec'[t].restored = rec[t].restored /\ rec'[t].blocked = rec[t].blocked
      BY <1>2, <2>3 DEF QInv, TypeOK, Record
    <3> QED
      BY <1>2, <2>3, <3>1, <3>2 DEF QInv, TypeOK
  <2> QED
    BY <2>1, <2>2, <2>3 DEF CommitRaisesLate
<1>5. HasIntent(t)' /\ ~Settled(t)'
  BY <1>2, <1>3, <1>4 DEF HasIntent, Settled
<1>6. CallInv'
  BY <1>1, <1>2, <1>3, <1>4, <1>5, InsideCommit DEF Committing, Undoing
<1>7. TypeOK'
  BY <1>1, <1>3, <1>4 DEF QInv, TypeOK
<1> QED
  BY <1>4, <1>6, <1>7 DEF QInv

(* The handler moves the journal back, ...                                    *)
LEMMA UndoRestoreInv ==
  ASSUME QInv, UndoRestore
  PROVE  QInv'
<1> DEFINE t == call.who
           j == JournalOf[t]
<1>1. /\ call.pc = "undo.restore" /\ Goto("undo.unfence")
      /\ UNCHANGED <<fence, rec, phase, inodes, foreign, budget>>
      /\ (call.moved /\ ToSource(j)) \/ UNCHANGED <<src, qua>>
  BY DEF UndoRestore, At
<1>2. /\ t \in Txns /\ HasIntent(t) /\ ~Settled(t) /\ ~rec[t].finalized
      /\ call.moved => call.fenced
      /\ call.fenced => fence[j] = t
  BY <1>1, CommittingFacts DEF Undoing
<1>3. /\ call' \in Call /\ call'.pc = "undo.unfence" /\ call'.who = t
      /\ call'.moved = call.moved /\ call'.fenced = call.fenced
  BY <1>1, GotoFacts DEF QInv, Pcs
<1>4. FilesInv' /\ src' \in [Journals -> File] /\ qua' \in [Journals -> File]
  <2>1. CASE call.moved /\ ToSource(j)
    BY <1>1, <1>2, <2>1, ToSourceInv
  <2>2. CASE UNCHANGED <<src, qua>>
    BY <1>1, <2>2, FilesFrame DEF QInv, TypeOK, NoReturn
  <2> QED
    BY <1>1, <2>1, <2>2
<1>5. HasIntent(t)' /\ ~Settled(t)'
  BY <1>1, <1>2, <1>3 DEF HasIntent, Settled
<1>6. CallInv'
  BY <1>1, <1>2, <1>3, <1>5, InsideCommit DEF Committing, Undoing
<1>7. TypeOK'
  BY <1>1, <1>3, <1>4 DEF QInv, TypeOK
<1> QED
  BY <1>4, <1>6, <1>7 DEF QInv

(* ... removes the fence it installed, ...                                    *)
LEMMA UndoUnfenceInv ==
  ASSUME QInv, UndoUnfence
  PROVE  QInv'
<1> DEFINE t == call.who
           j == JournalOf[t]
<1>1. /\ call.pc = "undo.unfence" /\ Goto("undo.mark")
      /\ fence' = IF call.fenced THEN [fence EXCEPT ![j] = NoTxn] ELSE fence
      /\ UNCHANGED <<src, qua, rec, phase, inodes, foreign, budget>>
  BY DEF UndoUnfence, At
<1>2. /\ t \in Txns /\ HasIntent(t) /\ ~Settled(t)
      /\ call.moved => call.fenced
      /\ call.fenced => fence[j] = t
  BY <1>1, CommittingFacts DEF Undoing
<1>3. /\ call' \in Call /\ call'.pc = "undo.mark" /\ call'.who = t
      /\ call'.moved = call.moved /\ call'.fenced = call.fenced
  BY <1>1, GotoFacts DEF QInv, Pcs
<1>4. /\ FilesInv' /\ fence' \in [Journals -> Txns \cup {NoTxn}]
      /\ call.fenced => fence'[j] = NoTxn
  <2>1. CASE call.fenced
    BY <1>1, <1>2, <2>1, FenceInv
  <2>2. CASE ~call.fenced
    BY <1>1, <2>2, FilesFrame DEF QInv, TypeOK, NoReturn
  <2> QED
    BY <2>1, <2>2
<1>5. HasIntent(t)' /\ ~Settled(t)'
  BY <1>1, <1>2, <1>3 DEF HasIntent, Settled
<1>6. CallInv'
  BY <1>1, <1>2, <1>3, <1>4, <1>5, NoTxnIsNone, InsideCommit DEF Committing, Undoing
<1>7. TypeOK'
  BY <1>1, <1>3, <1>4 DEF QInv, TypeOK
<1> QED
  BY <1>4, <1>6, <1>7 DEF QInv

(* ... and settles the transaction.                                           *)
LEMMA UndoMarkInv ==
  ASSUME QInv, UndoMark
  PROVE  QInv'
<1> DEFINE t == call.who
<1>1. /\ call.pc = "undo.mark" /\ Release
      /\ UNCHANGED <<src, qua, fence, inodes, foreign, budget>>
  BY DEF UndoMark, At
<1>2. t \in Txns /\ HasIntent(t) /\ ~Settled(t)
  BY <1>1, CommittingFacts DEF Undoing
<1>3. CASE call.moved /\ MarkRestored(t, call.applied) /\ Leave(t, "gone")
  <2>1. fence[JournalOf[t]] # t
    BY <1>1, <1>3 DEF QInv, CallInv, CommittingOpen, At
  <2>2. phase' \in [Txns -> Phases] /\ NoReturn(Txns)
    BY <1>3, LeaveFacts, PhaseNames DEF QInv
  <2>3. FilesInv' /\ rec' \in [Txns -> Record]
    BY <1>1, <1>2, <1>3, <2>1, <2>2, MarkRestoredInv
  <2>4. CallInv' /\ call' \in Call
    BY <1>1, ReleaseInv
  <2>5. TypeOK'
    BY <1>1, <2>2, <2>3, <2>4 DEF QInv, TypeOK
  <2> QED
    BY <2>3, <2>4, <2>5 DEF QInv
<1>4. CASE rec' = rec /\ Leave(t, "abort")
  BY <1>1, <1>4, ReleasingInv DEF QInv, TypeOK
<1> QED
  BY <1>3, <1>4 DEF UndoMark

-----------------------------------------------------------------------------
(* Writers and strangers.                                                     *)

(* A source journal changes where no finalized transaction is fenced, or is   *)
(* recorded as replaced.                                                      *)
LEMMA SourceInv ==
  ASSUME QInv, NEW j \in Journals, NEW f \in File, src' = [src EXCEPT ![j] = f],
         UNCHANGED <<qua, fence, rec, phase, call>>, foreign \subseteq foreign',
         foreign' \subseteq Journals, fence[j] = NoTxn \/ j \in foreign',
         inodes' \in Nat, budget' \in Nat
  PROVE  QInv'
<1>1. src' \in [Journals -> File] /\ \A k \in Journals : k # j => src'[k] = src[k]
  BY DEF QInv, TypeOK
<1>2. TypeOK'
  BY <1>1 DEF QInv, TypeOK
<1>3. FinalizedStaysQuarantined'
  <2>1. \A u \in Txns : rec[u].finalized /\ JournalOf[u] = j => j \in foreign'
    BY NoTxnIsNone DEF QInv, FilesInv, FinalizedStaysQuarantined
  <2> QED
    BY <1>1, <2>1, NoTxnIsNone DEF QInv, FilesInv, FinalizedStaysQuarantined
<1>4. NewHasNoRecord' /\ ProposedHasIntent' /\ RecordsChain' /\ RestoredIsReleased'
  BY DEF QInv, FilesInv, NewHasNoRecord, ProposedHasIntent, RecordsChain,
         RestoredIsReleased, HasIntent
<1>5. CallInv'
  BY CallFrame DEF QInv
<1> QED
  BY <1>2, <1>3, <1>4, <1>5 DEF QInv, FilesInv

(* append_event creates a journal or adds a record to it.                     *)
LEMMA AppendInv ==
  ASSUME QInv, NEW j \in Journals, Append(j)
  PROVE  QInv'
<1>1. /\ fence[j] = NoTxn /\ UNCHANGED <<qua, fence, rec, phase, call, foreign, budget>>
  BY DEF Append, Fenced
<1>2. src[j] \in File /\ inodes \in Nat /\ budget \in Nat /\ foreign \subseteq Journals
  BY DEF QInv, TypeOK
<1>3. \E f \in File : src' = [src EXCEPT ![j] = f] /\ inodes' \in Nat
  <2>1. CASE /\ src' = [src EXCEPT ![j] = [ino |-> inodes + 1, len |-> 1]]
             /\ inodes' = inodes + 1
    <3>1. [ino |-> inodes + 1, len |-> 1] \in File /\ inodes + 1 \in Nat
      BY <1>2 DEF File
    <3> QED
      BY <2>1, <3>1
  <2>2. CASE src' = [src EXCEPT ![j].len = @ + 1] /\ inodes' = inodes
    <3>1. [src[j] EXCEPT !.len = @ + 1] \in File
      BY <1>2 DEF File
    <3>2. src' = [src EXCEPT ![j] = [src[j] EXCEPT !.len = @ + 1]]
      BY <2>2 DEF QInv, TypeOK
    <3> QED
      BY <1>2, <2>2, <3>1, <3>2
  <2> QED
    BY <2>1, <2>2 DEF Append
<1> QED
  BY <1>1, <1>2, <1>3, SourceInv

(* A replacement is remembered.                                               *)
LEMMA ReplaceInv ==
  ASSUME QInv, NEW j \in Journals, Replace(j)
  PROVE  QInv'
<1>1. /\ foreign' = foreign \cup {j} /\ UNCHANGED <<qua, fence, rec, phase, call>>
      /\ Spend
  BY DEF Replace
<1>2. inodes \in Nat /\ foreign \subseteq Journals /\ NoFile \in File /\ budget' \in Nat
  BY <1>1, SpendFacts DEF QInv, TypeOK, NoFile, File
<1>3. \E f \in File : src' = [src EXCEPT ![j] = f] /\ inodes' \in Nat
  BY <1>2 DEF Replace, File
<1> QED
  BY <1>1, <1>2, <1>3, SourceInv

-----------------------------------------------------------------------------
(* The invariant is inductive.                                                *)
LEMMA StepInv == QInv /\ [Next]_vars => QInv'
<1> SUFFICES ASSUME QInv, [Next]_vars PROVE QInv'
  OBVIOUS
<1>1. CASE Continue
  BY <1>1, SimpleSteps, BlockInv, PassInv, RestoreInv, UnfenceInv, MarkInv, DoneInv,
     PrepareInv, CommitFenceInv, CommitMoveInv, CommitAppliedInv, UndoRestoreInv,
     UndoUnfenceInv, UndoMarkInv, RaisesInv DEF Continue
<1>2. CASE Sweep
  BY <1>2, SimpleSteps
<1>3. CASE \E t \in Txns : Operate(t)
  BY <1>3, SimpleSteps, CommitInv, FinalizeInv DEF Operate
<1>4. CASE Environment
  BY <1>4, SimpleSteps, RaisesLateInv, BlockInv, AppendInv, ReplaceInv DEF Environment
<1>5. CASE UNCHANGED vars
  <2>1. UNCHANGED <<src, qua, fence, rec, phase, call, inodes, foreign, budget>>
    BY <1>5 DEF vars
  <2> QED
    BY <2>1, FilesFrame, CallFrame DEF QInv, TypeOK, NoReturn
<1> QED
  BY <1>1, <1>2, <1>3, <1>4, <1>5 DEF Next

(* Every reachable state satisfies it.                                        *)
LEMMA Invariance == Spec => []QInv
  BY InitInv, StepInv, PTL DEF Spec

(* Every file, record and local variable of the actuator keeps its type, for  *)
(* every set of transactions and journals.                                    *)
THEOREM TypeCorrect == Spec => []TypeOK
<1>1. QInv => TypeOK
  BY DEF QInv
<1> QED
  BY <1>1, Invariance, PTL

(* finalize_quarantine_transaction is final: no later commit, undo, crash,    *)
(* reconciliation or writer touches the retained journal or its fence.        *)
THEOREM FinalizedSafety == Spec => []FinalizedStaysQuarantined
<1>1. QInv => FinalizedStaysQuarantined
  BY DEF QInv, FilesInv
<1> QED
  BY <1>1, Invariance, PTL

(* reconcile_quarantine_transactions and the runner never settle the same     *)
(* transaction both ways, and a restored one leaves no fence behind.          *)
THEOREM RestoredSafety == Spec => []RestoredIsReleased
<1>1. QInv => RestoredIsReleased
  BY DEF QInv, FilesInv
<1> QED
  BY <1>1, Invariance, PTL

-----------------------------------------------------------------------------
(* Evidence. *)

(* What one step may do to the journal files.                                 *)
Kept(j) == \A f \in {src[j], qua[j]} :
             f # NoFile => \E g \in {src'[j], qua'[j]} : Continues(g, f)

(* A file continues itself.                                                   *)
LEMMA ContinuesItself == \A f \in File : Continues(f, f)
  BY DEF File, Continues

(* Files that are not touched are kept.                                       *)
LEMMA UntouchedKept ==
  ASSUME TypeOK, NEW j \in Journals, src'[j] = src[j], qua'[j] = qua[j]
  PROVE  Kept(j)
<1>1. src[j] \in File /\ qua[j] \in File
  BY DEF TypeOK
<1> QED
  BY <1>1, ContinuesItself DEF Kept

(* A move between the directories keeps both files.                           *)
LEMMA MovedKept ==
  ASSUME TypeOK, NEW k \in Journals, NEW j \in Journals,
         \/ ToQuarantine(k) /\ qua[k] = NoFile
         \/ ToSource(k) /\ src[k] = NoFile
  PROVE  Kept(j)
<1>1. src[j] \in File /\ qua[j] \in File
  BY DEF TypeOK
<1>2. CASE j # k
  BY <1>2, UntouchedKept DEF ToQuarantine, ToSource, TypeOK
<1>3. CASE j = k /\ ToQuarantine(k) /\ qua[k] = NoFile
  <2>1. qua'[j] = src[j] /\ qua[j] = NoFile
    BY <1>3 DEF ToQuarantine, TypeOK
  <2> QED
    BY <1>1, <2>1, ContinuesItself DEF Kept
<1>4. CASE j = k /\ ToSource(k) /\ src[k] = NoFile
  <2>1. src'[j] = qua[j] /\ src[j] = NoFile
    BY <1>4 DEF ToSource, TypeOK
  <2> QED
    BY <1>1, <2>1, ContinuesItself DEF Kept
<1> QED
  BY <1>2, <1>3, <1>4

(* A writer only adds.                                                        *)
LEMMA AppendKept ==
  ASSUME TypeOK, NEW k \in Journals, NEW j \in Journals, Append(k)
  PROVE  Kept(j)
<1>1. src[j] \in File /\ qua[j] \in File /\ qua'[j] = qua[j]
  BY DEF TypeOK, Append
<1>2. CASE j # k
  BY <1>1, <1>2, UntouchedKept DEF Append, TypeOK
<1>3. CASE j = k /\ src[k] = NoFile
  BY <1>1, <1>3, ContinuesItself DEF Kept
<1>4. CASE j = k /\ src[k] # NoFile
  <2>1. src'[j] = [src[j] EXCEPT !.len = @ + 1]
    BY <1>4 DEF Append, TypeOK
  <2>2. Continues(src'[j], src[j])
    BY <1>1, <2>1 DEF File, Continues
  <2> QED
    BY <1>1, <2>2, ContinuesItself DEF Kept
<1> QED
  BY <1>2, <1>3, <1>4

(* Every step but a replacement keeps every file.                             *)
LEMMA StepKept ==
  ASSUME QInv, [Next]_vars, NEW j \in Journals, ~\E k \in Journals : Replace(k)
  PROVE  Kept(j)
<1> DEFINE Same == UNCHANGED <<src, qua>>
<1>t. TypeOK
  BY DEF QInv
<1>s. Same => Kept(j)
  BY <1>t, UntouchedKept
<1>f. \A f : TargetFree(f) => f = NoFile
  BY DEF TargetFree
<1>1. ASSUME NEW t \in Txns, ReconcileRestore(t) \/ ReconcileRestoreFails(t) PROVE Kept(j)
  BY <1>1, <1>t, <1>s, <1>f, MovedKept, NoTxnIsNone
  DEF ReconcileRestore, ReconcileRestoreFails, CanMove
<1>2. CASE CommitMove \/ CommitRaisesLate \/ UndoRestore
  <2>1. call.pc \in Committing \cup Undoing
    BY <1>2 DEF CommitMove, CommitRaisesLate, UndoRestore, At, Committing, Undoing
  <2>2. JournalOf[call.who] \in Journals
    BY <2>1, CommittingFacts
  <2> QED
    BY <1>2, <1>t, <1>s, <1>f, <2>2, MovedKept
    DEF CommitMove, CommitRaisesLate, UndoRestore, CanMove
<1>3. CASE Continue
  <2>1. ASSUME NEW t \in Txns, ReconcileRaise(t) \/ ReconcileBlock(t) \/ ReconcilePass(t)
        PROVE Same
    BY <2>1 DEF ReconcileRaise, ReconcileBlock, ReconcilePass
  <2>2. ReconcileUnfence \/ ReconcileMark \/ ReconcileDone \/ Prepare => Same
    BY DEF ReconcileUnfence, ReconcileMark, ReconcileDone, Prepare
  <2>3. CommitFence \/ CommitApplied \/ CommitAudit \/ UndoUnfence \/ UndoMark
        \/ CommitRaises \/ UndoRaises => Same
    BY DEF CommitFence, CommitApplied, CommitAudit, UndoUnfence, UndoMark,
           CommitRaises, UndoRaises
  <2> QED
    BY <1>1, <1>2, <1>3, <1>s, <2>1, <2>2, <2>3 DEF Continue
<1>4. CASE Sweep
  BY <1>4, <1>s DEF Sweep, Reconcile
<1>5. CASE \E t \in Txns : Operate(t)
  BY <1>5, <1>s DEF Operate, Start, Abort, Reconcile, Withdraw, AbortBusy, Commit, Finalize
<1>6. CASE Environment
  <2>1. ASSUME NEW t \in Txns, CrashWaiting(t) PROVE Same
    BY <2>1 DEF CrashWaiting
  <2>2. Crash => Same
    BY DEF Crash
  <2> QED
    BY <1>1, <1>2, <1>6, <1>t, <1>s, <2>1, <2>2, AppendKept DEF Environment
<1>7. CASE UNCHANGED vars
  BY <1>7, <1>s DEF vars
<1> QED
  BY <1>3, <1>4, <1>5, <1>6, <1>7 DEF Next

(* Evidence is never destroyed: quarantine_journal, restore_quarantined_journal *)
(* and append_event, in whatever order and with whatever failing, lose no     *)
(* journal file and no record of one.                                         *)
THEOREM EvidenceSafety == Spec => EvidencePreserved
<1>1. QInv /\ [Next]_vars =>
        [\A j \in Journals : \A f \in {src[j], qua[j]} :
           (f # NoFile /\ ~\E k \in Journals : Replace(k)) =>
             \E g \in {src'[j], qua'[j]} : Continues(g, f)]_vars
  BY StepKept DEF Kept
<1> QED
  BY <1>1, Invariance, PTL DEF Spec, EvidencePreserved


-----------------------------------------------------------------------------
(* The fence of a quarantined journal.  That a fence is removed only when its *)
(* journal is back was decided when the move was made or refused, and that    *)
(* the fence a commit installs is new when the fact was proposed: AwayInv     *)
(* keeps both.  A step that raises after its effect (LateErrors) leaves a     *)
(* journal moved that the handler takes for unmoved, so it is excluded.       *)

(* A fence belongs to a source past its proposal, or in its only commit.      *)
FenceIsPast ==
  \A t \in Txns, j \in Journals : fence[j] = t =>
    \/ phase[t] \notin {"new", "proposed"}
    \/ call.who = t /\ call.pc \in (Committing \cup Undoing) \ {"commit.fence"}

(* The fence that is about to be removed has its journal back.                *)
RestoringBack == call.pc \in Restoring => qua[JournalOf[call.cur]] = NoFile
UndoingBack ==
  /\ (call.pc \in {"commit.move", "undo.restore"} /\ call.fenced /\ ~call.moved) =>
       qua[JournalOf[call.who]] = NoFile
  /\ (At("undo.unfence") /\ call.fenced) => qua[JournalOf[call.who]] = NoFile
  /\ At("commit.fence") => ~call.moved /\ ~call.fenced
  /\ call.pc \in {"commit.applied", "commit.audit"} => call.moved

(* A commit that has not fenced yet is the first of its source.               *)
CommitIsFirst == At("commit.fence") => phase[call.who] = "proposed"

AwayInv ==
  FencedWhileAway /\ FenceIsPast /\ RestoringBack /\ UndoingBack /\ CommitIsFirst

(* Steps that touch neither fences nor quarantine nor the critical section.   *)
LEMMA AwayStays ==
  ASSUME AwayInv, UNCHANGED <<qua, fence, call>>, NoReturn(Txns),
         At("commit.fence") => phase'[call.who] = phase[call.who]
  PROVE  AwayInv'
<1>1. FencedWhileAway' /\ RestoringBack' /\ UndoingBack' /\ CommitIsFirst'
  BY DEF AwayInv, FencedWhileAway, RestoringBack, UndoingBack, CommitIsFirst, At
<1>2. FenceIsPast'
  BY DEF AwayInv, FenceIsPast, NoReturn
<1> QED
  BY <1>1, <1>2 DEF AwayInv

(* Steps that take or release the lock, or go on to the next transaction.     *)
LEMMA AwayLeaves ==
  ASSUME AwayInv, UNCHANGED <<qua, fence>>, call'.pc \in {"idle", "reconcile", "prepare"},
         \A u \in Txns : phase'[u] \in {"new", "proposed"} =>
           /\ phase'[u] = phase[u] \/ phase[u] = "new"
           /\ ~(call.who = u /\ call.pc \in Committing \cup Undoing)
  PROVE  AwayInv'
<1>1. FencedWhileAway' /\ RestoringBack' /\ UndoingBack' /\ CommitIsFirst'
  BY DEF AwayInv, FencedWhileAway, RestoringBack, UndoingBack, CommitIsFirst, At, Restoring
<1>2. FenceIsPast'
  BY DEF AwayInv, FenceIsPast
<1> QED
  BY <1>1, <1>2 DEF AwayInv

(* Steps inside one commit that leave fences alone.                           *)
LEMMA AwayCommits ==
  ASSUME AwayInv, UNCHANGED <<fence, phase>>, call'.who = call.who,
         call.pc \in (Committing \cup Undoing) \ {"commit.fence"} =>
           call'.pc \in (Committing \cup Undoing) \ {"commit.fence"}
  PROVE  FenceIsPast'
  BY DEF AwayInv, FenceIsPast

(* Every step keeps the fence of a journal that is away.                      *)
LEMMA StepAway ==
  ASSUME QInv, AwayInv, Next, ~LateErrors
  PROVE  AwayInv'
<1> USE DEF At
<1>0. TypeOK /\ CallInv /\ call \in Call /\ qua \in [Journals -> File]
      /\ fence \in [Journals -> Txns \cup {NoTxn}]
  BY DEF QInv, TypeOK
<1>1. ASSUME Release PROVE call'.pc = "idle"
  BY <1>1 DEF Release, Released
<1>2. ASSUME NEW pc \in Pcs, Goto(pc)
      PROVE  /\ call'.pc = pc /\ call'.who = call.who /\ call'.cur = call.cur
             /\ call'.moved = call.moved /\ call'.fenced = call.fenced
  BY <1>0, <1>2, GotoFacts
<1>3. ASSUME NEW p \in {"abort", "exited", "gone"}, Leave(call.who, p)
      PROVE  \A u \in Txns : phase'[u] \in {"new", "proposed"} =>
               phase'[u] = phase[u] /\ call.who # u
  <2>1. p \in Phases /\ p \notin {"new", "proposed"}
    BY <1>3 DEF Phases
  <2>2. \A u \in Txns : phase'[u] = IF u = call.who THEN p ELSE phase[u]
    BY <1>0, <1>3, <2>1, LeaveFacts
  <2> QED
    BY <2>1, <2>2
<1>4. CASE \E t \in Txns : Withdraw(t) \/ AbortBusy(t) \/ CrashWaiting(t)
  <2>1. PICK t \in Txns : Withdraw(t) \/ AbortBusy(t) \/ CrashWaiting(t)
    BY <1>4
  <2>2. PICK p \in {"abort", "gone"} : Leave(t, p)
    BY <2>1 DEF Withdraw, AbortBusy, CrashWaiting
  <2>3. call.who # t /\ UNCHANGED <<qua, fence, call>>
    BY <2>1 DEF Withdraw, AbortBusy, CrashWaiting
  <2>4. NoReturn(Txns) /\ \A u \in Txns \ {t} : phase'[u] = phase[u]
    BY <1>0, <2>2, LeaveFacts, PhaseNames
  <2>5. call.pc = "commit.fence" => call.who \in Txns
    BY <1>0 DEF CallInv, CommittingOpen, Committing
  <2> QED
    BY <2>3, <2>4, <2>5, AwayStays
<1>5. CASE \/ \E t \in Txns : Finalize(t)
           \/ \E j \in Journals : Append(j) \/ Replace(j)
  <2>1. UNCHANGED <<qua, fence, call, phase>>
    BY <1>5 DEF Finalize, Append, Replace
  <2> QED
    BY <2>1, AwayStays DEF NoReturn
<1>6. CASE Sweep \/ \E t \in Txns : Start(t) \/ Abort(t)
  <2>1. PICK t, n : Reconcile(t, n)
    BY <1>6 DEF Sweep, Start, Abort
  <2>2. /\ call.pc = "idle" /\ call'.pc = "reconcile" /\ UNCHANGED <<qua, fence, phase>>
    BY <2>1 DEF Reconcile, Free, Released
  <2> QED
    BY <2>2, AwayLeaves DEF Committing, Undoing
<1>7. CASE \/ \E t \in Txns : ReconcileRaise(t) \/ ReconcileBlock(t)
           \/ \E t \in Txns : ReconcileRestoreFails(t)
           \/ CommitAudit \/ Crash
  <2>1. /\ UNCHANGED <<qua, fence>> /\ Release
        /\ Leave(call.who, "gone") \/ Leave(call.who, "exited")
    BY <1>7 DEF ReconcileRaise, ReconcileBlock, ReconcileRestoreFails, CommitAudit, Crash
  <2> QED
    BY <1>1, <1>3, <2>1, AwayLeaves
<1>8. CASE UndoMark \/ UndoRaises
  <2>1. /\ UNCHANGED <<qua, fence>> /\ Release
        /\ Leave(call.who, "gone") \/ Leave(call.who, "abort")
    BY <1>8 DEF UndoMark, UndoRaises
  <2> QED
    BY <1>1, <1>3, <2>1, AwayLeaves
<1>9. CASE ReconcileMark \/ \E t \in Txns : ReconcilePass(t)
  <2>1. /\ call.pc \in Looping /\ call'.pc = "reconcile" /\ UNCHANGED <<qua, fence, phase>>
    BY <1>0, <1>9 DEF ReconcileMark, ReconcilePass, IsNext, Passed, Call, Looping
  <2> QED
    BY <2>1, AwayLeaves DEF Committing, Undoing, Looping
<1>10. CASE ReconcileDone
  <2>1. /\ call.pc = "reconcile" /\ UNCHANGED <<qua, fence>>
        /\ \/ Goto("prepare") /\ phase' = phase
           \/ Release /\ Leave(call.who, "gone")
    BY <1>10 DEF ReconcileDone
  <2>2. call'.pc \in {"idle", "prepare"}
    BY <1>1, <1>2, <2>1 DEF Pcs
  <2> QED
    BY <1>3, <2>1, <2>2, AwayLeaves DEF Committing, Undoing
<1>11. CASE Prepare
  <2>1. /\ call.pc = "prepare" /\ UNCHANGED <<qua, fence>> /\ Release
        /\ Leave(call.who, "proposed") \/ Leave(call.who, "gone")
    BY <1>11 DEF Prepare
  <2>2. call.who \in Txns /\ phase[call.who] = "new"
    BY <1>0, <2>1 DEF CallInv, PreparingIsNew
  <2>3. \A u \in Txns : phase'[u] \in {"new", "proposed"} =>
          phase'[u] = phase[u] \/ phase[u] = "new"
    BY <1>0, <2>1, <2>2, LeaveFacts, PhaseNames
  <2> QED
    BY <1>1, <2>1, <2>3, AwayLeaves DEF Committing, Undoing
<1>12. CASE \E t \in Txns : ReconcileRestore(t)
  <2>1. PICK t \in Txns : ReconcileRestore(t)
    BY <1>12
  <2> DEFINE j == JournalOf[t]
  <2>2. /\ call.pc = "reconcile" /\ UNCHANGED <<fence, phase>>
        /\ call'.pc = "reconcile.unfence" /\ call'.cur = t
    BY <1>0, <2>1 DEF ReconcileRestore, IsNext, Call
  <2>3. j \in Journals /\ NoFile \in File
    BY NoTxnIsNone DEF NoFile, File
  <2>4. qua'[j] = NoFile /\ \A k \in Journals : qua'[k] \in {qua[k], NoFile}
    BY <1>0, <2>1, <2>3 DEF ReconcileRestore, ToSource
  <2>5. FencedWhileAway'
    BY <2>2, <2>4 DEF AwayInv, FencedWhileAway
  <2>6. FenceIsPast'
    BY <2>2 DEF AwayInv, FenceIsPast, Committing, Undoing
  <2>7. RestoringBack' /\ UndoingBack' /\ CommitIsFirst'
    BY <2>2, <2>4 DEF RestoringBack, UndoingBack, CommitIsFirst
  <2> QED
    BY <2>5, <2>6, <2>7 DEF AwayInv
<1>13. CASE ReconcileUnfence
  <2>1. /\ call.pc = "reconcile.unfence" /\ call'.pc = "reconcile.mark"
        /\ call'.cur = call.cur /\ UNCHANGED <<qua, phase>>
        /\ fence' = [fence EXCEPT ![JournalOf[call.cur]] = NoTxn]
    BY <1>2, <1>13 DEF ReconcileUnfence, Pcs
  <2>2. qua[JournalOf[call.cur]] = NoFile
    BY <2>1 DEF AwayInv, RestoringBack, Restoring
  <2>3. \A k \in Journals : fence'[k] = fence[k] \/ (fence'[k] = NoTxn /\ k = JournalOf[call.cur])
    BY <1>0, <2>1
  <2>4. FencedWhileAway'
    BY <2>1, <2>2, <2>3 DEF AwayInv, FencedWhileAway
  <2>5. FenceIsPast'
    BY <2>1, <2>3, NoTxnIsNone DEF AwayInv, FenceIsPast, Committing, Undoing
  <2>6. RestoringBack' /\ UndoingBack' /\ CommitIsFirst'
    BY <2>1, <2>2 DEF RestoringBack, UndoingBack, CommitIsFirst
  <2> QED
    BY <2>4, <2>5, <2>6 DEF AwayInv
<1>14. CASE \E t \in Txns : Commit(t)
  <2>1. PICK t \in Txns : Commit(t)
    BY <1>14
  <2>2. CASE Leave(t, "abort") /\ call' = call
    <3>1. NoReturn(Txns) /\ call.pc = "idle" /\ UNCHANGED <<qua, fence>>
      BY <1>0, <2>1, <2>2, LeaveFacts, PhaseNames DEF Commit, Free
    <3> QED
      BY <2>2, <3>1, AwayStays
  <2>3. CASE call' = [Released EXCEPT !.pc = "commit.fence", !.who = t] /\ phase' = phase
    <3>1. /\ call.pc = "idle" /\ call'.pc = "commit.fence" /\ call'.who = t
          /\ ~call'.moved /\ ~call'.fenced /\ UNCHANGED <<qua, fence, phase>>
          /\ phase[t] = "proposed"
      BY <2>1, <2>3 DEF Commit, Free, Released
    <3>2. FencedWhileAway' /\ RestoringBack' /\ UndoingBack' /\ CommitIsFirst'
      BY <3>1 DEF AwayInv, FencedWhileAway, RestoringBack, UndoingBack, CommitIsFirst, Restoring
    <3>3. FenceIsPast'
      BY <3>1 DEF AwayInv, FenceIsPast, Committing, Undoing
    <3> QED
      BY <3>2, <3>3 DEF AwayInv
  <2> QED
    BY <2>1, <2>2, <2>3 DEF Commit
<1>15. CASE CommitFence
  <2> DEFINE j == JournalOf[call.who]
  <2>1. /\ call.pc = "commit.fence" /\ UNCHANGED <<qua, phase>>
        /\ fence[j] \in {NoTxn, call.who} /\ fence' = [fence EXCEPT ![j] = call.who]
        /\ call'.pc = "commit.move" /\ call'.who = call.who
    BY <1>0, <1>15 DEF CommitFence, Call
  <2>2. call.who \in Txns /\ j \in Journals /\ call.who # NoTxn
    BY <1>0, <2>1, NoTxnIsNone DEF CallInv, CommittingOpen, Committing
  <2>3. fence[j] # call.who
    BY <2>1, <2>2 DEF AwayInv, FenceIsPast, CommitIsFirst
  <2>4. qua[j] = NoFile
    BY <2>1, <2>2, <2>3 DEF AwayInv, FencedWhileAway
  <2>5. \A k \in Journals : fence'[k] = IF k = j THEN call.who ELSE fence[k]
    BY <1>0, <2>1
  <2>6. FencedWhileAway'
    BY <2>1, <2>2, <2>5 DEF AwayInv, FencedWhileAway
  <2>7. FenceIsPast'
    BY <2>1, <2>2, <2>5 DEF AwayInv, FenceIsPast, Committing, Undoing
  <2>8. RestoringBack' /\ UndoingBack' /\ CommitIsFirst'
    BY <2>1, <2>4 DEF RestoringBack, UndoingBack, CommitIsFirst, Restoring
  <2> QED
    BY <2>6, <2>7, <2>8 DEF AwayInv
<1>16. CASE CommitMove
  <2> DEFINE j == JournalOf[call.who]
  <2>1. /\ call.pc = "commit.move" /\ UNCHANGED <<fence, phase>>
        /\ qua' = [qua EXCEPT ![j] = src[j]]
        /\ call'.pc = "commit.applied" /\ call'.who = call.who /\ call'.moved
    BY <1>0, <1>16 DEF CommitMove, ToQuarantine, Call
  <2>2. call.who \in Txns /\ j \in Journals /\ fence[j] = call.who /\ call.who # NoTxn
    BY <1>0, <2>1, NoTxnIsNone DEF CallInv, CommittingOpen, Committing
  <2>3. FencedWhileAway'
    BY <1>0, <2>1, <2>2 DEF AwayInv, FencedWhileAway
  <2>4. FenceIsPast'
    BY <2>1, AwayCommits DEF Committing
  <2>5. RestoringBack' /\ UndoingBack' /\ CommitIsFirst'
    BY <2>1 DEF RestoringBack, UndoingBack, CommitIsFirst, Restoring
  <2> QED
    BY <2>3, <2>4, <2>5 DEF AwayInv
<1>17. CASE CommitApplied
  <2>1. /\ call.pc = "commit.applied" /\ UNCHANGED <<qua, fence, phase>>
        /\ call'.pc = "commit.audit" /\ call'.who = call.who /\ call'.moved = call.moved
    BY <1>0, <1>17 DEF CommitApplied, Call
  <2>2. FenceIsPast'
    BY <2>1, AwayCommits DEF Committing
  <2>3. FencedWhileAway' /\ RestoringBack' /\ UndoingBack' /\ CommitIsFirst'
    BY <2>1 DEF AwayInv, FencedWhileAway, RestoringBack, UndoingBack, CommitIsFirst, Restoring
  <2> QED
    BY <2>2, <2>3 DEF AwayInv
<1>18. CASE CommitRaises
  <2>1. /\ call.pc \in Committing /\ UNCHANGED <<qua, fence, phase>>
        /\ call'.pc = "undo.restore" /\ call'.who = call.who
        /\ call'.moved = call.moved /\ call'.fenced = call.fenced
    BY <1>2, <1>18 DEF CommitRaises, Committing, Pcs
  <2>2. FenceIsPast'
    BY <2>1, AwayCommits DEF Undoing
  <2>3. FencedWhileAway' /\ RestoringBack' /\ CommitIsFirst'
    BY <2>1 DEF AwayInv, FencedWhileAway, RestoringBack, CommitIsFirst, Restoring
  <2>4. UndoingBack'
    BY <2>1 DEF AwayInv, UndoingBack, Committing
  <2> QED
    BY <2>2, <2>3, <2>4 DEF AwayInv
<1>19. CASE UndoRestore
  <2> DEFINE j == JournalOf[call.who]
  <2>1. /\ call.pc = "undo.restore" /\ UNCHANGED <<fence, phase>>
        /\ call'.pc = "undo.unfence" /\ call'.who = call.who
        /\ call'.moved = call.moved /\ call'.fenced = call.fenced
        /\ \/ call.moved /\ qua' = [qua EXCEPT ![j] = NoFile]
           \/ ~call.moved /\ qua' = qua
    BY <1>2, <1>19 DEF UndoRestore, ToSource, Pcs
  <2>2. call.who \in Txns /\ j \in Journals
    BY <1>0, <2>1, NoTxnIsNone DEF CallInv, CommittingOpen, Undoing
  <2>3. \A k \in Journals : qua'[k] \in {qua[k], NoFile}
    BY <1>0, <2>1
  <2>4. FencedWhileAway'
    BY <2>1, <2>3 DEF AwayInv, FencedWhileAway
  <2>5. FenceIsPast'
    BY <2>1, AwayCommits DEF Undoing
  <2>6. call.fenced => qua'[j] = NoFile
    BY <1>0, <2>1, <2>2 DEF AwayInv, UndoingBack
  <2>7. RestoringBack' /\ UndoingBack' /\ CommitIsFirst'
    BY <2>1, <2>6 DEF RestoringBack, UndoingBack, CommitIsFirst, Restoring
  <2> QED
    BY <2>4, <2>5, <2>7 DEF AwayInv
<1>20. CASE UndoUnfence
  <2> DEFINE j == JournalOf[call.who]
  <2>1. /\ call.pc = "undo.unfence" /\ UNCHANGED <<qua, phase>>
        /\ call'.pc = "undo.mark" /\ call'.who = call.who
        /\ fence' = IF call.fenced THEN [fence EXCEPT ![j] = NoTxn] ELSE fence
    BY <1>2, <1>20 DEF UndoUnfence, Pcs
  <2>2. call.fenced => qua[j] = NoFile
    BY <2>1 DEF AwayInv, UndoingBack
  <2>3. \A k \in Journals :
          fence'[k] = fence[k] \/ (fence'[k] = NoTxn /\ k = j /\ call.fenced)
    BY <1>0, <2>1
  <2>4. FencedWhileAway'
    BY <2>1, <2>2, <2>3 DEF AwayInv, FencedWhileAway
  <2>5. FenceIsPast'
    BY <2>1, <2>3, NoTxnIsNone DEF AwayInv, FenceIsPast, Committing, Undoing
  <2>6. RestoringBack' /\ UndoingBack' /\ CommitIsFirst'
    BY <2>1 DEF RestoringBack, UndoingBack, CommitIsFirst, Restoring
  <2> QED
    BY <2>4, <2>5, <2>6 DEF AwayInv
<1>21. ~CommitRaisesLate
  BY DEF CommitRaisesLate
<1> QED
  BY <1>4, <1>5, <1>6, <1>7, <1>8, <1>9, <1>10, <1>11, <1>12, <1>13, <1>14, <1>15,
     <1>16, <1>17, <1>18, <1>19, <1>20, <1>21
  DEF Next, Continue, Operate, Environment

(* While a journal is in quarantine its fence is in place, so no writer       *)
(* starts a second one: for every set of transactions, sharing journals or    *)
(* not, through crashes between any two steps and foreign replacement, as     *)
(* long as no step raises after its effect.                                   *)
THEOREM QuarantinedIsFenced == Spec => [](~LateErrors => FencedWhileAway)
<1>1. Init => AwayInv
  BY NoTxnIsNone DEF Init, Released, AwayInv, FencedWhileAway, FenceIsPast, RestoringBack,
     UndoingBack, CommitIsFirst, Restoring, At
<1>2. QInv /\ (~LateErrors => AwayInv) /\ [Next]_vars => (~LateErrors => AwayInv)'
  <2> SUFFICES ASSUME QInv, AwayInv, [Next]_vars, ~LateErrors PROVE AwayInv'
    OBVIOUS
  <2>1. CASE Next
    BY <2>1, StepAway
  <2>2. CASE UNCHANGED vars
    BY <2>2, AwayStays DEF vars, NoReturn
  <2> QED
    BY <2>1, <2>2
<1>3. (~LateErrors => AwayInv) => (~LateErrors => FencedWhileAway)
  BY DEF AwayInv
<1> QED
  BY <1>1, <1>2, <1>3, Invariance, PTL DEF Spec

=============================================================================
