----------------------------- MODULE Quarantine -----------------------------
(***************************************************************************)
(* The crash-consistent quarantine of host event journals:                 *)
(* src/vllm_hust_ext/quarantine_transaction.py (records, fences,           *)
(* reconciliation), the journal moves and the writer of host_event_sink.py, *)
(* and the two-phase actuator of formal_lifecycle_source.py that drives     *)
(* them.                                                                    *)
(*                                                                         *)
(* One source process serves one transaction.  Everything that writes holds *)
(* the exclusive lock of the source directory, so one critical section runs *)
(* at a time; call.pc is the place it has reached and a crash of its holder *)
(* (Crash) may fall between any two of its steps.  Host writers wait for    *)
(* the lock.  Records are published by rename, so each is there or not.     *)
(***************************************************************************)
EXTENDS Naturals

CONSTANTS
  Txns,        \* transactions, in the order of their identifiers
  Journals,
  JournalOf,   \* the journal of the process a transaction targets
  MaxLen,      \* bound: records in a journal
  MaxInode,    \* bound: journal files ever created
  MaxFaults,   \* bound: crashes, errors and foreign changes
  LateErrors,  \* may a step raise after its effect took place?
  Foreign      \* may someone who ignores the lock replace a source journal?

ASSUME QuarantineConstants ==
  /\ Txns \subseteq Nat \ {0}
  /\ JournalOf \in [Txns -> Journals]
  /\ MaxLen \in Nat
  /\ MaxInode \in Nat
  /\ MaxFaults \in Nat
  /\ LateErrors \in BOOLEAN
  /\ Foreign \in BOOLEAN

VARIABLES
  src,      \* the journal files of the source directory
  qua,      \* the journal files of the quarantine directory
  fence,    \* the fence file of a journal: the transaction that holds it
  rec,      \* the record files of a transaction
  phase,    \* the source process of a transaction, outside the lock
  call,     \* the critical section in progress
  inodes,   \* journal files created so far
  foreign,  \* history: journals replaced behind the protocol's back
  budget    \* faults still to come

vars == <<src, qua, fence, rec, phase, call, inodes, foreign, budget>>

-----------------------------------------------------------------------------
(* A journal file is its inode and the number of its records; the bytes of a *)
(* file only grow, so both determine them.                                   *)
File == [ino: Nat, len: Nat]
NoFile == [ino |-> 0, len |-> 0]
NoTxn == 0

(* _is_same_append_only_journal *)
Continues(f, snap) == f.ino = snap.ino /\ snap.len <= f.len

(* snap is the journal in the intent record, NoFile before there is one;     *)
(* restored holds the applied_digest of the restored record: "bare" if null.  *)
Record == [snap: File, applied: BOOLEAN, finalized: BOOLEAN,
           restored: {"no", "bare", "chained"}, blocked: BOOLEAN]
NoRecord == [snap |-> NoFile, applied |-> FALSE, finalized |-> FALSE,
             restored |-> "no", blocked |-> FALSE]

Pcs == {"idle", "reconcile", "reconcile.unfence", "reconcile.mark", "prepare",
        "commit.fence", "commit.move", "commit.applied", "commit.audit",
        "undo.restore", "undo.unfence", "undo.mark"}
Phases == {"new", "proposed", "abort", "exited", "gone"}

(* who is the source whose process holds the lock, NoTxn for one that gets    *)
(* no further than reconciliation.  In reconcile: cur is the transaction at   *)
(* hand and done those before it; next is where the caller goes on.  In       *)
(* commit_fault: moved is `quarantined is not None`, fenced fence_installed,  *)
(* applied `applied is not None`.                                             *)
Call == [pc: Pcs, who: Txns \cup {NoTxn}, cur: Txns \cup {NoTxn}, done: SUBSET Txns,
         next: {"prepare", "settle", "exit"}, moved: BOOLEAN, fenced: BOOLEAN,
         applied: BOOLEAN]
Released == [pc |-> "idle", who |-> NoTxn, cur |-> NoTxn, done |-> {}, next |-> "exit",
             moved |-> FALSE, fenced |-> FALSE, applied |-> FALSE]

Free == call.pc = "idle"
At(pc) == call.pc = pc
Goto(pc) == call' = [call EXCEPT !.pc = pc]
Release == call' = Released
Spend == budget > 0 /\ budget' = budget - 1

(* The source process of t goes to phase p, if it has one.                    *)
Leave(t, p) == phase' = IF t \in Txns THEN [phase EXCEPT ![t] = p] ELSE phase

HasIntent(t) == rec[t].snap # NoFile
Settled(t) == rec[t].finalized \/ rec[t].restored # "no" \/ rec[t].blocked

MarkRestoredReason(t, chained) ==                          \* mutant
  rec' = [rec EXCEPT ![t].restored = "restored-after-applied"]
MarkRestoredBare(t, chained) ==                            \* mutant
  rec' = [rec EXCEPT ![t].restored = "bare"]

(* mark_quarantine_restored, chained to the applied record or not.            *)
MarkRestored(t, chained) ==
  rec' = [rec EXCEPT ![t].restored = IF chained THEN "chained" ELSE "bare"]
MarkBlocked(t) == rec' = [rec EXCEPT ![t].blocked = TRUE]

(* quarantine_journal: RENAME_NOREPLACE of the expected file, verified.       *)
TargetFreeUnchecked(f) == TRUE                             \* mutant
TargetFree(f) == f = NoFile

CanMove(from, to, j, snap) == from[j] = snap /\ TargetFree(to[j])
ToQuarantine(j) == qua' = [qua EXCEPT ![j] = src[j]] /\ src' = [src EXCEPT ![j] = NoFile]
ToSource(j) == src' = [src EXCEPT ![j] = qua[j]] /\ qua' = [qua EXCEPT ![j] = NoFile]

-----------------------------------------------------------------------------
(* append_event: waits for the lock, refuses a fenced journal, creates the    *)
(* file if it is not there.                                                   *)
FencedIgnored(j) == FALSE                                  \* mutant
Fenced(j) == fence[j] # NoTxn

Append(j) ==
  /\ Free
  /\ ~Fenced(j)
  /\ \/ /\ src[j] = NoFile /\ inodes < MaxInode
        /\ src' = [src EXCEPT ![j] = [ino |-> inodes + 1, len |-> 1]]
        /\ inodes' = inodes + 1
     \/ /\ src[j] # NoFile /\ src[j].len < MaxLen
        /\ src' = [src EXCEPT ![j].len = @ + 1]
        /\ inodes' = inodes
  /\ UNCHANGED <<qua, fence, rec, phase, call, foreign, budget>>

-----------------------------------------------------------------------------
(* reconcile_quarantine_transactions.  It is run by a source that starts, by  *)
(* a source that aborts, and by one that fails afterwards (Sweep).            *)
Reconcile(t, next) ==
  /\ Free
  /\ call' = [Released EXCEPT !.pc = "reconcile", !.who = t, !.next = next]
  /\ UNCHANGED <<src, qua, fence, rec, phase, inodes, foreign, budget>>

Start(t) == phase[t] = "new" /\ Reconcile(t, "prepare")
Abort(t) == phase[t] = "abort" /\ Reconcile(t, "settle")
Sweep == (\E t \in Txns : HasIntent(t)) /\ Reconcile(NoTxn, "exit")

(* The intents in the order of their names. *)
Waiting == {t \in Txns : HasIntent(t)} \ call.done
IsNext(t) == At("reconcile") /\ t \in Waiting /\ \A u \in Waiting : t <= u

Passed(t) == call' = [call EXCEPT !.done = @ \cup {t}]

(* The loop body raises and writes nothing: a blocked transaction, records    *)
(* that conflict, or files that do not bear a terminal record out.            *)
Refuses(t) ==
  LET j == JournalOf[t]
      r == rec[t]
  IN \/ r.blocked
     \/ r.finalized /\ (r.restored # "no" \/ ~r.applied)
     \/ r.finalized /\ (qua[j] # r.snap \/ fence[j] # t)
     \/ /\ r.restored # "no"
        /\ \/ (r.restored = "chained") # r.applied
           \/ fence[j] # NoTxn
           \/ qua[j] # NoFile
           \/ ~Continues(src[j], r.snap)
     \/ /\ ~Settled(t) /\ src[j] = NoFile /\ qua[j] # NoFile
        /\ fence[j] # t
     \/ /\ ~Settled(t) /\ qua[j] = NoFile /\ Continues(src[j], r.snap)
        /\ fence[j] \notin {t, NoTxn}

(* It records the transaction as blocked and raises: a replacement journal,   *)
(* bytes that are not the ones of the intent, or a journal in neither root.   *)
Blocks(t) ==
  LET j == JournalOf[t]
      r == rec[t]
  IN IF r.finalized THEN src[j] # NoFile
     ELSE /\ ~Settled(t)
          /\ \/ src[j] # NoFile /\ qua[j] # NoFile
             \/ src[j] = NoFile /\ qua[j] # r.snap
             \/ qua[j] = NoFile /\ ~Continues(src[j], r.snap)

ReconcileRaise(t) ==
  /\ IsNext(t)
  /\ Refuses(t)
  /\ Release
  /\ Leave(call.who, "gone")
  /\ UNCHANGED <<src, qua, fence, rec, inodes, foreign, budget>>

ReconcileBlock(t) ==
  /\ IsNext(t)
  /\ ~Refuses(t) /\ Blocks(t)
  /\ MarkBlocked(t)
  /\ Release
  /\ Leave(call.who, "gone")
  /\ UNCHANGED <<src, qua, fence, inodes, foreign, budget>>

(* A terminal transaction that is in order. *)
ReconcilePass(t) ==
  /\ IsNext(t)
  /\ ~Refuses(t) /\ ~Blocks(t) /\ Settled(t)
  /\ Passed(t)
  /\ UNCHANGED <<src, qua, fence, rec, phase, inodes, foreign, budget>>

(* An open one: the journal is moved back if it was moved, ...                *)
ReconcileRestore(t) ==
  LET j == JournalOf[t] IN
    /\ IsNext(t)
    /\ ~Refuses(t) /\ ~Blocks(t) /\ ~Settled(t)
    /\ \/ CanMove(qua, src, j, rec[t].snap) /\ ToSource(j)
       \/ qua[j] = NoFile /\ UNCHANGED <<src, qua>>
    /\ call' = [call EXCEPT !.pc = "reconcile.unfence", !.cur = t]
    /\ UNCHANGED <<fence, rec, phase, inodes, foreign, budget>>

(* ... (a move that fails blocks the transaction; the move undoes itself      *)
(* unless that fails too) ...                                                 *)
ReconcileRestoreFails(t) ==
  LET j == JournalOf[t] IN
    /\ IsNext(t)
    /\ ~Refuses(t) /\ ~Blocks(t) /\ ~Settled(t)
    /\ qua[j] # NoFile
    /\ \/ UNCHANGED <<src, qua>>
       \/ LateErrors /\ CanMove(qua, src, j, rec[t].snap) /\ ToSource(j)
    /\ Spend
    /\ MarkBlocked(t)
    /\ Release
    /\ Leave(call.who, "gone")
    /\ UNCHANGED <<fence, inodes, foreign>>

(* ... the fence is removed and the transaction recorded as restored.         *)
ReconcileUnfence ==
  /\ At("reconcile.unfence")
  /\ fence' = [fence EXCEPT ![JournalOf[call.cur]] = NoTxn]
  /\ Goto("reconcile.mark")
  /\ UNCHANGED <<src, qua, rec, phase, inodes, foreign, budget>>

ReconcileMark ==
  /\ At("reconcile.mark")
  /\ MarkRestored(call.cur, rec[call.cur].applied)
  /\ call' = [call EXCEPT !.pc = "reconcile", !.cur = NoTxn, !.done = @ \cup {call.cur}]
  /\ UNCHANGED <<src, qua, fence, phase, inodes, foreign, budget>>

ReconcileDone ==
  /\ At("reconcile") /\ Waiting = {}
  /\ \/ /\ call.next = "prepare" /\ Goto("prepare")
        /\ phase' = phase
     \/ /\ call.next # "prepare" /\ Release
        /\ Leave(call.who, "gone")
  /\ UNCHANGED <<src, qua, fence, rec, inodes, foreign, budget>>

-----------------------------------------------------------------------------
(* _partial_coverage_fault_locked: the snapshot of the target's journal goes  *)
(* into the intent; the lock is released and the fact proposed.               *)
Prepare ==
  LET j == JournalOf[call.who] IN
    /\ At("prepare")
    /\ \/ /\ src[j] # NoFile
          /\ rec' = [rec EXCEPT ![call.who].snap = src[j]]
          /\ Leave(call.who, "proposed")
       \/ /\ src[j] = NoFile
          /\ rec' = rec
          /\ Leave(call.who, "gone")
    /\ Release
    /\ UNCHANGED <<src, qua, fence, inodes, foreign, budget>>

(* The runner does not commit, or the lock is taken: main() releases, which   *)
(* aborts.                                                                    *)
Withdraw(t) ==
  /\ phase[t] = "proposed" /\ call.who # t
  /\ Leave(t, "abort")
  /\ UNCHANGED <<src, qua, fence, rec, call, inodes, foreign, budget>>

AbortBusy(t) ==
  /\ phase[t] = "abort" /\ ~Free /\ call.who # t
  /\ Leave(t, "gone")
  /\ UNCHANGED <<src, qua, fence, rec, call, inodes, foreign, budget>>

(* commit_fault: nobody settled the transaction and the journal is still the  *)
(* one proposed, or the commit is refused.                                    *)
Committable(t) == ~Settled(t) /\ ~rec[t].applied /\ src[JournalOf[t]] = rec[t].snap

Commit(t) ==
  /\ phase[t] = "proposed" /\ Free
  /\ \/ /\ Committable(t)
        /\ call' = [Released EXCEPT !.pc = "commit.fence", !.who = t]
        /\ phase' = phase
     \/ /\ ~Committable(t)
        /\ Leave(t, "abort") /\ call' = call
  /\ UNCHANGED <<src, qua, fence, rec, inodes, foreign, budget>>

CommitFenceForgotten ==                                    \* mutant
  /\ At("commit.fence")
  /\ call' = [call EXCEPT !.pc = "commit.move", !.fenced = TRUE]
  /\ UNCHANGED <<src, qua, fence, rec, phase, inodes, foreign, budget>>

(* install_quarantine_source_fence, then the move, then the applied record.   *)
CommitFence ==
  LET j == JournalOf[call.who] IN
    /\ At("commit.fence")
    /\ fence[j] \in {NoTxn, call.who}
    /\ fence' = [fence EXCEPT ![j] = call.who]
    /\ call' = [call EXCEPT !.pc = "commit.move", !.fenced = TRUE]
    /\ UNCHANGED <<src, qua, rec, phase, inodes, foreign, budget>>

CommitMove ==
  LET j == JournalOf[call.who] IN
    /\ At("commit.move")
    /\ CanMove(src, qua, j, rec[call.who].snap)
    /\ ToQuarantine(j)
    /\ call' = [call EXCEPT !.pc = "commit.applied", !.moved = TRUE]
    /\ UNCHANGED <<fence, rec, phase, inodes, foreign, budget>>

CommitApplied ==
  /\ At("commit.applied")
  /\ rec' = [rec EXCEPT ![call.who].applied = TRUE]
  /\ call' = [call EXCEPT !.pc = "commit.audit", !.applied = TRUE]
  /\ UNCHANGED <<src, qua, fence, phase, inodes, foreign, budget>>

(* The source directory is read again and the audit written.                  *)
CommitAudit ==
  /\ At("commit.audit")
  /\ src[JournalOf[call.who]] = NoFile
  /\ Release
  /\ Leave(call.who, "exited")
  /\ UNCHANGED <<src, qua, fence, rec, inodes, foreign, budget>>

(* A step of commit_fault raises: because what it finds is not what it        *)
(* expects, or because the system call fails; the handler undoes the rest.    *)
Surprised ==
  LET j == JournalOf[call.who] IN
    \/ At("commit.fence") /\ fence[j] \notin {NoTxn, call.who}
    \/ At("commit.move") /\ ~CanMove(src, qua, j, rec[call.who].snap)
    \/ At("commit.audit") /\ src[j] # NoFile

CommitRaises ==
  /\ call.pc \in {"commit.fence", "commit.move", "commit.applied", "commit.audit"}
  /\ \/ Surprised /\ budget' = budget
     \/ Spend
  /\ Goto("undo.restore")
  /\ UNCHANGED <<src, qua, fence, rec, phase, inodes, foreign>>

(* The same after the effect: a sync fails behind the rename, or the handler  *)
(* is entered before the local variable is assigned.                          *)
CommitRaisesLate ==
  LET j == JournalOf[call.who] IN
    /\ LateErrors
    /\ Spend
    /\ \/ /\ At("commit.fence") /\ fence[j] \in {NoTxn, call.who}
          /\ fence' = [fence EXCEPT ![j] = call.who]
          /\ UNCHANGED <<src, qua, rec>>
       \/ /\ At("commit.move") /\ CanMove(src, qua, j, rec[call.who].snap)
          /\ ToQuarantine(j)
          /\ UNCHANGED <<fence, rec>>
       \/ /\ At("commit.applied")
          /\ rec' = [rec EXCEPT ![call.who].applied = TRUE]
          /\ UNCHANGED <<src, qua, fence>>
    /\ Goto("undo.restore")
    /\ UNCHANGED <<phase, inodes, foreign>>

(* The handler: move the journal back, ...                                    *)
UndoRestore ==
  LET j == JournalOf[call.who] IN
    /\ At("undo.restore")
    /\ \/ call.moved /\ CanMove(qua, src, j, rec[call.who].snap) /\ ToSource(j)
       \/ ~call.moved /\ UNCHANGED <<src, qua>>
    /\ Goto("undo.unfence")
    /\ UNCHANGED <<fence, rec, phase, inodes, foreign, budget>>

UndoUnfenceSkipped ==                                      \* mutant
  /\ At("undo.unfence")
  /\ Goto("undo.mark")
  /\ UNCHANGED <<src, qua, fence, rec, phase, inodes, foreign, budget>>

(* ... remove the fence, ...                                                  *)
UndoUnfence ==
  /\ At("undo.unfence")
  /\ fence' = IF call.fenced THEN [fence EXCEPT ![JournalOf[call.who]] = NoTxn]
              ELSE fence
  /\ Goto("undo.mark")
  /\ UNCHANGED <<src, qua, rec, phase, inodes, foreign, budget>>

(* ... and settle the transaction, unless the journal was never moved.        *)
UndoMark ==
  /\ At("undo.mark")
  /\ \/ /\ call.moved
        /\ MarkRestored(call.who, call.applied)
        /\ Leave(call.who, "gone")
     \/ /\ ~call.moved
        /\ rec' = rec
        /\ Leave(call.who, "abort")
  /\ Release
  /\ UNCHANGED <<src, qua, fence, inodes, foreign, budget>>

(* The handler itself raises: "failed and rollback failed"; main() aborts.    *)
UndoRaises ==
  LET j == JournalOf[call.who] IN
    /\ call.pc \in {"undo.restore", "undo.unfence", "undo.mark"}
    /\ \/ /\ At("undo.restore") /\ call.moved
          /\ ~CanMove(qua, src, j, rec[call.who].snap)
          /\ budget' = budget
       \/ Spend
    /\ Release
    /\ Leave(call.who, "abort")
    /\ UNCHANGED <<src, qua, fence, rec, inodes, foreign>>

-----------------------------------------------------------------------------
(* finalize_quarantine_transaction, called by the runner once the source has  *)
(* exited normally, once or more often.                                       *)
Finalizable(t) ==
  /\ rec[t].applied /\ rec[t].restored = "no" /\ ~rec[t].blocked
  /\ qua[JournalOf[t]] = rec[t].snap
  /\ fence[JournalOf[t]] = t

Finalize(t) ==
  /\ Free
  /\ phase[t] = "exited"
  /\ Finalizable(t)
  /\ \/ /\ src[JournalOf[t]] = NoFile
        /\ rec' = [rec EXCEPT ![t].finalized = TRUE]
     \/ /\ src[JournalOf[t]] # NoFile
        /\ MarkBlocked(t)
  /\ UNCHANGED <<src, qua, fence, phase, call, inodes, foreign, budget>>

-----------------------------------------------------------------------------
(* The environment. *)

(* The holder of the lock is killed; the kernel releases the lock.            *)
Crash ==
  /\ ~Free
  /\ Spend
  /\ Release
  /\ Leave(call.who, "gone")
  /\ UNCHANGED <<src, qua, fence, rec, inodes, foreign>>

(* A source is killed while it waits for the runner.                          *)
CrashWaiting(t) ==
  /\ phase[t] \in {"proposed", "abort"}
  /\ call.who # t
  /\ Spend
  /\ Leave(t, "gone")
  /\ UNCHANGED <<src, qua, fence, rec, call, inodes, foreign>>

(* Someone who ignores lock and fence removes or replaces a source journal.   *)
Replace(j) ==
  /\ Foreign
  /\ Spend
  /\ foreign' = foreign \cup {j}
  /\ \/ src' = [src EXCEPT ![j] = NoFile] /\ inodes' = inodes
     \/ /\ inodes < MaxInode
        /\ src' = [src EXCEPT ![j] = [ino |-> inodes + 1, len |-> 1]]
        /\ inodes' = inodes + 1
  /\ UNCHANGED <<qua, fence, rec, phase, call>>

-----------------------------------------------------------------------------
Init ==
  /\ src = [j \in Journals |-> NoFile]
  /\ qua = [j \in Journals |-> NoFile]
  /\ fence = [j \in Journals |-> NoTxn]
  /\ rec = [t \in Txns |-> NoRecord]
  /\ phase = [t \in Txns |-> "new"]
  /\ call = Released
  /\ inodes = 0
  /\ foreign = {}
  /\ budget = MaxFaults

Continue ==
  \/ \E t \in Txns :
       \/ ReconcileRaise(t) \/ ReconcileBlock(t) \/ ReconcilePass(t)
       \/ ReconcileRestore(t)
  \/ ReconcileUnfence \/ ReconcileMark \/ ReconcileDone \/ Prepare
  \/ CommitFence \/ CommitMove \/ CommitApplied \/ CommitAudit
  \/ UndoRestore \/ UndoUnfence \/ UndoMark
  \/ CommitRaises \/ UndoRaises

Operate(t) ==
  Start(t) \/ Abort(t) \/ Withdraw(t) \/ AbortBusy(t) \/ Commit(t) \/ Finalize(t)

Environment ==
  \/ Crash \/ CommitRaisesLate
  \/ \E t \in Txns : CrashWaiting(t) \/ ReconcileRestoreFails(t)
  \/ \E j \in Journals : Append(j) \/ Replace(j)

Next == Continue \/ Sweep \/ (\E t \in Txns : Operate(t)) \/ Environment

Spec == Init /\ [][Next]_vars

-----------------------------------------------------------------------------
(* Properties. *)

(* Every file, record and local variable holds a value of its type.           *)
TypeOK ==
  /\ src \in [Journals -> File]
  /\ qua \in [Journals -> File]
  /\ fence \in [Journals -> Txns \cup {NoTxn}]
  /\ rec \in [Txns -> Record]
  /\ phase \in [Txns -> Phases]
  /\ call \in Call
  /\ inodes \in Nat
  /\ foreign \subseteq Journals
  /\ budget \in Nat

(* Evidence is never destroyed: whatever the protocol does, and whatever      *)
(* fails or was replaced meanwhile, a journal file that is in one of the two  *)
(* directories stays in one of them and loses no record.                      *)
EvidencePreserved ==
  [][\A j \in Journals : \A f \in {src[j], qua[j]} :
       (f # NoFile /\ ~\E k \in Journals : Replace(k)) =>
         \E g \in {src'[j], qua'[j]} : Continues(g, f)]_vars

(* A finalized transaction stays quarantined: its journal is retained with    *)
(* the exact bytes of the intent behind its own fence, and no writer recreates *)
(* it in the source directory.                                                *)
FinalizedStaysQuarantined ==
  \A t \in Txns : rec[t].finalized =>
    LET j == JournalOf[t] IN
      /\ qua[j] = rec[t].snap /\ fence[j] = t
      /\ src[j] # NoFile => j \in foreign

(* Recovery and acceptance exclude each other, in whatever order runner,      *)
(* source and reconciliation get the lock: a restored transaction is neither  *)
(* finalized nor blocked and holds no fence, so writers may go on.            *)
RestoredIsReleased ==
  \A t \in Txns : rec[t].restored # "no" =>
    /\ ~rec[t].finalized /\ ~rec[t].blocked
    /\ fence[JournalOf[t]] # t

(* While a journal is in quarantine its fence is in place: no writer starts a *)
(* second journal that recovery would collide with.                           *)
FencedWhileAway ==
  \A j \in Journals : qua[j] # NoFile => fence[j] # NoTxn

(* Fairness: a critical section that was entered runs on, and later sources   *)
(* start, each of which reconciles.                                           *)
FairSpec == Spec /\ WF_vars(Continue) /\ WF_vars(Sweep)

(* The recovery contract of docs/design/formal-real-lifecycle-sources.md: an  *)
(* intent without a finalized record is restored, or the transaction blocked. *)
IntentResolves == \A t \in Txns : HasIntent(t) ~> Settled(t)

=============================================================================
