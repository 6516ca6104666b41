-------------------------- MODULE ProcessSupervisor --------------------------
(***************************************************************************)
(* supervise() of process_supervisor.py: the Manager starts a command in a  *)
(* session of its own, forwards signals to the session leader, escalates to *)
(* a group-wide SIGKILL and stops the descendants that outlive the leader.  *)
(*                                                                         *)
(* The signal handler runs in the main thread between any two steps of the  *)
(* function, also while Popen has started the process and not returned it.  *)
(* The process group is the leader and its descendants; a process with a    *)
(* SIGKILL pending (doomed) does nothing more but die.                      *)
(***************************************************************************)
EXTENDS Naturals, FiniteSets

CONSTANTS
  Descendants,   \* processes the leader may start in its group
  MaxSignals,    \* bound: SIGTERM, SIGINT and SIGHUP that reach the Manager
  MaxErrors      \* bound: commands Popen cannot start

ASSUME SupervisorConstants ==
  /\ IsFiniteSet(Descendants) /\ "leader" \notin Descendants
  /\ MaxSignals \in Nat /\ MaxErrors \in Nat

VARIABLES
  spc,           \* the place supervise() has reached
  received,      \* how many signals forward() has recorded
  escalated,     \* the local variable
  overdue,       \* shutdown_grace_seconds have passed since the first signal
  leader,        \* "none", "running", "exited" (a zombie), "reaped"
  asked,         \* signals sent to the leader alone
  kids,          \* descendants alive
  doomed,        \* the members of the group with a SIGKILL pending
  errors         \* errors still to come

group == <<leader, kids>>
svars == <<spc, received, escalated, overdue, leader, asked, kids, doomed, errors>>

-----------------------------------------------------------------------------
Leader == "leader"
Places == {"ready", "popen", "assigned", "wait", "cleanup", "drain", "return",
           "finally", "returned"}
Handling == Places \ {"ready", "returned"}     \* forward() is the handler
HasChild == Handling \ {"popen"}               \* the variable child is not None

Members == kids \cup (IF leader = "running" THEN {Leader} ELSE {})
TreeExists == Members # {} \/ leader = "exited"     \* killpg(pid, 0) finds the group

(* _signal_launch_tree with SIGKILL; _signal_launch_leader.                   *)
KillTree == doomed' = Members
AskLeader == asked' = IF leader = "running" THEN asked + 1 ELSE asked

-----------------------------------------------------------------------------
(* forward(): the first signal is passed on to the leader, a later one kills. *)
Forward ==
  /\ spc \in Handling /\ received < MaxSignals
  /\ received' = received + 1
  /\ CASE spc \notin HasChild -> UNCHANGED <<asked, doomed>>
       [] spc \in HasChild /\ received > 0 -> KillTree /\ UNCHANGED asked
       [] OTHER -> AskLeader /\ UNCHANGED doomed
  /\ UNCHANGED <<spc, escalated, overdue, group, errors>>

(* The handlers are installed and Popen is called.                            *)
InstallHandlers ==
  /\ spc = "ready"
  /\ spc' = "popen"
  /\ UNCHANGED <<received, escalated, overdue, group, asked, doomed, errors>>

(* Popen starts the process, or raises; later it returns it to child.         *)
Popen ==
  /\ spc = "popen" /\ leader = "none"
  /\ \/ leader' = "running" /\ UNCHANGED <<spc, errors>>
     \/ errors > 0 /\ errors' = errors - 1 /\ spc' = "finally" /\ UNCHANGED leader
  /\ UNCHANGED <<received, escalated, overdue, asked, kids, doomed>>

Assign ==
  /\ spc = "popen" /\ leader # "none"
  /\ spc' = "assigned"
  /\ UNCHANGED <<received, escalated, overdue, group, asked, doomed, errors>>

(* A signal recorded while child was None is passed on now.                   *)
CatchUpLate ==                                             \* mutant
  /\ spc = "assigned"
  /\ spc' = "wait"
  /\ IF received > 1 THEN KillTree ELSE UNCHANGED doomed
  /\ UNCHANGED <<received, escalated, overdue, group, asked, errors>>

CatchUp ==
  /\ spc = "assigned"
  /\ spc' = "wait"
  /\ CASE received = 0 -> UNCHANGED <<asked, doomed>>
       [] received > 1 -> KillTree /\ UNCHANGED asked
       [] OTHER -> AskLeader /\ UNCHANGED doomed
  /\ UNCHANGED <<received, escalated, overdue, group, errors>>

(* child.wait(timeout): the leader is reaped, or the grace period is over.    *)
Reap ==
  /\ spc = "wait" /\ leader = "exited"
  /\ leader' = "reaped"
  /\ spc' = "cleanup"
  /\ UNCHANGED <<received, escalated, overdue, asked, kids, doomed, errors>>

NeverEscalate ==                                           \* mutant
  /\ spc = "wait" /\ leader = "running"
  /\ received > 1 /\ overdue /\ ~escalated
  /\ escalated' = TRUE
  /\ KillTree
  /\ UNCHANGED <<spc, received, overdue, group, asked, errors>>

Escalate ==
  /\ spc = "wait" /\ leader = "running"
  /\ received > 0 /\ overdue /\ ~escalated
  /\ escalated' = TRUE
  /\ KillTree
  /\ UNCHANGED <<spc, received, overdue, group, asked, errors>>

(* _cleanup_survivors: SIGTERM to the group, the rest of the grace period,    *)
(* SIGKILL.                                                                   *)
Cleanup ==
  /\ spc = "cleanup"
  /\ spc' = IF TreeExists THEN "drain" ELSE "return"
  /\ UNCHANGED <<received, escalated, overdue, group, asked, doomed, errors>>

DrainGivesUp ==                                            \* mutant
  /\ spc = "drain"
  /\ spc' = "return"
  /\ UNCHANGED <<received, escalated, overdue, group, asked, doomed, errors>>

Drain ==
  /\ spc = "drain"
  /\ spc' = "return"
  /\ IF TreeExists THEN KillTree ELSE UNCHANGED doomed      \* the deadline passed
  /\ UNCHANGED <<received, escalated, overdue, group, asked, errors>>

Return ==
  /\ spc = "return"
  /\ spc' = "finally"
  /\ UNCHANGED <<received, escalated, overdue, group, asked, doomed, errors>>

(* The handlers are restored.  The clause also kills a child that was not     *)
(* reaped; nothing between Popen and the wait raises, so there is none.       *)
Finally ==
  /\ spc = "finally"
  /\ spc' = "returned"
  /\ UNCHANGED <<received, escalated, overdue, group, asked, doomed, errors>>

-----------------------------------------------------------------------------
(* The launched processes (external) and time. *)
LeaderExits ==
  /\ leader = "running"
  /\ leader' = "exited"
  /\ doomed' = doomed \ {Leader}
  /\ UNCHANGED <<spc, received, escalated, overdue, asked, kids, errors>>

Fork(k) ==
  /\ k \notin kids
  /\ Members \ doomed # {}
  /\ kids' = kids \cup {k}
  /\ UNCHANGED <<spc, received, escalated, overdue, leader, asked, doomed, errors>>

KidExits(k) ==
  /\ k \in kids
  /\ kids' = kids \ {k}
  /\ doomed' = doomed \ {k}
  /\ UNCHANGED <<spc, received, escalated, overdue, leader, asked, errors>>

GracePasses ==
  /\ received > 0 /\ ~overdue
  /\ overdue' = TRUE
  /\ UNCHANGED <<spc, received, escalated, group, asked, doomed, errors>>

-----------------------------------------------------------------------------
SInit ==
  /\ spc = "ready"
  /\ received = 0
  /\ escalated = FALSE
  /\ overdue = FALSE
  /\ leader = "none"
  /\ asked = 0
  /\ kids = {}
  /\ doomed = {}
  /\ errors = MaxErrors

Supervise ==
  \/ Popen \/ Assign \/ CatchUp \/ Reap \/ Escalate \/ Cleanup \/ Drain \/ Return
  \/ Finally

Tree == LeaderExits \/ \E k \in Descendants : Fork(k) \/ KidExits(k)

(* SIGKILL ends the leader and every descendant it is pending for.            *)
Killed == \/ Leader \in doomed /\ LeaderExits
          \/ \E k \in Descendants : k \in doomed /\ KidExits(k)

SNext == InstallHandlers \/ Supervise \/ Forward \/ Tree \/ GracePasses

-----------------------------------------------------------------------------
(* Properties. *)

(* Every variable holds a value of its type.                                  *)
STypeOK ==
  /\ spc \in Places
  /\ received \in 0..MaxSignals
  /\ escalated \in BOOLEAN /\ overdue \in BOOLEAN
  /\ leader \in {"none", "running", "exited", "reaped"}
  /\ asked \in Nat
  /\ kids \subseteq Descendants
  /\ doomed \subseteq Members
  /\ errors \in Nat

(* "The direct child is always reaped, and surviving descendants are          *)
(* terminated before the Manager returns", whatever exits, forks, signals and *)
(* errors come in between: no descendant outlives supervise() without a       *)
(* SIGKILL pending.                                                           *)
NoOrphans ==
  spc = "returned" => leader \in {"none", "reaped"} /\ kids \subseteq doomed

(* A signal is never swallowed: once supervise() has gone on to wait, a       *)
(* signal that came at any earlier moment has been sent to the leader.        *)
SignalPassedOn ==
  spc \in HasChild \ {"assigned"} /\ received > 0 =>
    asked > 0 \/ doomed # {} \/ leader # "running"

(* The leader is given its chance: SIGKILL is sent only after a second        *)
(* signal, after the grace period, or after the leader has gone.              *)
NoEarlyKill ==
  [][doomed = {} /\ doomed' # {} =>
       received' > 1 \/ overdue \/ leader # "running"]_svars

=============================================================================
