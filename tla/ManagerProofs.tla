--------------------------- MODULE ManagerProofs ---------------------------
(* Proofs about the command line, the launch handoff and supervise() for any *)
(* set of Bundles and descendants, any manifests and any bounds.             *)
EXTENDS Manager, TLAPS

-----------------------------------------------------------------------------
(* The supervised tree. *)

(* What each place of supervise() knows about the leader and the group.        *)
TreeInPlace ==
  /\ leader = "none" => kids = {}
  /\ spc = "ready" => leader = "none"
  /\ spc = "popen" => leader # "reaped"
  /\ spc \in {"assigned", "wait"} => leader \in {"running", "exited"}
  /\ spc \in {"cleanup", "drain", "return"} => leader = "reaped"
  /\ spc \in {"finally", "returned"} => leader \in {"none", "reaped"}
  /\ spc \in {"return", "finally", "returned"} => kids \subseteq doomed

(* A recorded signal has been acted on: asked, or SIGKILL for the leader.      *)
SignalActedOn ==
  spc \in {"wait", "cleanup", "drain", "return", "finally"} /\ received > 0 =>
    asked > 0 \/ Leader \in doomed \/ leader # "running"

SInv == STypeOK /\ TreeInPlace /\ SignalActedOn

LEMMA SInitInv == SInit => SInv
<1> SUFFICES ASSUME SInit PROVE SInv  OBVIOUS
<1>1. received \in 0..MaxSignals  BY SupervisorConstants DEF SInit
<1>2. escalated \in BOOLEAN /\ overdue \in BOOLEAN  BY DEF SInit
<1>3. STypeOK  BY <1>1, <1>2, SupervisorConstants DEF SInit, STypeOK, Places
<1>4. TreeInPlace /\ SignalActedOn  BY DEF SInit, TreeInPlace, SignalActedOn
<1>5. QED  BY <1>3, <1>4 DEF SInv

LEMMA MembersChange ==
  /\ (leader' = leader /\ kids' = kids) => Members' = Members
  /\ leader = "running" => Members = kids \cup {Leader}
  /\ leader # "running" => Members = kids
  /\ leader' = "running" => Members' = kids' \cup {Leader}
  /\ leader' # "running" => Members' = kids'
  BY DEF Members

LEMMA STypeStep == SInv /\ SNext => STypeOK'
<1> SUFFICES ASSUME SInv, SNext PROVE STypeOK'  OBVIOUS
<1> USE SupervisorConstants DEF SInv, STypeOK, Places
<1>1. CASE InstallHandlers  BY <1>1, MembersChange DEF InstallHandlers, group
<1>2. CASE Popen  BY <1>2, MembersChange DEF Popen
<1>3. CASE Assign  BY <1>3, MembersChange DEF Assign, group
<1>4. CASE CatchUp  BY <1>4, MembersChange DEF CatchUp, group, KillTree, AskLeader
<1>5. CASE Reap  BY <1>5, MembersChange DEF Reap
<1>6. CASE Escalate  BY <1>6, MembersChange DEF Escalate, group, KillTree
<1>7. CASE Cleanup  BY <1>7, MembersChange DEF Cleanup, group
<1>8. CASE Drain  BY <1>8, MembersChange DEF Drain, group, KillTree
<1>9. CASE Return  BY <1>9, MembersChange DEF Return, group
<1>10. CASE Finally  BY <1>10, MembersChange DEF Finally, group
<1>11. CASE Forward
  <2>1. received' \in 0..MaxSignals  BY <1>11 DEF Forward
  <2>2. asked' \in Nat  BY <1>11 DEF Forward, KillTree, AskLeader
  <2>3. doomed' \subseteq Members'
    BY <1>11, MembersChange DEF Forward, KillTree, AskLeader, group
  <2>4. QED  BY <1>11, <2>1, <2>2, <2>3 DEF Forward, group
<1>12. CASE LeaderExits  BY <1>12, MembersChange DEF LeaderExits
<1>13. ASSUME NEW k \in Descendants, Fork(k) PROVE STypeOK'
  BY <1>13, MembersChange DEF Fork
<1>14. ASSUME NEW k \in Descendants, KidExits(k) PROVE STypeOK'
  BY <1>14, MembersChange DEF KidExits
<1>15. CASE GracePasses  BY <1>15, MembersChange DEF GracePasses, group
<1>16. QED
  BY <1>1, <1>2, <1>3, <1>4, <1>5, <1>6, <1>7, <1>8, <1>9, <1>10, <1>11, <1>12, <1>13,
     <1>14, <1>15 DEF SNext, Supervise, Tree

LEMMA TreeStep == SInv /\ SNext => TreeInPlace'
<1> SUFFICES ASSUME SInv, SNext PROVE TreeInPlace'  OBVIOUS
<1> USE DEF SInv, STypeOK, TreeInPlace, Places
<1>1. CASE InstallHandlers  BY <1>1 DEF InstallHandlers, group
<1>2. CASE Popen  BY <1>2 DEF Popen
<1>3. CASE Assign  BY <1>3 DEF Assign, group
<1>4. CASE CatchUp  BY <1>4, MembersChange DEF CatchUp, group, KillTree, AskLeader
<1>5. CASE Reap  BY <1>5 DEF Reap
<1>6. CASE Escalate  BY <1>6, MembersChange DEF Escalate, group, KillTree
<1>7. CASE Cleanup  BY <1>7, MembersChange DEF Cleanup, group, TreeExists
<1>8. CASE Drain  BY <1>8, MembersChange DEF Drain, group, KillTree, TreeExists
<1>9. CASE Return  BY <1>9 DEF Return, group
<1>10. CASE Finally  BY <1>10 DEF Finally, group
<1>11. CASE Forward
  <2>1. doomed' = doomed \/ doomed' = Members
    BY <1>11 DEF Forward, KillTree, AskLeader
  <2>2. QED  BY <1>11, <2>1, MembersChange DEF Forward, group
<1>12. CASE LeaderExits  BY <1>12 DEF LeaderExits
<1>13. ASSUME NEW k \in Descendants, Fork(k) PROVE TreeInPlace'
  BY <1>13, MembersChange DEF Fork
<1>14. ASSUME NEW k \in Descendants, KidExits(k) PROVE TreeInPlace'
  BY <1>14 DEF KidExits
<1>15. CASE GracePasses  BY <1>15 DEF GracePasses, group
<1>16. QED
  BY <1>1, <1>2, <1>3, <1>4, <1>5, <1>6, <1>7, <1>8, <1>9, <1>10, <1>11, <1>12, <1>13,
     <1>14, <1>15 DEF SNext, Supervise, Tree

LEMMA SignalStep == SInv /\ SNext => SignalActedOn'
<1> SUFFICES ASSUME SInv, SNext PROVE SignalActedOn'  OBVIOUS
<1> USE SupervisorConstants DEF SInv, STypeOK, TreeInPlace, SignalActedOn, Places
<1>1. CASE InstallHandlers  BY <1>1 DEF InstallHandlers, group
<1>2. CASE Popen  BY <1>2 DEF Popen
<1>3. CASE Assign  BY <1>3 DEF Assign, group
<1>4. CASE CatchUp  BY <1>4, MembersChange DEF CatchUp, group, KillTree, AskLeader
<1>5. CASE Reap  BY <1>5 DEF Reap
<1>6. CASE Escalate  BY <1>6, MembersChange DEF Escalate, group, KillTree
<1>7. CASE Cleanup  BY <1>7 DEF Cleanup, group
<1>8. CASE Drain  BY <1>8 DEF Drain, group, KillTree
<1>9. CASE Return  BY <1>9 DEF Return, group
<1>10. CASE Finally  BY <1>10 DEF Finally, group
<1>11. CASE Forward
  <2>1. CASE spc = "popen" \/ spc = "assigned"  BY <1>11, <2>1 DEF Forward, group
  <2>2. CASE spc \in HasChild \ {"assigned"}
    BY <1>11, <2>2, MembersChange DEF Forward, group, KillTree, AskLeader, HasChild, Handling
  <2>3. QED  BY <1>11, <2>1, <2>2 DEF Forward, HasChild, Handling
<1>12. CASE LeaderExits  BY <1>12 DEF LeaderExits
<1>13. ASSUME NEW k \in Descendants, Fork(k) PROVE SignalActedOn'
  BY <1>13 DEF Fork
<1>14. ASSUME NEW k \in Descendants, KidExits(k) PROVE SignalActedOn'
  BY <1>14 DEF KidExits, Leader
<1>15. CASE GracePasses  BY <1>15 DEF GracePasses, group
<1>16. QED
  BY <1>1, <1>2, <1>3, <1>4, <1>5, <1>6, <1>7, <1>8, <1>9, <1>10, <1>11, <1>12, <1>13,
     <1>14, <1>15 DEF SNext, Supervise, Tree

LEMMA SStutter == SInv /\ UNCHANGED svars => SInv'
  BY DEF SInv, svars, STypeOK, TreeInPlace, SignalActedOn, Members

-----------------------------------------------------------------------------
(* The configuration file. *)

(* A file some command validated as a whole.                                  *)
Valid(f) ==
  /\ Consistent(f.enabled)
  /\ f.enabled \cap Blocked = {}
  /\ f.enabled \cap f.disabled = {}

ConfigType ==
  /\ file \in Files
  /\ installed \subseteq Bundles
  /\ pending \subseteq Pendings
  /\ issued \in 0..MaxCommands
  /\ installs \in 0..MaxInstalls

ConfigInv == ConfigType /\ Valid(file) /\ \A c \in pending : Valid(c.read)

(* Removing a Bundle no other selected one requires keeps a selection whole.  *)
LEMMA RemovalConsistent ==
  ASSUME NEW S \in SUBSET Bundles, NEW b \in Bundles, Consistent(S), Removable(S, b)
  PROVE  Consistent(S \ {b})
<1> USE ManagerConstants
<1>1. \A d \in S \ {b} : Requires[d] \subseteq S \ {b}
  BY DEF Consistent, DependenciesMet, Removable
<1>2. \A C \in SUBSET (S \ {b}) : (\A d \in C : Requires[d] \cap C # {}) => C = {}
  BY DEF Consistent, DependenciesMet
<1>3. OwnershipMet(S \ {b})  BY DEF Consistent, OwnershipMet
<1>4. QED  BY <1>1, <1>2, <1>3 DEF Consistent, DependenciesMet

LEMMA ChangedValid ==
  ASSUME NEW c \in Pendings, Valid(c.read), Accepts(c)
  PROVE  Valid(Changed(c)) /\ Changed(c) \in Files
<1>1. c.id \in Bundles /\ c.read \in Files /\ c.op \in Ops  BY DEF Pendings
<1>2. c.read.enabled \in SUBSET Bundles /\ c.read.disabled \in SUBSET Bundles
  BY <1>1 DEF Files
<1>3. CASE c.op = "enable"
  BY <1>1, <1>2, <1>3 DEF Accepts, Changed, Enabled, Valid, Files
<1>4. CASE c.op \in {"disable", "forget"}
  <2>1. Removable(c.read.enabled, c.id)  BY <1>4 DEF Accepts
  <2>2. Consistent(c.read.enabled \ {c.id})
    BY <1>1, <1>2, <2>1, RemovalConsistent DEF Valid
  <2>3. Changed(c).enabled = c.read.enabled \ {c.id}
    BY <1>4 DEF Changed, Disabled, Forgotten
  <2>4. /\ Changed(c) \in Files
        /\ Changed(c).disabled \in {c.read.disabled \cup {c.id}, c.read.disabled \ {c.id}}
    BY <1>1, <1>2, <1>4 DEF Changed, Disabled, Forgotten, Files
  <2>5. QED  BY <2>2, <2>3, <2>4 DEF Valid
<1>5. CASE c.op = "configure"
  <2>1. CASE c.id \in c.read.enabled  BY <1>1, <1>5, <2>1 DEF Changed
  <2>2. CASE c.id \notin c.read.enabled
    <3>1. Changed(c) = Disabled(c.read, c.id)  BY <1>5, <2>2 DEF Changed
    <3>2. c.read.enabled \ {c.id} = c.read.enabled  BY <2>2
    <3>3. QED  BY <1>1, <1>2, <2>2, <3>1, <3>2 DEF Disabled, Valid, Files
  <2>3. QED  BY <2>1, <2>2
<1>6. QED  BY <1>1, <1>3, <1>4, <1>5 DEF Ops

LEMMA ConfigInit == MInit => ConfigInv
<1> SUFFICES ASSUME MInit PROVE ConfigInv  OBVIOUS
<1>1. ConfigType  BY ManagerConstants DEF MInit, ConfigType, Files
<1>2. Valid(file)  BY SelectedConsistent DEF MInit, Valid
<1>3. QED  BY <1>1, <1>2 DEF ConfigInv, MInit

LEMMA ConfigStep == ConfigInv /\ [MNext]_mvars => ConfigInv'
<1> SUFFICES ASSUME ConfigInv, [MNext]_mvars PROVE ConfigInv'  OBVIOUS
<1>0. ASSUME UNCHANGED <<file, installed, pending, issued, installs>> PROVE ConfigInv'
  BY <1>0 DEF ConfigInv, ConfigType, Valid
<1>1. ASSUME NEW op \in Ops, NEW b \in Bundles, Load(op, b) PROVE ConfigInv'
  <2> DEFINE n == [op |-> op, id |-> b, read |-> file]
  <2>1. n \in Pendings /\ n.read = file  BY DEF Pendings, ConfigInv, ConfigType
  <2>2. /\ pending' = pending \cup {n}
        /\ issued' \in 0..MaxCommands
        /\ UNCHANGED <<file, installed, installs>>
    BY <1>1, ManagerConstants DEF Load, ConfigInv, ConfigType
  <2>3. ConfigType'  BY <2>1, <2>2 DEF ConfigInv, ConfigType
  <2>4. \A c \in pending' : Valid(c.read)  BY <2>1, <2>2 DEF ConfigInv
  <2>5. QED  BY <2>2, <2>3, <2>4 DEF ConfigInv, Valid
<1>2. ASSUME NEW c \in pending, Save(c) PROVE ConfigInv'
  <2>1. Valid(Changed(c)) /\ Changed(c) \in Files
    BY <1>2, ChangedValid DEF Save, ConfigInv, ConfigType
  <2>2. /\ file' = Changed(c)
        /\ pending' \subseteq pending
        /\ UNCHANGED <<installed, issued, installs>>
    BY <1>2 DEF Save
  <2>3. ConfigType'  BY <2>1, <2>2 DEF ConfigInv, ConfigType
  <2>4. Valid(file')  BY <2>1, <2>2
  <2>5. \A d \in pending' : Valid(d.read)  BY <2>2 DEF ConfigInv
  <2>6. QED  BY <2>3, <2>4, <2>5 DEF ConfigInv, Valid
<1>3. ASSUME NEW c \in pending, Abandon(c) PROVE ConfigInv'
  BY <1>3 DEF Abandon, ConfigInv, ConfigType, Valid
<1>4. ASSUME NEW b \in Bundles, Package(b) PROVE ConfigInv'
  <2>1. /\ installed' \subseteq Bundles
        /\ installs' \in 0..MaxInstalls
        /\ UNCHANGED <<file, pending, issued>>
    BY <1>4, ManagerConstants DEF Package, ConfigInv, ConfigType
  <2>2. QED  BY <2>1 DEF ConfigInv, ConfigType, Valid
<1>5. CASE RunCommand \/ RunKilled \/ ParentAccepts \/ ParentGivesUp \/ Supervising
  <2>1. UNCHANGED cvars
    BY <1>5 DEF RunCommand, RunLoad, RunValidate, Publish, Launch, RunEnds, RunKilled,
                ParentAccepts, ParentGivesUp, Supervising
  <2>2. QED  BY <1>0, <2>1 DEF cvars
<1>6. CASE UNCHANGED mvars  BY <1>0, <1>6 DEF mvars, cvars
<1>7. QED
  BY <1>1, <1>2, <1>3, <1>4, <1>5, <1>6 DEF MNext, Configure

(* However commands overlap, the file on disk is a selection that `enable`    *)
(* would accept, for every set of manifests.                                  *)
THEOREM SelectionSafety == MSpec => []SelectionConsistent
<1>1. ConfigInv => SelectionConsistent  BY DEF ConfigInv, Valid, SelectionConsistent
<1>2. QED  BY <1>1, ConfigInit, ConfigStep, PTL DEF MSpec

-----------------------------------------------------------------------------
(* The run command. *)
RunPcs == {"start", "loaded", "publish", "launch", "supervise", "done", "failed"}

(* What each place of run() has validated, and that supervise() has been      *)
(* entered exactly when run() has.                                            *)
RunInv ==
  /\ run \in [pc: RunPcs, launch: SUBSET Bundles]
  /\ parent \in {"waiting", "accepted", "gone"}
  /\ run.pc \in {"publish", "launch", "supervise", "done"} =>
       Consistent(run.launch) /\ run.launch \cap Blocked = {}
  /\ run.pc \in {"launch", "supervise", "done"} => parent = "accepted"
  /\ spc # "ready" => run.pc \in {"supervise", "done"}

MInv == SInv /\ ConfigInv /\ RunInv

LEMMA MInitInv == MInit => MInv
<1> SUFFICES ASSUME MInit PROVE MInv  OBVIOUS
<1>1. RunInv  BY DEF MInit, SInit, RunInv, RunPcs
<1>2. QED  BY <1>1, SInitInv, ConfigInit DEF MInit, MInv

LEMMA SupervisorStep == SInv /\ [MNext]_mvars => SInv'
<1> SUFFICES ASSUME SInv, [MNext]_mvars PROVE SInv'  OBVIOUS
<1>1. CASE SNext
  BY <1>1, STypeStep, TreeStep, SignalStep DEF SInv
<1>2. CASE UNCHANGED svars  BY <1>2, SStutter
<1>3. QED
  BY <1>1, <1>2
  DEF MNext, Configure, Load, Save, Abandon, Package, RunCommand, RunLoad, RunValidate,
      Publish, Launch, RunEnds, RunKilled, ParentAccepts, ParentGivesUp, Supervising,
      mvars, SNext

LEMMA RunStep == MInv /\ [MNext]_mvars => RunInv'
<1> SUFFICES ASSUME MInv, [MNext]_mvars PROVE RunInv'  OBVIOUS
<1> USE DEF RunInv, RunPcs
<1>0. RunInv  BY DEF MInv
<1>1. CASE RunLoad
  <2>1. file.enabled \in SUBSET Bundles  BY DEF MInv, ConfigInv, ConfigType, Files
  <2>2. QED  BY <1>0, <1>1, <2>1 DEF RunLoad, svars
<1>2. CASE RunValidate  BY <1>0, <1>2 DEF RunValidate, Launchable, svars
<1>3. CASE Publish  BY <1>0, <1>3 DEF Publish, svars
<1>4. CASE Launch  BY <1>0, <1>4 DEF Launch, InstallHandlers
<1>5. CASE RunEnds  BY <1>0, <1>5 DEF RunEnds, svars
<1>6. CASE RunKilled  BY <1>0, <1>6 DEF RunKilled, svars
<1>7. CASE ParentAccepts \/ ParentGivesUp
  BY <1>0, <1>7 DEF ParentAccepts, ParentGivesUp, svars
<1>8. CASE Supervising
  <2>1. spc # "ready" \/ spc' = spc
    BY <1>8 DEF Supervising, Supervise, Forward, Tree, GracePasses, Popen, Assign, CatchUp,
                Reap, Escalate, Cleanup, Drain, Return, Finally, LeaderExits, Fork, KidExits
  <2>2. QED  BY <1>0, <1>8, <2>1 DEF Supervising
<1>9. CASE UNCHANGED <<spc, run, parent>>  BY <1>0, <1>9
<1>10. QED
  BY <1>1, <1>2, <1>3, <1>4, <1>5, <1>6, <1>7, <1>8, <1>9
  DEF MNext, Configure, Load, Save, Abandon, Package, RunCommand, mvars, svars

LEMMA MStep == MInv /\ [MNext]_mvars => MInv'
  BY SupervisorStep, ConfigStep, RunStep DEF MInv

LEMMA MInvariant == MSpec => []MInv
  BY MInitInv, MStep, PTL DEF MSpec

(* Every variable of the Manager and of supervise() keeps its type.           *)
THEOREM TypeCorrect == MSpec => []MTypeOK
<1>1. MInv => MTypeOK
  BY DEF MInv, SInv, ConfigInv, ConfigType, RunInv, RunPcs, MTypeOK
<1>2. QED  BY <1>1, MInvariant, PTL

(* A process is started only for a consistent selection, behind a receiver    *)
(* that acknowledged the launch.                                              *)
THEOREM LaunchSafety == MSpec => []LaunchedIsBound
<1>1. MInv => LaunchedIsBound
  BY DEF MInv, SInv, TreeInPlace, RunInv, LaunchedIsBound
<1>2. QED  BY <1>1, MInvariant, PTL

(* No descendant outlives supervise() without a SIGKILL pending, for any      *)
(* number of descendants, signals and errors.                                 *)
THEOREM OrphanSafety == MSpec => []NoOrphans
<1>1. MInv => NoOrphans  BY DEF MInv, SInv, TreeInPlace, NoOrphans
<1>2. QED  BY <1>1, MInvariant, PTL

(* A signal that came at any moment is acted on once supervise() waits.       *)
THEOREM SignalSafety == MSpec => []SignalPassedOn
<1>1. MInv => SignalPassedOn
  BY DEF MInv, SInv, SignalActedOn, SignalPassedOn, HasChild, Handling, Places
<1>2. QED  BY <1>1, MInvariant, PTL

(* SIGKILL comes only after a second signal, after the grace period or after  *)
(* the leader has gone.                                                       *)
THEOREM GraceKept == MSpec => NoEarlyKill
<1> DEFINE Late == doomed = {} /\ doomed' # {} =>
                     received' > 1 \/ overdue \/ leader # "running"
<1>1. ASSUME SInv, SNext PROVE Late
  <2> USE DEF SInv, STypeOK, TreeInPlace
  <2>1. CASE Forward
    <3>1. doomed' = doomed \/ received > 0  BY <2>1 DEF Forward, KillTree
    <3>2. QED  BY <1>1, <2>1, <3>1 DEF Forward
  <2>2. CASE CatchUp  BY <1>1, <2>2 DEF CatchUp, KillTree
  <2>3. CASE Escalate  BY <1>1, <2>3 DEF Escalate
  <2>4. CASE Drain  BY <1>1, <2>4 DEF Drain
  <2>5. CASE ~(Forward \/ CatchUp \/ Escalate \/ Drain)
    BY <1>1, <2>5 DEF SNext, Supervise, Tree, InstallHandlers, Popen, Assign, Reap, Cleanup,
                 Return, Finally, LeaderExits, Fork, KidExits, GracePasses
  <2>6. QED  BY <2>1, <2>2, <2>3, <2>4, <2>5
<1>2. ASSUME MInv, [MNext]_mvars PROVE [Late]_svars
  <2>1. SNext \/ UNCHANGED svars
    BY <1>2
    DEF MNext, Configure, Load, Save, Abandon, Package, RunCommand, RunLoad, RunValidate,
        Publish, Launch, RunEnds, RunKilled, ParentAccepts, ParentGivesUp, Supervising,
        mvars, SNext
  <2>2. QED  BY <1>1, <1>2, <2>1 DEF MInv
<1>3. QED  BY <1>2, MInvariant, PTL DEF MSpec, NoEarlyKill

=============================================================================
