------------------------------ MODULE Manager ------------------------------
(***************************************************************************)
(* The Manager's command line (cli.py) over its configuration file          *)
(* (config.py), the installed Bundles (discovery.py), the private handoff   *)
(* of the launch binding (runtime_phase_handoff.py) and supervise().        *)
(*                                                                         *)
(* A command reads the whole file, decides on what it read and replaces the *)
(* whole file (os.replace); nothing keeps two commands from doing so at the *)
(* same time, or the package operator from uninstalling a Bundle meanwhile. *)
(* `run` (with --phase-binding-socket) validates, hands its binding to the  *)
(* parent that waits for it and supervises the launch; the parent may give  *)
(* up, and a signal before supervise() has installed its handlers ends the  *)
(* Manager.                                                                 *)
(***************************************************************************)
EXTENDS ProcessSupervisor

CONSTANTS
  Bundles,       \* extension ids
  Requires,      \* Bundle -> the Bundles its manifest requires
  Exclusive,     \* Bundles that claim the same exclusive resource or process tree
  Blocked,       \* Bundles whose manifest has an activation blocker
  Selected,      \* Bundles enabled by commands that are over
  MaxCommands,   \* bound: commands issued
  MaxInstalls    \* bound: packages installed or uninstalled

ASSUME ManagerConstants ==
  /\ Requires \in [Bundles -> SUBSET Bundles]
  /\ Exclusive \subseteq Bundles
  /\ Blocked \subseteq Bundles
  /\ Selected \subseteq Bundles
  /\ MaxCommands \in Nat /\ MaxInstalls \in Nat

VARIABLES
  file,          \* the configuration file: the enabled and the disabled entries
  installed,     \* Bundles discovery finds
  pending,       \* commands under way: the operation and the file it read
  issued,        \* commands issued
  installs,      \* packages installed or uninstalled
  run,           \* the place of the run command and what it read
  parent         \* the handoff receiver: "waiting", "accepted", "gone"

cvars == <<file, installed, pending, issued, installs>>
mvars == <<svars, cvars, run, parent>>

-----------------------------------------------------------------------------
Files == [enabled: SUBSET Bundles, disabled: SUBSET Bundles]
Ops == {"enable", "disable", "forget", "configure"}
Pendings == [op: Ops, id: Bundles, read: Files]

(* ExtensionConfig: with_extension and without_extension.                     *)
Enabled(f, b) == [enabled |-> f.enabled \cup {b}, disabled |-> f.disabled \ {b}]
Disabled(f, b) == [enabled |-> f.enabled \ {b}, disabled |-> f.disabled \cup {b}]
Forgotten(f, b) == [enabled |-> f.enabled \ {b}, disabled |-> f.disabled \ {b}]

(* discover_bundles: every wanted Bundle is registered and whole.             *)
Discovered(S) == S \subseteq installed

(* _validate_extension_dependencies: dependencies are selected too, and the   *)
(* selected ones form no cycle (no nonempty set each of which needs another). *)
DependenciesMet(S) ==
  /\ \A b \in S : Requires[b] \subseteq S
  /\ \A C \in SUBSET S : (\A b \in C : Requires[b] \cap C # {}) => C = {}

(* _validate_process_ownership and _validate_resource_ownership.              *)
OwnershipMet(S) == \A b, c \in S \cap Exclusive : b = c

Consistent(S) == DependenciesMet(S) /\ OwnershipMet(S)

ASSUME SelectedConsistent == Consistent(Selected) /\ Selected \cap Blocked = {}

(* _validate_dependency_removal.                                              *)
RemovableAlways(S, b) == S \subseteq Bundles /\ b \in Bundles   \* mutant
Removable(S, b) == \A d \in S \ {b} : b \notin Requires[d]

-----------------------------------------------------------------------------
(* _extension_command. *)

(* load_config: the whole file, once.                                         *)
Load(op, b) ==
  /\ issued < MaxCommands
  /\ issued' = issued + 1
  /\ pending' = pending \cup {[op |-> op, id |-> b, read |-> file]}
  /\ UNCHANGED <<svars, file, installed, installs, run, parent>>

(* What the command makes of the file it read, or the refusal.                *)
Accepts(c) ==
  LET S == c.read.enabled
  IN  CASE c.op = "enable" ->
             /\ c.id \notin Blocked
             /\ Discovered(S \cup {c.id}) /\ Consistent(S \cup {c.id})
        [] c.op = "disable" -> Discovered(S) /\ Removable(S, c.id)
        [] c.op = "forget" ->
             c.id \in c.read.disabled /\ Discovered(S) /\ Removable(S, c.id)
        [] OTHER -> Discovered({c.id})

Changed(c) ==
  CASE c.op = "enable" -> Enabled(c.read, c.id)
    [] c.op = "disable" -> Disabled(c.read, c.id)
    [] c.op = "forget" -> Forgotten(c.read, c.id)
    [] OTHER -> IF c.id \in c.read.enabled THEN c.read ELSE Disabled(c.read, c.id)

(* save_config: the whole file, from what was read.                           *)
Save(c) ==
  /\ c \in pending
  /\ Accepts(c)
  /\ file' = Changed(c)
  /\ pending' = pending \ {c}
  /\ UNCHANGED <<svars, installed, issued, installs, run, parent>>

(* A refused command, and one killed before os.replace.                       *)
Abandon(c) ==
  /\ c \in pending
  /\ pending' = pending \ {c}
  /\ UNCHANGED <<svars, file, installed, issued, installs, run, parent>>

(* The package operator (external). *)
Package(b) ==
  /\ installs < MaxInstalls
  /\ installs' = installs + 1
  /\ installed' = IF b \in installed THEN installed \ {b} ELSE installed \cup {b}
  /\ UNCHANGED <<svars, file, pending, issued, run, parent>>

-----------------------------------------------------------------------------
(* _run_command. *)
RunLoad ==
  /\ run.pc = "start"
  /\ run' = [pc |-> "loaded", launch |-> file.enabled]
  /\ UNCHANGED <<svars, cvars, parent>>

(* Dependencies, ownership, blockers, and a Bundle to bind for the handoff;   *)
(* the status of a provider may refuse too.                                   *)
Launchable(S) == S # {} /\ Discovered(S) /\ Consistent(S) /\ S \cap Blocked = {}

RunValidate ==
  /\ run.pc = "loaded"
  /\ \/ Launchable(run.launch) /\ run' = [run EXCEPT !.pc = "publish"]
     \/ run' = [run EXCEPT !.pc = "failed"]
  /\ UNCHANGED <<svars, cvars, parent>>

(* publish_native_binding: connect, send, and wait for an acknowledgement     *)
(* that binds the record; a timeout or a lost connection refuses the launch.  *)
PublishUnconfirmed ==                                      \* mutant
  /\ run.pc = "publish"
  /\ run' = [run EXCEPT !.pc = "launch"]
  /\ UNCHANGED <<svars, cvars, parent>>

Publish ==
  /\ run.pc = "publish"
  /\ \/ parent = "accepted" /\ run' = [run EXCEPT !.pc = "launch"]
     \/ run' = [run EXCEPT !.pc = "failed"]
  /\ UNCHANGED <<svars, cvars, parent>>

(* accept_native_binding: the exact live child, its identity and its record.  *)
ParentAccepts ==
  /\ parent = "waiting" /\ run.pc = "publish"
  /\ parent' = "accepted"
  /\ UNCHANGED <<svars, cvars, run>>

(* The receiver's own timeout. *)
ParentGivesUp ==
  /\ parent = "waiting"
  /\ parent' = "gone"
  /\ UNCHANGED <<svars, cvars, run>>

(* supervise(command): the handlers are installed first.                      *)
Launch ==
  /\ run.pc = "launch"
  /\ run' = [run EXCEPT !.pc = "supervise"]
  /\ InstallHandlers
  /\ UNCHANGED <<cvars, parent>>

RunEnds ==
  /\ run.pc = "supervise" /\ spc = "returned"
  /\ run' = [run EXCEPT !.pc = "done"]
  /\ UNCHANGED <<svars, cvars, parent>>

(* A signal while the default handlers are in place.                          *)
RunKilled ==
  /\ run.pc \in {"loaded", "publish", "launch"}
  /\ run' = [run EXCEPT !.pc = "failed"]
  /\ UNCHANGED <<svars, cvars, parent>>

-----------------------------------------------------------------------------
MInit ==
  /\ SInit
  /\ file = [enabled |-> Selected, disabled |-> {}]
  /\ installed = Bundles
  /\ pending = {}
  /\ issued = 0
  /\ installs = 0
  /\ run = [pc |-> "start", launch |-> {}]
  /\ parent = "waiting"

Configure ==
  \/ \E op \in Ops, b \in Bundles : Load(op, b)
  \/ \E c \in pending : Save(c) \/ Abandon(c)

RunCommand == RunLoad \/ RunValidate \/ Publish \/ Launch \/ RunEnds

Supervising == (Supervise \/ Forward \/ Tree \/ GracePasses) /\ UNCHANGED <<cvars, run, parent>>

MNext ==
  \/ Configure \/ (\E b \in Bundles : Package(b))
  \/ RunCommand \/ RunKilled \/ ParentAccepts \/ ParentGivesUp
  \/ Supervising

MSpec == MInit /\ [][MNext]_mvars

(* Fairness: the Manager runs on, time passes, and SIGKILL is delivered.      *)
MFairSpec ==
  /\ MSpec
  /\ WF_mvars(RunCommand)
  /\ WF_mvars(Supervise /\ UNCHANGED <<cvars, run, parent>>)
  /\ WF_mvars(GracePasses /\ UNCHANGED <<cvars, run, parent>>)
  /\ WF_mvars(Killed /\ UNCHANGED <<cvars, run, parent>>)

-----------------------------------------------------------------------------
(* Properties. *)

(* Every variable holds a value of its type.                                  *)
MTypeOK ==
  /\ STypeOK
  /\ file \in Files
  /\ installed \subseteq Bundles
  /\ pending \subseteq Pendings
  /\ issued \in 0..MaxCommands
  /\ installs \in 0..MaxInstalls
  /\ run \in [pc: {"start", "loaded", "publish", "launch", "supervise", "done", "failed"},
              launch: SUBSET Bundles]
  /\ parent \in {"waiting", "accepted", "gone"}

(* However commands overlap and overwrite each other, the selection on disk   *)
(* is one that `enable` would accept: closed under dependencies, one owner    *)
(* per exclusive resource, nothing blocked; an entry is enabled or disabled.  *)
SelectionConsistent ==
  /\ Consistent(file.enabled)
  /\ file.enabled \cap Blocked = {}
  /\ file.enabled \cap file.disabled = {}

(* A process is started only for a consistent selection, behind a receiver    *)
(* that acknowledged this launch.                                             *)
LaunchedIsBound ==
  leader # "none" => Consistent(run.launch) /\ run.launch \cap Blocked = {} /\ parent = "accepted"

(* Once a signal has reached the handler the run command comes to its end:    *)
(* the tree exits or is killed, whether it listens or not.                    *)
ShutdownCompletes == received > 0 ~> run.pc = "done"

=============================================================================
