# Verification of the extension manager

TLA+ models, TLC runs and TLAPS proofs for the stateful part of `vllm_hust_ext`
and of the traffic authorities its experiments run it with: what decides when a
new extension plan may receive traffic, what is durable about that decision,
how it is undone, and how the Manager selects, launches and stops extensions.
Paths below are relative to the repository; `PROJECT.json` maps every definition
to the lines it models.

## 1. The system

The Manager keeps a selection of *Bundles*, compiles their *contracts* into an
immutable *plan*, launches the host with it, collects evidence that the plan is
in effect, and only then lets traffic through. Everything it must not forget
lives in SQLite (coordinator, gate), in canonical record files (quarantine) or
in append-only journals (authorities, host); everything it acts on is behind an
adapter that can fail.

| Component | Source | State | Operations | Hard behaviour |
|---|---|---|---|---|
| Exposure gate | `exposure_gate.py` | one `gate_state` row, append-only `gate_transition` journal, `admission` table; the authority's route | `stage`, `close`, `open`, `drain`, `observe`, `rollback`, `fail_close`, `reconcile` | crash between intent, side effect and receipt; adapter that fails loudly, silently or half; route changed behind the gate; lease lost |
| Trace oracle | `exposure_gate.py` (`export_trace`, `evaluate_trace`) | none (raw rows) | replay | second copy of the transition table |
| Activation coordinator | `durable_coordinator.py` | `activation`, `journal`, `meta`, `inventory`, `evidence`, `rollback_outcome` tables; traffic, host and lease adapters | `plan`, `prepare`, `launch`, `observe`, `refresh_inventory`, `commit`, `recover`, `resume_observing`, `rollback`, `external_lease_lost`, boot | write-ahead steps cut off anywhere, manager and process restarts, stale evidence, rival plans; a gate with a database of its own |
| Reference model | `ecpa_model.py` | in-memory activation | `commit`, `rollback`, `external_lease_lost`, `recover_after_crash` | - (it is the specification) |
| Quarantine transactions | `quarantine_transaction.py` | record files per transaction, fence files per journal, one lock | prepare, mark applied / restored / blocked, finalize, reconcile | crash between fence, rename and record; runner and later sources racing for the same transaction |
| Host event sink | `host_event_sink.py` | one append-only journal per process | `append_event`, `snapshot_journal`, `quarantine_journal`, `restore_quarantined_journal` | writers that waited for the lock |
| Lifecycle sources | `formal_lifecycle_source.py` | one process per fact | prepare, propose, commit, release | commit with an undo handler that can fail as well |
| Loopback traffic authority | `experiments/exposure_gate/loopback_traffic.py` | route, journal, seen identities | open, close, restore, observe; one handler thread per request | records without the lock, lost and half-written records, a full journal, shutdown |
| Dynamic backend authority | `experiments/formal_campaign/h3_dynamic_authority.py` | route, enrolled and revoked generations, journal | enroll, admit, close, revoke; admit, connect, deliver, respond per request | processes dying and relaunching on the same port between two critical sections |
| Contract compiler | `contract_compiler.py`, `semantic_obligations.py` | none | compile contracts, recompile a plan | precedence of conflicts, order independent of the listing |
| Manager: command line, configuration, discovery | `cli.py`, `config.py`, `discovery.py` | enabled set in one JSON file | enable, disable, forget, configure, run | concurrent read-modify-write, packages that come and go |
| Phase handoff | `runtime_phase_handoff.py` | one private socket | publish, accept | parent that gives up or dies |
| Process supervisor | `process_supervisor.py` | child process group | start, forward, escalate, reap, clean up | signals at any point, descendants that outlive the leader |
| Host observation, admission of producers, catalogue, attestation, providers | see `PROJECT.json` | none | parse and validate one document | - |
| Experiment runners, paper scripts | `experiments/`, `paper/` | files of one campaign | scripts | - |

**Interaction.** The coordinator calls its `TrafficGate` adapter between its own
transactions; the exposure gate is one implementation of that adapter and
itself calls a traffic authority, of which the loopback authority is one. Both
follow the same discipline: *intent row, side effect, receipt row*. Lifecycle
sources are separate processes that a runner starts one after the other; they
meet in the directory lock and in the record files, and with the host's writers
in the fence files. `run` reads the configuration, validates it against the
installed Bundles, hands its launch binding to the parent that waits for it and
becomes the supervisor of what it launches.

**What makes each part correct.**
- *Gate*: no request reaches the candidate without a durable open receipt; a
  drain receipt stays true; what is reported safe is closed; nothing stays in
  doubt.
- *Oracle*: replaying the rows gives the state the gate is in.
- *Coordinator*: traffic reaches a candidate only behind its commit; a commit
  is carried by complete and current evidence; one commit per generation; no
  plan stays in a write-ahead state; together with its gate it implements the
  activation contract.
- *Quarantine*: evidence is never destroyed; accepted means quarantined for
  good; recovered means fully released; never both; every intent is settled.
- *Authorities*: the journal explains every admission; a request is answered by
  the generation that admitted it or not at all; a revoked route stays revoked.
- *Compiler*: the verdict and the plan are functions of what the contracts say.
- *Manager*: the selection on disk is always one that `enable` would accept;
  nothing is launched without an accepted binding, and nothing outlives it.

## 2. Modules

| Module | Models | Theorems in |
|---|---|---|
| `ExposureGate` | `ReferenceExposureGate` and its `TrafficAuthorityAdapter` | `ExposureGateProofs` |
| `TraceOracle` (extends the gate) | `evaluate_trace` | `ExposureGateProofs` |
| `ActivationCoordinator` | `ActivationCoordinator`, `SQLiteActivationStore` over a plain adapter | `ActivationCoordinatorProofs` |
| `ActivationContract` | what an activation promises, from `ReferenceModel` | - |
| `ActivationRefinement` (extends the coordinator) | the mapping to the contract | `ActivationCoordinatorProofs` |
| `GatedActivation` (extends the gate) | the coordinator's branches for a `ReferenceExposureGate`, the two databases composed, and their mapping to the contract | `GatedActivationProofs` |
| `Quarantine` | `quarantine_transaction.py`, journal moves and writer of `host_event_sink.py`, actuator of `formal_lifecycle_source.py` | `QuarantineProofs` |
| `LoopbackTraffic` | `loopback_traffic.py` | `LoopbackTrafficProofs` |
| `DynamicAuthority` | `h3_dynamic_authority.py` | `DynamicAuthorityProofs` |
| `ProcessSupervisor` | `supervise()` | `ManagerProofs` |
| `Manager` (extends the supervisor) | `cli.py` over `config.py`, `discovery.py`, `runtime_phase_handoff.py` | `ManagerProofs` |
| `ContractCompiler` | `compile_contracts()`, recompilation in `semantic_obligations.py` | `ContractCompilerProofs` |
| `MC*` | values of the constants for TLC | - |

The stateful components are modelled alike. A public method is a sequence of
steps, one per SQLite transaction, durable file operation, journal record or
adapter call; `call.pc` (`co.pc`, `hs[h].pc`, `run.pc`, `spc`) is the place the
running method has reached and the other fields its local variables. Steps that
raise are part of the method. `CutOff`, `Crash` and `Restart` end it between any
two steps; what survives is exactly the database, the files and the outside
world. Calls that the code refuses before their first write are stuttering
steps. `budget` bounds the number of faults.

**ExposureGate.** `gs` is the row, `journal` the sequence of intent and receipt
rows, `adm` the admissions with the journal position at which they were
admitted, `route` what the authority really does. Generations, fences and
snapshot digests are named by what the code compares them with, plus one value
that matches nothing. An adapter call may raise with or without its effect;
with `SilentFaults` it may also return normally without it. `Drift` changes the
route behind the gate and `LeaseLost` the lease. `Continue` collects the steps
of running methods, `Reconcile` the branches of `reconcile()`.

**TraceOracle.** The replay as predicates on rows: source matches, intent and
receipt are paired by operation id, target is in the oracle's own table, final
route and admissions are explained by the first open receipt.

**ActivationCoordinator.** `act` is the activation table, `wal` the journal
rows recovery rests on, `ev` the evidence rows with the inventory, manager
epoch and freshness they were accepted under. Signatures and time windows are
what the verifier decides: a row is bound to launch, process and start epoch,
fresh until `Expire`. The adapter is a plain `TrafficGate`; the branches taken
for a `ReferenceExposureGate` are in `GatedActivation`.

**Quarantine.** A journal file is its inode and the number of its records,
which determine its bytes because the files are append-only. A transaction's
record files are one record `rec[t]`; digests are reduced to whether a restored
record chains to an applied one. Every writer holds the directory's exclusive
lock, so there is one critical section at a time (`call`), while host writers
wait and append in between. `LateErrors` lets a step of `commit_fault` raise
after its effect (a failed sync and a failed undo in `quarantine_journal`, an
error behind the publication of a record); `Foreign` lets someone who ignores
lock and fence remove or replace a source journal.

**ActivationContract.** `phase` is how far an activation has come and `exposed`
whether traffic reaches the candidate: exposure only between the commit and its
withdrawal, effective only while exposed, rolled back only while not, one
commit, ended for good. `ActivationRefinement` reads the phase off the
activation row and the commit WAL row, `GatedActivation` off the row, the WAL
row and the gate's route.

**GatedActivation.** One plan, `st` its row, beside the whole state of
`ExposureGate`. A coordinator method starts a gate operation, waits for it and
reads how it ended; `Crash` stops both between any two transactions of either.
`recover()` and `rollback()` have all their gated branches. `Wedged` names the
states in which the gate refuses the code's own recovery (section 5); a
compensation that succeeds may pass through one of them. `InDoubtResolves`
therefore excepts only a gate that is wedged from some point on for ever.

**LoopbackTraffic.** `journal` holds the lines really in the file, `sequence`
what the process counted: a failed write may leave the line there. Control
operations take a step per record, since a handler's `request.complete` is
recorded without the lock; admission is one step under the lock. `life` is the
shutdown, in the steps the code takes. The signal raises `SystemExit` in the
main thread between two statements (`Stop`) or inside a record (`Struck`: the
line is in the file or not, and nothing closes the route): the operation is
left where it was, which `admin` remembers, and the lock is released. Handlers
can take the lock and admit until `ShutRoute`, the finally clause, has it and
closes the route; `Down` records the stop and closes the journal under them. A
second signal ends the main thread's steps early; the properties need no
fairness, so behaviours in which those steps never come are among those checked.

**DynamicAuthority.** Launches are numbered and have an API process and a
worker that die at any moment, under the lock or not. A handler takes the lock
to admit, to deliver and to respond, and once more when it fails; between those
it holds a socket to whatever listened on the port when it connected. The
journal's request records are `log`; a record whose sync failed may be among
them.

**ProcessSupervisor, Manager.** The signal handler may run between any two steps
of `supervise()`, also while `Popen` has started the process and not returned
it. Commands read the file, decide on what they read and replace the file;
any number of them overlap (`pending`), and packages are installed and removed
meanwhile. Version ranges of dependencies and provider status are part of the
manifests the constants describe.

**ContractCompiler.** One stage per function of `compile_contracts`, one step per
pop of the topological sort; each stage rejects or goes on. Ids and names are
numbers in the order the code sorts them, a PEP 440 range is the set of versions
it admits, `Contract`, `Parsed` and `TaxonomyParsed` say what the parsers guarantee
(the type of a contract, finitely many entries, unique names). After a
plan is accepted it is compiled again from its own ordered contracts without
the taxonomy, as `compile_native_semantic_plan` does. The reference definitions
(`Reasons`, `Least`, `OwnershipMeets`, `BindingsMeet`) are stated on the
contracts alone: a cycle is a set of extensions each of which depends on another
of the set, the order is the lexicographically least topological one.

## 3. Runs

| Run | Instance | Shows |
|---|---|---|
| `gate_silent` | 2 requests (symmetric), calls start below 7 journal rows, 2 faults, silent adapter, behavioural restore | `AdmissionsFollowOpen`, `DrainReceiptIsFinal`, `OracleReplaysState` |
| `gate_honest` | 1 request, 7 rows, 2 faults, adapter that reports failures, fairness | `CandidateExposureKnown`, `FailedSafeHeld`, `OpeningResolvesAlone` |
| `coord_single` | 1 plan, 2 processes, 4 nonces, 2 start epochs, 2 faults | `CandidateTrafficCommitted`, `EffectiveIsAttested`, `NoEvidenceReplay`, `CoordinatorMeetsContract` (refinement) |
| `coord_rivals` | 2 plans for one generation, 1 process, 2 nonces, 1 fault, fairness | `OneCommitPerGeneration`, `InDoubtResolves` |
| `gated` | 1 request, calls start below 14 rows with 8 spare for recovery, 2 faults, fairness | `OutcomesAgree`, `AdmittedIsCommitted`, `ExposureOwned`, `GateMeetsContract` (refinement), `InDoubtResolves` |
| `gated_failed_safe` | as `gated` | `FailedSafeIsShut` is violated (finding 1) |
| `quarantine_shared` | 2 transactions on 1 journal, 3 files of 2 records, 3 faults, late errors and strangers | `FinalizedStaysQuarantined`, `RestoredIsReleased`, `EvidencePreserved` |
| `quarantine_separate` | 2 transactions, a journal each, 2 faults, fairness | `FencedWhileAway`, `IntentResolves` |
| `loopback` | 2 handlers, 2 identities, 2 generations, journal of 7 records, 1 fault | `AdmitsFollowJournal`, `OneDecisionPerIdentity`, `ForwardedIsAdmitted`, `StopIsFinal` |
| `dynamic` | 2 launches, 2 handlers, 2 identities, 2 generations, 1 fault, fairness | `OpenIsCurrent`, `GenerationsDisjoint`, `DeliveredToBound`, `CompletedInOneGeneration`, `ReleasedByCurrent`, `RequestsEnd` |
| `manager` | 4 Bundles (a requires b, b and c exclusive, d blocked, b selected), 2 commands, 1 package change, 1 descendant, 2 signals, 1 failed start, fairness | `SelectionConsistent`, `LaunchedIsBound`, `NoOrphans`, `SignalPassedOn`, `ShutdownCompletes` |
| `compiler` | 3 services over 2 capabilities in 2 versions, in two listings; pairs of resource holders with an alias, an unknown resource, 3 modes and 2 mediators; misfits of host and grants; no contract; with and without taxonomy | `VerdictIsReference`, `PlanIsReference`, `RecompileAgrees` |

Further configurations show the other counterexamples of section 5 to a reader
who runs them: `gate_opening_wedge`, `gate_failed_safe_open`, `oracle_draining`
(module `MCExposureGate`), `coord_recommit` (`MCActivationCoordinator`),
`quarantine_retry` (`MCQuarantine`), `loopback_fail_closed`
and `loopback_stop_window` (`MCLoopbackTraffic`). Every module has a type
invariant; all of them are proved and none is among the listed properties.

**Bounds.** A complete gate history (stage, close, open, drain, rollback) takes
nine journal rows; a call is started while there are fewer than `MaxJournal`
and then finishes, so 7 reaches a drain, a rollback, a fail-close or a recovery
behind an open, and a rollback of a drain that was cut off. In `gated` the
coordinator starts methods as long as `Spare` rows are left, so that bounds
never stop a recovery. Two faults let a fault strike the recovery from the
first. Two requests allow one admission on either side of an open. The
coordinator needs two processes so that evidence can be partial, more nonces
than processes so that evidence can be presented again after a restart, and two
start epochs for a process that restarts. Two transactions on one journal with
three inodes allow a journal, its replacement and a writer's new one; three
faults allow a crash in the commit, one in the recovery and one change by a
stranger. Two handlers and two generations are what one request of an old
generation and one of its successor need; seven records let the loopback
journal fill up in every operation behind a start, an open and an admission.
One descendant can outlive the leader or die with it; two signals reach the
escalation; the four Bundles contain each relation the validation looks at.
Three contracts are the least with a contract that becomes ready late and sorts
first, and with a cycle beside an independent contract.
Deadlock is not checked: once the bounds are used up, or the compiler has
returned, nothing has to happen.

**Fairness.** `WF(Continue)`: a method or critical section that was entered runs
on unless it is cut off; it is straight-line code. `WF(Reconcile)` (gate) and
`SF(Recover(p))` (coordinator, `gated`): the owner calls recovery again; strong
because other methods of the manager run between its calls. In `gated` a
coordinator method waits for gate operations, hence `SF(CoContinue)` beside
`WF(GateRuns)`. `WF(Sweep)` (quarantine): later sources start and each
reconciles before it does anything else. `WF(Handle(h))` (dynamic): every wait
of a handler ends with its socket time-out, and lock holders never wait for
each other. `WF` of `RunCommand`, `Supervise`, `GracePasses` and `Killed`
(manager): the command and `supervise()` run on, the grace period passes, and a
process with SIGKILL pending dies; the launched process itself need not obey
any other signal. Nothing is assumed about the runner, writers, requests,
operators or faults.

## 4. Proofs

The theorems hold for every set of requests, plans, processes, nonces,
transactions, journals, handlers, Bundles, descendants, contracts and taxonomies,
for every bound, and
for every choice of the fault switches. They use only the named assumptions on
constants, which TLC evaluates in the runs: `GateConstants`,
`CoordinatorConstants` (`Base` is not a plan, every plan requires some process),
`WatchedAssumption` (the plan the contract speaks of is nobody's predecessor),
`QuarantineConstants` (identifiers are positive, every transaction has a
journal), `LoopbackConstants`, `AuthorityConstants`, `SupervisorConstants`
(finitely many descendants), `ManagerConstants`, `SelectedConsistent` (the file at
the start is one a command wrote) and `CompilerConstants` (contracts and taxonomy
are as the parsers return them).

| Theorem | Statement |
|---|---|
| `ExposureGateProofs!TypeCorrect`, `AdmissionSafety`, `DrainSafety`, `OpensOnce`, `TerminalStatesFinal` | `TypeOK`, `AdmissionsFollowOpen`, `DrainReceiptIsFinal`, `SingleOpen`, `TerminalIsFinal` |
| `ExposureGateProofs!OracleAgrees`, `CandidateExposure`, `FailedSafeStays` | `OracleReplaysState`, `CandidateExposureKnown`, `FailedSafeHeld` (the last for an adapter that reports its failures) |
| `ActivationCoordinatorProofs!TypeCorrect`, `OneCommit`, `TrafficSafety`, `EffectiveSafety`, `ReplaySafety` | `TypeOK`, `OneCommitPerGeneration`, `CandidateTrafficCommitted`, `EffectiveIsAttested`, `NoEvidenceReplay` |
| `ActivationCoordinatorProofs!Refinement` | `Spec => CoordinatorMeetsContract` |
| `GatedActivationProofs!GatedTypes`, `OutcomesHold`, `AdmissionsCommitted`, `ExposureHasOwner` | `GatedTypeOK`, `OutcomesAgree`, `AdmittedIsCommitted`, `ExposureOwned` |
| `GatedActivationProofs!GatedRefinement` | `GatedSpec => GateMeetsContract` |
| `QuarantineProofs!TypeCorrect`, `FinalizedSafety`, `RestoredSafety`, `EvidenceSafety` | `TypeOK`, `FinalizedStaysQuarantined`, `RestoredIsReleased`, `EvidencePreserved` |
| `QuarantineProofs!QuarantinedIsFenced` | `FencedWhileAway`, without `LateErrors` |
| `LoopbackTrafficProofs!TypeCorrect`, `AdmitSafety`, `DecisionSafety`, `ForwardSafety`, `StopSafety` | `TypeOK`, `AdmitsFollowJournal`, `OneDecisionPerIdentity`, `ForwardedIsAdmitted`, `StopIsFinal` |
| `DynamicAuthorityProofs!TypeCorrect`, `RouteSafety`, `GenerationSafety`, `DeliverySafety`, `CompletionSafety`, `ReleaseSafety`, `RouteLossSafety` | `TypeOK`, `OpenIsCurrent`, `GenerationsDisjoint`, `DeliveredToBound`, `CompletedInOneGeneration`, `ReleasedByCurrent`, `RouteLossJustified` |
| `ManagerProofs!TypeCorrect`, `SelectionSafety`, `LaunchSafety`, `OrphanSafety`, `SignalSafety`, `GraceKept` | types, `SelectionConsistent`, `LaunchedIsBound`, `NoOrphans`, `SignalPassedOn`, SIGKILL only behind a reason |
| `ContractCompilerProofs!CompilerTypes`, `VerdictHolds`, `PlanHolds`, `RecompileHolds` | `TypeOK`, `VerdictIsReference`, `PlanIsReference`, `RecompileAgrees` |

**Gate**: `GateInv` = `TypeOK` /\ `CallStaged` /\ `CallInState` /\ `History`.
The safety properties speak of the whole journal, a step only of its last rows;
`History` therefore says what each state of the row tells about the journal
(before the open there is no open receipt, in an exposed state there is one,
admission positions do not exceed the journal), and `CallInState` that a
running method is in the state its first step checked: the row is written by
one method at a time. `AdmissionSafety` holds even for an adapter that lies,
since `observe` compares the route it reads with the durable state.

`OracleInv` = `LastMove` /\ `ObservedOpen` /\ `MovesKnown` carries the oracle: the
replayed state before a row is the target of the last row that has one, so the
replay ends in the durable state because the last moving row moved it there, and
a new row leaves the replay of every earlier one as it was (the journal is
append-only, `StepExtends`). `ExposureInv` relates the durable row to the *actual*
route, which the adapter and the world change behind it: `ClosedKnown`,
`RecoveryKnown` and `RestoredKnown` say what a method in progress has learned of
the route and that it is still so when it writes its receipt; `OpenIntended` that
the candidate is never routed without an intent. Only the parts that rest on an
adapter's word are under `~SilentFaults`.

**Coordinator**: `CoordInv` = `TypeOK` /\ `CallPlan` /\ `NonceKey` /\
`EvidenceBound` /\ `CommitInFlight` /\ `RestoredInFlight` /\
`OneCommitPerGeneration` /\ `CandidateTrafficCommitted`. `CommitInFlight`
carries the evidence that the compare-and-swap checked through the adapter call
to the receipt; `RestoredInFlight` carries "traffic was restored" through the
rest of a rollback; `EvidenceBound` keeps evidence rows within the epochs that
exist.

**Quarantine**: `QInv` = `TypeOK` /\ `CallInv` /\ `FilesInv`. Whether a step may
touch a fence or settle a transaction was decided when the lock was taken;
`CallInv` keeps those decisions: the transaction being committed, undone or
restored is open, the fence it removes is its own, and a journal is moved only
behind it. `FilesInv` adds that records chain (`RecordsChain`), that a new
source has none and a proposed one an intent. That a finalized journal is never
moved follows because a move back needs the fence of an open transaction, and a
move away an empty place. `EvidenceSafety` is an action property: every step
keeps, in one of the two directories, every file with all its records.
`FencedWhileAway` needs `AwayInv` besides: the fence about to be removed has its
journal back (`RestoringBack`, `UndoingBack`), and a source commits once
(`FenceIsPast`, `CommitIsFirst`), so that the fence it installs is not one whose
removal is already decided.

**Refinement**: `RefInv` = `CoordInv` /\ `RollbackInFlight` /\ `StandingLogged`.
The mapped phase of a plan depends on its row and on the commit WAL row, so a
step is a contract step only if a standing plan has its WAL row
(`StandingLogged`) and a rollback under way is of a plan whose standing has
already lapsed (`RollbackInFlight`). Every action is first reduced to one of a
few shapes (row moves, traffic moves, both unchanged), and each shape is
matched with a step of the contract.

**Gated coordinator**: `GatedInv` = `GatedTypeOK` /\ `GateInv` /\ `ExposureInv` /\
`GateSide` /\ `PlanSide`. The gate's invariants are taken over: every step of the
composition is a step of the gate, leaves the gate alone, or ends its call.
`GateSide` says which gate operation can be running at each place of a
coordinator method and what its end will tell; `PlanSide` that an exposed or
opening gate, the candidate's route and every candidate admission have the
commit row of the other database (`Logged`), and that the outcome a method is
about to record is true of the gate (`Pending`), which is what makes
`OutcomesAgree` survive a crash of both. The refinement reduces each of the
steps to shapes, as above, of row, commit row and route.

**Compiler**: `CompilerInv` = `StageInv` /\ `TypeOK` /\ `PassInv`. `StageInv` says
what each stage has ruled out and what it left, in terms of the contracts alone;
the first reason that holds is then the one the stage reports. `Kahn` is the
invariant of the topological sort: `indegree` counts the dependencies not placed,
the heap holds exactly the ids that wait for nobody, every placed id was free and
the least free one when it was placed. If the sort ends short, what is not placed
is a set of extensions waiting for each other; if not, its order is topological,
and where another topological order first differs from it, that one has a larger
id. The sizes of sets that resolution compares are turned into pairs of
provisions or claims (`BadIsUnmet`, `ClashFound`). For the second pass, `Planned`
says that an input has one plan, as a function of its contracts; renaming every
resource to its canonical name keeps it (`SecondInput`, `SecondNeeds`,
`SecondClaims`).

Induction over data is avoided by taking the least member of a set of naturals
(`LeastNat`, from the library's well-foundedness of finite sets): the first row,
position or requirement for which something fails.

**Loopback**: `Inv` = `TypeOK` /\ `Identities` /\ `ForwardedIsAdmitted` /\
`Explained` /\ `Announced` /\ `Follow` /\ `Stopped`. `AdmitsFollowJournal` looks
back from an admission to the last route record; `Follow` says what the last
route record of the whole file is for every route and place of the control
thread, including the window in which an open has recorded its intent and a
handler's failed write has closed the route. The exception `CutOff` of the
property speaks of the file's end as well; `Announced` keeps what it needs: while
an open or restore is in progress its intent is the last word of the control
thread, and when it was cut off behind the assignment a route that is still open
is its target, with the intent or the uncounted applied line last. `CutOffKept` shows that no later line takes an
excepted admission's excuse away. `Stopped` says the route is shut once the
finally clause has closed it, from which `StopIsFinal` follows for handlers that
are still running. `Identities` ties decisions to `seen`, `Explained` the route in
a handler's hands to its record.

**Dynamic**: `Inv` = `TypeOK` /\ `Enrollment` /\ `OpenIsCurrent` /\ (`HInv(h)` for
every handler) /\ `Identity` /\ `Journal`. `Enrollment` orders generations by
their launches and says the earlier ones are dead; `HInv` keeps what each place
of a handler has established (its generation, its record, the process behind
its socket); `Identity` and `Journal` tie records to the one handler that has
the identity. That a late failure cannot close a successor's route follows from
`HInv` and is stated as `RouteLossJustified`.

**Manager**: `MInv` = `SInv` /\ `ConfigInv` /\ `RunInv`. `SInv` relates the place
of `supervise()` to the process group and says a received signal has been acted
on; `ConfigInv` that the file *and every pending command's copy* are valid,
since either may be written back; `RunInv` what each place of `run` validated.

Only model-checked: the liveness properties `OpeningResolvesAlone`,
`InDoubtResolves` (coordinator and gated), `IntentResolves`, `RequestsEnd` and
`ShutdownCompletes`, since liveness under fairness is beyond the prover. Every
other property of a passing run is a theorem.

## 5. Findings

1. `rollback()` of an `Effective` gated plan whose host part failed is cut off
   before `gate.fail_close()`. `recover()` finds the receipt with an error and
   reports `FailedSafe` without closing the gate: the candidate takes all
   traffic (`gated_failed_safe`, `durable_coordinator.py:648`).
2. `rollback()` of an `OPENING` gate journals an intent and restores traffic,
   then the table refuses its receipt; every later `reconcile()` takes the
   rollback branch and raises. The open stays in doubt for ever
   (`gate_opening_wedge.cfg`).
3. `rollback()` of a `FAILED_SAFE` gate opens predecessor traffic before the
   table refuses it (`gate_failed_safe_open.cfg`).
4. The oracle's table lacks the rollback of a draining gate
   (`oracle_draining.cfg`).
5. A commit cut off behind its WAL transaction has used up the generation; the
   recovered plan can never commit (`coord_recommit.cfg`).
6. Reconciliation checks a restored transaction against a fence that a later
   transaction on the same journal holds, raises, and does not reach that later
   transaction (`quarantine_retry.cfg`).
7. A `request.complete` record that fails between an open's intent and its
   assignment closes the route, and the open assigns the candidate over the
   closed route (`loopback_fail_closed.cfg`, `loopback_traffic.py:845`).
8. A signal between the assignment of the candidate and its applied record
   (`loopback_traffic.py:845` and `:846`) releases the lock with the candidate
   assigned; a handler that waited for it admits on the candidate before the
   finally clause closes the route (`:1184`). The last route record of the
   journal is then the predecessor's, and `observe_gate_transitions`, which
   reads applied records, reports no open (`loopback_stop_window.cfg`:
   `AdmitsFollowApplied`). `experiments/exposure_gate/README.md:19` promises a
   durable open record before the route becomes visible, and the intent is one;
   `AdmitsFollowJournal` says that it names the route admitted on and that this
   is the only exception.

Seen while modelling, without a configuration of their own:

- *Gate*: the recovery close records `FAILED_SAFE` whenever neither adapter call
  raised, without comparing the route it read (`exposure_gate.py:1084`).
- *Gated coordinator*: a crash between the row of `plan()` and `gate.stage()`
  leaves a plan whose gate has no row; `recover()` cut off behind the gate's
  rollback intent and followed by `commit()` reaches the wedge of finding 2;
  `recover()` of a rollback without a host receipt calls `fail_close` on a gate
  that may be terminal already (`durable_coordinator.py:632`), which raises on
  every retry. These are the states `Wedged` names. Besides, `recover()` of a
  commit treats a `DRAINING` gate as not open, which `ExposureOwned` excepts
  together with finding 1.
- *Coordinator*: `recover()` of a cut-off rollback reports `FailedSafe` without a
  `rollback_outcome` row (`durable_coordinator.py:620`).
- *Quarantine*: an error raised behind the rename or behind the publication of
  the applied record leaves a transaction that no reconciliation accepts
  (`formal_lifecycle_source.py:799` and `:813`), which is why `FencedWhileAway`
  and `IntentResolves` are checked without `LateErrors`.
- *Loopback*: the error path of a handler calls `_record` with one positional
  argument too many (`loopback_traffic.py:1046-1050`), so neither the
  `request.error` record nor the 502 is produced; a failed sync leaves a line
  that was not counted, the next record repeats its sequence number, and
  `read_traffic_journal` refuses the journal from then on; a `request.complete`
  between `open.intent` and `open.applied` makes `observe_gate_transitions`
  reject a legal open.
- *Dynamic*: a full journal raises a `GateError` that `_record` does not turn
  into a closed route, so a route can be open without its record.
- *Manager*: a signal between the assignment of the process and `if received` is
  delivered twice (`process_supervisor.py:133`); overlapping commands lose
  updates (`config.py:104`), yet the file stays a valid selection; an enabled
  Bundle whose package is gone can be neither disabled nor forgotten; a Manager
  that dies behind the acknowledgement leaves a parent that believes in a launch.

## 6. Not modelled

Parsing, validation and rendering of single documents (catalogue, manifests,
profiles, artifacts, host observation, admission of producers, attestation,
providers, commands that only print): pure functions without state between
calls, well within reach of unit tests. Canonical bytes, digests and
signatures: modelled by what their comparison decides. Loss of storage below
SQLite and `fsync`: excluded by the design documents. A package upgrade that
changes the manifest of an installed Bundle (`cli.py:326-350` reads it anew):
packages come and go, their manifests are constants. Exclusive ownership is one
set of Bundles that exclude each other, where `cli.py:294-323` compares claims
per resource. `poll()` in the supervisor's signal handler may reap the leader
(`process_supervisor.py:41`), which `supervise()` then learns from the same
`Popen` object. A malformed host runtime or version (`contract_compiler.py:996`)
is rejected before anything the compiler's stages look at. Requests without an
identity at the loopback authority, and the owner-lifetime watch of the dynamic
authority, which only ends the process.

Most lines of the repository are campaign runners, carriers, analysers and
validators under `experiments/` and `paper/`: scripts that drive one fixed
sequence against remote hosts or check the documents it left, one input at a
time. They have no protocol of their own beyond the components above, so the
model covers the package and the two authorities and leaves them out.

## 7. Plan

Done: exposure gate and oracle; coordinator; quarantine; activation contract
and refinement; coordinator composed with the gate; loopback and dynamic
authorities; supervisor, handoff and Manager; contract compiler; the proofs of
section 4, which cover every safety property of the runs. Next:

1. The safety halves of the liveness properties as theorems: which states are in
   doubt, and that no step but those named by `Wedged` leaves recovery without an
   enabled branch.
2. The loopback authority as the gate's adapter, in place of the nondeterministic
   one, with a refinement of the adapter's steps.
