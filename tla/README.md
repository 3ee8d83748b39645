# A formal model of the ACES runtime

This directory holds TLA+ models of the ACES reference implementation
(`implementations/python/packages`), the TLC configurations that check them on
small instances, and TLAPS proofs of the results that matter most. It covers
the way of a scenario from its files to a backend and back: modules resolved,
composed and validated, a scenario instantiated, compiled and planned, the
plan applied by the runtime manager, and the operations, workflow runs,
evaluation results and participant episodes the control plane publishes.
`PROJECT.json` maps every definition to the source lines
it stands for. Paths below are relative to the packages directory.

## 1. The system

ACES reads a scenario (SDL), compiles it to addressed resources, plans how to
get from a runtime snapshot to the scenario, and has backends carry the plan
out. A control plane keeps operations, receipts and snapshots durable.

| Part | State | Operations | Interacts with |
|---|---|---|---|
| Control plane, `aces_processor/control_plane.py` | `_snapshot`, `_operations` | `submit_provisioning/_orchestration/_evaluation`, four participant methods, `cancel_workflow`, `reconcile_workflow_timeouts`, reads | calls backends through `_call_backend_apply`, writes the store before and after |
| Control plane store, `control_plane_store.py` | `snapshot.json`, `operations.json`, `audit.jsonl` | `load_*`, `save_snapshot`, `save_record`, `find_by_idempotency`, `append_audit` | read by the constructor and by each key lookup |
| HTTP API, `control_plane_api.py`, `control_plane_security.py` | none of its own | one route per submission | calls the control plane synchronously from coroutines |
| Runtime manager, `manager.py` | `_snapshot` | `plan`, `apply`, `destroy` | planner, provisioner, orchestrator, evaluator |
| Planner, `planner.py`, `semantics/planner.py` | none | reconciliation, ordering, refresh | called by the manager with its snapshot |
| Snapshot contract, `manager.py`, `models.py` | none | `_workflow_result_contract_diagnostics`, `_evaluation_result_contract_diagnostics`, `iter_participant_episode_snapshot_violations` | runs on every snapshot a backend returns |
| Stub backends, `aces_backend_stubs/stubs.py` | started resources, results, episode counter | `apply`, `start`, `stop`, episode methods | called by manager and control plane |
| Module registry, `aces_sdl/module_registry.py`, `aces_cli/sdl.py` | `aces.lock.json`, `.aces/module-cache` | `resolve_import`, `resolve_lock_records`, `publish`, commands `resolve`, `verify-imports` | files of a directory, an OCI registry, other processes |
| Composition, `aces_sdl/composition.py`, `_module_symbols.py`, `_module_provenance.py` | none | `expand_sdl_modules`, one recursive call per import | registry below, parser above |
| Validator and semantics, `aces_sdl/validator.py`, `semantics/*` | none | one pass over a scenario, before and after instantiation | parser, compiler and planner use the same analyses |
| Instantiation, `aces_sdl/instantiate.py` | none | parameters, defaults, substitution, second validation | records which variable an `os` or count came from, for the planner |
| Compiler, `aces_processor/compiler.py` | none | scenario to addressed resources with dependencies | feeds the planner |
| Registry, capabilities, manifests | none | matching | the planner compares a scenario with a manifest |
| Contracts, conformance runner, MCP server, CLI | none | schemas, drivers, input and output | around the rest |

What makes the parts hard, and what makes them right:

* **Control plane.** Handlers do not interleave with each other: each HTTP
  route is a coroutine that calls a synchronous method with no `await` in the
  middle. What interleaves with a handler is the death of the process between
  two writes and a store write that raises. It is right when a retry is
  answered by the operation of its key, no key reaches a backend twice, nothing
  is asked of a backend without a record, a receipt survives restarts and a
  recorded success is in the saved snapshot.
* **Workflow runs.** A run is reported on by a backend, cancelled by clients
  and timed out by a scan, in any order. The control plane edits results and
  histories itself, past the contract that every backend result has to pass. It
  is right when a run ends once, what its history has completed is undone, the
  latest first, and it is known which reports the control plane cannot end
  without leaving the contract.
* **Runtime manager.** A plan is a list of phases over three backends; each may
  stop anywhere, raise, or fail during the rollback of another failure. It is
  right when the snapshot is what the backends run, dependencies are respected
  throughout, and a success means that the scenario is there.
* **Participant episodes.** Long sequences of resets and restarts have to keep
  numbers, links and histories in step, while the id counter is lost with the
  process and the snapshot is not.

* **Module registry.** Several processes share files, lockfile and cache, while
  authors edit, bundles are published and tags move. It is right when what is
  locked is what is loaded, what was verified keeps loading, and the cache holds
  what it is named for.
* **Composition.** A module's elements are renamed once per mount, by maps built
  per section and merged into one. It is right when every reference still means
  what it meant, nothing is shadowed, a placeholder's origin is not lost and
  cycles of imports are refused.
* **Workflow graphs.** The validator decides from a graph what an engine will do
  with interleaved branches, failures and calls. It is right when a predicate
  only reads what is known, no join is waited at for ever, no step runs twice and
  no workflow calls itself.
* **From scenario to plan.** A check is skipped where a placeholder stands, made
  again after substitution, and the planner asks once more for all values a
  placeholder may take; dependencies are derived in one place and used in
  another. It is right when what was accepted compiles and orders, an edit
  reaches the backend, and a plan fits its backend.
* **Evaluation results.** Results outlive edits of what they are about, and their
  history goes over several runs. The contract is right when what is published
  keeps `evaluator-results.md` and an evaluator that keeps it is never refused.

The hazards, each at its line and with the properties that cover it, are the
list `hazards` of `PROJECT.json`.

## 2. The modules

| Module | Stands for |
|---|---|
| `ControlPlane` | `RuntimeControlPlane` over `LocalControlPlaneStore`, handlers cut at their durable writes |
| `OperationLedger` | abstract: what a client may rely on about operations and keys |
| `ControlPlaneProofs` | theorems about `ControlPlane` |
| `WorkflowRuns` | reports, cancellation, timeouts, compensation and the workflow contract |
| `WorkflowLifecycle` | abstract: the promises of `compensation.md`, with ties and repetitions as the code has them |
| `ParticipantEpisodes` | the stub's participant runtime under the episode contract |
| `EpisodeChain` | abstract: the chain of episodes of ADR-013 |
| `Planner` | reconciliation, graphs and orders, as pure operators |
| `RuntimeManager` | `plan`, `apply`, `destroy` and the backends below; extends `Planner` |
| `ParticipantEpisodesProofs`, `EvaluationResultsProofs`, `ModuleRegistryProofs` | theorems about the module each is named after |
| `WorkflowProofs` | theorems about `WorkflowRuns` and `WorkflowGraph` |
| `CompositionProofs` | theorems about `Composition`, `Scenarios` and `Compilation` |
| `RuntimeManagerProofs` | theorems about the orders of `Planner` and about `RuntimeManager` |
| `NumberLemmas` | induction over numbers as a fact about sets, least and greatest members, ranks, what a step repeated from a start comes to, walks that return, and the functions that recursion, folds and sums define |
| `ModuleRegistry` | publish, resolve, verify-imports and load over files, registry, lockfile and cache |
| `Composition` | `expand_sdl_modules`: mounts, renaming, references, provenance |
| `WorkflowGraph` | the validator's verification of workflows, and an engine that runs what it accepts |
| `Scenarios` | the validator's checks of references and orders, and instantiation, as pure operators |
| `Compilation` | edit, validate, instantiate, compile, plan and apply; extends `Scenarios`, uses `Planner` |
| `EvaluationResults` | evaluation results and histories under their contract |
| `MC*` | the finite values of the constants for TLC |

### ControlPlane

`memory` is the running object, `disk` the two files and whether each is
damaged, `handler` the request in progress and the step it has come to: `admit`
(about to persist the RUNNING record), `call` (about to call the backend),
`save` (the new snapshot is in memory), `settle` (about to persist the final
record). A snapshot is the set of operations whose results it descends from and
the status of one workflow run; that is what the properties tell apart.

| Action | Code |
|---|---|
| `Execute`, `RejectMissing` | the submission methods, `_execute_operation`, `_execute_participant_action` up to the first write |
| `Cancel`, `Reconcile` | `cancel_workflow`, `reconcile_workflow_timeouts` up to `save_snapshot` |
| `Replay` | `_idempotent_receipt`, `find_by_idempotency` |
| `PersistRunning`, `Settle` | `_persist_record`, `save_record` |
| `CallBackend` | the backend method in `_call_backend_apply`; a failure may keep a partial snapshot |
| `SaveSnapshot` | `save_snapshot` |
| `Crash`, `Restart` | the process dies between any two steps; the constructor loads both files |
| `StoreRaises` | a write raises with the process alive |

`ran`, `rebased`, `receipts` and `stops` are history variables: the calls made,
whether a caller's `base_snapshot` was used, the receipts returned and how often
a key has durably ended a run.

### WorkflowRuns

`runs` has per workflow its status, step states, compensation status, start and
history; `clock` is the time, `by` remembers who published last. The contract looks
at a snapshot and has no memory: it does not compare the states of the steps with
the history, or the history with the clock. So `Orchestrate` lets an orchestrator
report any of the runs in the constant `Reports`, and takes a report if the whole
snapshot passes `Valid`; in the proofs `Reports` is any set of runs. `Cancel` and
`Reconcile` write past `Valid`, as the code does, and `Reconcile` at a time the caller
names. `TextRank` is the order in which timestamps sort as text, which is how the
code orders compensation. `OnlyIncoherentBreak` says which ends leave the contract
(`Coherent`). Here an operation is one step; its durable steps are in `ControlPlane`.

### ParticipantEpisodes

`results` and `history` are the persisted snapshot, `counter` the memory of the
backend object, which `RestartProcess` clears. `Initialize`, `Follow` (reset and
restart) and `Terminate` build the state and events the stub builds, in its
order: the counter moves, the state is constructed (`Constructible`), and the
contract decides (`ContractHolds`).

### Planner and RuntimeManager

An address is a number, its place in the canonical order; a mapping of resources
is a function on the addresses it has. `TopologicalOrder` is the queue of
`topological_dependency_order`, one `Turn` per node taken from it (`Turns`), with
leftovers of a cycle appended. `Cyclic` is the relation Tarjan's algorithm decides.

`call` is the backend call that is running: the operations left, `working` (the
snapshot the manager carries from phase to phase) and `view` (what the backend
would report now). `world` is what the backends run. `Perform` does one
operation, those of unchanged resources too, which a backend writes anew
(`stubs.py:168-183`); `Finish`, `Fail` and `Raise` end a call with success, a reported
partial failure, and an exception or rejected result; `Stop`, `StopFails` and
`StopRaises` are the answers of a stopped service. `Following` is the order of
the phases, rollbacks and destroy included. `drifted` remembers domains whose
backend hid what it did, `reached` what the last call claims, `owed` the
refreshes a change upstream still asks for.

### ModuleRegistry

`tree` is the author's directory, `registry` the tags and pushed manifests,
`lock` the lockfile, `cache` the extracted members per manifest, `proc` what each
process is doing. A digest is the value it is the digest of. `ResolveLocal`,
`SelectTag`, `FetchManifest`, `Extract` and `Accept` are the stretches of
`resolve_import` between two accesses to something shared; `Unreachable` is a registry
that does not answer, which a locked and cached import asks too. `ReadRoot` and
`ReadPart` are the reads of the expansion: a missing file fails, one that was cut short
fails or is still a scenario, and beside every local file the lockfile is read again.
`Continue` and `WriteLock` are what the commands do with what was resolved. `Publish`,
`Edit` and `Retag` happen at any time; `Crash` ends a process that is extracting or
about to write the lockfile, and leaves a torn file there. Nothing repairs a torn
cache entry: `CacheHit` only asks whether the root file exists. `scars` and the
`causes` of a failed load are history variables for the properties.

### Composition

`stack` is the recursion of `expand_sdl_modules`, one frame per module being
expanded. `Open` starts the next import, `Mount` adds the finished module to the
one around it, `Finish` ends the outermost. `Renamed`, `LastWriter` and
`Rewritten` are the rename maps of `_module_symbols.py`; `Denotes` is what a
reference means to the validator, so that the same reference can be asked before
and after the renaming.

### WorkflowGraph

`Accepted` is `_verify_workflows` with its parts by name: `StepsAcyclic`,
`AllReachable`, `JoinsEnteredFromBranches`, `BranchesConverge`, `Available` and
`Guaranteed`, `CallsAccepted`. An accepted scenario is run by an engine that is
external to the code: control locations (tokens) that execute, decide, fork,
converge, call, end and fail, a failure abandoning the other branches of the
parallel step around it, as `docs/explain/sdl/sections.md` has it. `Available` and
`Guaranteed` are recursive functions of one argument, the steps being visited, whose
values are functions of the step: the prover has no functions of two. The
specification is called `GraphSpec`, and that of `Compilation` `PipelineSpec`, because
each shares a module of theorems with another.

### Scenarios and Compilation

A scenario is a function from elements (section and name) to their kind, value
and references. `Accepted` is `validate`, with unresolved placeholders skipped
where the code skips them; `Instantiates` and `Concrete` are `instantiate_scenario`.
`Compiled` is `compile_runtime_model`: per resource its address, the elements it
is made of, its ordering and its refresh dependencies; `Issues` what it reports.
`Labels` and `Position` say how a name falls into parts at its dots and in what order
nodes are written: of bindings that share an address the last node's is `Kept`.
`PlanOf` is `plan` with the checks against a manifest. The actions are `Write`
and `Erase` (an author), `Parse`, `MakePlan` and `Apply`.

### EvaluationResults

`board` has per resource the compiled contract of its entry, its result and its
history. `Answers` is what an evaluator that keeps the contract may make of any
plan about a resource, `Misreports` what one that does not; `Take` publishes a
report when every record of it fits, and otherwise leaves the board or, after a
rollback, an empty one. `Stop` is `destroy`.

## 3. The runs

| Run | Result | Shows |
|---|---|---|
| `crash` | passes, 129,928 states | two operations, keys and fingerprints, crashes and restarts anywhere, a target without an evaluator: types, `ExecutedOncePerKey`, `ReceiptsAgree`, `MemoryMirrorsDisk`, `RecordsOnlySettle`, the refinement `ImplementsLedger`, the liveness `OperationsSettle` |
| `faults` | passes, 641,567 states | also raising and torn writes and callers with old snapshots: `WriteAhead`, `ReceiptsAreDurable`, `SucceededIsDurable` |
| `reports` | passes, 14,954 states and 2.3 million steps | two workflows with different policies, reported on coherently and not, cancelled and timed out: types, `OnlyIncoherentBreak`, `ImplementsLifecycle` |
| `chain` | passes, 59,536 states | two participants, proposed ids, restarts: types, `ContractNeverRefuses`, `HistoryTellsState`, `ImplementsChain` |
| `manager` | passes, 395,293 states | four scenarios, one cyclic, over three backends with all faults: types, `DependenciesFirst`, `SnapshotIsReality`, `SuccessReachesScenario` |
| `moves` | passes, 3.0 million states | a process that runs every command and one that loads, through edits, pushes, moved tags, outages and a crash: types, `LockedLoads`, `VerifiedLoads`, `CacheSettles` |
| `composition` | passes, 32,262 states | every export list of a module with one name in several sections, mounted once, twice and beside others, nested names among them: `ReferencesSurvive`, `ProvenanceSurvives`, `NothingShadowed`, the liveness `ExpansionEnds` |
| `graphs` | passes, 52,155 states | some 20,000 written workflows, the properties but `NoRecursion` being about accepted and disciplined ones: `StatesKnownIfDisciplined`, `StepsReachedOnce`, `NoRecursion`, the liveness `RunsEnd` |
| `pipeline` | passes, 33,588 states | three scenarios through two edits each, six parameter sets, three backends: `AcceptedCompiles`, `OnlyDeploymentsCycle`, `DependenciesPlanned`, `EditsReachBackend`, `PlanFits` |
| `evaluation` | passes, 7,371 states and 6 million steps | a metric and a condition binding, edited, reported on rightly and wrongly, stopped: `PublishedAsPromised`, `HonestNeverRefused` |
| `late_cancel` | `StopsOncePerKey` violated | a retry of a cancellation that was cut off ends a later run |
| `refresh` | `RefreshNotLost` violated | a failure between an update and its refresh loses the refresh |

The two violated runs are disagreements between the code and what a document of
the repository says; `findings` quotes both sides.

**Bounds.** Control plane: two operations and two keys are what a duplicate,
a mismatch or a retry needs; `late_cancel` has three because a start comes in
between. Two fingerprints tell a mismatch in `crash`; in `faults` the fingerprint
plays no part and there is one. Workflows: two workflows make a scan that
ends several runs and let one invalid run refuse the report of another; of three
steps, two have an order to undo, for one policy or the other, and one is hidden. In
`MCReports`, about 100 reports of the first workflow have up to two completions, also
both of one step, at instants that are equal, ascend, go back or lie in the future;
step states that agree with them or do not; histories that are empty, do not begin,
or have an end in the middle; and every compensation status with every history of
one. Instants are 0 to 2, in whole seconds (`TicksPerSecond` 1). Some of the reports are
in the contract and some are not, so that `Orchestrate` refuses as well as takes. Episodes: numbers 0 to 2 and ids 1 to 3 give a chain
with a follower of a follower and ids that meet again. Manager: two ordered
provisioning resources whose order one scenario turns around, a condition and an
event; plans of every scenario from every snapshot that faults leave behind, so
sequences of calls have no bound. Module registry: one edit, two pushes and one
crash are what a stale digest, a tag between two manifests and an entry cut short
need; commands repeat without a bound, and outages too. Each of the four causes
`VerifiedLoads` allows is needed in this run: without it TLC finds a load that fails. A scenario has a registry import and a
local one, or one that takes what is locked. Composition: three files, two levels
of mounts, a second import whose namespace meets the exported, private, deeper
or nested names of the first. Workflow graphs: up to nine steps, two branches, a parallel
step in a branch of another, three workflows that call and compensate with each
other; every combination of the transitions listed in `MCWorkflowGraph`, also
those the validator has to refuse. Pipeline: two scenarios have one element of
most sections, the third two nodes whose features wait for each other in opposite
orders at the same two addresses; an author's two edits choose among written
alternatives; apply and plan repeat without a bound. Evaluation: one resource of each of the two
kinds the contract tells apart, two maxima, three events per history, two
instants; a report is about one resource, the others kept or done again.

**Deadlock** is checked in all runs but those that may really stop: in the
control plane operation ids run out without a crash to follow, and a damaged file
keeps every later process from starting; an expansion, a workflow and an author's
edits come to an end.

**Fairness.** `OperationsSettle` needs weak fairness of `Progress`, the
steps of a handler that has begun. They are straight-line synchronous code that
nothing in the process can disable; nothing is assumed of clients, crashes or
restarts. The property excludes a handler cut off by a crash or a raising write,
because the code has no recovery for those: no restart settles a RUNNING record.
`ExpansionEnds` has weak fairness of `Next`, for the same reason: the expansion is
one recursive call. `RunsEnd` has weak fairness of `Next` too: it asks whether the
graph alone can keep an engine that goes on from coming to an end, so no step of
the engine may be put off for ever.

**Disagreements without a run.** These too were found with TLC, each from one
change of the constants or a stronger property:

* `control_plane_store.py:264` and `:285` rewrite a whole file with
  `Path.write_text`, which truncates it first; a process that dies in it leaves a
  file no later process can load, although `control_plane_store.py:1` calls the
  store durable. `Restart` in `ControlPlane` waits for readable files.
* `control_plane.py:505`: the participant methods reject a missing runtime before
  they look the key up, so each retry gets another operation, although
  `test_runtime_control_plane.py:280-282` wants the original receipt. Without
  `"participant"` in `Services`, `ReceiptsAgree` fails; its theorem assumes it.
* `manager.py:372-477` and `:557-710` let the states of the steps, the history and
  the clock of a report disagree, and the control plane ends such a run all the same
  (`control_plane.py:344` and `:430`). If its history is empty, lies after the given
  time, or lacks a completion that the step states have, what is written is outside
  the contract, and every later result that keeps that run is refused. This is
  `Coherent`; `OnlyIncoherentBreak` is that nothing else is written outside the contract.
* `control_plane.py:206` is a stable sort in reverse, so completions with equal
  timestamps are undone in the order they were reported, although
  `specs/formal/workflows/compensation.md:63-65` asks for strict reverse completion
  order; and a completion reported twice, which the contract takes, is undone twice
  (187-206). `Before` and `Undoes` in `WorkflowLifecycle` have both as the code does:
  with `i > j` in `Before`, `ImplementsLifecycle` fails.
* `control_plane.py:206` sorts timestamps as text, too: "00Z" is above "00.5Z". With
  `TicksPerSecond` 2, `ImplementsLifecycle` fails.
* `module_registry.py:301`: a cache entry whose extraction was cut off behind the root
  file is taken as whole by every later process, and nothing repairs it, so that a
  verified scenario may fail to load for good. `scars` has these entries; without
  `"crash"` among the `causes`, `VerifiedLoads` fails.
* `stubs.py:744` counts episodes in memory: after a restart ids come again,
  although `models.py:1237` says each instance gets a fresh one. In
  `ParticipantEpisodes` it is `RestartProcess` that clears `counter`.
* `composition.py:87-101` leaves the networks of an ACL under their old names;
  and of two elements of one name of which one is exported, the merged alias map
  (`_module_symbols.py:138-161`) keeps one new name, so that a bare reference and
  its qualified form may come to mean different elements. `ReferencesSurvive`
  excludes both (`Tame`).
* `composition.py:300-316` looks for collisions among the keys of a section, but an
  entity nested in `blue` as `bob` and the entity `bob` of a module mounted as
  `blue` are both `blue.bob`, and `entities.py:50-62` keeps the later one without a
  word. The proof of `NothingShadowed` came upon it: it only holds of entities
  with the same key, and the property compares those.
* `composition.py:365` refuses a namespace that has `__private.` in it, to keep the
  names composition makes up apart from an author's; the namespace `__private`
  itself gets through, and so does a local name that begins so. The theorems about
  `Composition` assume neither occurs (`Unreserved`).
* `validator.py:1234` compares only the predecessors of a join with its branches: a
  step inside a branch may be entered from outside it, or by two branches, and is
  accepted; it then runs twice, or leaves the join waiting. Without the first conjunct
  of `Disciplined`, `StepsReachedOnce` and `RunsEnd` fail.
* `validator.py:878`: a parallel step whose `on-failure` leads back into one of its
  branches is accepted, and a predicate there reads a state nobody knows yet,
  against `docs/explain/sdl/sections.md:604`. `StatesKnown` fails without
  `Disciplined`.
* `validator.py` checks that a compensation workflow has no compensation of its
  own (1324), not that none of those it calls has.
* `semantics/objectives.py:183`: an objective's window that names a script is
  compared with stories whose scripts are still placeholders, and the scenario is
  refused, where `docs/explain/sdl/limitations.md:61` defers such checks.
* `compiler.py:68` joins names with dots: a name that has one may share the
  address of another resource, and one of the two is lost (`Labels`, `Kept`).
* `planner.py:545` refuses ACLs of networks only; those of a machine's entry reach
  a provisioner that declared it has none.
* `module_registry.py:398`: the digest of a local import is that of its root file;
  and one recorded without a namespace (534) is never found again (319).
* `manager.py:922`: a ready evaluation result with an empty history is taken;
  `manager.py:1409`: `status()` shows results no contract has seen.

## 4. The proofs

Every theorem holds for every value of the constants that satisfies the
assumptions of its module, of any number: the bounds of section 3 are gone. Of the 40
properties the passing runs check, 36 are stated by a theorem.

**Assumptions on constants** say what constants stand for, and TLC evaluates them
in each run. `ConstantsOK` (four modules), `JobsOK`, `FirstOK` and `RootsOK` type
them; `AddressesOK` and `VersionsOK` make addresses and versions finite sets of
numbers, which is their order in the code; `ScenariosOK` says that scenarios are
resources, or sequences of imports; `OrderOK` that a bundle has its two members in
one order or the other. `NoneIsNoEntry`, `NoneIsNothing`, `SentinelsOK` and
`NoneIsNoRecord` keep the values that mean "nothing" and "cut short" apart from
all others. `PartsOK` has `"__private"` among the parts of names, and `FilesOK`
says of a written file that its keys are unique, its nested entities have their
ancestor, and what its nodes use is defined, as YAML mappings and the validation
of each import have it. `CandidatesOK` has finite graphs of steps, none of them with
the name that stands for no name. Of what an author can write in a pipeline,
`BodiesOK` says that there are finitely many elements, of two parts and a body of
three; `CountsOK` that a count or a default is a natural number where it is not a
placeholder (the model classes refuse others, `_base.py`); `PlacedOK` that content
has a target and an account a node, which are required fields. `LabelsOK` has names
with the same parts be the same, and `PositionsOK` nodes be written one after the
other. `ManifestsOK` has a
limit of a backend be a number if there is one.

**Hypotheses of theorems** are where the code, without them, does otherwise:

| Hypothesis | Of | Without it |
|---|---|---|
| `"participant" \in Services` | `ReceiptsAgreeCorrect`, `ImplementsLedgerCorrect` | a missing runtime is reported before the key is looked up (`control_plane.py:505`) |
| `~CallerBases` | `ImplementsLedgerCorrect` | a caller's old snapshot replaces results of other operations |
| `Namespaced` | `VerifiedLoadsCorrect` | a record without a namespace is never found again (`module_registry.py:534`) |
| `TicksPerSecond = 1` | `ImplementsLifecycleCorrect` | two completions of one second are undone in the order of their text (`control_plane.py:206`) |
| `Closed` | `DependenciesFirstCorrect` | an order on a resource no scenario has cannot be kept; that the compiler writes none is `DependenciesPlannedCorrect` |
| `Unreserved` | the theorems about `Composition` | names of `__private` can be written (`composition.py:365`) |
| `PlainVariables` | `ProvenanceSurvivesCorrect` | a variable whose name has dots cannot be named by a placeholder (`_base.py:19`) |

The constants of the runs satisfy the hypotheses, so that none of them is void; only
`faults` of the control plane has old snapshots, to check what holds in spite of them.

**`ControlPlaneProofs`**: `TypeCorrect`, `WriteAheadCorrect`,
`ExecutedOncePerKeyCorrect`, `ReceiptsAreDurableCorrect`,
`SucceededIsDurableCorrect`, `RecordsOnlySettleCorrect`, `ReceiptsAgreeCorrect`,
`MemoryMirrorsDiskCorrect`, and the refinement `ImplementsLedgerCorrect`. None of
the properties is inductive, because the facts they rest on are spread over the
steps of a handler. The invariant `Inv` adds:

* `HandlerInv`: what the stage says about the handled operation: not called and
  not recorded, recorded as running, or called and recorded as running. A crash
  at `call` may or may not have called the backend; its record is there in both
  cases.
* `EffectsInv`: every snapshot, also one a caller holds or passes, only has
  effects of calls made, and every call made is recorded.
* `KeyInv`: what the lookup found free is still free at the write, and held by
  the handler's operation alone at the call.
* `DurableInv`: unless a caller's snapshot was used, memory has all that disk
  has, and a success on its way to its record is in the snapshot that is next to
  be saved, or saved.
* `FinalInv`, `OneHolder`: a handler past the call writes a final record; a key
  has one record.

`MirrorInv` says where memory and disk part: at the record about to be written,
and at the snapshot about to be saved. `SubmitEffect` sums up the four submission
actions: they answer from the store or start a handler on an untouched operation.
The refinement goes action by action: a write of `operations.json` enters or
settles one operation of the ledger, a write of `snapshot.json` publishes,
everything else stutters.

**`WorkflowProofs`**, of `WorkflowRuns`, for any set of `Reports`: `TypeCorrect` and
`OnlyIncoherentBreakCorrect`, without a hypothesis. The property is about steps and an
equivalence, so what is ended must have been known: `VInv` says that an open run is
within the contract, which the reports that were taken are and which no operation
of the control plane changes, as it leaves runs ended. From a valid open run
`EndValid` shows clause by clause that what a cancellation or a timeout makes of it, with
or without compensation, is valid exactly if it was `Coherent`.

`ImplementsLifecycleCorrect` is the refinement of `WorkflowLifecycle`, for whole
seconds (`TicksPerSecond = 1`). A history is mapped to two functions on its places,
the completions and the undone steps. What the code undoes is a list it sorted; the
promise is a match one to one, later instants first and those of one instant in the
order of the history, with a completion that is there twice matched twice. By `VInv`
an open run has nothing undone; the events of a compensation, three for each
completion, are matched with the completions they came from (`CompensationUndoes`), and
the order by text is the order by time because whole seconds have one length. Reports
may replace a run by any other.

The theorems about `WorkflowGraph` hold for any set of finite scenarios
(`CandidatesOK`), with branches and calls to any depth.

* `NoRecursionCorrect`, from `GraphInv`: a token is where its frames say, each frame a
  parallel step or a call. The workflows around a location call each other in a
  chain (`CallsAround`), and the validator's check that calls have no cycle then
  leaves none twice in it.
* `StepsReachedOnceCorrect`, from `GraphInv` and `Good`. `Regions` places a location in
  exactly the branches its frames name. `Good` says that any two tokens are in
  different branches of one passage of a parallel step (`Apart`), and that a token has
  passed, at every level it shares with a step state, the step of that (`Behind`). The
  validator's conditions (`Sound`: no cycle, each join with one owner, all steps
  reachable) and the discipline give that the branches of a parallel step are
  disjoint and only meet at its join (`BranchFacts`), and control only ever moves to
  a later step (`After`), so that no token comes to a step that has a state.
* `StatesKnownIfDisciplinedCorrect`, from `GraphInv` and `Knowing`. The validator says
  where a state is known by going back over all paths (`Available`) and over all ways
  a branch may take (`Guaranteed`); an engine goes one step at a time, forks, waits
  and abandons. `Informed` relates the two at a place: whatever `Available` says there
  is reported, and whatever the branch guaranteed at its beginning is reported or is
  guaranteed still. `Knowing` has this at every level a location is nested in, so
  that it survives calls, joins and failures; at a join the last branch to arrive
  knows that the others did, as their ends are recorded. That both operators, which
  are recursive over graphs with the steps visited so far, are what their definitions
  say is `Recursion` of `NumberLemmas`. Only at a fork is `Disciplined` needed: this is the
  place where the code goes wrong without it.

**`ParticipantEpisodesProofs`**: `TypeCorrect`, `ContractNeverRefusesCorrect`,
`HistoryTellsStateCorrect`, and the refinement `ImplementsChainCorrect`, from
`EpisodesSound`. Ids come again after a restart of the process, so that the
invariant `Sound` cannot identify an episode by its id: it counts the arrivals in
a history, says which events are the last two of them and that numbers never go
back, and has each closed episode's end in the history. The refinement maps a
history to the chain of its arrivals.

**`EvaluationResultsProofs`**: `PublishedAsPromisedCorrect` and
`HonestNeverRefusedCorrect`. The contract looks at one report; the promises are
about what is on the board after many. `Sound` says of each record that it could be
reported at all and passed every check against the contract of its own entry; a
history is then one an evaluator may have kept over several runs, to which an
honest answer only adds at the end.

**`ModuleRegistryProofs`**: `TypeCorrect`, `LockedLoadsCorrect`,
`CacheSettlesCorrect`, `VerifiedLoadsCorrect`, for any processes at work together.
`Inv` says for each stage of a process what it has in its hands and where that
came from (`FoundOK`), and that what was read so far is what was locked
(`LoadsOK`); it holds through the steps of others, because stores only grow but
for the tree, and an edit of the tree marks those it disturbs. `Settling` has who
is at work on a member of the cache that is cut short; with it, a file that cannot be
read has a reason, which is a crash, an extraction or the lockfile. `Vouching` has what a
verification that is half way through has made sure of, and that no later step but
an edit or a new lockfile takes it back; that a load of it fails otherwise is led
back, stage by stage, to the registry or to such a reason.

**`CompositionProofs`**: `NothingShadowedCorrect`, `ReferencesSurviveCorrect`,
`ProvenanceSurvivesCorrect`. What they rest on is that names made up under a
namespace can be told from each other and from an author's (`NamesApart`), and that
the maps of one section therefore rename one to one. `Inv` (`KeysKept`) has this of
each module on the stack: its elements have unique keys, none in the reserved part,
and so have the imports it is still to mount; a mount of two such modules that do
not collide is one again. `PInv` has for each use of a variable the node and the
variable it came from. That a reference survives is a fact about one mount from
`Inv`: what it denotes is renamed by the map that renames the reference, and
nothing else is renamed to that name.

Of `Compilation`, for any scenarios an author may write, in any order of edits, and any
backends: `AcceptedCompilesCorrect`, `DependenciesPlannedCorrect`,
`OnlyDeploymentsCycleCorrect`, `PlanFitsCorrect`.
The first says that a scenario that was validated with its placeholders, filled in
and validated again leaves the compiler nothing to report: each of its reports is
traced to a check of the validator that is not skipped any more once there are values.
The second is that each dependency of a compiled resource has a resource of its
own. The third is that the only cycle a plan reports is one of deployments, for which
the validator does not look. Whatever a resource waits for has a lesser `Level`, by
its kind, or is another deployment, feature or objective (`OrderingDescends`); so the
least of a circle of addresses are of one of those three, and a circle of theirs would
be one in the graph that was found to have none (`NoCircle`). For features this is not
plain, as those of several nodes may share an address: but what is kept at an address
is the last node's, and of a circle those of its last node are a circle already. The
planner's test for cycles and the validator's are different closures; that each is
what one takes it for is `CycleIsCircular` and `AcyclicHasNoCircle`. The last
compares what a plan asks of a backend, summed over all nodes, with what its manifest
allows, where the planner used for each count the most it could be and the plan has
the value it got. They use of the state that what is compiled was
accepted (`PipelineInv`), and sums over finite sets (`SumsOrdered`).

**`RuntimeManagerProofs`**, first part: the orders of `Planner` for every finite
graph. `TopologicalLists` is that `TopologicalOrder` has each node once and, if the
graph is well founded, each after what it depends on, from an invariant of the turns
of the queue. `PartialGrounded` is that a plan cut short anywhere leaves entries
that are again closed under dependency and free of cycles, because creations are in
this order, deletions in the reverse, and no operation touches what was done.

Second part: `TypeCorrect`, `SnapshotIsRealityCorrect`,
`SuccessReachesScenarioCorrect`, `DependenciesFirstCorrect`, from four invariants.
`TInv` says which snapshot has to agree with the world in each phase: the manager's
own between calls, the backend's report while it works, the working snapshot while
services are stopped; it uses nothing about plans, as both sides go through the
same operations. `KindInv` has the types and that a plan is one the planner made.
`ReachInv` has how far a call has come in its phase and what the phases before have
reached (`Progress`, `Stage`). `GroundInv` has that all snapshots in flight are
closed under dependency and free of cycles; it is inductive by `PartialGrounded`,
also for what a failed call leaves behind.

**`NumberLemmas`** is what makes this possible. The induction theorems of the
library take an operator and cannot be used; but that a set which has 0 and
successors has every number (`SetInduction`) follows from the pigeonhole theorem for
finite sets, and with sets of numbers that satisfy a formula this is induction over
data. `Repeated` shows from it that recursive functions such as `Turns` exist and
have the values of their definitions, `Recursion` the same of a definition whose values ask for
values that lie deeper in some measure, `Settles` that a closure has settled after as
many rounds as there are steps, `Folded` and `SumExists` that the folds over finite
sets of the library exist, `WalkReturns` that a walk in a finite set comes back to where
it was. `SelectSeq` and `FlattenSeq` remain closed to
the provers; where a definition is proved about, it is in terms of index sets.

**Only model-checked.** The liveness properties `OperationsSettle`, `ExpansionEnds`
and `RunsEnd`: their proofs need ENABLED and fairness, which the prover has not.
And `EditsReachBackend` of `Compilation`. It compares two compilations with each
other, one of them of the scenario that was applied, by the bodies the elements had
then: the prover would need which elements each resource of either is made of, address
by address in all sections, with nodes and their infrastructure at one address and
bindings at an address of several.

## 5. Not modelled

* HTTP API and security policy: checks of one request in front of the control
  plane. That it serialises handlers is the atomicity of `Submit`. The audit
  trail is written and never read.
* Of the workflow contract: attempts of a step, branch, call and switch events,
  schema versions.
* Of the module registry: `resolve` replaces the lockfile in one step, or dies in it;
  a reader that sees it half written while the writer lives is left out. `publish`
  first parses the root file, with its imports, and may refuse it; here it packs
  whatever is there.
* Of the validator: checks on one field (CIDR and address ranges, passwords,
  protocols), which say nothing about how elements hang together.
* Of the compiler: the payload of a resource, the text of diagnostics, and the
  result and execution contracts of workflows.
* Of the parser: text, YAML and the normalisation of keys.
* Published schemas, model classes, backend protocols, conformance runner, MCP
  server, CLI other than the import commands, shims: no state, or only input and
  output.

## 6. Plan

In place: `ControlPlane` with `OperationLedger`; `WorkflowRuns` with
`WorkflowLifecycle`; `ParticipantEpisodes` with `EpisodeChain`; `Planner` and
`RuntimeManager`; `ModuleRegistry`; `Composition`; `Scenarios` and `Compilation`;
`WorkflowGraph`; `EvaluationResults`; proofs about all of them, `OperationLedger`,
`WorkflowLifecycle` and `EpisodeChain` each with the proof that it is implemented.

What is left is `EditsReachBackend` as a theorem, and, if
there is reason to go on modelling, the audit trail as a step behind `Settle`, and
Tarjan's algorithm as a state machine that implements `Cyclic`.
