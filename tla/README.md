# Greentic provisioning: TLA+ models, model checking and proofs

This directory holds a formal model of greentic-provision, the library
(`crates/greentic-provision-core`) and command line tool
(`crates/greentic-provision-cli`) that turn the answers to a provider's setup
questions into a *plan* and apply that plan to the stores of a tenant. The
modules are written from the Rust source. TLC checks them on small instances;
TLAPS proves the theorems of the `*_proofs` modules for every value of the
constants.

Paths below are relative to the repository; `core/` stands for
`crates/greentic-provision-core/src/` and `cli/` for
`crates/greentic-provision-cli/src/`.

## 1. The system

    pack directory --> discovery --> engine --step--> executor --> WebAssembly
                                       |  <-output--                component
                                       v
                                     plan --> applier --> config store
                                                     --> secrets store
                                                     --> install store (memory | file)
                                                     --> OAuth handler

| Part | Source | State | Operations |
|---|---|---|---|
| Plan and patches | `core/types.rs` | none: values | `merge_patch` |
| Engine | `core/engine.rs` | the plan, diagnostics and step results of a run | `run`, `plan_from_fixtures` |
| Executor | `core/executor.rs` | an Engine, a Store, a deadline and a timer thread per call | `run_named_step`, `run_step` |
| Applier | `core/apply.rs` | its inputs and the report under construction | `apply` in two modes |
| Stores, OAuth | `core/apply.rs` | entries per namespace, install records | `apply_patch`, `set_secret`, `delete_secret`, `put`, `get`, `delete`, `start` |
| File install store | `core/apply.rs` | the records in memory, a JSON file | `new`, `put`, `delete`, `persist` |
| Discovery | `core/discovery.rs` | none | `discover` |
| Pack loading | `cli/main.rs`, `core/discovery.rs` | temporary directories | `resolve_pack_path`, `load_manifest`, the normalization of CBOR manifests |
| Conformance runner | `cli/main.rs` | report entries, log and artifact files | `run_conformance` |
| Inspect and dry-run | `cli/main.rs` | none | `main`: `pack inspect`, `dry-run setup` |

How they interact, and what is hard about it:

* **The applier** makes a series of calls on four services, with no
  transaction around them. It can stop between any two. Nothing keeps a second
  applier from working on the same services, and the stores are traits, so
  they may be shared by processes. Hard: what a crashed or overtaken run
  leaves, the order of set, delete and OAuth writes to one key, two modes that
  build the report in two branches, and namespaces joined with `:`.
  *Correct* means: a completed apply establishes its plan, a record never runs
  ahead of the configuration, an installation has one record, nobody writes
  outside the plan and the namespaces of its installation, a dry run predicts
  the apply.
* **The file store** answers from memory and rewrites its file after each
  change, without a lock, without a rename, and drops the error. Hard: what is
  in the file after an error, a crash inside the write, or a second process.
  *Correct* means: it is a durable map from installations to records.
* **The engine** runs four steps, hands each the results of the earlier ones
  and merges their patches. Hard: the same key from several steps, a reply of
  which one part does not parse. *Correct* means: the last patch wins, lists
  keep the order of the steps, the plan is what the replies that parse ask for,
  and each component is told what became of the steps before its own.
* **The executor** runs guest code of unknown behaviour beside a timer thread
  that is started before the deadline is armed and outlives a failed call.
  Hard: the race of timer and deadline, timers left behind, 32-bit values that
  become sizes. *Correct* means: every call returns, a guest is cut off only
  by its own timer, no reply exceeds the limit or the guest's memory.
* **Pack loading** reads a manifest as JSON or as CBOR. A CBOR document may use
  other names, hold a number in place of the id, or be nested in another
  document, and is normalized when it does not decode as it is. Hard: which of
  several names, nestings and files goes first, and that the two decoders do not
  take the same documents. *Correct* means: a document that both forms can read
  gives one manifest, and a CBOR manifest is what its document declares under
  the most preferred names.
* **Discovery** searches metadata and flows for the entries of a pack.
  *Correct* means: it follows the documented rules, and where a manifest declares
  an entry in other ways, it finds the first usable declaration, the metadata
  before the flows.
* **The command line tool** has three commands on the same packs. The
  conformance command goes through the packs of a directory; some errors end a
  pack, others the run. Hard: which packs the report, the logs and the artifacts
  cover after a failure, and whether the commands agree on a pack. *Correct*
  means: every pack is reported once, a verdict has its evidence, a passed pack
  has hidden its secrets, and `pack inspect` describes a pack exactly when the
  conformance command comes as far as running it.

`PROJECT.json` lists the hazards line by line with the properties that would
notice each of them, and the ones no property covers yet.

## 2. Modules

| Module | Models |
|---|---|
| `ProvisionPlan` | the plan and `merge_patch`; a map of the code is a function, `BTreeMap::extend` is `Extend` |
| `ProvisionIdentity` | tenants, installations, `provision_namespace` and the secrets namespace |
| `InstallRecords` | the record list and its `get`, `put`, `delete`, as both install stores implement them |
| `InstallMap` | **abstract**: an install store is a map from installations to records |
| `FileInstallStore` | the file store: its memory, its file, `persist` step by step, faults, restarts |
| `ProvisionApplier` | `apply`, service call by service call, for several appliers on shared stores |
| `ProvisionEngine` | a run of the four steps, reply parsing included, the `NoopExecutor`, fixture replay |
| `StepCalls` | **abstract**: what an executor with a time limit promises to its caller |
| `StepExecutor` | one component call after another: lookup, timer, deadline, limits, errors |
| `PackDiscovery` | `discover`: which flow of a manifest an entry names, with a reference definition |
| `PackLoading` | how a pack's manifest is found, decoded and normalized |
| `Conformance` | the program: a process that runs one of the three commands on the packs of a directory, composed with `ProvisionEngine` |
| `MC*` | small constants for TLC |
| `ListLemmas` | facts about least elements and `FlattenSeq` that the proofs share |
| `InstallRecords_proofs`, `FileInstallStore_proofs`, `ProvisionApplier_proofs`, `ApplierOutcome_proofs`, `ProvisionEngine_proofs`, `StepExecutor_proofs`, `Conformance_proofs` | theorems and their proofs |

`ProvisionApplier` uses `ProvisionPlan` for its plans and `InstallRecords` for
its install store; `FileInstallStore` uses `InstallRecords` too. Both are shown
to implement `InstallMap`: the file store as one process sees it, the applier's
store with any number of appliers on it. `ProvisionEngine` uses `ProvisionPlan`
and sees the executor through its replies; `StepExecutor` is what happens
inside one of those replies, and is shown to implement `StepCalls`.
`PackLoading` uses `PackDiscovery` for what a manifest means, and `Conformance`
both. `Conformance` instantiates `ProvisionEngine`: the engine's variables are
its own, and the steps of a pack's run are the engine's actions. The program is
so composed that it takes only steps of the engine or leaves it alone (the lemma
`ProgramRunsEngine`), and the proofs use this to apply the theorems about the
engine to every run of it in the program.
`ApplierOutcome_proofs` builds on `ProvisionApplier_proofs`, which builds on
`InstallRecords_proofs`.

### State and actions against the code

**ProvisionApplier.** `config`, `secrets` and `records` are the contents of the
services. An applier's `pc` is where in `apply` it is, `call` the arguments,
`report` the report so far, `grants` what the handler answered during the call
(the last answer is what the token steps store, the earlier ones are history
that the properties read). One action per service
call: `ApplyConfig`, `SetSecret`, `DeleteSecret`, `RecordInstall`,
`StartOAuth`, `StoreAccessToken`, `StoreRefreshToken`; `PlanChanges` and
`ListOAuthOp` are the branches of a dry run. `Crash` ends an applier between
two calls. `set_secret` goes through the keys in order in the code and in any
order in the model, which allows more interleavings and the same results. The
stores are the traits' in-memory implementations, but shared: an operator who
runs two processes against the same services meets these interleavings, and a
single in-memory process meets the ones with one applier. An answer of the
OAuth handler is a token set or `None`, as its trait says.

A redacted value of a plan has no value to store (`redacted_to_value`), so it
is never set, while a dry run lists its key. The properties say what remains
true: a dry run lists *at least* the keys that apply sets.

**ProvisionIdentity.** A name is the sequence of the pieces between its
colons. Joining with `:` is then concatenation, exactly, and the model can tell
when two joined namespaces are one string. `PlainNames` are names without a colon
that do not spell the placeholder of an absent one; `WithoutUser` is what the
namespace keeps of an installation that has them.

**FileInstallStore.** `mem` is what a handle answers from, `file` the content
of the file: absent, empty, torn or the JSON of a list. `persist` is two steps,
because `fs::write` truncates and then writes: `Truncate`, `WriteFile`.
`OpenFails` and `WriteFails` are the errors that `put` and `delete` drop,
`Stop` and `CrashInWrite` the ends of a process. `current` is history that no
action reads: the handles that were the last to read or completely write the
file since it changed. When two handles write at
once, the later text may land on top of the earlier one: `WriteFile` then
leaves a good or a torn file.

**ProvisionEngine.** `Run` and `PlanFromFixtures` start a run, `RunWasmStep`,
`RunNoopStep` and `LoadFixture` are the loop body for the three sources of
outputs, `FixtureFails` the early return. A component's reply is a record of
JSON values; `PlanPatchFromValue`, `Rejected` and `StepOutputFromJson` are the
parser, `RunStepOutput` is what `run_step` makes of a reply or an error.
`Context` is what the engine hands to the executor, `ComponentInput` what the
executor writes for the component: the mode is not in it. `replies` and `told`
are history that no action reads: what each component replied, and what each
was told.

**StepExecutor.** `Spawn` loads the component and starts the timer, `Arm` sets
the deadline, then come compilation, instantiation (which runs the guest's
start function), the run, the reading of the reply and, only after a reply
that was read, the join with the timer thread. Every error returns at once and
leaves the timer asleep. What the guest does is its own choice: return any
values, trap, loop. The epoch is wasmtime's: a counter of the Engine, compared
with the deadline when the guest passes a check.

**PackDiscovery.** An entry flow or a flow is a record of options. The
reference definition, `FirstDeclared`, collects all usable declarations with
their places and takes the first, instead of searching for it. `DocumentedFlow`
is the rule of the documents (in `Conformance`, beside the property), for the
manifests that it settles, `DocumentedOnly`. `WellFormed`
says what serde lets through as a manifest.

**PackLoading.** A file's document is a tree: a record of one field that names
the type of the value. `FirstOf` is the chain of `get(..).or_else(..)`: the
first of several names that is there. `Decodable` is what `serde_json` takes as a
`PackManifest`, with its aliases, the refusal of a field that is there twice, and
an array of the fields in their order (`Members`) in place of an object;
`PackManifest` is what it makes of it, `Decode` both. `DecodeCbor` is the same
for `ciborium`, which takes only maps for structs; `NormalizeManifestValue`
finds the object that the manifest stands in (`ManifestObject`), resolves a
number into the symbols (`ResolvePackId`) and gives the members their names
(`Renamed`). `LoadCbor` tries the document as it is with `ciborium` and then,
as a JSON value, normalized; `LoadManifest` takes the first manifest file that
exists. The members `meta` and `flows`, whose names are never changed, are one
member here, `contents`, of type `manifest`, or of type `rows` when one of the
structs inside is an array (only `meta` and the flows: a descriptor of a list
may be an array in both forms).

**Conformance.** `command` is which of the three commands the process runs and
`stage` where it is; `entries` are the packs left, `entry` the report entry of
the current one, and `reports`, `logs`, `artifacts` and `report` are what it has
collected or written. `SelectPacks` is the filter and `read_dir`, in any order.
`PackError`, `ManifestError`, `MissingSetup`, `ExecutorError` and the failing
branch of `RunRequirements` are the five `continue`s, each by `Reject`;
`RunEngine` is the engine's own step; `Check`, `CaptureFailureArtifacts`,
`WriteConformanceLog` and `WriteReport` follow; `IoError` is the `?` of every
output. `Inspect` is the inspect command, `StartDryRun` and `PrintDryRun` the
dry run, with either executor. `ComponentReplies` are the replies that a pack's
components may give: below a lone manifest file there are no components, so
every step fails. A behaviour is one process; `logs` and `artifacts` are the
ones it writes. `dir` is what is on disk: for each pack whether it is a
directory, an archive (perhaps damaged) or a lone file, and its documents.

### Seeded faults

Definitions headed "A faulty ..." stand beside the definition they distort: a
search left out, a key kept instead of replaced, an unsigned conversion
forgotten. No action uses them. Each is a plausible slip in that line of the
code; put in the place of its neighbour, it makes TLC report the property that
`PROJECT.json` pairs it with, which shows that the property depends on the code.

## 3. Runs

| Run | Shows |
|---|---|
| `ApplierTwoInstalls` | two installations of one provider, set up and rotated at the same time, with crashes: a completed apply establishes its secrets, config and record, whatever the other does; every write stays in its plan and its grants; the install store implements `InstallMap` |
| `ApplierSameInstall` | two appliers of the *same* installation: types, one record, the record never ahead of the configuration, a dry run predicts the apply |
| `ApplierTwoUsers` | a violation, section 5 |
| `FileStoreDurable` | one process without faults, restarted at will: what it answers with is in the file, and the file implements `InstallMap` |
| `FileStoreShared` | two processes and every fault: no memory and no file has two records of an installation, and a process that last read or wrote the file whole answers what is in it |
| `FileStoreCrash` | a violation, section 5 |
| `EngineRuns` | all runs of four steps over six kinds of reply and errors, no-op runs, replays of every subset of fixtures: last patch wins, lists keep the order, the plan is what the replies that parse gave, each component is told what became of the steps before |
| `EngineDiagnostics` | a violation, section 5 |
| `ExecutorCalls` | three calls, timers that outlive or overtake them: limits, choice of component, only the own timer interrupts, the threads left asleep belong to calls that failed, a deadline is lost only by arming it late, and a call armed in time returns; what the caller sees implements `StepCalls` |
| `ExecutorHangs` | a violation, section 5 |
| `ConformanceRuns` | every process of the three commands over directories of one or two packs, with every reply, order and I/O error, and manifests in JSON and CBOR: discovery follows the documented rules and its reference, the two forms agree where both can be read, a CBOR manifest is what its document declares, inspection foretells the conformance command, every pack is reported once, a verdict has its report, logs and artifacts, and a passed pack hides its secrets |
| `ConformanceBrokenPack` | a violation, section 5 |

### Bounds

* *Two appliers.* The properties relate a run to a crashed predecessor, to
  itself in the other mode or to one other applier; each of these needs two
  appliers at most, and one applier runs again and again. Plans are chosen to
  collide: `SetupPlan` sets a key that `RotatePlan` sets and deletes, redacts
  another and asks for two grants; `RotatePlan` deletes the token that a grant
  has stored; `ConfigPlan` has other config keys and subscriptions. Of the two
  grants, one has a refresh token and one has not, so the last access token
  and the last refresh token may come from different grants. Two appliers of
  two installations have about 787 000 states.
* *Two handles, two installations, two records each* (three for the
  refinement): a lost update, a replacement and a deletion that finds nothing
  all occur with these. The handles are symmetric.
* *Six replies*: questions only, a refusal with a diagnostic, two plans that
  share a config key and a secret, a plan with an operation that does not parse
  and one with such a secrets patch; four steps draw any of them, or fail.
* *Three calls* (`MaxCalls`): the third meets the timers that two failed calls
  left behind, or one, or none.
  Memories of zero pages, one, two (the limit) and one more; inputs that fit
  exactly, that miss by a byte and that never fit; returned values that are
  negative, at the limit, one above it. `UsizeSize` is 2^30 instead of 2^64,
  because TLC's integers are small; it only has to exceed every other size.
* *Two packs*: one with each of twenty manifests (metadata as a map, as a list,
  none; flows by entry, name and entrypoint; descriptors that name nothing),
  one that cannot be opened or has no manifest, in both orders, and two good
  ones. Both file stems are equal in most directories, so the filter selects
  both or none. The replies hide a secret, show it, mark it as hidden but carry
  it, or do not parse; with four steps, every order of these occurs.
* *Documents*: ten ways to name a pack (the names that serde knows, aliases,
  two or three at once, numbers with and without symbols, a version that is no
  text, no name), each as it is, nested, and beside a second manifest nested in
  it, whose first nesting member is or is not an object; manifests that are
  arrays of two or three fields, of too few, too many and misplaced ones;
  objects with an array inside, alone, nested and beside a nested manifest;
  documents that are neither; a JSON file that goes before a CBOR one and does
  not decode. Each stands alone in its directory. In all there are about
  1 451 000 states.

Deadlock is checked except where a stop is normal: `ExecutorCalls` and
`ExecutorHangs` end after `MaxCalls`, a conformance process ends, and a store
whose file can no longer be opened has no next step (`FileStoreShared`,
`FileStoreCrash`).

### Fairness

Only `StepExecutor` has liveness. `FairSpec` says that the host thread keeps
making steps it can make and that each timer thread eventually wakes: both are
threads of one process under an operating system's scheduler, and
`thread::sleep` returns. Nothing is assumed of the guest beyond its next
instruction (it may loop for ever, or trap), and nothing makes the caller call
again. Appliers, handles and the engine get no fairness: they may stop.

## 4. Proofs

The prover used is TLAPS (`tlapm`) with Z3, Zenon and LS4. The assumptions are
those declared in the modules, which TLC evaluates on every run: types of
plans, inputs and grants, `None` outside the other values, records that belong
to known installations, finite pack directories whose manifests are as serde
reads them (`WellFormed`) and whose documents and nested objects are not `None`
(`PackDirsAssumption`), replies and fixtures whose lists are lists and in which
what serde refuses does not occur (`PatchesAssumption`, `RepliesAssumption`),
packs whose files lie where the lookup searches (`PacksAssumption`),
`MaxOutput` and `UsizeSize` natural numbers and returned values within their
width, `"any"` not the name of a step. An assumption beyond these stands in its
theorem.

| Theorem | Argument |
|---|---|
| `ProvisionApplier_proofs!TypeCorrect` | `TypeOK` is inductive; `LocalsOK`, its last part, keeps what the token steps need: a call in apply mode and a grant. |
| `...!RecordsAreConfigured` | `RecordedInstallIsConfigured` is not inductive: a record is stored two steps after the config. `ConfiguredOnceApplied` adds that an applier past its config step finds its plan's keys there. It is preserved because no step removes a config key. |
| `...!RecordsAreUnique` | by `PutKeepsUnique`; `Put` is the only write to the records. |
| `...!RecordsHaveOwnNamespace` | under the assumption that names have no colon and none spells the placeholder `unknown`, and that there is no user: then `NamespaceIsInjective`. `ApplierTwoUsers` shows that the property fails without it. |
| `...!StepsWriteInPlan` | an action property: each action changes one key, of its own namespace, that its plan names, and a token key only with such a token among the grants of its run. |
| `ApplierOutcome_proofs!StoreIsInstallMap` | the one step that changes the records is a put, and by `GetAfterPut` a put changes the entry of its installation alone. |
| `...!DryRunsPredictApplies` | an invariant that says for each position of an applier what its report holds by now, in both modes; the property compares two reports that are complete. |
| `...!AppliesEstablishInstalls` | assumes that no two appliers share a config namespace. For each position: what of the plan's config and of the record is in the stores by now. |
| `...!AppliesEstablishSecrets` | assumes that no two appliers share a namespace. The invariant follows the keys through the set, delete and token steps: which are done, which wait, and what the last grant left. |
| `...!WellNamedInstallsAreEstablished` | the two results above under an assumption on the inputs alone: different installations, well named. |
| `InstallRecords_proofs!NamespaceIsAllButUser` | the namespaces of two installations with plain names are equal *exactly* when they differ in nothing but the user. One direction is five applications of `JoinIsInjective` (a prefix of length one can be cancelled), the other that the namespace is a function of `WithoutUser`. |
| `...!NamespaceIsInjective` | its corollary for installations without a user. |
| `...!ColonsAndPlaceholdersCollide` | why the names must be plain: from any installation, two that share a namespace because of a colon, and two because of the placeholder. |
| `FileInstallStore_proofs!TypeCorrect`, `!RecordsAreUnique` | inductive as stated, for every fault and any number of handles. |
| `...!MemoryAgreesWithFile` | every step that changes the file takes all other handles out of `current`, and a failed persist its own. |
| `...!MemoryIsPersisted`, `!FileIsDurableMap` | one handle, no faults. `FileFollowsMemory` says, for each position of the handle, what the file is with respect to its memory. The refinement maps the abstract map to `Durable`, which switches to the new records at the truncation; every step is then an abstract put, an abstract delete or a stutter, by `GetAfterPut` and `GetAfterDelete`. |
| `...!WholeWritesCanBeReopened` | one handle, no fault inside a write (opening the file may fail): between writes the file is absent or a list of records. |
| `ProvisionEngine_proofs!EngineTypes` | `TypesInv`: `StepsMoveOn` shows that the steps done and the steps left stay the four steps, `MergeKeepsPlanOK` that a merged list has no item that did not parse, because an executor lets no such reply through. |
| `...!LastPatchAlwaysWins` | `LastPatchWinsIn(plan, step_results)` with `RunOK` (results and steps left have their types); `MergeLets` is the step: one more patch. |
| `...!ComponentsAreTold` | what a component is told is built from the results; `RepliesInvariant` ties each result to the reply it was made of, and a new run clears both. |
| `...!PlanIsOfReplies` | `RepliesInvariant`: each reply is kept beside the patch made of it. With what the merged maps and lists hold (as in `LastPatchAlwaysWins` and `ListsAreInStepOrder`), the plan holds the union of what the patches give, and by cases on a reply's members the patch gives what parses. |
| `...!ListsAreInStepOrder` | `InStepOrder`, the property for a plan and the results so far; `FlattenAppended` is the step. |
| `...!DiagnosticsStayInData` | no step of a run with components appends to the diagnostics of the run; with `RepliesInvariant`, which keeps each accepted reply in the data of its step. |
| `...!PlansCanBeApplied` | when the patches have the types that `ProvisionApplier` assumes of plans, so has the merged plan, at every step: `ExtendIsMap` for the maps, `ListLemmas` for the lists. This is what lets the applier take its plans as inputs. |
| `StepExecutor_proofs!InterruptsAreOwn` | `TimersInv`: the epoch of a call's Engine stays 0 until its own timer ends, and an armed deadline is at least 1. |
| `...!TimeoutsAreKept` | an action property. `DeadlineInv`: a deadline armed while the timer sleeps is one above an epoch that this timer will still advance; so a guest becomes unstoppable in one step only, `Arm` after the timer has ended. It is the safety that `ArmedCallsReturn` needs, without fairness. |
| `...!HangsAreForever` | a guest that loops and that nothing can interrupt stays so, and its call is the last: the epoch of its Engine does not change, whatever other timers end. |
| `...!ExecutorIsStepCalls` | the refinement maps the time of a call to the end of its timer; every step makes a call, ends one, is a timer's end or a stutter. An interruption needs its own timer by `TimersInv`. |
| `...!LeftoverThreadsAreOfFailures` | a call that has its reply joins its thread before it ends. |
| `...!ExecutorTypes` | inductive, with what a component and a returned region are. |
| `...!ComponentsAreForTheirStep` | `ComponentInv`: the file in use was looked up for the step of this call, and `Rank` prefers every file of the step to every generic one. |
| `...!OutputIsLimited` | `ReplyInv`: the buffer is bounded and a region that was read is inside the memory; `AsUsize` is never negative. |
| `Conformance_proofs!AllPacksAreReported`, `!VerdictsHaveEvidence` | `RunnerInv`: the reports and the packs left are the selection, without repetition (`EachOnce`). Without that, the log of a later pack of the same name could overwrite the evidence of an earlier one. `NextPack` is the step from one pack to the next, `SeqsOfSet` the start. |
| `...!InspectionForetells` | every report entry tells how far its pack came. |
| `...!FirstDeclaredIsFound` | the search and the reference meet at the least place of a usable declaration (`LeastPlace`); in a manifest that the documented rules settle, the usable declarations are the documented ones (`SearchFollowsRules`). |
| `...!FormsAlwaysAgree` | by cases: what `ciborium` takes, `serde_json` takes to the same manifest; an array is refused by both steps of the CBOR reader; an object with an array inside goes through the normalization, which by `NormalizingKeepsManifest` changes nothing of what it says unless a manifest is nested in it. |
| `...!CborIsReadAsNamed` | by cases on whether `ciborium` takes the document as it is. If not, `CborIsRead` follows the normalization: the object found, the number resolved, each member renamed; `FirstOf` takes the least place that is there (`LeastPlace`). |
| `...!ProgramTypes` | `PlaceInv` says what each stage of the process has (a current pack, an entry, an exit status); with `RunnerInv` it gives the types. |
| `...!PassedPacksHide` | every step of the program is a step of the engine or leaves it alone, so the engine's theorems apply: `LastPatchAlwaysWins` says what is in the plan, `RepliesInvariant` whose patch it is, and the check looks at the plan. |

The induction theorems of the library take an operator as a parameter, which the
provers cannot instantiate. Where a fact about lists needs induction (what
`FlattenSeq`, a recursive function, computes; the first usable declaration of a
manifest of any length), `ListLemmas` argues by a least counterexample instead:
a set of natural numbers that is not empty has a least element (`LeastPlace`,
from the well-foundedness of the subset ordering on finite sets).

Every safety property, action property and refinement that a passing run checks
is also stated by a theorem. Only model-checked is the liveness property,
`ArmedCallsReturn`: it needs fairness, and with it `ENABLED`, which the provers
do not handle. `TimeoutsAreKept` proves the safety half of it. The statements
of section 5 are refuted by TLC and so have no proof.

## 5. Where the code and its notes disagree

Each of these is a run that TLC ends with a counterexample. For four of them a
theorem says how far the disagreement goes, for every value of the constants.

* `ApplierTwoUsers`: records are kept per user, namespaces are not. Two users of
  one team share config and secrets (`core/apply.rs:456`, note
  `.codex/GPROV-PR-02.md:32`). `NamespaceIsAllButUser`: among plain names this is
  the only way that two installations share a namespace;
  `ColonsAndPlaceholdersCollide`: a colon in a name and a name that spells the
  placeholder are two others.
* `FileStoreCrash`: after a stop between truncation and write no process can
  open the store (`core/apply.rs:86`, note `.codex/GPROV-PR-02.md:66`).
  `WholeWritesCanBeReopened`: with one process, only a stop or an error inside
  the write does this.
* `EngineDiagnostics`: a reply's diagnostics are dropped
  (`core/executor.rs:233`, note `.codex/GPROV-PR-03.md:58`).
  `DiagnosticsStayInData`: all of them, always; they stay in the step's data.
* `ExecutorHangs`: a timer that ends before the deadline is armed never
  interrupts the guest (`core/executor.rs:137`, note `.codex/GPROV-PR-03.md:63`).
  `TimeoutsAreKept`: nothing else loses a timeout; `HangsAreForever`: with a
  guest that loops, no later event brings the executor back.
* `ConformanceBrokenPack`: a pack whose steps all fail passes the conformance
  check, because the engine sees an error as an output without a patch and the
  check looks at secrets only (`cli/main.rs:318`, note
  `.codex/GPROV-PR-04.md:6`).

Also visible in the models, without a run of their own:

* *Discovery* knows more than `docs/architecture.md:28-29` and
  `.codex/GPROV-PR-01.md:65-68` say ("Else return None"): a flow's name and its
  entrypoints declare an entry too, metadata may be a list of descriptors, and a
  declaration without an id is passed over. So a pack that the documents refuse
  is taken, and a flow that only bears the name goes before a later one that
  declares the entry as documented. `DiscoveryFollowsDeclarations` holds the
  code to the documents only where these settle the matter (`DocumentedOnly`).
* *The two forms of a manifest*: `serde_json` takes an array of fields for a
  struct, `ciborium` does not (`cli/main.rs:468`, `:473`). An array manifest is
  good in JSON and refused in CBOR, and an array inside a CBOR manifest lets a
  nested manifest go first. `FormsAgree` names both exceptions.
* *What components are told*: not the mode, which the engine puts into the
  context and `core/executor.rs:146-153` leaves out.
* *Replies*: a member of the wrong type is dropped without a word
  (`core/executor.rs:240-262`), while one operation that does not parse costs
  the whole patch. `PlanIsOfParsedReplies` states both as they are.
* *OAuth*: two operations of one plan store their tokens under the same two
  keys, so the last grant wins; a grant without a refresh token leaves an older
  one in its place, and one that is refused leaves both, while the report lists
  the operation (`CompletedApplyEstablishesSecrets` and `WritesStayInPlan` state
  this as it is).
* *Subscriptions*: a register and an update of one subscription leave two states
  in the record, and the states are those of the last plan alone.
* *The file store*: with two processes on one file, a rewrite erases what the
  other put; `put` and `delete` drop the error of `persist`, so a record can be
  served and not be stored.
* *The report*: a pack that fails before its run has neither a log nor
  artifacts, although `.codex/GPROV-PR-04.md:60` asks for artifacts on failure;
  an I/O error ends the process without a report; the order of a report is that
  of the file system, although `.codex/GPROV-PR-04.md:59` asks for a report that
  is stable across runs; a filter that selects nothing passes, and a secret that
  one step shows and a later one redacts is not noticed.
* *The commands*: `README.md:15` to `:22` show a dry run of a lone `pack.json`
  with the Wasm executor, but components are looked up below that file, so every
  step fails, and the command reports success all the same; the dry run loads a
  manifest and does not use it.

## 6. Not modelled, and why

* *Serialization, logging, argument parsing, printing*: derived code and
  layout.
* *What WebAssembly code computes*: a choice of the guest in `StepExecutor`,
  a choice of the reply in `ProvisionEngine`.
* *Fuel and real time*: the fuel limit is never read by the code, and the model
  has no clock; how long compilation takes against `timeout_ms`, and how many
  timer threads pile up, is out of it.
* *The order of* `list()`: records are a set.
* *The bytes of files and archives*: an archive can be extracted or not, a
  document parses or not. The `capabilities` of a manifest, which
  the program only prints, are left out.
* *Labels that are not Unicode* in the conformance runner: all become
  `unknown`.

## 7. Plan

Done, in this order: plan and identity; the applier, with its proofs; the
install stores, with the abstract map, the refinement and its proof; the engine;
the executor; discovery and the conformance runner on top of the engine; pack
loading and the other two commands; the theorems about outcomes of an apply,
about the order of lists, about what replies leave in a plan, about discovery
and about manifests in two forms; the refinements of `InstallMap` by the
applier's store and of `StepCalls` by the executor; the theorems that bound the
disagreements of section 5.

Left:

1. The engine composed with the executor, so that the replies of
   `ProvisionEngine` come from calls of `StepExecutor`, with the engine as the
   specification it implements.
2. The applier on the file store instead of an atomic record set, and a run in
   which a restarted applier repeats an apply.
