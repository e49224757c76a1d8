----------------------------- MODULE Conformance -----------------------------
(***************************************************************************)
(* The program greentic-provision (main.rs).  Its conformance command      *)
(* takes the packs of a directory one after another, discovers their       *)
(* flows, runs the requirements flow and a dry run of the engine, checks   *)
(* the plan, and writes artifacts, a log per pack and a report.  Its other *)
(* commands describe one pack (inspect) or run its engine once (dry-run).  *)
(*                                                                         *)
(* The engine is ProvisionEngine with its executors.  In the conformance   *)
(* command an error of a pack is an entry of the report; every other error *)
(* ends the process.  A behaviour is one process.                          *)
(***************************************************************************)
EXTENDS PackLoading

CONSTANTS
  Replies,     \* the JSON documents a component may reply with
  PackDirs,    \* the pack directories: file name -> [stem, kind, damaged, files]
  Providers    \* the values of --provider, None among them

ASSUME NoneAssumption ==
  None \notin {"success", "failed", "error", "setup", "requirements", "subscriptions"}

(* A directory is finite, a manifest that loads has its types, and None is *)
(* neither a manifest nor an object.                                       *)
ASSUME PackDirsAssumption ==
  \A d \in PackDirs :
    /\ IsFiniteSet(DOMAIN d)
    /\ \A n \in DOMAIN d :
         /\ LoadManifest(d[n].files) # None => WellFormed(LoadManifest(d[n].files))
         /\ \A doc \in Range(d[n].files) : Is("object", doc) =>
              LET normalized == NormalizeManifestValue(doc)
              IN  /\ normalized # None
                  /\ Decodable(normalized) => Decode(normalized) # None

VARIABLES
  (* the engine *)
  phase, mode, source, todo, plan, diagnostics, step_results, told, replies,
  (* the process *)
  command,     \* "conformance", "inspect" or "dry_run"
  dir,         \* the pack directory
  provider,    \* the filter
  stage,       \* where the process is
  entries,     \* the packs left, the current one first
  entry,       \* the report entry of the current pack, None until it is made
  reports,     \* the report entries so far
  artifacts,   \* the packs whose artifacts were captured
  logs,        \* the log of each pack, None for a pack without one
  report,      \* the report file
  exit         \* how the process ended

engine_vars == <<phase, mode, source, todo, plan, diagnostics, step_results,
                 told, replies>>
run_vars    == <<entry, reports, artifacts, logs, report, exit>>
args     == <<command, dir, provider>>
vars == <<engine_vars, run_vars, args, stage, entries>>

Engine == INSTANCE ProvisionEngine WITH FixtureOutputs <- {}

Names == DOMAIN dir

(* The directory entries whose file stem is the provider that was given. *)
Selected == {n \in Names : provider = None \/ dir[n].stem = provider}

Init ==
  /\ Engine!Init
  /\ command \in {"conformance", "inspect", "dry_run"}
  /\ dir \in PackDirs
  /\ provider \in {p \in Providers : command # "conformance" => p = None}
  /\ stage = "start"
  /\ entries = << >>
  /\ entry = None
  /\ reports = << >>
  /\ artifacts = {}
  /\ logs = [n \in Names |-> None]
  /\ report = None
  /\ exit = None

(* A ConformancePackReport; the version is that of a pack that ran. *)
Entry(pack, version, errors) ==
  [pack |-> pack, version |-> version, ok |-> errors = {}, errors |-> errors]

Ran(pack_report) == pack_report.version # None

(* std::fs::read_dir gives the entries in any order. *)
SelectPacks ==
  /\ stage = "start" /\ command = "conformance"
  /\ entries' \in SetToSeqs(Selected)
  /\ stage' = "pack"
  /\ UNCHANGED <<engine_vars, run_vars, args>>

Current == Head(entries)

(* A faulty Reject: the pack is left without an entry.                     *)
RejectSilently(error) ==
  /\ entries' = Tail(entries)
  /\ stage' = "pack"
  /\ UNCHANGED <<engine_vars, run_vars, args>>

(* ConformancePackReport::failed, and on with the next pack. *)
Reject(error) ==
  /\ reports' = Append(reports, Entry(Current, None, {error}))
  /\ entries' = Tail(entries)
  /\ stage' = "pack"
  /\ UNCHANGED <<engine_vars, entry, artifacts, logs, report, exit, args>>

AtPack   == stage = "pack" /\ entries # << >>
Manifest == LoadManifest(dir[Current].files)
Loaded   == AtPack /\ ResolvePackPath(dir[Current]) /\ Manifest # None

PackError     == AtPack /\ ~ResolvePackPath(dir[Current]) /\ Reject("pack error")
ManifestError ==
  /\ AtPack /\ ResolvePackPath(dir[Current])
  /\ Manifest = None
  /\ Reject("manifest error")
MissingSetup  == Loaded /\ Discover(Manifest) = None /\ Reject("missing setup entry")

Discovered == Loaded /\ Discover(Manifest) # None

(* WasmtimeExecutor::new: the pack is gone. *)
ExecutorError == Discovered /\ Reject("executor error")

(* A new ProvisionEngine for the pack runs. *)
StartEngine ==
  /\ Engine!Run("wasm", "dry_run")
  /\ stage' = "engine"
  /\ UNCHANGED <<run_vars, args, entries>>

RunWithoutRequirements ==
  /\ Discovered
  /\ Discover(Manifest).requirements_flow = None
  /\ StartEngine

(* A lone manifest file is also the root where components are looked up:   *)
(* there are none below it.                                                *)
ComponentReplies ==
  {None} \cup {reply \in Replies : dir[Current].kind # "file"}

(* run_named_step on the requirements flow; its output is dropped. *)
RunRequirements ==
  /\ Discovered
  /\ Discover(Manifest).requirements_flow # None
  /\ \E reply \in ComponentReplies :
       IF Engine!Accepted(reply) THEN StartEngine
       ELSE Reject("requirements failed")

RunEngine ==
  /\ stage \in {"engine", "dry_run"}
  /\ Engine!RunWasmStep \/ Engine!RunNoopStep \/ Engine!Return
  /\ replies' # replies => Last(replies') \in ComponentReplies
  /\ UNCHANGED <<run_vars, args, stage, entries>>

(* A faulty check: a value that is marked as redacted is not looked at.    *)
ChecksMarkOnly(secrets) ==
  {e \in {"secrets_patch contains non-redacted values"} :
     \E k \in DOMAIN secrets : ~secrets[k].redacted}

(* check_conformance: the values of secrets_patch.set.  (That serializing  *)
(* one plan twice gives one text holds of any plan.)                       *)
CheckConformance(secrets) ==
  {e \in {"secrets_patch contains non-redacted values"} :
     \E k \in DOMAIN secrets : ~secrets[k].redacted \/ secrets[k].value # None}

(* A faulty AfterCheck: it forgets the artifacts.                          *)
AfterCheckLog(ok) == "log"

AfterCheck(ok) == IF ok THEN "log" ELSE "artifacts"

Check ==
  /\ stage = "engine" /\ phase = "returned"
  /\ entry' = Entry(Current, Discover(Manifest).pack_version,
                    CheckConformance(plan["secrets_set"]))
  /\ stage' = AfterCheck(entry'.ok)
  /\ UNCHANGED <<engine_vars, reports, artifacts, logs, report, exit, args, entries>>

CaptureFailureArtifacts ==
  /\ stage = "artifacts"
  /\ artifacts' = artifacts \cup {Current}
  /\ stage' = "log"
  /\ UNCHANGED <<engine_vars, entry, reports, logs, report, exit, args, entries>>

WriteConformanceLog ==
  /\ stage = "log"
  /\ logs' = [logs EXCEPT ![Current] = entry]
  /\ reports' = Append(reports, entry)
  /\ entries' = Tail(entries)
  /\ entry' = None
  /\ stage' = "pack"
  /\ UNCHANGED <<engine_vars, artifacts, report, exit, args>>

(* The report is written; the process fails when an entry is not ok. *)
WriteReport ==
  /\ stage = "pack" /\ entries = << >>
  /\ report' = reports
  /\ exit' = IF \A i \in DOMAIN reports : reports[i].ok THEN "success" ELSE "failed"
  /\ stage' = "ended"
  /\ UNCHANGED <<engine_vars, entry, reports, artifacts, logs, args, entries>>

(* A faulty IoError: the error is noted and the process goes on.           *)
IoErrorIgnored ==
  /\ stage = "log"
  /\ exit' = "error"
  /\ stage' = "pack"
  /\ entry' = None
  /\ entries' = Tail(entries)
  /\ UNCHANGED <<engine_vars, reports, artifacts, logs, report, args>>

(* The directories of packs, logs and artifacts, the log, the artifacts or *)
(* the report: an I/O error ends the process (the ? operator).  So does    *)
(* all that the other commands cannot load, the answers included.          *)
IoError ==
  /\ \/ stage \in {"start", "artifacts", "log"}
     \/ stage = "pack" /\ entries = << >>
  /\ exit' = "error"
  /\ stage' = "ended"
  /\ UNCHANGED <<engine_vars, entry, reports, artifacts, logs, report, args,
                 entries>>

Loads(n) == ResolvePackPath(dir[n]) /\ LoadManifest(dir[n].files) # None

(* A faulty Inspectable: a pack without a setup entry is described.        *)
InspectableWithoutSetup(n) == Loads(n)

(* What the inspect command asks of a pack. *)
Inspectable(n) == Loads(n) /\ Discover(LoadManifest(dir[n].files)) # None

(* pack inspect: the descriptor is printed. *)
Inspect ==
  /\ stage = "start" /\ command = "inspect"
  /\ entries' \in {<<n>> : n \in {m \in Names : Inspectable(m)}}
  /\ exit' = "success"
  /\ stage' = "ended"
  /\ UNCHANGED <<engine_vars, entry, reports, artifacts, logs, report, args>>

(* dry-run setup: the manifest is loaded and not used. *)
StartDryRun ==
  /\ stage = "start" /\ command = "dry_run"
  /\ entries' \in {<<n>> : n \in {m \in Names : Loads(m)}}
  /\ \E executor \in {"noop", "wasm"} : Engine!Run(executor, "dry_run")
  /\ stage' = "dry_run"
  /\ UNCHANGED <<run_vars, args>>

PrintDryRun ==
  /\ stage = "dry_run" /\ phase = "returned"
  /\ exit' = "success"
  /\ stage' = "ended"
  /\ UNCHANGED <<engine_vars, entry, reports, artifacts, logs, report, args,
                 entries>>

Next ==
  \/ SelectPacks
  \/ PackError \/ ManifestError \/ MissingSetup \/ ExecutorError
  \/ RunWithoutRequirements \/ RunRequirements
  \/ RunEngine
  \/ Check
  \/ CaptureFailureArtifacts
  \/ WriteConformanceLog
  \/ WriteReport
  \/ IoError
  \/ Inspect
  \/ StartDryRun \/ PrintDryRun

Spec == Init /\ [][Next]_vars

-----------------------------------------------------------------------------
(* The process is where its variables say: the engine has been started     *)
(* where it is needed, there is a current pack and an entry for it, every  *)
(* log is that of a report entry, and an exit status is that of a process  *)
(* that has ended.                                                         *)
TypeOK ==
  /\ stage \in {"start", "pack", "engine", "artifacts", "log", "dry_run", "ended"}
  /\ stage \in {"engine", "dry_run"} => phase \in {"running", "returned"}
  /\ entries \in Seq(Names)
  /\ stage \in {"engine", "artifacts", "log", "dry_run"} => entries # << >>
  /\ stage \in {"start", "pack", "engine", "dry_run"} => entry = None
  /\ stage \in {"artifacts", "log"} => entry.pack = Current
  /\ \A i \in DOMAIN reports :
       reports[i].pack \in Names /\ (reports[i].ok <=> reports[i].errors = {})
  /\ artifacts \subseteq Names
  /\ DOMAIN logs = Names
  /\ \A n \in Names : logs[n] # None => logs[n].pack = n /\ logs[n] \in ToSet(reports)
  /\ exit \in {None, "success", "failed", "error"}
  /\ exit # None <=> stage = "ended"

(* The documented rules (docs/architecture.md:28-29) speak of a map in the *)
(* metadata and of a flow whose entry is the name.  Of a manifest that     *)
(* declares the entry in no other way they tell all there is to tell.      *)
DocumentedOnly(pack, e) ==
  /\ pack.entry_flows.kind # "list"
  /\ \A flow \in Range(pack.flows) :
       /\ flow.entry = None => flow.name # e
       /\ e \notin flow.entrypoints
       /\ flow.entry = e => flow.id # None

DocumentedFlow(pack, e) ==
  LET places == {i \in DOMAIN pack.flows : pack.flows[i].entry = e}
  IN  IF pack.entry_flows.kind = "map" /\ e \in DOMAIN pack.entry_flows.value
      THEN pack.entry_flows.value[e]
      ELSE IF places = {} THEN None ELSE pack.flows[Min(places)].id

(* Discovery follows the documented rules wherever they settle the matter, *)
(* and beyond them resolves every entry to its first declaration, the      *)
(* metadata before the flows, where the code also counts the names and     *)
(* entrypoints of flows and the descriptors of a list.                     *)
DiscoveryFollowsDeclarations ==
  stage = "start" => \A n \in Names : LoadManifest(dir[n].files) # None =>
    \A e \in {"setup", "requirements", "subscriptions"} :
      LET pack == LoadManifest(dir[n].files)
      IN  /\ EntryFlowId(pack, e) = FirstDeclared(pack, e)
          /\ DocumentedOnly(pack, e) => EntryFlowId(pack, e) = DocumentedFlow(pack, e)

(* The form of a manifest makes no difference but in two cases: a document *)
(* that loads as JSON loads as CBOR to the same manifest, also when other  *)
(* members look like a nested one, unless it is an array, which no CBOR    *)
(* manifest may be, or has an array inside and a nested manifest beside    *)
(* it, which is then read instead.                                         *)
FormsAgree ==
  stage = "start" => \A n \in Names : \A file \in DOMAIN dir[n].files :
    LET doc == dir[n].files[file]
    IN  Decode(doc) # None =>
          \/ LoadCbor(doc) = Decode(doc)
          \/ Is("array", doc) /\ LoadCbor(doc) = None
          \/ /\ Is("object", doc) /\ ~MapsOnly(doc)
             /\ Is("object", FirstOf(NestedNames, doc.object))

(* The place of the most preferred name that an object has.                *)
Preferred(names, map) ==
  {i \in DOMAIN names : /\ names[i] \in DOMAIN map
                        /\ \A j \in 1 .. (i - 1) : names[j] \notin DOMAIN map}

TextsAt(docs) == {doc.text : doc \in {d \in docs : Is("text", d)}}

(* What an object says that its pack is called: the text under that name,  *)
(* or the symbol whose number stands there instead of pack_id or packId.   *)
NamedIn(names, map) == TextsAt({map[names[i]] : i \in Preferred(names, map)})

SymbolIn(map) ==
  LET numbers == {n \in {map[IdNames[i]] : i \in Preferred(IdNames, map) \ {1}} :
                    Is("number", n)}
      places  == {n.number + 1 : n \in numbers} \cap DOMAIN PackIds(map)
  IN  TextsAt({PackIds(map)[i] : i \in places})

HasContents(map) ==
  Is("manifest", ContentsOf(map)) \/ Is("rows", ContentsOf(map))

(* A CBOR manifest is the one that its document, or the object nested in   *)
(* it, declares under the most preferred of its names, and it is refused   *)
(* only when there is no such name for the id or the version.              *)
CborManifestsAreRead ==
  stage = "start" => \A n \in Names :
    \A doc \in {dir[n].files[file] : file \in DOMAIN dir[n].files} :
      Is("object", doc) /\ HasContents(ManifestObject(doc.object)) =>
        LET map      == IF DecodeCbor(doc) # None THEN doc.object ELSE ManifestObject(doc.object)
            ids      == NamedIn(IdNames, map) \cup SymbolIn(map)
            versions == NamedIn(VersionNames, map)
        IN  IF LoadCbor(doc) = None THEN ids = {} \/ versions = {}
            ELSE LoadCbor(doc).id \in ids /\ LoadCbor(doc).version \in versions

(* Inspecting a pack foretells the conformance command: the packs that it  *)
(* describes are those that come as far as their requirements flow.        *)
InspectForetellsConformance ==
  \A i \in DOMAIN reports :
    Inspectable(reports[i].pack) <=>
      reports[i].errors \cap {"pack error", "manifest error", "missing setup entry"} = {}

(* At every moment the packs of the selection are those reported and those *)
(* still to come, each once: whatever fails in one pack, no pack is left   *)
(* out or counted twice.                                                   *)
EveryPackIsReported ==
  command = "conformance" /\ stage # "start" /\ exit # "error" =>
    /\ Len(reports) + Len(entries) = Cardinality(Selected)
    /\ {reports[i].pack : i \in DOMAIN reports} \cup ToSet(entries) = Selected

(* A process that says that it succeeded, or that packs failed, has left   *)
(* its report to show for it, every pack that ran has a log with the same  *)
(* verdict, and every one that failed after its run has its artifacts.     *)
VerdictHasEvidence ==
  command = "conformance" /\ exit \in {"success", "failed"} =>
    /\ report = reports
    /\ \A i \in DOMAIN report :
         /\ Ran(report[i]) => logs[report[i].pack] = report[i]
         /\ Ran(report[i]) /\ ~report[i].ok => report[i].pack \in artifacts
    /\ exit = "failed" <=> \E i \in DOMAIN report : ~report[i].ok

SecretsOf(reply) ==
  IF Engine!Accepted(reply) /\ reply.plan # None
       /\ "secrets_patch" \in DOMAIN reply.plan
  THEN reply.plan["secrets_patch"].value.set ELSE [k \in {} |-> None]

(* A RedactedValue has two fields, and the engine takes the replies.       *)
ASSUME RepliesAssumption ==
  /\ Engine!PatchesAssumption
  /\ \A reply \in Replies : \A k \in DOMAIN SecretsOf(reply) :
       LET secret == SecretsOf(reply)[k]
       IN  /\ secret.redacted \in BOOLEAN
           /\ secret = [redacted |-> secret.redacted, value |-> secret.value]

(* A pack that passes has hidden its secrets: of every secret that its     *)
(* components gave, the value that was given last is redacted and empty.   *)
PassedPacksHideSecrets ==
  entry # None /\ entry.ok =>
    \A i \in DOMAIN replies : \A k \in DOMAIN SecretsOf(replies[i]) :
      (\A j \in DOMAIN replies : j > i => k \notin DOMAIN SecretsOf(replies[j]))
      => SecretsOf(replies[i])[k] = [redacted |-> TRUE, value |-> None]

-----------------------------------------------------------------------------
(* .codex/GPROV-PR-04.md:6 "Prevent non-functional setup flows from        *)
(* shipping": a pack that passes ran all its steps without an error.       *)
PassedPacksWork ==
  entry # None /\ entry.ok => \A i \in DOMAIN replies : Engine!Accepted(replies[i])

===============================================================================
