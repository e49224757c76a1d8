-------------------------- MODULE Conformance_proofs --------------------------
EXTENDS Conformance, ListLemmas

AllErrors ==
  {"pack error", "manifest error", "missing setup entry", "executor error",
   "requirements failed", "secrets_patch contains non-redacted values"}

Packs(rs) == {rs[i].pack : i \in DOMAIN rs}

(* No pack is still to come that has been reported or comes again later.   *)
EachOnce(rs, es) ==
  /\ \A i, j \in DOMAIN es : i # j => es[i] # es[j]
  /\ \A i \in DOMAIN rs, j \in DOMAIN es : rs[i].pack # es[j]

(* The log and the artifacts of the reported packs are in place.           *)
Evidence(rs, ls, as) ==
  \A i \in DOMAIN rs : Ran(rs[i]) =>
    /\ ls[rs[i].pack] = rs[i]
    /\ ~rs[i].ok => rs[i].pack \in as

(* Reporting the head of the list and going on with its tail covers the    *)
(* same packs, each of them once.                                          *)
LEMMA NextPack ==
  ASSUME NEW S, NEW E, NEW rs \in Seq(E), NEW es \in Seq(S), es # << >>,
         NEW e \in E, e.pack = Head(es), EachOnce(rs, es)
  PROVE  /\ Append(rs, e) \in Seq(E)
         /\ Tail(es) \in Seq(S)
         /\ Len(Append(rs, e)) + Len(Tail(es)) = Len(rs) + Len(es)
         /\ Packs(Append(rs, e)) \cup ToSet(Tail(es)) = Packs(rs) \cup ToSet(es)
         /\ EachOnce(Append(rs, e), Tail(es))
<1> DEFINE n == Len(rs)
           m == Len(es)
<1>1. /\ n \in Nat /\ m \in Nat /\ m > 0
      /\ DOMAIN rs = 1 .. n /\ DOMAIN es = 1 .. m
      /\ Head(es) = es[1]
  BY EmptySeq
<1>2. /\ Append(rs, e) \in Seq(E)
      /\ DOMAIN Append(rs, e) = 1 .. (n + 1)
      /\ Len(Append(rs, e)) = n + 1
      /\ \A i \in 1 .. n : Append(rs, e)[i] = rs[i]
      /\ Append(rs, e)[n + 1] = e
  BY AppendProperties
<1>3. /\ Tail(es) \in Seq(S)
      /\ DOMAIN Tail(es) = 1 .. (m - 1)
      /\ Len(Tail(es)) = m - 1
      /\ \A i \in 1 .. (m - 1) : Tail(es)[i] = es[i + 1]
  BY HeadTailProperties
<1> DEFINE more == Append(rs, e)
           rest == Tail(es)
<1> HIDE DEF n, m, more, rest
<1>4. Packs(more) = Packs(rs) \cup {es[1]}
  <2>1. ASSUME NEW p \in Packs(more) PROVE p \in Packs(rs) \cup {es[1]}
    <3>1. PICK i \in 1 .. (n + 1) : p = more[i].pack
      BY <1>2, <2>1 DEF Packs, more
    <3> QED
      BY <3>1, <1>1, <1>2 DEF Packs, more
  <2>2. es[1] \in Packs(more)
    BY <1>1, <1>2 DEF Packs, more
  <2>3. Packs(rs) \subseteq Packs(more)
    BY <1>1, <1>2 DEF Packs, more
  <2> QED
    BY <2>1, <2>2, <2>3
<1>5. ToSet(es) = ToSet(rest) \cup {es[1]}
  <2>1. ToSet(es) = {es[i] : i \in 1 .. m} /\ ToSet(rest) = {rest[i] : i \in 1 .. (m - 1)}
    BY <1>1, <1>3 DEF ToSet, rest
  <2>2. ASSUME NEW i \in 1 .. m PROVE es[i] \in {rest[k] : k \in 1 .. (m - 1)} \cup {es[1]}
    <3>1. CASE i = 1
      BY <3>1
    <3>2. CASE i # 1
      <4>1. i - 1 \in 1 .. (m - 1) /\ rest[i - 1] = es[i]
        BY <1>1, <1>3, <3>2 DEF rest
      <4> QED
        BY <4>1
    <3> QED
      BY <3>1, <3>2
  <2>3. \A i \in 1 .. (m - 1) : i + 1 \in 1 .. m /\ rest[i] = es[i + 1]
    BY <1>1, <1>3 DEF rest
  <2>4. 1 \in 1 .. m
    BY <1>1
  <2> QED
    BY <2>1, <2>2, <2>3, <2>4
<1>6. EachOnce(more, rest)
  <2>1. ASSUME NEW i \in 1 .. (m - 1), NEW j \in 1 .. (m - 1), i # j
        PROVE  rest[i] # rest[j]
    <3>1. i + 1 \in 1 .. m /\ j + 1 \in 1 .. m /\ i + 1 # j + 1
      BY <1>1, <2>1
    <3> QED
      BY <3>1, <1>1, <1>3 DEF rest, EachOnce
  <2>2. ASSUME NEW i \in 1 .. (n + 1), NEW j \in 1 .. (m - 1)
        PROVE  more[i].pack # rest[j]
    <3>1. j + 1 \in 1 .. m /\ 1 \in 1 .. m /\ j + 1 # 1 /\ rest[j] = es[j + 1]
      BY <1>1, <1>3 DEF rest
    <3>2. CASE i = n + 1
      BY <3>1, <3>2, <1>1, <1>2 DEF more, EachOnce
    <3>3. CASE i # n + 1
      <4>1. i \in 1 .. n /\ more[i] = rs[i]
        BY <1>1, <1>2, <3>3 DEF more
      <4> QED
        BY <3>1, <4>1, <1>1 DEF EachOnce
    <3> QED
      BY <3>2, <3>3
  <2>3. DOMAIN more = 1 .. (n + 1) /\ DOMAIN rest = 1 .. (m - 1)
    BY <1>2, <1>3 DEF more, rest
  <2> QED
    BY <2>1, <2>2, <2>3 DEF EachOnce
<1>7. Len(more) + Len(rest) = Len(rs) + Len(es)
  BY <1>1, <1>2, <1>3 DEF more, rest, n, m
<1> QED
  BY <1>2, <1>3, <1>4, <1>5, <1>6, <1>7 DEF more, rest

(* The order in which read_dir gives the selected packs has each of them   *)
(* once.                                                                   *)
LEMMA SeqsOfSet ==
  ASSUME NEW S, IsFiniteSet(S), NEW es \in SetToSeqs(S)
  PROVE  /\ es \in Seq(S)
         /\ Len(es) = Cardinality(S)
         /\ ToSet(es) = S
         /\ \A i, j \in DOMAIN es : i # j => es[i] # es[j]
<1> DEFINE n == Cardinality(S)
<1>1. n \in Nat
  BY FS_CardinalityType
<1>2. es \in [1 .. n -> S] /\ \A i, j \in 1 .. n : i # j => es[i] # es[j]
  BY DEF SetToSeqs
<1>3. es \in Seq(S) /\ Len(es) = n /\ DOMAIN es = 1 .. n
  BY <1>1, <1>2
<1>4. es \in Injection(1 .. n, S)
  BY <1>2 DEF Injection, IsInjective
<1>5. Cardinality(1 .. n) = n
  BY <1>1, FS_Interval
<1>6. es \in Surjection(1 .. n, S)
  BY <1>4, <1>5, FS_Injection
<1>7. ToSet(es) = S
  BY <1>3, <1>6 DEF Surjection, ToSet
<1> QED
  BY <1>2, <1>3, <1>7

Versions ==
  {None} \cup {Discover(LoadManifest(dir[n].files)).pack_version : n \in Names}

ReportEntry ==
  {Entry(n, version, errors) :
     n \in Names, version \in Versions, errors \in SUBSET AllErrors}

(* The report entries that the runner makes are report entries.            *)
LEMMA EntryIsReportEntry ==
  ASSUME NEW n \in Names, NEW version \in Versions, NEW errors \in SUBSET AllErrors
  PROVE  /\ Entry(n, version, errors) \in ReportEntry
         /\ Entry(n, version, errors).pack = n
         /\ Entry(n, version, errors).version = version
         /\ Entry(n, version, errors).errors = errors
<1>1. \E m \in Names, v \in Versions, e \in SUBSET AllErrors :
        Entry(n, version, errors) = Entry(m, v, e)
  OBVIOUS
<1>2. Entry(n, version, errors) \in ReportEntry
  BY <1>1 DEF ReportEntry
<1> QED
  BY <1>2 DEF Entry

Refusals == {"pack error", "manifest error", "missing setup entry"}

Described == {n \in Names : Inspectable(n)}

(* The reported packs that inspect would describe are those not refused.   *)
Foretold(rs, described) ==
  \A i \in DOMAIN rs :
    rs[i].pack \in described <=> rs[i].errors \cap Refusals = {}

Covered ==
  /\ Len(reports) + Len(entries) = Cardinality(Selected)
  /\ Packs(reports) \cup ToSet(entries) = Selected

(* The list of packs is worked off from its head.  What ties a log to its  *)
(* report entry is that no later pack has the same name: EachOnce.         *)
RunnerInv ==
  /\ dir \in PackDirs
  /\ stage \in {"start", "pack", "engine", "artifacts", "log", "dry_run", "ended"}
  /\ entries \in Seq(Names)
  /\ reports \in Seq(ReportEntry)
  /\ DOMAIN logs = Names
  /\ EachOnce(reports, entries)
  /\ Evidence(reports, logs, artifacts)
  /\ Foretold(reports, Described)
  /\ stage \in {"start", "dry_run"} => reports = << >>
  /\ stage \in {"pack", "engine", "artifacts", "log"} => command = "conformance"
  /\ stage = "dry_run" => command # "conformance"
  /\ command = "conformance" /\ stage # "start" /\ exit # "error" => Covered
  /\ stage \in {"engine", "artifacts", "log"} =>
       entries # << >> /\ Head(entries) \in Described
  /\ stage \in {"artifacts", "log"} =>
       /\ entry \in ReportEntry
       /\ entry.pack = Head(entries)
       /\ entry.errors \cap Refusals = {}
  /\ stage = "log" /\ ~entry.ok => Head(entries) \in artifacts
  /\ stage # "ended" => exit = None
  /\ command = "conformance" /\ exit \in {"success", "failed"} =>
       /\ report = reports
       /\ exit = "failed" <=> \E i \in DOMAIN reports : ~reports[i].ok

(* It holds when the process starts.                                       *)
LEMMA RunnerInit ==
  Init => RunnerInv
<1> SUFFICES ASSUME Init PROVE RunnerInv
  OBVIOUS
<1>1. entries = << >> /\ reports = << >> /\ stage = "start" /\ exit = None
  BY DEF Init
<1>2. /\ EachOnce(reports, entries) /\ Evidence(reports, logs, artifacts)
      /\ Foretold(reports, Described)
  BY <1>1 DEF EachOnce, Evidence, Foretold
<1>3. entries \in Seq(Names) /\ reports \in Seq(ReportEntry)
  BY <1>1
<1>4. dir \in PackDirs /\ DOMAIN logs = Names
  BY DEF Init
<1> QED
  BY <1>1, <1>2, <1>3, <1>4, NoneAssumption DEF RunnerInv

(* The selection and the names of the directory are fixed.                 *)
LEMMA SameDirectory ==
  ASSUME UNCHANGED <<dir, provider>>
  PROVE  /\ Names' = Names
         /\ Selected' = Selected
         /\ ReportEntry' = ReportEntry
         /\ Described' = Described
<1>1. Names' = Names
  BY DEF Names
<1>2. Versions' = Versions
  BY <1>1 DEF Versions
<1>3. Described' = Described
  BY <1>1 DEF Described, Inspectable, Loads
<1> QED
  BY <1>1, <1>2, <1>3 DEF Selected, ReportEntry

(* Reporting the current pack, with its evidence in place, keeps it.       *)
LEMMA ReportKeepsRunnerInv ==
  ASSUME RunnerInv, stage \in {"pack", "engine", "artifacts", "log"},
         entries # << >>,
         NEW e \in ReportEntry, e.pack = Head(entries),
         reports' = Append(reports, e), entries' = Tail(entries),
         stage' = "pack",
         Head(entries) \in Described <=> e.errors \cap Refusals = {},
         UNCHANGED <<command, dir, provider, artifacts, report, exit>>,
         DOMAIN logs' = Names,
         \A n \in Names : n # Head(entries) => logs'[n] = logs[n],
         Ran(e) => logs'[Head(entries)] = e
                    /\ (~e.ok => Head(entries) \in artifacts)
  PROVE  RunnerInv'
<1>1. /\ entries \in Seq(Names) /\ reports \in Seq(ReportEntry)
      /\ EachOnce(reports, entries)
      /\ Covered
      /\ Evidence(reports, logs, artifacts)
      /\ Foretold(reports, Described)
      /\ exit = None /\ command = "conformance"
  BY NoneAssumption DEF RunnerInv
<1>2. /\ reports' \in Seq(ReportEntry)
      /\ entries' \in Seq(Names)
      /\ Len(reports') + Len(entries') = Len(reports) + Len(entries)
      /\ Packs(reports') \cup ToSet(entries') = Packs(reports) \cup ToSet(entries)
      /\ EachOnce(reports', entries')
  BY <1>1, NextPack
<1>3. Evidence(reports', logs', artifacts')
  <2>1. /\ Len(reports) \in Nat
        /\ DOMAIN reports = 1 .. Len(reports)
        /\ DOMAIN reports' = 1 .. (Len(reports) + 1)
        /\ \A i \in 1 .. Len(reports) : reports'[i] = reports[i]
        /\ reports'[Len(reports) + 1] = e
    BY <1>1, AppendProperties
  <2>2. Head(entries) = entries[1] /\ 1 \in DOMAIN entries
    BY <1>1, EmptySeq
  <2>3. \A r \in ReportEntry : r.pack \in Names
    BY DEF ReportEntry, Entry
  <2>4. ASSUME NEW i \in DOMAIN reports', Ran(reports'[i])
        PROVE  /\ logs'[reports'[i].pack] = reports'[i]
               /\ ~reports'[i].ok => reports'[i].pack \in artifacts'
    <3>1. CASE i = Len(reports) + 1
      BY <2>1, <2>4, <3>1
    <3>2. CASE i # Len(reports) + 1
      <4>1. i \in DOMAIN reports /\ reports'[i] = reports[i]
        BY <2>1, <3>2
      <4>2. reports[i].pack # Head(entries)
        BY <4>1, <2>2, <1>1 DEF EachOnce
      <4>3. reports[i].pack \in Names
        BY <4>1, <1>1, <2>3, ElementOfSeq
      <4>4. logs'[reports[i].pack] = logs[reports[i].pack]
        BY <4>2, <4>3
      <4> QED
        BY <4>1, <4>4, <2>4, <1>1 DEF Evidence
    <3> QED
      BY <3>1, <3>2
  <2> QED
    BY <2>4 DEF Evidence
<1>4. Covered'
  BY <1>1, <1>2, SameDirectory DEF Covered
<1>5. Foretold(reports', Described')
  <2>1. /\ Len(reports) \in Nat
        /\ DOMAIN reports = 1 .. Len(reports)
        /\ DOMAIN reports' = 1 .. (Len(reports) + 1)
        /\ \A i \in 1 .. Len(reports) : reports'[i] = reports[i]
        /\ reports'[Len(reports) + 1] = e
    BY <1>1, AppendProperties
  <2> QED
    BY <1>1, <2>1, SameDirectory DEF Foretold
<1> QED
  BY <1>1, <1>2, <1>3, <1>4, <1>5, SameDirectory, NoneAssumption DEF RunnerInv

(* Every step of the runner keeps it.                                      *)
LEMMA RunnerStep ==
  ASSUME RunnerInv, [Next]_vars
  PROVE  RunnerInv'
<1>1. CASE SelectPacks
  <2>1. IsFiniteSet(Names)
    BY PackDirsAssumption DEF RunnerInv, Names
  <2>2. IsFiniteSet(Selected) /\ Selected \subseteq Names
    BY <2>1, FS_Subset DEF Selected
  <2>3. /\ entries' \in SetToSeqs(Selected)
        /\ stage = "start" /\ stage' = "pack" /\ command = "conformance"
        /\ UNCHANGED <<entry, reports, artifacts, logs, report, exit, command, dir, provider>>
    BY <1>1 DEF SelectPacks, run_vars, args
  <2>4. /\ entries' \in Seq(Selected)
        /\ Len(entries') = Cardinality(Selected)
        /\ ToSet(entries') = Selected
        /\ \A i, j \in DOMAIN entries' : i # j => entries'[i] # entries'[j]
    BY <2>2, <2>3, SeqsOfSet
  <2>5. reports = << >> /\ reports' = << >> /\ Len(reports') = 0 /\ DOMAIN reports' = {}
    BY <2>3 DEF RunnerInv
  <2>6. EachOnce(reports', entries') /\ Evidence(reports', logs', artifacts')
    BY <2>4, <2>5 DEF EachOnce, Evidence
  <2>7. entries' \in Seq(Names)
    BY <2>2, <2>4
  <2>8. Cardinality(Selected) \in Nat
    BY <2>2, FS_CardinalityType
  <2>9. Covered'
    BY <2>3, <2>4, <2>5, <2>8, SameDirectory DEF Covered, Packs
  <2> QED
    BY <2>3, <2>6, <2>7, <2>9, SameDirectory, NoneAssumption DEF RunnerInv
<1>2. ASSUME NEW error \in AllErrors, AtPack, Reject(error),
             Inspectable(Current) <=> error \notin Refusals
      PROVE  RunnerInv'
  <2> DEFINE rejected == Entry(Current, None, {error})
  <2>1. Current \in Names
    BY <1>2, HeadTailProperties DEF AtPack, Current, RunnerInv
  <2>2. /\ rejected \in ReportEntry
        /\ rejected.pack = Current
        /\ rejected.version = None
        /\ rejected.errors = {error}
    <3>1. {error} \in SUBSET AllErrors /\ None \in Versions
      BY DEF Versions
    <3> QED
      BY <2>1, <3>1, EntryIsReportEntry
  <2>3. DOMAIN logs = Names
    BY DEF RunnerInv
  <2>4. reports' = Append(reports, rejected)
    BY <1>2 DEF Reject
  <2>5. rejected.errors \cap Refusals = {} <=> error \notin Refusals
    BY <2>2
  <2>6. Head(entries) \in Described <=> rejected.errors \cap Refusals = {}
    BY <1>2, <2>1, <2>5 DEF Described, Current
  <2> HIDE DEF rejected
  <2> QED
    BY <1>2, <2>2, <2>3, <2>4, <2>6, ReportKeepsRunnerInv
    DEF AtPack, Reject, Current, args, Ran
<1>3. ASSUME Discovered, StartEngine PROVE RunnerInv'
  <2>1. /\ stage = "pack" /\ entries # << >> /\ stage' = "engine"
        /\ UNCHANGED <<entry, reports, artifacts, logs, report, exit, command, dir, provider, entries>>
    BY <1>3 DEF Discovered, Loaded, AtPack, StartEngine, run_vars, args
  <2>2. Head(entries) \in Described
    BY <1>3, <2>1, HeadTailProperties
    DEF RunnerInv, Described, Inspectable, Loads, Discovered, Loaded, Manifest, Current
  <2> QED
    BY <2>1, <2>2, SameDirectory, NoneAssumption DEF RunnerInv, Covered
<1>4. CASE PackError
  BY <1>2, <1>4 DEF PackError, AllErrors, Refusals, Inspectable, Loads
<1>5. CASE ManifestError
  BY <1>2, <1>5 DEF ManifestError, AllErrors, Refusals, Inspectable, Loads, Manifest
<1>6. CASE MissingSetup
  BY <1>2, <1>6 DEF MissingSetup, Loaded, AllErrors, Refusals, Inspectable, Manifest
<1>7. Discovered => AtPack /\ Inspectable(Current)
  BY DEF Discovered, Loaded, Inspectable, Loads, Manifest
<1>8. CASE ExecutorError
  BY <1>2, <1>7, <1>8 DEF ExecutorError, AllErrors, Refusals
<1>9. CASE RunWithoutRequirements
  BY <1>3, <1>9 DEF RunWithoutRequirements
<1>10. CASE RunRequirements
  <2>1. Discovered /\ (StartEngine \/ Reject("requirements failed"))
    BY <1>10 DEF RunRequirements
  <2> QED
    BY <2>1, <1>2, <1>3, <1>7 DEF AllErrors, Refusals
<1>11. CASE RunEngine
  <2>1. UNCHANGED <<entry, reports, artifacts, logs, report, exit, command, dir, provider, stage, entries>>
    BY <1>11 DEF RunEngine, run_vars, args
  <2> QED
    BY <2>1, SameDirectory DEF RunnerInv, Covered
<1>12. CASE Check
  <2>1. /\ stage = "engine" /\ entries # << >> /\ Current \in Names
        /\ stage' \in {"log", "artifacts"}
        /\ stage' = "log" => entry'.ok
        /\ UNCHANGED <<reports, artifacts, logs, report, exit, command, dir, provider, entries>>
    BY <1>12, HeadTailProperties DEF Check, RunnerInv, Current, AfterCheck, args
  <2> DEFINE errors  == CheckConformance(plan["secrets_set"])
             version == Discover(Manifest).pack_version
  <2>2. errors \in SUBSET AllErrors /\ errors \cap Refusals = {}
    BY DEF CheckConformance, AllErrors, Refusals
  <2>3. version \in Versions
    BY <2>1 DEF Versions, Manifest
  <2>4. entry' = Entry(Current, version, errors)
    BY <1>12 DEF Check
  <2> HIDE DEF errors, version
  <2>5. /\ Entry(Current, version, errors) \in ReportEntry
        /\ Entry(Current, version, errors).pack = Current
        /\ Entry(Current, version, errors).errors = errors
    BY <2>1, <2>2, <2>3, EntryIsReportEntry
  <2>6. /\ entry' \in ReportEntry
        /\ entry'.pack = Head(entries)
        /\ entry'.errors \cap Refusals = {}
    BY <2>2, <2>4, <2>5 DEF Current
  <2> QED
    BY <2>1, <2>6, SameDirectory, NoneAssumption DEF RunnerInv, Covered
<1>13. CASE CaptureFailureArtifacts
  <2>1. /\ stage = "artifacts" /\ stage' = "log"
        /\ artifacts' = artifacts \cup {Head(entries)}
        /\ UNCHANGED <<entry, reports, logs, report, exit, command, dir, provider, entries>>
    BY <1>13 DEF CaptureFailureArtifacts, Current, args
  <2>2. Evidence(reports', logs', artifacts')
    BY <2>1 DEF RunnerInv, Evidence
  <2> QED
    BY <2>1, <2>2, SameDirectory, NoneAssumption DEF RunnerInv, Covered
<1>14. CASE WriteConformanceLog
  <2>1. /\ stage = "log" /\ entries # << >>
        /\ entry \in ReportEntry /\ entry.pack = Head(entries)
        /\ Head(entries) \in Names
        /\ ~entry.ok => Head(entries) \in artifacts
        /\ Head(entries) \in Described <=> entry.errors \cap Refusals = {}
        /\ DOMAIN logs = Names
    BY <1>14, HeadTailProperties DEF WriteConformanceLog, RunnerInv
  <2>2. logs' = [logs EXCEPT ![Head(entries)] = entry]
    BY <1>14 DEF WriteConformanceLog, Current
  <2>3. /\ DOMAIN logs' = Names
        /\ logs'[Head(entries)] = entry
        /\ \A n \in Names : n # Head(entries) => logs'[n] = logs[n]
    BY <2>1, <2>2
  <2> QED
    BY <1>14, <2>1, <2>3, ReportKeepsRunnerInv DEF WriteConformanceLog, args
<1>15. CASE WriteReport
  <2>1. /\ stage = "pack" /\ stage' = "ended"
        /\ report' = reports /\ exit' # "error" /\ exit' # None
        /\ exit' = "failed" <=> \E i \in DOMAIN reports : ~reports[i].ok
        /\ UNCHANGED <<entry, reports, artifacts, logs, command, dir, provider, entries>>
    BY <1>15, NoneAssumption DEF WriteReport, args
  <2>2. Covered
    BY <2>1, NoneAssumption DEF RunnerInv
  <2> QED
    BY <2>1, <2>2, SameDirectory DEF RunnerInv, Covered
<1>16. CASE IoError
  <2>1. /\ stage' = "ended" /\ exit' = "error"
        /\ UNCHANGED <<entry, reports, artifacts, logs, report, command, dir, provider, entries>>
    BY <1>16 DEF IoError, args
  <2> QED
    BY <2>1, SameDirectory DEF RunnerInv, Covered
<1>17. ASSUME stage = "start", command # "conformance", stage' \in {"dry_run", "ended"},
              exit' = exit \/ stage' = "ended",
              entries' \in {<<n>> : n \in Names},
              UNCHANGED <<entry, reports, artifacts, logs, report, command, dir, provider>>
       PROVE  RunnerInv'
  <2>1. reports = << >> /\ reports' = << >> /\ DOMAIN reports' = {}
    BY <1>17 DEF RunnerInv
  <2>2. PICK n \in Names : entries' = <<n>>
    BY <1>17
  <2>3. entries' \in Seq(Names) /\ DOMAIN entries' = {1}
    BY <2>2
  <2>4. EachOnce(reports', entries')
    BY <2>1, <2>3 DEF EachOnce
  <2>5. stage' = "dry_run" => exit' = None
    BY <1>17 DEF RunnerInv
  <2> QED
    BY <1>17, <2>1, <2>3, <2>4, <2>5, SameDirectory DEF RunnerInv
<1>18. CASE Inspect
  BY <1>17, <1>18 DEF Inspect, args
<1>19. CASE StartDryRun
  BY <1>17, <1>19 DEF StartDryRun, run_vars, args
<1>20. CASE PrintDryRun
  <2>1. /\ stage = "dry_run" /\ stage' = "ended"
        /\ UNCHANGED <<entry, reports, artifacts, logs, report, command, dir, provider, entries>>
    BY <1>20 DEF PrintDryRun, args
  <2> QED
    BY <2>1, SameDirectory DEF RunnerInv
<1>21. CASE UNCHANGED vars
  BY <1>21, SameDirectory DEF vars, run_vars, args, RunnerInv, Covered
<1> QED
  BY <1>1, <1>4, <1>5, <1>6, <1>8, <1>9, <1>10, <1>11, <1>12, <1>13, <1>14,
     <1>15, <1>16, <1>18, <1>19, <1>20, <1>21 DEF Next

-----------------------------------------------------------------------------
(* For any directory, filter, order of its entries and replies, whatever   *)
(* fails in a pack, every selected pack is reported exactly once.          *)
THEOREM AllPacksAreReported == Spec => []EveryPackIsReported
<1>1. RunnerInv => EveryPackIsReported
  BY DEF RunnerInv, Covered, EveryPackIsReported, Packs
<1> QED
  BY <1>1, RunnerInit, RunnerStep, PTL DEF Spec

(* A verdict is backed by the report, the logs and the artifacts.          *)
THEOREM VerdictsHaveEvidence == Spec => []VerdictHasEvidence
<1>1. RunnerInv => VerdictHasEvidence
  BY DEF RunnerInv, Evidence, VerdictHasEvidence
<1> QED
  BY <1>1, RunnerInit, RunnerStep, PTL DEF Spec

(* The packs that inspect describes are those that the conformance command *)
(* takes as far as their requirements flow.                                *)
THEOREM InspectionForetells == Spec => []InspectForetellsConformance
<1>1. RunnerInv => InspectForetellsConformance
  <2> SUFFICES ASSUME RunnerInv, NEW i \in DOMAIN reports
               PROVE  Inspectable(reports[i].pack) <=> reports[i].errors \cap Refusals = {}
    BY DEF InspectForetellsConformance, Refusals
  <2>1. reports[i] \in ReportEntry
    BY ElementOfSeq DEF RunnerInv
  <2>2. reports[i].pack \in Names
    BY <2>1 DEF ReportEntry, Entry
  <2> QED
    BY <2>2 DEF RunnerInv, Foretold, Described
<1> QED
  BY <1>1, RunnerInit, RunnerStep, PTL DEF Spec

(* The logs are those of reported packs, and the process is where TypeOK   *)
(* says.                                                                   *)
LogsFit(ls, rs) ==
  \A n \in Names : ls[n] # None => ls[n].pack = n /\ ls[n] \in ToSet(rs)

(* Another report entry takes no log's entry away.                         *)
LEMMA LogsStayFit ==
  ASSUME NEW rs \in Seq(ReportEntry), NEW e \in ReportEntry, NEW ls, LogsFit(ls, rs)
  PROVE  LogsFit(ls, Append(rs, e)) /\ e \in ToSet(Append(rs, e))
<1>1. /\ Len(rs) \in Nat
      /\ DOMAIN rs = 1 .. Len(rs)
      /\ DOMAIN Append(rs, e) = 1 .. (Len(rs) + 1)
      /\ \A i \in 1 .. Len(rs) : Append(rs, e)[i] = rs[i]
      /\ Append(rs, e)[Len(rs) + 1] = e
  BY AppendProperties
<1>2. ToSet(rs) \subseteq ToSet(Append(rs, e)) /\ e \in ToSet(Append(rs, e))
  BY <1>1 DEF ToSet
<1> QED
  BY <1>2 DEF LogsFit

(* What TypeOK says beyond RunnerInv.                                      *)
PlaceInv ==
  /\ stage \in {"engine", "dry_run"} => phase \in {"running", "returned"}
  /\ stage = "dry_run" => entries # << >>
  /\ stage \in {"start", "pack", "engine", "dry_run"} => entry = None
  /\ artifacts \subseteq Names
  /\ LogsFit(logs, reports)
  /\ exit \in {None, "success", "failed", "error"}
  /\ exit # None <=> stage = "ended"

(* Every step keeps it.                                                    *)
LEMMA StepKeepsPlace ==
  ASSUME RunnerInv, PlaceInv, [Next]_vars
  PROVE  PlaceInv'
<1>1. ASSUME UNCHANGED <<dir, artifacts, logs, reports, exit>>,
             stage # "ended", stage' # "ended",
             stage' \in {"engine", "dry_run"} => phase' \in {"running", "returned"},
             stage' = "dry_run" => entries' # << >>,
             stage' \in {"start", "pack", "engine", "dry_run"} => entry' = None
      PROVE  PlaceInv'
  BY <1>1 DEF PlaceInv, LogsFit, Names
<1>2. ASSUME UNCHANGED <<dir, entry, artifacts, logs, reports>>,
             stage' = "ended", exit' \in {"success", "failed", "error"}
      PROVE  PlaceInv'
  BY <1>2, NoneAssumption DEF PlaceInv, LogsFit, Names
<1>3. CASE SelectPacks
  BY <1>1, <1>3 DEF SelectPacks, run_vars, args, PlaceInv
<1>4. ASSUME NEW error \in AllErrors, AtPack, Reject(error) PROVE PlaceInv'
  <2> DEFINE rejected == Entry(Current, None, {error})
  <2>1. rejected \in ReportEntry
    <3>1. Current \in Names
      BY <1>4, HeadTailProperties DEF AtPack, Current, RunnerInv
    <3>2. {error} \in SUBSET AllErrors /\ None \in Versions
      BY DEF Versions
    <3> QED
      BY <3>1, <3>2, EntryIsReportEntry
  <2>2. reports' = Append(reports, rejected)
    BY <1>4 DEF Reject
  <2> HIDE DEF rejected
  <2>3. LogsFit(logs, reports')
    BY <2>1, <2>2, LogsStayFit DEF RunnerInv, PlaceInv
  <2> QED
    BY <1>4, <2>3 DEF AtPack, Reject, args, PlaceInv, LogsFit, Names
<1>5. ASSUME Discovered, StartEngine PROVE PlaceInv'
  BY <1>1, <1>5 DEF Discovered, Loaded, AtPack, StartEngine, Engine!Run,
     Engine!Start, run_vars, args, PlaceInv
<1>6. CASE PackError \/ ManifestError \/ MissingSetup \/ ExecutorError
  BY <1>4, <1>6 DEF PackError, ManifestError, MissingSetup, ExecutorError,
     Discovered, Loaded, AllErrors
<1>7. CASE RunWithoutRequirements
  BY <1>5, <1>7 DEF RunWithoutRequirements
<1>8. CASE RunRequirements
  BY <1>4, <1>5, <1>8 DEF RunRequirements, Discovered, Loaded, AllErrors
<1>9. CASE RunEngine
  <2>1. phase = "running" /\ phase' \in {"running", "returned"}
    BY <1>9 DEF RunEngine, Engine!RunWasmStep, Engine!RunNoopStep, Engine!Return,
       Engine!Running, Engine!Accumulate
  <2> QED
    BY <1>1, <1>9, <2>1 DEF RunEngine, run_vars, args, PlaceInv
<1>10. CASE Check
  BY <1>1, <1>10 DEF Check, AfterCheck, args
<1>11. CASE CaptureFailureArtifacts
  <2>1. Current \in Names
    BY <1>11, HeadTailProperties DEF CaptureFailureArtifacts, Current, RunnerInv
  <2> QED
    BY <1>11, <2>1 DEF CaptureFailureArtifacts, args, PlaceInv, LogsFit, Names
<1>12. CASE WriteConformanceLog
  <2>1. /\ stage = "log" /\ stage' = "pack" /\ entry' = None
        /\ logs' = [logs EXCEPT ![Current] = entry]
        /\ reports' = Append(reports, entry)
        /\ UNCHANGED <<dir, artifacts, exit>>
    BY <1>12 DEF WriteConformanceLog, args
  <2>2. entry \in ReportEntry /\ entry.pack = Current /\ DOMAIN logs = Names
    BY <2>1 DEF RunnerInv, Current
  <2>3. LogsFit(logs, reports') /\ entry \in ToSet(reports')
    BY <2>1, <2>2, LogsStayFit DEF RunnerInv, PlaceInv
  <2>4. LogsFit(logs', reports')
    BY <2>1, <2>2, <2>3 DEF LogsFit
  <2> QED
    BY <2>1, <2>4 DEF PlaceInv, LogsFit, Names
<1>13. CASE WriteReport \/ IoError \/ Inspect \/ PrintDryRun
  BY <1>2, <1>13 DEF WriteReport, IoError, Inspect, PrintDryRun, args
<1>14. CASE StartDryRun
  <2>1. entries' # << >>
    BY <1>14 DEF StartDryRun
  <2> QED
    BY <1>1, <1>14, <2>1 DEF StartDryRun, Engine!Run, Engine!Start, run_vars,
       args, PlaceInv
<1>15. CASE UNCHANGED vars
  BY <1>15 DEF vars, engine_vars, run_vars, args, PlaceInv, LogsFit, Names
<1> QED
  BY <1>3, <1>6, <1>7, <1>8, <1>9, <1>10, <1>11, <1>12, <1>13, <1>14, <1>15 DEF Next

(* For any packs, replies and failures, the process is where its variables *)
(* say: a current pack with its entry where they are needed, logs of       *)
(* reported packs only, and an exit status exactly when it has ended.      *)
THEOREM ProgramTypes == Spec => []TypeOK
<1>1. Init => PlaceInv
  BY DEF Init, PlaceInv, LogsFit
<1>2. RunnerInv /\ PlaceInv => TypeOK
  <2> SUFFICES ASSUME RunnerInv, PlaceInv PROVE TypeOK
    OBVIOUS
  <2>1. \A i \in DOMAIN reports :
          reports[i].pack \in Names /\ (reports[i].ok <=> reports[i].errors = {})
    <3>1. ASSUME NEW e \in ReportEntry
          PROVE  e.pack \in Names /\ (e.ok <=> e.errors = {})
      <4>1. PICK n \in Names, v \in Versions, errors \in SUBSET AllErrors :
              e = Entry(n, v, errors)
        BY DEF ReportEntry
      <4>2. e.pack = n /\ e.errors = errors
        BY <4>1 DEF Entry
      <4>3. e.ok = (errors = {})
        BY <4>1, Zenon DEF Entry
      <4> QED
        BY <4>2, <4>3, Zenon
    <3> QED
      BY <3>1, ElementOfSeq DEF RunnerInv
  <2> QED
    BY <2>1 DEF RunnerInv, PlaceInv, LogsFit, TypeOK, Current
<1> QED
  BY <1>1, <1>2, RunnerInit, RunnerStep, StepKeepsPlace, PTL DEF Spec

-----------------------------------------------------------------------------
(* The first of one name, of two and of three that an object has.          *)
LEMMA FirstOfOne ==
  ASSUME NEW a, NEW map
  PROVE  FirstOf(<<a>>, map) = IF a \in DOMAIN map THEN map[a] ELSE None
<1> DEFINE one == {i \in {1} : <<a>>[i] \in DOMAIN map}
<1>1. DOMAIN <<a>> = {1} /\ <<a>>[1] = a
  OBVIOUS
<1>2. FirstOf(<<a>>, map) = IF one = {} THEN None ELSE map[<<a>>[Min(one)]]
  BY <1>1 DEF FirstOf
<1>3. one \subseteq {1} /\ (1 \in one <=> a \in DOMAIN map)
  BY <1>1
<1> HIDE DEF one
<1>4. one # {} => Min(one) \in one
  BY <1>3, LeastPlace
<1>5. one # {} => Min(one) = 1
  BY <1>3, <1>4
<1> QED
  BY <1>1, <1>2, <1>3, <1>5

LEMMA FirstOfTwo ==
  ASSUME NEW a, NEW b, NEW map
  PROVE  FirstOf(<<a, b>>, map) =
           IF a \in DOMAIN map THEN map[a]
           ELSE IF b \in DOMAIN map THEN map[b] ELSE None
<1> DEFINE two == {i \in {1, 2} : <<a, b>>[i] \in DOMAIN map}
           m   == Min(two)
<1>1. /\ two \subseteq {1, 2}
      /\ 1 \in two <=> a \in DOMAIN map
      /\ 2 \in two <=> b \in DOMAIN map
  OBVIOUS
<1>2. FirstOf(<<a, b>>, map) = IF two = {} THEN None ELSE map[<<a, b>>[m]]
  <2>1. DOMAIN <<a, b>> = {1, 2}
    OBVIOUS
  <2> QED
    BY <2>1 DEF FirstOf
<1> HIDE DEF two
<1>3. two # {} => m \in {1, 2} /\ m \in two /\ \A i \in two : m <= i
  <2>1. two # {} => m \in two /\ \A i \in two : m <= i
    BY <1>1, LeastPlace
  <2> QED
    BY <1>1, <2>1
<1> HIDE DEF m
<1>4. /\ 1 \in two => m = 1
      /\ 1 \notin two /\ 2 \in two => m = 2
  BY <1>1, <1>3
<1> QED
  BY <1>1, <1>2, <1>4

LEMMA FirstOfThree ==
  ASSUME NEW a, NEW b, NEW c, NEW map
  PROVE  FirstOf(<<a, b, c>>, map) =
           IF a \in DOMAIN map THEN map[a]
           ELSE IF b \in DOMAIN map THEN map[b]
           ELSE IF c \in DOMAIN map THEN map[c] ELSE None
<1> DEFINE three == {i \in {1, 2, 3} : <<a, b, c>>[i] \in DOMAIN map}
           m     == Min(three)
<1>1. /\ three \subseteq {1, 2, 3}
      /\ 1 \in three <=> a \in DOMAIN map
      /\ 2 \in three <=> b \in DOMAIN map
      /\ 3 \in three <=> c \in DOMAIN map
  OBVIOUS
<1>2. FirstOf(<<a, b, c>>, map) = IF three = {} THEN None ELSE map[<<a, b, c>>[m]]
  <2>1. DOMAIN <<a, b, c>> = {1, 2, 3}
    OBVIOUS
  <2> QED
    BY <2>1 DEF FirstOf
<1> HIDE DEF three
<1>3. three # {} => m \in {1, 2, 3} /\ m \in three /\ \A i \in three : m <= i
  <2>1. three # {} => m \in three /\ \A i \in three : m <= i
    BY <1>1, LeastPlace
  <2> QED
    BY <1>1, <2>1
<1> HIDE DEF m
<1>4. /\ 1 \in three => m = 1
      /\ 1 \notin three /\ 2 \in three => m = 2
      /\ 1 \notin three /\ 2 \notin three /\ 3 \in three => m = 3
  BY <1>1, <1>3
<1> QED
  BY <1>1, <1>2, <1>4

(* The place of that name is the preferred one. *)
LEMMA PreferredOfThree ==
  ASSUME NEW a, NEW b, NEW c, NEW map
  PROVE  Preferred(<<a, b, c>>, map) =
           IF a \in DOMAIN map THEN {1}
           ELSE IF b \in DOMAIN map THEN {2}
           ELSE IF c \in DOMAIN map THEN {3} ELSE {}
<1> DEFINE names == <<a, b, c>>
<1>1. Preferred(names, map) =
        {i \in {1, 2, 3} : /\ names[i] \in DOMAIN map
                           /\ \A j \in 1 .. (i - 1) : names[j] \notin DOMAIN map}
  BY DEF Preferred
<1>2. 1 .. (1 - 1) = {} /\ 1 .. (2 - 1) = {1} /\ 1 .. (3 - 1) = {1, 2}
  OBVIOUS
<1>3. names[1] = a /\ names[2] = b /\ names[3] = c
  OBVIOUS
<1> HIDE DEF names
<1>4. /\ 1 \in Preferred(names, map) <=> a \in DOMAIN map
      /\ 2 \in Preferred(names, map) <=> b \in DOMAIN map /\ a \notin DOMAIN map
      /\ 3 \in Preferred(names, map) <=>
           c \in DOMAIN map /\ a \notin DOMAIN map /\ b \notin DOMAIN map
      /\ Preferred(names, map) \subseteq {1, 2, 3}
  BY <1>1, <1>2, <1>3
<1> QED
  BY <1>4 DEF names

(* The texts at one place. *)
LEMMA TextAtOne ==
  ASSUME NEW doc
  PROVE  /\ Is("text", doc) => TextsAt({doc}) = {doc.text}
         /\ ~Is("text", doc) => TextsAt({doc}) = {}
         /\ TextsAt({}) = {}
BY DEF TextsAt

(* What an object says its pack is called stands under the first name.     *)
LEMMA NamedIsFirst ==
  ASSUME NEW a, NEW b, NEW c, NEW map
  PROVE  LET first == FirstOf(<<a, b, c>>, map)
         IN  /\ Is("text", first) => NamedIn(<<a, b, c>>, map) = {first.text}
             /\ ~Is("text", first) => NamedIn(<<a, b, c>>, map) = {}
<1> DEFINE names == <<a, b, c>>
           first == FirstOf(names, map)
<1>1. /\ first = IF a \in DOMAIN map THEN map[a]
                ELSE IF b \in DOMAIN map THEN map[b]
                ELSE IF c \in DOMAIN map THEN map[c] ELSE None
      /\ Preferred(names, map) = IF a \in DOMAIN map THEN {1}
                                 ELSE IF b \in DOMAIN map THEN {2}
                                 ELSE IF c \in DOMAIN map THEN {3} ELSE {}
  BY ONLY FirstOfThree, PreferredOfThree
<1>2. names[1] = a /\ names[2] = b /\ names[3] = c
  OBVIOUS
<1> HIDE DEF first, names
<1>3. CASE Preferred(names, map) = {}
  <2>1. first = None
    BY <1>1, <1>3
  <2>2. {map[names[i]] : i \in Preferred(names, map)} = {}
    BY <1>3
  <2>3. NamedIn(names, map) = {} /\ ~Is("text", first)
    BY <2>1, <2>2, TextAtOne DEF NamedIn, Is
  <2> QED
    BY <2>3 DEF first, names
<1>4. CASE Preferred(names, map) # {}
  <2>1. PICK i \in {1, 2, 3} : Preferred(names, map) = {i} /\ first = map[names[i]]
    BY <1>1, <1>2, <1>4
  <2>2. {map[names[j]] : j \in Preferred(names, map)} = {first}
    BY <2>1
  <2>3. /\ Is("text", first) => NamedIn(names, map) = {first.text}
        /\ ~Is("text", first) => NamedIn(names, map) = {}
    BY <2>2, TextAtOne DEF NamedIn
  <2> QED
    BY <2>3 DEF first, names
<1> QED
  BY <1>3, <1>4

(* A field is text when it stands under one name and is text there.        *)
LEMMA HasTextOfNames ==
  ASSUME NEW a, NEW b, NEW c, NEW map
  PROVE  LET names == <<a, b, c>>
             first == FirstOf(names, map)
         IN  /\ HasText(names, map) => NamedIn(names, map) = {first.text}
             /\ b \notin DOMAIN map /\ c \notin DOMAIN map =>
                  HasText(names, map) <=> Is("text", first)
<1> DEFINE names == <<a, b, c>>
           first == FirstOf(names, map)
<1>1. HasText(names, map) => Is("text", first)
  BY DEF HasText
<1>2. ASSUME b \notin DOMAIN map, c \notin DOMAIN map, Is("text", first)
      PROVE  HasText(names, map)
  <2>1. a \in DOMAIN map
    <3>1. a \notin DOMAIN map => first = None
      BY <1>2, FirstOfThree
    <3> HIDE DEF first
    <3> QED
      BY <3>1, <1>2 DEF Is
  <2>2. Range(names) = {a, b, c}
    BY DEF Range
  <2>3. Range(names) \cap DOMAIN map = {a}
    BY <1>2, <2>1, <2>2
  <2>4. Cardinality({a}) = 1
    BY FS_Singleton
  <2> QED
    BY <1>2, <2>3, <2>4 DEF HasText
<1> QED
  BY <1>1, <1>2, NamedIsFirst

(* The id that normalizing gives an object. *)
IdOf(map) == IF "id" \in DOMAIN map THEN map["id"] ELSE ResolvePackId(map)

(* A normalized object has its id and its version under one name each, and *)
(* its contents as they were.                                              *)
LEMMA NormalizedObject ==
  ASSUME NEW map
  PROVE  LET object == NormalizeManifestObject(map)
         IN  /\ DOMAIN object \cap {"pack_id", "packId", "pack_version", "packVersion"} = {}
             /\ FirstOf(IdNames, object) = IdOf(map)
             /\ FirstOf(VersionNames, object) = FirstOf(VersionNames, map)
             /\ ContentsOf(object) = ContentsOf(map)
<1> DEFINE alias      == ResolvePackId(map)
           identified == Renamed(map, IdNames, alias)
           version    == FirstOf(Tail(VersionNames), identified)
           object     == Renamed(identified, VersionNames, version)
<1>1. /\ DOMAIN identified = (DOMAIN map \ {"pack_id", "packId"})
           \cup (IF "id" \notin DOMAIN map /\ alias # None THEN {"id"} ELSE {})
      /\ \A n \in DOMAIN map \ {"pack_id", "packId"} : identified[n] = map[n]
      /\ "id" \notin DOMAIN map /\ alias # None => identified["id"] = alias
  <2>1. Head(IdNames) = "id" /\ Range(Tail(IdNames)) = {"pack_id", "packId"}
    BY DEF IdNames, Range
  <2> HIDE DEF alias
  <2> QED
    BY <2>1 DEF Renamed
<1>2. /\ DOMAIN object = (DOMAIN identified \ {"pack_version", "packVersion"})
           \cup (IF "version" \notin DOMAIN identified /\ version # None
                 THEN {"version"} ELSE {})
      /\ \A n \in DOMAIN identified \ {"pack_version", "packVersion"} :
           object[n] = identified[n]
      /\ "version" \notin DOMAIN identified /\ version # None =>
           object["version"] = version
  <2>1. /\ Head(VersionNames) = "version"
        /\ Range(Tail(VersionNames)) = {"pack_version", "packVersion"}
    BY DEF VersionNames, Range
  <2> HIDE DEF identified, version
  <2> QED
    BY <2>1 DEF Renamed
<1>3. /\ version = IF "pack_version" \in DOMAIN identified THEN identified["pack_version"]
                   ELSE IF "packVersion" \in DOMAIN identified
                   THEN identified["packVersion"] ELSE None
      /\ \A m : FirstOf(VersionNames, m) =
           IF "version" \in DOMAIN m THEN m["version"]
           ELSE IF "pack_version" \in DOMAIN m THEN m["pack_version"]
           ELSE IF "packVersion" \in DOMAIN m THEN m["packVersion"] ELSE None
      /\ \A m : FirstOf(IdNames, m) =
           IF "id" \in DOMAIN m THEN m["id"]
           ELSE IF "pack_id" \in DOMAIN m THEN m["pack_id"]
           ELSE IF "packId" \in DOMAIN m THEN m["packId"] ELSE None
  <2>1. Tail(VersionNames) = <<"pack_version", "packVersion">>
    BY DEF VersionNames
  <2> HIDE DEF identified
  <2> QED
    BY <2>1, FirstOfTwo, FirstOfThree DEF IdNames, VersionNames
<1>4. \A m : FirstOf(<<"contents">>, m) = IF "contents" \in DOMAIN m THEN m["contents"]
                                          ELSE None
  BY FirstOfOne
<1>5. NormalizeManifestObject(map) = object
  BY DEF NormalizeManifestObject
<1> HIDE DEF alias, identified, version, object
<1>6. DOMAIN object \cap {"pack_id", "packId", "pack_version", "packVersion"} = {}
  BY <1>1, <1>2
<1>7. FirstOf(IdNames, object) = IdOf(map)
  BY <1>1, <1>2, <1>3 DEF IdOf, alias
<1>8. FirstOf(VersionNames, object) = FirstOf(VersionNames, map)
  BY <1>1, <1>2, <1>3
<1>9. ContentsOf(object) = ContentsOf(map)
  BY <1>1, <1>2, <1>4 DEF ContentsOf
<1> QED
  BY <1>5, <1>6, <1>7, <1>8, <1>9

(* That id is what the object says its pack is called, or the symbol that  *)
(* it gives the number of.                                                 *)
LEMMA IdOfObject ==
  ASSUME NEW map
  PROVE  LET ids == NamedIn(IdNames, map) \cup SymbolIn(map)
         IN  /\ Is("text", IdOf(map)) => ids = {IdOf(map).text}
             /\ ~Is("text", IdOf(map)) => ids = {}
<1> DEFINE first   == FirstOf(IdNames, map)
           numbers == {n \in {map[IdNames[i]] : i \in Preferred(IdNames, map) \ {1}} :
                         Is("number", n)}
           places  == {n.number + 1 : n \in numbers} \cap DOMAIN PackIds(map)
<1>1. /\ first = IF "id" \in DOMAIN map THEN map["id"]
                 ELSE IF "pack_id" \in DOMAIN map THEN map["pack_id"]
                 ELSE IF "packId" \in DOMAIN map THEN map["packId"] ELSE None
      /\ Preferred(IdNames, map) = IF "id" \in DOMAIN map THEN {1}
                                   ELSE IF "pack_id" \in DOMAIN map THEN {2}
                                   ELSE IF "packId" \in DOMAIN map THEN {3} ELSE {}
  BY FirstOfThree, PreferredOfThree DEF IdNames
<1>2. /\ Is("text", first) => NamedIn(IdNames, map) = {first.text}
      /\ ~Is("text", first) => NamedIn(IdNames, map) = {}
  BY NamedIsFirst DEF IdNames
<1>3. SymbolIn(map) = TextsAt({PackIds(map)[i] : i \in places})
  BY DEF SymbolIn
<1>4. IdNames[1] = "id" /\ IdNames[2] = "pack_id" /\ IdNames[3] = "packId"
  BY DEF IdNames
<1>5. FirstOf(Tail(IdNames), map) =
        IF "pack_id" \in DOMAIN map THEN map["pack_id"]
        ELSE IF "packId" \in DOMAIN map THEN map["packId"] ELSE None
  <2>1. Tail(IdNames) = <<"pack_id", "packId">>
    BY DEF IdNames
  <2> QED
    BY <2>1, FirstOfTwo
<1> HIDE DEF first
<1>6. CASE numbers = {}
  <2>1. {PackIds(map)[i] : i \in places} = {}
    BY <1>6
  <2>2. SymbolIn(map) = {}
    BY <1>3, <2>1, TextAtOne
  <2>3. IdOf(map) = first
    <3>1. CASE "id" \in DOMAIN map
      BY <3>1, <1>1 DEF IdOf
    <3>2. CASE "id" \notin DOMAIN map
      <4>1. first = FirstOf(Tail(IdNames), map)
        BY <3>2, <1>1, <1>5
      <4>2. ~Is("number", first)
        <5>1. CASE Preferred(IdNames, map) = {}
          BY <5>1, <1>1 DEF Is
        <5>2. CASE Preferred(IdNames, map) # {}
          <6>1. first \in {map[IdNames[i]] : i \in Preferred(IdNames, map) \ {1}}
            BY <5>2, <3>2, <1>1, <1>4
          <6> QED
            BY <6>1, <1>6
        <5> QED
          BY <5>1, <5>2
      <4> QED
        BY <4>1, <4>2, <3>2 DEF IdOf, ResolvePackId
    <3> QED
      BY <3>1, <3>2
  <2> QED
    BY <1>2, <2>2, <2>3
<1>7. CASE numbers # {}
  <2>1. /\ "id" \notin DOMAIN map
        /\ {map[IdNames[i]] : i \in Preferred(IdNames, map) \ {1}} = {first}
    BY <1>1, <1>4, <1>7
  <2>2. Is("number", first) /\ numbers = {first}
    BY <2>1, <1>7
  <2>3. ~Is("text", first)
    BY <2>2 DEF Is
  <2>4. first = FirstOf(Tail(IdNames), map)
    BY <2>1, <1>1, <1>5
  <2> DEFINE place == first.number + 1
             ids   == PackIds(map)
  <2>5. IdOf(map) = IF place \in DOMAIN ids /\ Is("text", ids[place])
                    THEN ids[place] ELSE None
    BY <2>1, <2>2, <2>4 DEF IdOf, ResolvePackId
  <2>6. places = {place} \cap DOMAIN ids
    BY <2>2
  <2> HIDE DEF place, ids, numbers, places
  <2>7. CASE place \in DOMAIN ids
    <3>1. {ids[i] : i \in places} = {ids[place]}
      BY <2>6, <2>7
    <3>2. /\ Is("text", ids[place]) => SymbolIn(map) = {ids[place].text}
          /\ ~Is("text", ids[place]) => SymbolIn(map) = {}
      BY <3>1, <1>3, TextAtOne DEF ids
    <3>3. ~Is("text", None)
      BY DEF Is
    <3> QED
      BY <1>2, <2>3, <2>5, <2>7, <3>2, <3>3
  <2>8. CASE place \notin DOMAIN ids
    <3>1. {ids[i] : i \in places} = {}
      BY <2>6, <2>8
    <3>2. SymbolIn(map) = {}
      BY <3>1, <1>3, TextAtOne DEF ids
    <3>3. ~Is("text", None)
      BY DEF Is
    <3> QED
      BY <1>2, <2>3, <2>5, <2>8, <3>2, <3>3
  <2> QED
    BY <2>7, <2>8
<1> QED
  BY <1>6, <1>7

(* A CBOR document is read as CborManifestsAreRead says. *)
LEMMA CborIsRead ==
  ASSUME NEW doc, Is("object", doc),
         HasContents(ManifestObject(doc.object)),
         NormalizeManifestValue(doc) # None,
         Decodable(NormalizeManifestValue(doc)) => Decode(NormalizeManifestValue(doc)) # None
  PROVE  LET map      == IF DecodeCbor(doc) # None THEN doc.object ELSE ManifestObject(doc.object)
             ids      == NamedIn(IdNames, map) \cup SymbolIn(map)
             versions == NamedIn(VersionNames, map)
         IN  IF LoadCbor(doc) = None THEN ids = {} \/ versions = {}
             ELSE LoadCbor(doc).id \in ids /\ LoadCbor(doc).version \in versions
<1> DEFINE map        == ManifestObject(doc.object)
           object     == NormalizeManifestObject(map)
           normalized == NormalizeManifestValue(doc)
<1>1. CASE DecodeCbor(doc) # None
  <2>1. /\ Decodable(doc) /\ Members(doc) = doc.object
        /\ LoadCbor(doc) # None
        /\ LoadCbor(doc) = PackManifest(doc.object)
    BY <1>1 DEF LoadCbor, Or, DecodeCbor, Decode, Members
  <2>2. HasText(IdNames, doc.object) /\ HasText(VersionNames, doc.object)
    BY <2>1 DEF Decodable
  <2>3. /\ NamedIn(IdNames, doc.object) = {FirstOf(IdNames, doc.object).text}
        /\ NamedIn(VersionNames, doc.object) = {FirstOf(VersionNames, doc.object).text}
    BY <2>2, HasTextOfNames DEF IdNames, VersionNames
  <2>4. /\ LoadCbor(doc).id = FirstOf(IdNames, doc.object).text
        /\ LoadCbor(doc).version = FirstOf(VersionNames, doc.object).text
    BY <2>1 DEF PackManifest
  <2> QED
    BY <1>1, <2>1, <2>3, <2>4
<1>2. CASE DecodeCbor(doc) = None
  <2>1. LoadCbor(doc) = Decode(normalized)
    BY <1>2 DEF LoadCbor, Or
  <2>2. normalized = [object |-> object] /\ normalized.object = object
    BY DEF NormalizeManifestValue
  <2>3. /\ Is("object", normalized) <=> normalized # None
        /\ ~Is("array", normalized)
        /\ normalized # None => Members(normalized) = object
    BY <2>2 DEF Is, Members
  <2> DEFINE ids      == NamedIn(IdNames, map) \cup SymbolIn(map)
             versions == NamedIn(VersionNames, map)
             version  == FirstOf(VersionNames, map)
  <2>4. /\ DOMAIN object \cap {"pack_id", "packId", "pack_version", "packVersion"} = {}
        /\ FirstOf(IdNames, object) = IdOf(map)
        /\ FirstOf(VersionNames, object) = version
        /\ HasContents(object)
    BY NormalizedObject DEF HasContents
  <2>5. /\ HasText(IdNames, object) <=> Is("text", IdOf(map))
        /\ HasText(VersionNames, object) <=> Is("text", version)
    BY <2>4, HasTextOfNames DEF IdNames, VersionNames
  <2>6. /\ Is("text", IdOf(map)) => ids = {IdOf(map).text}
        /\ ~Is("text", IdOf(map)) => ids = {}
    BY IdOfObject
  <2>7. /\ Is("text", version) => versions = {version.text}
        /\ ~Is("text", version) => versions = {}
    BY NamedIsFirst DEF VersionNames
  <2> HIDE DEF map, object, normalized, ids, versions, version
  <2>8. CASE Decodable(normalized)
    <3>1. LoadCbor(doc) # None /\ LoadCbor(doc) = PackManifest(object)
      BY <2>1, <2>3, <2>8 DEF Decode, normalized
    <3>2. Is("text", IdOf(map)) /\ Is("text", version)
      <4>1. Members(normalized) = object
        BY <2>3 DEF normalized
      <4> QED
        BY <2>5, <2>8, <4>1 DEF Decodable
    <3>3. LoadCbor(doc).id \in ids /\ LoadCbor(doc).version \in versions
      BY <2>4, <2>6, <2>7, <3>1, <3>2 DEF PackManifest
    <3> QED
      BY <1>2, <2>1, <3>1, <3>3 DEF ids, versions, map
  <2>9. CASE ~Decodable(normalized)
    <3>1. LoadCbor(doc) = None
      BY <2>1, <2>9 DEF Decode
    <3>2. normalized # None
      BY DEF normalized
    <3>3. ids = {} \/ versions = {}
      BY <2>3, <2>4, <2>5, <2>6, <2>7, <2>9, <3>2 DEF Decodable, HasContents
    <3> QED
      BY <1>2, <2>1, <3>1, <3>3 DEF ids, versions, map
  <2> QED
    BY <2>8, <2>9
<1> QED
  BY <1>1, <1>2

(* Every CBOR manifest is read as its object, or the one nested in it,     *)
(* names it: for any documents, under any mixture of names, nesting and    *)
(* numbers in place of names.                                              *)
THEOREM CborIsReadAsNamed == Spec => []CborManifestsAreRead
<1>1. dir \in PackDirs => CborManifestsAreRead
  <2> SUFFICES ASSUME dir \in PackDirs, NEW n \in Names,
                      NEW file \in DOMAIN dir[n].files,
                      LET doc == dir[n].files[file]
                      IN  Is("object", doc) /\ HasContents(ManifestObject(doc.object))
               PROVE  LET doc      == dir[n].files[file]
                          map      == IF DecodeCbor(doc) # None THEN doc.object ELSE ManifestObject(doc.object)
                          ids      == NamedIn(IdNames, map) \cup SymbolIn(map)
                          versions == NamedIn(VersionNames, map)
                      IN  IF LoadCbor(doc) = None THEN ids = {} \/ versions = {}
                          ELSE LoadCbor(doc).id \in ids /\ LoadCbor(doc).version \in versions
    BY Zenon DEF CborManifestsAreRead
  <2> DEFINE doc == dir[n].files[file]
  <2>1. doc \in Range(dir[n].files)
    BY DEF Range
  <2> HIDE DEF doc
  <2>2. /\ Is("object", doc) => NormalizeManifestValue(doc) # None
        /\ Is("object", doc) /\ Decodable(NormalizeManifestValue(doc)) =>
             Decode(NormalizeManifestValue(doc)) # None
    BY <2>1, PackDirsAssumption DEF Names
  <2>3. Is("object", doc) /\ HasContents(ManifestObject(doc.object))
    BY DEF doc
  <2>4. LET map      == IF DecodeCbor(doc) # None THEN doc.object ELSE ManifestObject(doc.object)
            ids      == NamedIn(IdNames, map) \cup SymbolIn(map)
            versions == NamedIn(VersionNames, map)
        IN  IF LoadCbor(doc) = None THEN ids = {} \/ versions = {}
            ELSE LoadCbor(doc).id \in ids /\ LoadCbor(doc).version \in versions
    BY ONLY <2>2, <2>3, CborIsRead
  <2> QED
    BY <2>4 DEF doc
<1>2. RunnerInv => dir \in PackDirs
  BY DEF RunnerInv
<1> QED
  BY <1>1, <1>2, RunnerInit, RunnerStep, PTL DEF Spec

(* Normalizing changes nothing of what a document that loads as JSON says, *)
(* unless a manifest is nested in it.                                      *)
LEMMA NormalizingKeepsManifest ==
  ASSUME NEW doc, Is("object", doc), Decodable(doc),
         ~Is("object", FirstOf(NestedNames, doc.object)),
         NormalizeManifestValue(doc) # None
  PROVE  Decode(NormalizeManifestValue(doc)) = Decode(doc)
<1> DEFINE map        == doc.object
           object     == NormalizeManifestObject(map)
           normalized == NormalizeManifestValue(doc)
<1>1. Members(doc) = map
  BY DEF Members
<1>2. Is("object", normalized) /\ Members(normalized) = object
  <2>1. normalized = [object |-> object]
    BY DEF NormalizeManifestValue, ManifestObject
  <2> HIDE DEF object
  <2> QED
    BY <2>1 DEF Is, Members
<1> HIDE DEF map, object, normalized
<1>3. /\ DOMAIN object \cap {"pack_id", "packId", "pack_version", "packVersion"} = {}
      /\ FirstOf(IdNames, object) = IdOf(map)
      /\ FirstOf(VersionNames, object) = FirstOf(VersionNames, map)
      /\ ContentsOf(object) = ContentsOf(map)
  BY NormalizedObject DEF object
<1>4. Is("text", FirstOf(IdNames, map)) /\ Is("text", FirstOf(VersionNames, map))
  BY <1>1 DEF Decodable, HasText
<1>5. IdOf(map) = FirstOf(IdNames, map)
  <2>1. Tail(IdNames) = <<"pack_id", "packId">>
    BY DEF IdNames
  <2>2. FirstOf(IdNames, map) = IF "id" \in DOMAIN map THEN map["id"]
                                ELSE FirstOf(Tail(IdNames), map)
    BY <2>1, FirstOfTwo, FirstOfThree DEF IdNames
  <2>3. ~Is("number", FirstOf(IdNames, map))
    BY <1>4 DEF Is
  <2> QED
    BY <2>2, <2>3 DEF IdOf, ResolvePackId
<1>6. HasText(IdNames, object) /\ HasText(VersionNames, object)
  BY <1>3, <1>4, <1>5, HasTextOfNames DEF IdNames, VersionNames
<1>7. Decodable(normalized)
  BY <1>1, <1>2, <1>3, <1>6 DEF Decodable
<1>8. PackManifest(object) = PackManifest(map)
  BY <1>3, <1>5 DEF PackManifest
<1> QED
  BY <1>1, <1>2, <1>7, <1>8 DEF Decode, normalized

(* A document that loads as JSON means the same in CBOR, whatever its      *)
(* names and its other members are, but for arrays: as the document they   *)
(* are refused, and inside it they let a nested manifest go first.         *)
THEOREM FormsAlwaysAgree == Spec => []FormsAgree
<1>1. dir \in PackDirs => FormsAgree
  <2> SUFFICES ASSUME dir \in PackDirs, NEW n \in Names,
                      NEW doc \in Range(dir[n].files), Decode(doc) # None
               PROVE  \/ LoadCbor(doc) = Decode(doc)
                      \/ Is("array", doc) /\ LoadCbor(doc) = None
                      \/ /\ Is("object", doc) /\ ~MapsOnly(doc)
                         /\ Is("object", FirstOf(NestedNames, doc.object))
    BY Zenon DEF FormsAgree, Range
  <2>1. Decodable(doc)
    BY DEF Decode
  <2>2. CASE MapsOnly(doc)
    BY <2>2 DEF LoadCbor, Or, DecodeCbor
  <2>3. CASE ~Is("object", doc)
    <3>1. Is("array", doc)
      BY <2>1, <2>3 DEF Decodable
    <3>2. NormalizeManifestValue(doc) = None /\ DecodeCbor(doc) = None
      BY <2>3 DEF NormalizeManifestValue, DecodeCbor, MapsOnly
    <3>3. Decode(None) = None
      BY DEF Decode, Decodable, Is
    <3> QED
      BY <3>1, <3>2, <3>3 DEF LoadCbor, Or
  <2>4. CASE /\ ~MapsOnly(doc) /\ Is("object", doc)
             /\ ~Is("object", FirstOf(NestedNames, doc.object))
    <3>1. LoadCbor(doc) = Decode(NormalizeManifestValue(doc))
      BY <2>4 DEF LoadCbor, Or, DecodeCbor
    <3>2. NormalizeManifestValue(doc) # None
      BY <2>4, PackDirsAssumption DEF Names
    <3> QED
      BY <2>1, <2>4, <3>1, <3>2, NormalizingKeepsManifest
  <2> QED
    BY <2>2, <2>3, <2>4
<1>2. RunnerInv => dir \in PackDirs
  BY DEF RunnerInv
<1> QED
  BY <1>1, <1>2, RunnerInit, RunnerStep, PTL DEF Spec

-----------------------------------------------------------------------------
(* The flow id of a descriptor for an entry, and the places of the         *)
(* descriptors and of the flows that have an id for it.                    *)
DescribedId(flow, e) ==
  IF Or(flow.entry, flow.name) = e
  THEN Or(flow.id, Or(flow.flow_id, flow.name)) ELSE None

PlacesListed(list, e) == {i \in DOMAIN list : DescribedId(list[i], e) # None}
PlacesShown(list, e)  == {i \in DOMAIN list : EntryOfFlow(list[i], e) # None}

(* The search takes the first of these places, in the metadata ...         *)
LEMMA MetaFinds ==
  ASSUME NEW S, NEW list \in Seq(S), NEW e, NEW flows,
         flows.kind = "list", flows.value = list
  PROVE  EntryFlowFromMeta(flows, e) =
           IF PlacesListed(list, e) = {} THEN None
           ELSE DescribedId(list[Min(PlacesListed(list, e))], e)
<1> DEFINE place == IF PlacesListed(list, e) = {} THEN 0 ELSE Min(PlacesListed(list, e))
<1>1. /\ DOMAIN list = 1 .. Len(list)
      /\ PlacesListed(list, e) \subseteq Nat /\ 0 \notin PlacesListed(list, e)
  BY LenProperties DEF PlacesListed
<1>2. EntryFlowFromMeta(flows, e) = IF place = 0 THEN None ELSE DescribedId(list[place], e)
  BY <1>1 DEF EntryFlowFromMeta, FindMap, SelectInSeq, DescribedId, PlacesListed
<1>3. PlacesListed(list, e) # {} => Min(PlacesListed(list, e)) \in PlacesListed(list, e)
  BY <1>1, LeastPlace
<1> QED
  BY <1>1, <1>2, <1>3

(* ... and among the flows.                                                *)
LEMMA FlowFinds ==
  ASSUME NEW S, NEW list \in Seq(S), NEW e
  PROVE  FindMap(list, LAMBDA flow : EntryOfFlow(flow, e)) =
           IF PlacesShown(list, e) = {} THEN None
           ELSE EntryOfFlow(list[Min(PlacesShown(list, e))], e)
<1> DEFINE place == IF PlacesShown(list, e) = {} THEN 0 ELSE Min(PlacesShown(list, e))
<1>1. /\ DOMAIN list = 1 .. Len(list)
      /\ PlacesShown(list, e) \subseteq Nat /\ 0 \notin PlacesShown(list, e)
  BY LenProperties DEF PlacesShown
<1>2. FindMap(list, LAMBDA flow : EntryOfFlow(flow, e))
        = IF place = 0 THEN None ELSE EntryOfFlow(list[place], e)
  BY <1>1 DEF FindMap, SelectInSeq, PlacesShown
<1>3. PlacesShown(list, e) # {} => Min(PlacesShown(list, e)) \in PlacesShown(list, e)
  BY <1>1, LeastPlace
<1> QED
  BY <1>1, <1>2, <1>3

Listed(pack) ==
  IF pack.entry_flows.kind = "list" THEN pack.entry_flows.value ELSE << >>

(* The declarations, with the ids that the search gives. *)
MapDeclared(pack, e) ==
  {<<0, pack.entry_flows.value[k]>> :
     k \in {n \in {e} : pack.entry_flows.kind = "map" /\ n \in DOMAIN pack.entry_flows.value}}
ListDeclared(pack, e) ==
  {<<i - Len(Listed(pack)), DescribedId(Listed(pack)[i], e)>> : i \in PlacesListed(Listed(pack), e)}
FlowDeclared(pack, e) ==
  {<<i, EntryOfFlow(pack.flows[i], e)>> : i \in PlacesShown(pack.flows, e)}

(* The first of three options that is there.                               *)
LEMMA BestId ==
  ASSUME NEW a, NEW b, NEW c, {a, b, c} # {None}
  PROVE  LET ids == <<a, b, c>>
             best == CHOOSE i \in 1 .. Len(ids) :
                       ids[i] # None /\ \A j \in 1 .. (i - 1) : ids[j] = None
         IN  ids[best] = Or(a, Or(b, c))
<1> DEFINE ids == <<a, b, c>>
           IsBest(i) == ids[i] # None /\ \A j \in 1 .. (i - 1) : ids[j] = None
           best == CHOOSE i \in 1 .. Len(ids) : IsBest(i)
<1>1. Len(ids) = 3 /\ ids[1] = a /\ ids[2] = b /\ ids[3] = c
  OBVIOUS
<1>2. 1 .. 3 = {1, 2, 3}
  OBVIOUS
<1>3. /\ IsBest(1) <=> a # None
      /\ IsBest(2) <=> a = None /\ b # None
      /\ IsBest(3) <=> a = None /\ b = None /\ c # None
  BY <1>1
<1> HIDE DEF ids, IsBest
<1>4. PICK i \in {1, 2, 3} : IsBest(i)
  BY <1>3
<1>5. best \in {1, 2, 3} /\ IsBest(best)
  BY <1>1, <1>2, <1>4
<1> HIDE DEF best
<1>6. ids[best] = Or(a, Or(b, c))
  BY <1>1, <1>3, <1>5 DEF Or
<1> QED
  BY <1>6 DEF ids, best, IsBest


(* The two tell of the same declarations of an entry.                      *)
LEMMA DeclarationsAre ==
  ASSUME NEW pack, NEW e, e # None
  PROVE  Declarations(pack, e)
           = MapDeclared(pack, e) \cup ListDeclared(pack, e) \cup FlowDeclared(pack, e)
<1> DEFINE listed == Listed(pack)
           Target(flow) == {flow.entry} \cup {n \in {flow.name} : flow.entry = None}
           mapped == IF pack.entry_flows.kind = "map"
                     THEN {k \in DOMAIN pack.entry_flows.value : k = e} ELSE {}
           Named == {j \in DOMAIN listed :
                         /\ e \in Target(listed[j])
                         /\ {listed[j].id, listed[j].flow_id, listed[j].name} # {None}}
           Best(ids) == CHOOSE i \in 1 .. Len(ids) :
                     ids[i] # None /\ \A j \in 1 .. (i - 1) : ids[j] = None
           Id(i) == LET ids == <<listed[i].id, listed[i].flow_id, listed[i].name>>
                    IN  ids[Best(ids)]
           Shown == {j \in DOMAIN pack.flows :
                         /\ e \in Target(pack.flows[j]) \cup pack.flows[j].entrypoints
                         /\ {pack.flows[j].id, pack.flows[j].name} # {None}}
           FlowId(i) == IF pack.flows[i].id # None THEN pack.flows[i].id ELSE pack.flows[i].name
<1>1. Declarations(pack, e) =
        {<<0, pack.entry_flows.value[k]>> : k \in mapped}
          \cup {<<i - Len(listed), Id(i)>> : i \in Named}
          \cup {<<i, FlowId(i)>> : i \in Shown}
  BY DEF Declarations, Listed
<1>2. mapped = {n \in {e} : pack.entry_flows.kind = "map" /\ n \in DOMAIN pack.entry_flows.value}
  OBVIOUS
<1>3. ASSUME NEW flow PROVE e \in Target(flow) <=> Or(flow.entry, flow.name) = e
  BY DEF Or
<1>4. ASSUME NEW i \in DOMAIN listed
      PROVE  /\ i \in Named <=> DescribedId(listed[i], e) # None
             /\ i \in Named => Id(i) = DescribedId(listed[i], e)
  <2> DEFINE flow == listed[i]
  <2>1. i \in Named <=> /\ Or(flow.entry, flow.name) = e
                        /\ {flow.id, flow.flow_id, flow.name} # {None}
    BY <1>3
  <2>2. {flow.id, flow.flow_id, flow.name} # {None}
          <=> Or(flow.id, Or(flow.flow_id, flow.name)) # None
    BY DEF Or
  <2>3. ASSUME {flow.id, flow.flow_id, flow.name} # {None}
        PROVE  Id(i) = Or(flow.id, Or(flow.flow_id, flow.name))
    <3> DEFINE a == flow.id
               b == flow.flow_id
               c == flow.name
    <3>1. Id(i) = <<a, b, c>>[Best(<<a, b, c>>)]
      OBVIOUS
    <3> HIDE DEF a, b, c
    <3>2. <<a, b, c>>[Best(<<a, b, c>>)] = Or(a, Or(b, c))
      BY <2>3, BestId DEF a, b, c
    <3> QED
      BY <3>1, <3>2 DEF a, b, c
  <2> HIDE DEF Named, Id
  <2> QED
    BY <2>1, <2>2, <2>3 DEF DescribedId
<1>5. Named = PlacesListed(listed, e)
  BY <1>4 DEF PlacesListed
<1>6. ASSUME NEW i \in DOMAIN pack.flows
      PROVE  /\ i \in Shown <=> EntryOfFlow(pack.flows[i], e) # None
             /\ i \in Shown => FlowId(i) = EntryOfFlow(pack.flows[i], e)
  <2> DEFINE flow == pack.flows[i]
  <2>1. i \in Shown <=> /\ Or(flow.entry, flow.name) = e \/ e \in flow.entrypoints
                        /\ {flow.id, flow.name} # {None}
    BY <1>3
  <2>2. {flow.id, flow.name} # {None} <=> Or(flow.id, flow.name) # None
    BY DEF Or
  <2>3. FlowId(i) = Or(flow.id, flow.name)
    BY DEF Or
  <2> HIDE DEF Shown, FlowId
  <2> QED
    BY <2>1, <2>2, <2>3 DEF EntryOfFlow
<1>7. Shown = PlacesShown(pack.flows, e)
  BY <1>6 DEF PlacesShown
<1> HIDE DEF mapped, Named, Shown, Id, FlowId
<1>8. {<<0, pack.entry_flows.value[k]>> : k \in mapped} = MapDeclared(pack, e)
  BY <1>2 DEF MapDeclared
<1>9. {<<i - Len(listed), Id(i)>> : i \in Named} = ListDeclared(pack, e)
  <2>1. \A i \in Named : Id(i) = DescribedId(listed[i], e)
    BY <1>4 DEF Named
  <2> QED
    BY <1>5, <2>1 DEF ListDeclared
<1>10. {<<i, FlowId(i)>> : i \in Shown} = FlowDeclared(pack, e)
  <2>1. \A i \in Shown : FlowId(i) = EntryOfFlow(pack.flows[i], e)
    BY <1>6 DEF Shown
  <2> QED
    BY <1>7, <2>1 DEF FlowDeclared
<1> QED
  BY <1>1, <1>8, <1>9, <1>10

(* The declaration before all others is the first. *)
LEMMA FirstIs ==
  ASSUME NEW pack, NEW e, NEW d \in Declarations(pack, e), d[1] \in Int,
         \A other \in Declarations(pack, e) : other = d \/ d[1] < other[1],
         \A other \in Declarations(pack, e) : other[1] \in Int
  PROVE  FirstDeclared(pack, e) = d[2]
<1> DEFINE all == Declarations(pack, e)
           first == CHOOSE c \in all : \A other \in all : c[1] <= other[1]
<1>1. \A other \in all : d[1] <= other[1]
  OBVIOUS
<1>2. first \in all /\ \A other \in all : first[1] <= other[1]
  BY <1>1
<1> HIDE DEF first
<1>3. first[1] <= d[1]
  BY <1>2
<1>4. first = d
  BY <1>2, <1>3
<1> QED
  BY <1>4 DEF FirstDeclared, first

(* The search finds the first declaration of an entry, if there is one. *)
LEMMA SearchFindsFirst ==
  ASSUME NEW pack, WellFormed(pack), NEW e, e # None
  PROVE  EntryFlowId(pack, e) = FirstDeclared(pack, e)
<1> DEFINE all == Declarations(pack, e)
           listed == Listed(pack)
           n == Len(listed)
<1>1. all = MapDeclared(pack, e) \cup ListDeclared(pack, e) \cup FlowDeclared(pack, e)
  BY DeclarationsAre
<1>2. listed \in Seq(Range(listed)) /\ n \in Nat /\ DOMAIN listed = 1 .. n
  <2>1. listed \in Seq(Range(listed))
    <3>1. CASE pack.entry_flows.kind = "list"
      BY <3>1 DEF Listed, WellFormed
    <3>2. CASE pack.entry_flows.kind # "list"
      BY <3>2, EmptySeq DEF Listed
    <3> QED
      BY <3>1, <3>2
  <2> QED
    BY <2>1, LenProperties
<1>3. DOMAIN pack.flows = 1 .. Len(pack.flows) /\ Len(pack.flows) \in Nat
  BY LenProperties DEF WellFormed
<1>4. /\ \A d \in MapDeclared(pack, e) : d[1] = 0
      /\ \A d \in ListDeclared(pack, e) : d[1] \in Int /\ d[1] <= 0
      /\ \A d \in FlowDeclared(pack, e) : d[1] \in Int /\ 0 < d[1]
  BY <1>2, <1>3 DEF MapDeclared, ListDeclared, FlowDeclared, PlacesListed, PlacesShown
<1> DEFINE meta == EntryFlowFromMeta(pack.entry_flows, e)
           shown == FindMap(pack.flows, LAMBDA flow : EntryOfFlow(flow, e))
<1>5. EntryFlowId(pack, e) = Or(meta, shown)
  BY DEF EntryFlowId
<1>6. pack.entry_flows.kind # "list" => ListDeclared(pack, e) = {}
  <2>1. pack.entry_flows.kind # "list" => DOMAIN listed = {}
    BY EmptySeq, <1>2 DEF Listed
  <2> HIDE DEF listed
  <2>2. pack.entry_flows.kind # "list" => PlacesListed(listed, e) = {}
    BY <2>1 DEF PlacesListed
  <2> QED
    BY <2>2 DEF ListDeclared, listed
<1>7. pack.entry_flows.kind # "map" => MapDeclared(pack, e) = {}
  BY DEF MapDeclared
<1>8. CASE pack.entry_flows.kind = "map" /\ e \in DOMAIN pack.entry_flows.value
  <2> DEFINE d == <<0, pack.entry_flows.value[e]>>
  <2>1. MapDeclared(pack, e) = {d} /\ ListDeclared(pack, e) = {}
    BY <1>6, <1>8 DEF MapDeclared
  <2>2. /\ d \in all /\ d[1] = 0
        /\ \A other \in all : other[1] \in Int /\ (other = d \/ 0 < other[1])
    BY <1>1, <1>4, <2>1
  <2>3. FirstDeclared(pack, e) = d[2]
    <3> HIDE DEF d
    <3> QED
      BY <2>2, FirstIs
  <2>4. meta = d[2]
    BY <1>8 DEF EntryFlowFromMeta
  <2>5. d[2] # None
    BY <1>8 DEF WellFormed, Range
  <2> QED
    BY <1>5, <2>3, <2>4, <2>5 DEF Or
<1>9. CASE pack.entry_flows.kind = "list" /\ PlacesListed(listed, e) # {}
  <2> DEFINE m == Min(PlacesListed(listed, e))
             d == <<m - n, DescribedId(listed[m], e)>>
  <2>1. PlacesListed(listed, e) \in SUBSET Nat
    BY <1>2 DEF PlacesListed
  <2>2. m \in PlacesListed(listed, e) /\ \A i \in PlacesListed(listed, e) : m <= i
    BY <1>9, <2>1, LeastPlace
  <2>3. MapDeclared(pack, e) = {}
    BY <1>7, <1>9
  <2>4. pack.entry_flows.value = listed
    BY <1>9 DEF Listed
  <2>5. meta = DescribedId(listed[m], e) /\ meta # None
    <3>1. meta = DescribedId(listed[m], e)
      BY <1>2, <1>9, <2>4, MetaFinds
    <3> QED
      BY <2>2, <3>1 DEF PlacesListed
  <2> HIDE DEF m
  <2>6. d \in ListDeclared(pack, e)
    BY <2>2 DEF ListDeclared
  <2>7. ASSUME NEW other \in ListDeclared(pack, e), other # d PROVE d[1] < other[1]
    <3>1. PICK i \in PlacesListed(listed, e) : other = <<i - n, DescribedId(listed[i], e)>>
      BY <2>7 DEF ListDeclared
    <3>2. i # m
      BY <2>7, <3>1
    <3>3. m \in Nat /\ i \in Nat /\ m < i
      BY <2>1, <2>2, <3>2
    <3> QED
      BY <1>2, <3>1, <3>3
  <2>8. \A other \in all : other = d \/ d[1] < other[1]
    BY <1>1, <1>4, <2>3, <2>6, <2>7
  <2>9. FirstDeclared(pack, e) = d[2]
    BY <1>1, <1>4, <2>3, <2>6, <2>8, FirstIs
  <2> QED
    BY <1>5, <2>5, <2>9 DEF Or
<1>10. CASE ~(pack.entry_flows.kind = "map" /\ e \in DOMAIN pack.entry_flows.value)
              /\ ~(pack.entry_flows.kind = "list" /\ PlacesListed(listed, e) # {})
  <2>1. MapDeclared(pack, e) = {} /\ ListDeclared(pack, e) = {}
    BY <1>6, <1>10 DEF MapDeclared, ListDeclared
  <2>2. all = FlowDeclared(pack, e)
    BY <1>1, <2>1
  <2>3. meta = None
    <3>1. CASE pack.entry_flows.kind = "empty"
      BY <3>1 DEF EntryFlowFromMeta
    <3>2. CASE pack.entry_flows.kind = "map"
      BY <1>10, <3>2 DEF EntryFlowFromMeta
    <3>3. CASE pack.entry_flows.kind = "list"
      BY <1>2, <1>10, <3>3, MetaFinds DEF Listed
    <3> QED
      BY <3>1, <3>2, <3>3 DEF WellFormed
  <2>4. EntryFlowId(pack, e) = shown
    BY <1>5, <2>3 DEF Or
  <2>5. shown = IF PlacesShown(pack.flows, e) = {} THEN None
                ELSE EntryOfFlow(pack.flows[Min(PlacesShown(pack.flows, e))], e)
    BY FlowFinds DEF WellFormed
  <2>6. CASE PlacesShown(pack.flows, e) = {}
    <3>1. all = {}
      BY <2>2, <2>6 DEF FlowDeclared
    <3> QED
      BY <2>4, <2>5, <2>6, <3>1 DEF FirstDeclared
  <2>7. CASE PlacesShown(pack.flows, e) # {}
    <3> DEFINE m == Min(PlacesShown(pack.flows, e))
               d == <<m, EntryOfFlow(pack.flows[m], e)>>
    <3>1. PlacesShown(pack.flows, e) \in SUBSET Nat
      BY <1>3 DEF PlacesShown
    <3>2. m \in PlacesShown(pack.flows, e) /\ \A i \in PlacesShown(pack.flows, e) : m <= i
      BY <2>7, <3>1, LeastPlace
    <3>3. shown = d[2]
      BY <2>5, <2>7
    <3> HIDE DEF m
    <3>4. d \in FlowDeclared(pack, e)
      BY <3>2 DEF FlowDeclared
    <3>5. ASSUME NEW other \in FlowDeclared(pack, e), other # d PROVE d[1] < other[1]
      <4>1. PICK i \in PlacesShown(pack.flows, e) : other = <<i, EntryOfFlow(pack.flows[i], e)>>
        BY <3>5 DEF FlowDeclared
      <4> QED
        BY <3>1, <3>2, <3>5, <4>1
    <3>6. FirstDeclared(pack, e) = d[2]
      BY <1>4, <2>2, <3>4, <3>5, FirstIs
    <3> QED
      BY <2>4, <3>3, <3>6
  <2> QED
    BY <2>6, <2>7
<1> QED
  BY <1>8, <1>9, <1>10

(* Where the documented rules settle an entry, the search follows them.    *)
LEMMA SearchFollowsRules ==
  ASSUME NEW pack, WellFormed(pack), NEW e, e # None, DocumentedOnly(pack, e)
  PROVE  EntryFlowId(pack, e) = DocumentedFlow(pack, e)
<1> DEFINE meta  == EntryFlowFromMeta(pack.entry_flows, e)
           shown == FindMap(pack.flows, LAMBDA flow : EntryOfFlow(flow, e))
           places == {i \in DOMAIN pack.flows : pack.flows[i].entry = e}
<1>1. EntryFlowId(pack, e) = Or(meta, shown)
  BY DEF EntryFlowId
<1>2. CASE pack.entry_flows.kind = "map" /\ e \in DOMAIN pack.entry_flows.value
  <2>1. meta = pack.entry_flows.value[e] /\ meta # None
    BY <1>2 DEF EntryFlowFromMeta, WellFormed, Range
  <2> QED
    BY <1>1, <1>2, <2>1 DEF Or, DocumentedFlow
<1>3. CASE ~(pack.entry_flows.kind = "map" /\ e \in DOMAIN pack.entry_flows.value)
  <2>1. meta = None
    BY <1>3 DEF EntryFlowFromMeta, WellFormed, DocumentedOnly
  <2>2. shown = IF PlacesShown(pack.flows, e) = {} THEN None
                ELSE EntryOfFlow(pack.flows[Min(PlacesShown(pack.flows, e))], e)
    BY FlowFinds DEF WellFormed
  <2>3. ASSUME NEW i \in DOMAIN pack.flows
        PROVE  /\ EntryOfFlow(pack.flows[i], e) # None <=> pack.flows[i].entry = e
               /\ pack.flows[i].entry = e => EntryOfFlow(pack.flows[i], e) = pack.flows[i].id
    <3>1. pack.flows[i] \in Range(pack.flows)
      BY DEF Range
    <3> QED
      BY <3>1 DEF DocumentedOnly, EntryOfFlow, Or
  <2>4. PlacesShown(pack.flows, e) = places
    BY <2>3 DEF PlacesShown
  <2>5. places # {} => Min(places) \in places
    <3>1. places \in SUBSET Nat
      BY LenProperties DEF WellFormed
    <3> HIDE DEF places
    <3> QED
      BY <3>1, LeastPlace
  <2>6. places # {} => shown = pack.flows[Min(places)].id
    BY <2>2, <2>3, <2>4, <2>5
  <2>7. DocumentedFlow(pack, e) = IF places = {} THEN None ELSE pack.flows[Min(places)].id
    BY <1>3 DEF DocumentedFlow
  <2> QED
    BY <1>1, <2>1, <2>2, <2>4, <2>6, <2>7 DEF Or
<1> QED
  BY <1>2, <1>3

(* Every entry of every pack is resolved by the documented rules where     *)
(* they settle it, and in any case to its first declaration.               *)
THEOREM FirstDeclaredIsFound == Spec => []DiscoveryFollowsDeclarations
<1>1. RunnerInv => DiscoveryFollowsDeclarations
  <2> SUFFICES ASSUME RunnerInv, NEW n \in Names, LoadManifest(dir[n].files) # None,
                      NEW e \in {"setup", "requirements", "subscriptions"}
               PROVE  LET pack == LoadManifest(dir[n].files)
                      IN  /\ EntryFlowId(pack, e) = FirstDeclared(pack, e)
                          /\ DocumentedOnly(pack, e) =>
                               EntryFlowId(pack, e) = DocumentedFlow(pack, e)
    BY Zenon DEF DiscoveryFollowsDeclarations
  <2>1. WellFormed(LoadManifest(dir[n].files))
    BY PackDirsAssumption DEF RunnerInv, Names
  <2>2. e # None
    BY NoneAssumption
  <2> QED
    BY <2>1, <2>2, SearchFindsFirst, SearchFollowsRules
<1> QED
  BY <1>1, RunnerInit, RunnerStep, PTL DEF Spec

-----------------------------------------------------------------------------
(***************************************************************************)
(* What the engine's theorems say of the program that uses it: the program *)
(* runs its engine as ProvisionEngine does, so the last patch wins in each *)
(* of its plans, and the check of the final plan is one of every reply.    *)
(***************************************************************************)
EP == INSTANCE ProvisionEngine_proofs WITH FixtureOutputs <- {}

(* The two instances of the engine are the same: what a step makes of a    *)
(* reply ...                                                               *)
LEMMA SameRejected ==
  ASSUME NEW raw
  PROVE  Engine!Rejected(raw) <=> EP!Rejected(raw)
BY DEF Engine!Rejected, EP!Rejected, Engine!OpFields, EP!OpFields,
   Engine!Items, EP!Items, Engine!ToSet, EP!ToSet

(* ... the patch in it ...                                                 *)
LEMMA SamePatch ==
  ASSUME NEW raw
  PROVE  Engine!PlanPatchFromValue(raw) = EP!PlanPatchFromValue(raw)
BY DEF Engine!PlanPatchFromValue, EP!PlanPatchFromValue, Engine!Lists, EP!Lists,
   Engine!OpFields, EP!OpFields, Engine!Strings, EP!Strings,
   Engine!FlattenSeq, EP!FlattenSeq

(* ... the output as a whole ...                                           *)
LEMMA SameOutput ==
  ASSUME NEW step, NEW reply
  PROVE  Engine!RunStepOutput(step, reply) = EP!RunStepOutput(step, reply)
BY SameRejected, SamePatch
DEF Engine!RunStepOutput, EP!RunStepOutput, Engine!StepOutputFromJson,
    EP!StepOutputFromJson, Engine!Accepted, EP!Accepted, Engine!ErrorOutput,
    EP!ErrorOutput, Engine!Output, EP!Output

(* ... and the loop body.                                                  *)
LEMMA SameAccumulate ==
  ASSUME NEW output
  PROVE  Engine!Accumulate(output) <=> EP!Accumulate(output)
<1>1. ASSUME NEW p, NEW patch
      PROVE  Engine!MergePatch(p, patch) = EP!MergePatch(p, patch)
  BY DEF Engine!MergePatch, EP!MergePatch, Engine!Extend, EP!Extend,
     Engine!PlanFields, EP!PlanFields, Engine!MapFields, EP!MapFields,
     Engine!ListFields, EP!ListFields
<1> QED
  BY <1>1 DEF Engine!Accumulate, EP!Accumulate

(* What the engine assumes of the replies it is given. *)
LEMMA EngineAssumption == EP!PatchesAssumption
<1>1. Engine!StepOutput = EP!StepOutput
  BY SameOutput DEF Engine!StepOutput, EP!StepOutput, Engine!DefaultOutput,
     EP!DefaultOutput, Engine!Output, EP!Output, Engine!StepSet, EP!StepSet
<1>2. \A raw : Engine!Lists(raw) = EP!Lists(raw)
  BY DEF Engine!Lists, EP!Lists, Engine!OpFields, EP!OpFields
<1> QED
  BY <1>1, <1>2, SameRejected, SamePatch, RepliesAssumption
  DEF Engine!PatchesAssumption, EP!PatchesAssumption,
      Engine!ListFields, EP!ListFields, Engine!ToSet, EP!ToSet

(* Every step of the program is one of its engine or leaves it alone.      *)
LEMMA EngineStep ==
  ASSUME [Next]_vars
  PROVE  [Engine!Next]_engine_vars
<1>1. ASSUME NEW executor \in {"wasm", "noop"}, Engine!Run(executor, "dry_run")
      PROVE  Engine!Next
  BY <1>1 DEF Engine!Next, Engine!Modes
<1>2. CASE RunEngine
  BY <1>2 DEF RunEngine, Engine!Next
<1>3. CASE RunWithoutRequirements \/ RunRequirements \/ StartDryRun
  <2>1. UNCHANGED engine_vars \/ \E executor \in {"wasm", "noop"} :
          Engine!Run(executor, "dry_run")
    BY <1>3 DEF RunWithoutRequirements, RunRequirements, StartDryRun,
       StartEngine, Reject
  <2> QED
    BY <1>1, <2>1
<1>4. CASE ~(RunWithoutRequirements \/ RunRequirements \/ StartDryRun \/ RunEngine)
  BY <1>4 DEF Next, vars, SelectPacks, PackError, ManifestError, MissingSetup,
     ExecutorError, Reject, Check, CaptureFailureArtifacts,
     WriteConformanceLog, WriteReport, IoError, Inspect, PrintDryRun
<1> QED
  BY <1>2, <1>3, <1>4

(* So the engine of the program is ProvisionEngine. *)
LEMMA ProgramRunsEngine == Spec => Engine!Spec
<1>1. Init => Engine!Init
  BY DEF Init
<1>2. [Next]_vars => [Engine!Next]_Engine!vars
  BY EngineStep DEF engine_vars, Engine!vars
<1> QED
  BY <1>1, <1>2, PTL DEF Spec, Engine!Spec

(* The steps of the two instances are the same, ...                        *)
LEMMA SameNext == Engine!Next => EP!Next
<1>1. ASSUME NEW src, NEW m, NEW steps, Engine!Start(src, m, steps)
      PROVE  EP!Start(src, m, steps)
  BY <1>1 DEF Engine!Start, EP!Start, Engine!DefaultPlan, EP!DefaultPlan,
     Engine!PlanFields, EP!PlanFields, Engine!MapFields, EP!MapFields,
     Engine!ListFields, EP!ListFields
<1>2. ASSUME NEW executor, NEW m, Engine!Run(executor, m) PROVE EP!Run(executor, m)
  BY <1>1, <1>2 DEF Engine!Run, EP!Run, Engine!Steps, EP!Steps
<1>3. ASSUME NEW given, Engine!PlanFromFixtures(given) PROVE EP!PlanFromFixtures(given)
  BY <1>1, <1>3 DEF Engine!PlanFromFixtures, EP!PlanFromFixtures,
     Engine!FixtureSteps, EP!FixtureSteps, Engine!OneIf, EP!OneIf
<1>4. Engine!RunWasmStep => EP!RunWasmStep
  BY SameOutput, SameAccumulate
  DEF Engine!RunWasmStep, EP!RunWasmStep, Engine!Running, EP!Running,
      Engine!Context, EP!Context, Engine!ComponentInput, EP!ComponentInput
<1>5. Engine!RunNoopStep => EP!RunNoopStep
  BY SameAccumulate
  DEF Engine!RunNoopStep, EP!RunNoopStep, Engine!Running, EP!Running,
      Engine!DefaultOutput, EP!DefaultOutput, Engine!Output, EP!Output
<1>6. Engine!Return => EP!Return
  BY DEF Engine!Return, EP!Return
<1>7. ~Engine!LoadFixture
  BY DEF Engine!LoadFixture
<1>8. Engine!FixtureFails => EP!FixtureFails
  BY DEF Engine!FixtureFails, EP!FixtureFails, Engine!Running, EP!Running
<1>9. Engine!Modes = EP!Modes /\ Engine!StepSet = EP!StepSet
  BY DEF Engine!Modes, EP!Modes, Engine!StepSet, EP!StepSet
<1> QED
  BY <1>2, <1>3, <1>4, <1>5, <1>6, <1>7, <1>8, <1>9 DEF Engine!Next, EP!Next

(* ... so the theorems about ProvisionEngine hold of the program's engine. *)
LEMMA ProgramRunsProvenEngine == Spec => EP!Spec
<1>1. Engine!Init => EP!Init
  BY DEF Engine!Init, EP!Init, Engine!DefaultPlan, EP!DefaultPlan,
     Engine!PlanFields, EP!PlanFields, Engine!MapFields, EP!MapFields,
     Engine!ListFields, EP!ListFields
<1>2. [Engine!Next]_Engine!vars => [EP!Next]_EP!vars
  BY SameNext DEF Engine!vars, EP!vars
<1> QED
  BY <1>1, <1>2, ProgramRunsEngine, PTL DEF Engine!Spec, EP!Spec

-----------------------------------------------------------------------------
(* The report entry is about the plan that the engine still holds.         *)
EntryIsOfPlan ==
  /\ stage \in {"start", "pack", "engine", "dry_run"} => entry = None
  /\ stage = "engine" => source = "wasm"
  /\ entry # None =>
       /\ source = "wasm"
       /\ entry.ok => CheckConformance(plan["secrets_set"]) = {}

LEMMA EntriesAreOfPlans == Spec => []EntryIsOfPlan
<1>1. Init => EntryIsOfPlan
  BY DEF Init, EntryIsOfPlan
<1>2. EntryIsOfPlan /\ [Next]_vars => EntryIsOfPlan'
  <2> SUFFICES ASSUME EntryIsOfPlan, [Next]_vars PROVE EntryIsOfPlan'
    OBVIOUS
  <2>1. CASE UNCHANGED vars
    BY <2>1 DEF vars, engine_vars, run_vars, EntryIsOfPlan
  <2>2. CASE SelectPacks
    BY <2>2 DEF SelectPacks, engine_vars, run_vars, EntryIsOfPlan
  <2>3. ASSUME AtPack, NEW error, Reject(error) PROVE EntryIsOfPlan'
    BY <2>3 DEF AtPack, Reject, EntryIsOfPlan
  <2>4. CASE PackError \/ ManifestError \/ MissingSetup \/ ExecutorError
    BY <2>3, <2>4 DEF PackError, ManifestError, MissingSetup, ExecutorError,
       Discovered, Loaded
  <2>5. ASSUME AtPack, StartEngine PROVE EntryIsOfPlan'
    BY <2>5 DEF AtPack, StartEngine, Engine!Run, Engine!Start, run_vars, EntryIsOfPlan
  <2>6. CASE RunWithoutRequirements
    BY <2>5, <2>6 DEF RunWithoutRequirements, Discovered, Loaded
  <2>7. CASE RunRequirements
    BY <2>3, <2>5, <2>7 DEF RunRequirements, Discovered, Loaded
  <2>8. CASE RunEngine
    BY <2>8 DEF RunEngine, run_vars, Engine!RunWasmStep, Engine!RunNoopStep,
       Engine!Return, Engine!Accumulate, EntryIsOfPlan
  <2>9. CASE Check
    <3> DEFINE errors == CheckConformance(plan["secrets_set"])
    <3>1. entry' = Entry(Current, Discover(Manifest).pack_version, errors)
      BY <2>9 DEF Check
    <3>2. entry'.ok => errors = {}
      BY <3>1 DEF Entry
    <3>3. stage = "engine" /\ UNCHANGED engine_vars /\ stage' \in {"log", "artifacts"}
      BY <2>9 DEF Check, AfterCheck
    <3> HIDE DEF errors
    <3>4. source' = "wasm" /\ plan' = plan
      BY <3>3 DEF engine_vars, EntryIsOfPlan
    <3> QED
      BY <3>2, <3>3, <3>4 DEF EntryIsOfPlan, errors
  <2>10. CASE CaptureFailureArtifacts \/ WriteReport \/ IoError \/ Inspect \/ PrintDryRun
    BY <2>10 DEF CaptureFailureArtifacts, WriteReport, IoError, Inspect, PrintDryRun,
       engine_vars, EntryIsOfPlan
  <2>11. CASE WriteConformanceLog
    BY <2>11 DEF WriteConformanceLog, EntryIsOfPlan
  <2>12. CASE StartDryRun
    BY <2>12 DEF StartDryRun, run_vars, EntryIsOfPlan
  <2> QED
    BY <2>1, <2>2, <2>4, <2>6, <2>7, <2>8, <2>9, <2>10, <2>11, <2>12 DEF Next
<1> QED
  BY <1>1, <1>2, PTL DEF Spec

(* The secrets in the patch of a step are those of its reply.              *)
LEMMA PatchHasSecrets ==
  ASSUME NEW reply \in Replies \cup {None}, NEW step
  PROVE  LET patch == EP!RunStepOutput(step, reply).plan_patch
         IN  /\ DOMAIN SecretsOf(reply) # {} =>
                  patch # None /\ "secrets_set" \in DOMAIN patch
             /\ patch # None /\ "secrets_set" \in DOMAIN patch =>
                  patch["secrets_set"] = SecretsOf(reply)
<1> DEFINE patch == EP!RunStepOutput(step, reply).plan_patch
<1>1. Engine!Accepted(reply) <=> EP!Accepted(reply)
  BY SameRejected DEF Engine!Accepted, EP!Accepted
<1>2. CASE EP!Accepted(reply) /\ reply.plan # None
  <2>1. patch = EP!PlanPatchFromValue(reply.plan)
    BY <1>2 DEF EP!RunStepOutput, EP!StepOutputFromJson, EP!Output
  <2>2. patch # None
    BY <1>2, <2>1, EngineAssumption DEF EP!PatchesAssumption, EP!Accepted
  <2>3. /\ "secrets_set" \in DOMAIN patch <=> "secrets_patch" \in DOMAIN reply.plan
        /\ "secrets_set" \in DOMAIN patch =>
             patch["secrets_set"] = reply.plan["secrets_patch"].value.set
    BY <2>1 DEF EP!PlanPatchFromValue, EP!Lists, EP!OpFields
  <2>4. IF "secrets_patch" \in DOMAIN reply.plan
        THEN SecretsOf(reply) = reply.plan["secrets_patch"].value.set
        ELSE SecretsOf(reply) = [k \in {} |-> None]
    BY <1>1, <1>2 DEF SecretsOf
  <2> HIDE DEF patch
  <2>5. /\ DOMAIN SecretsOf(reply) # {} => "secrets_set" \in DOMAIN patch
        /\ "secrets_set" \in DOMAIN patch => patch["secrets_set"] = SecretsOf(reply)
    BY <2>3, <2>4
  <2> QED
    BY <2>2, <2>5 DEF patch
<1>3. CASE ~(EP!Accepted(reply) /\ reply.plan # None)
  <2>1. patch = None
    BY <1>3 DEF EP!RunStepOutput, EP!StepOutputFromJson, EP!ErrorOutput, EP!Output
  <2>2. SecretsOf(reply) = [k \in {} |-> None]
    BY <1>1, <1>3 DEF SecretsOf
  <2> HIDE DEF patch
  <2>3. DOMAIN SecretsOf(reply) = {}
    BY <2>2
  <2> QED
    BY <2>1, <2>3 DEF patch
<1> QED
  BY <1>2, <1>3

(* A pack that passes the conformance check has hidden its secrets,        *)
(* whatever its components reply and in whatever order: the check of the   *)
(* merged plan is enough, because the last patch wins.                     *)
THEOREM PassedPacksHide == Spec => []PassedPacksHideSecrets
<1>1. ASSUME EP!LastPatchWins, EP!RepliesInv, EntryIsOfPlan, entry # None, entry.ok,
             NEW i \in DOMAIN replies, NEW k \in DOMAIN SecretsOf(replies[i]),
             \A j \in DOMAIN replies : j > i => k \notin DOMAIN SecretsOf(replies[j])
      PROVE  SecretsOf(replies[i])[k] = [redacted |-> TRUE, value |-> None]
  <2>1. source = "wasm" /\ CheckConformance(plan["secrets_set"]) = {}
    BY <1>1 DEF EntryIsOfPlan
  <2>2. /\ DOMAIN step_results = DOMAIN replies
        /\ \A j \in DOMAIN replies :
             /\ j \in Nat
             /\ replies[j] \in Replies \cup {None}
             /\ EP!Patch(j) = EP!RunStepOutput(step_results[j].step, replies[j]).plan_patch
    BY <1>1, <2>1 DEF EP!RepliesInv, EP!RepliesFit, EP!RunOK, EP!Patch
  <2>3. i \in EP!Giving("secrets_set")
    BY <2>2, PatchHasSecrets DEF EP!Giving
  <2>4. \A j \in EP!Giving("secrets_set") :
          j \in DOMAIN replies /\ EP!Patch(j)["secrets_set"] = SecretsOf(replies[j])
    BY <2>2, PatchHasSecrets DEF EP!Giving
  <2>5. "secrets_set" \in EP!MapFields
    BY DEF EP!MapFields
  <2>6. k \in DOMAIN plan["secrets_set"]
    BY <1>1, <2>3, <2>4, <2>5 DEF EP!LastPatchWins
  <2>7. PICK w \in EP!Giving("secrets_set") :
          /\ k \in DOMAIN EP!Patch(w)["secrets_set"]
          /\ plan["secrets_set"][k] = EP!Patch(w)["secrets_set"][k]
          /\ \A j \in EP!Giving("secrets_set") :
               j > w => k \notin DOMAIN EP!Patch(j)["secrets_set"]
    BY <1>1, <2>5, <2>6 DEF EP!LastPatchWins
  <2>8. w = i
    BY <1>1, <2>2, <2>3, <2>4, <2>7
  <2>9. plan["secrets_set"][k] = SecretsOf(replies[i])[k]
    BY <2>4, <2>7, <2>8
  <2> DEFINE secret == SecretsOf(replies[i])[k]
  <2>10. secret.redacted /\ secret.value = None
    <3>1. plan["secrets_set"][k].redacted /\ plan["secrets_set"][k].value = None
      BY <2>1, <2>6, Zenon DEF CheckConformance
    <3> QED
      BY <2>9, <3>1
  <2>11. replies[i] \in Replies
    <3>1. SecretsOf(None) = [n \in {} |-> None]
      BY DEF SecretsOf, Engine!Accepted
    <3>2. DOMAIN SecretsOf(None) = {}
      BY <3>1
    <3> QED
      BY <1>1, <2>2, <3>2
  <2>12. /\ secret.redacted \in BOOLEAN
         /\ secret = [redacted |-> secret.redacted, value |-> secret.value]
    BY <1>1, <2>11, RepliesAssumption
  <2>13. secret.redacted = TRUE
    BY <2>10, <2>12, Zenon
  <2> HIDE DEF secret
  <2>14. secret = [redacted |-> TRUE, value |-> None]
    BY <2>10, <2>12, <2>13
  <2> QED
    BY <2>14 DEF secret
<1>2. EP!LastPatchWins /\ EP!RepliesInv /\ EntryIsOfPlan => PassedPacksHideSecrets
  BY <1>1 DEF PassedPacksHideSecrets
<1>3. Spec => []EP!LastPatchWins
  BY ProgramRunsProvenEngine, EP!LastPatchAlwaysWins, EngineAssumption, PTL
<1>4. Spec => []EP!RepliesInv
  BY ProgramRunsProvenEngine, EP!RepliesInvariant, EngineAssumption, PTL
<1> QED
  BY <1>2, <1>3, <1>4, EntriesAreOfPlans, PTL

===============================================================================
