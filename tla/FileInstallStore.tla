--------------------------- MODULE FileInstallStore ---------------------------
(***************************************************************************)
(* FileInstallStore (apply.rs): the install records in a JSON file.        *)
(*                                                                         *)
(* Every value of the type reads the file once, when it is made, answers   *)
(* from memory, and rewrites the whole file after a change: fs::write      *)
(* truncates the file, then writes it.  Several processes may have the     *)
(* file open (the path has a default), nothing locks it, and a process may *)
(* stop anywhere.  put and delete drop the error of persist (let _ = ..).  *)
(***************************************************************************)
EXTENDS InstallRecords

CONSTANTS
  Installs,   \* the installations
  Records,    \* the records that may be put
  Handles,    \* the FileInstallStore values, each in a process of its own
  Faults      \* what may go wrong, a subset of AllFaults

AllFaults ==
  {"open_fails",       \* create_dir_all or the opening of the file fails
   "write_fails",      \* the write fails after some bytes (a full disk)
   "crash_in_write"}   \* a process stops between truncation and write

ASSUME FaultsAssumption == Faults \subseteq AllFaults

ASSUME RecordsAssumption == \A r \in Records : InstallOf(r) \in Installs

ASSUME NoneAssumption == None \notin Records

(* The content of the file: the records are those of a JSON list.          *)
FileStates == {"absent", "empty", "torn", "list"}

NoFile     == [state |-> "absent", records |-> {}]
EmptyFile  == [state |-> "empty", records |-> {}]
TornFile   == [state |-> "torn", records |-> {}]
ListOf(rs) == [state |-> "list", records |-> rs]

VARIABLES
  file,    \* the content of the file
  mem,     \* the records that a handle holds in memory
  pc,      \* where in its current call a handle is
  current  \* history: the handles that have loaded the file as it is, or
           \* have written it so

vars == <<file, mem, pc, current>>

Labels == {"closed", "idle", "persist", "write"}

(* The file and the handles hold records of this program, and a file that  *)
(* is not a list holds none.                                               *)
TypeOK ==
  /\ file \in [state : FileStates, records : SUBSET Records]
  /\ file.state # "list" => file.records = {}
  /\ mem  \in [Handles -> SUBSET Records]
  /\ pc   \in [Handles -> Labels]
  /\ current \subseteq Handles

Init ==
  /\ file = NoFile
  /\ mem  = [h \in Handles |-> {}]
  /\ pc   = [h \in Handles |-> "closed"]
  /\ current = {}

GoTo(h, label) == pc' = [pc EXCEPT ![h] = label]

(* load_records: no file is an empty list; a file that is not the JSON of  *)
(* a list is InvalidData, and new fails.                                   *)
Readable == file.state \in {"absent", "list"}
Load     == file.records

(* A faulty Open: it does not read the file.                               *)
OpenBlank(h) ==
  /\ pc[h] = "closed"
  /\ Readable
  /\ mem' = [mem EXCEPT ![h] = {}]
  /\ GoTo(h, "idle")
  /\ current' = current \cup {h}
  /\ UNCHANGED file

(* FileInstallStore::new *)
Open(h) ==
  /\ pc[h] = "closed"
  /\ Readable
  /\ mem' = [mem EXCEPT ![h] = Load]
  /\ GoTo(h, "idle")
  /\ current' = current \cup {h}
  /\ UNCHANGED file

(* put changes the memory and always persists. *)
PutRecord(h, r) ==
  /\ pc[h] = "idle"
  /\ mem' = [mem EXCEPT ![h] = Put(@, r)]
  /\ GoTo(h, "persist")
  /\ UNCHANGED <<file, current>>

(* A faulty DeleteRecord: it does not persist.                             *)
DeleteInMemory(h, i) ==
  /\ pc[h] = "idle"
  /\ mem' = [mem EXCEPT ![h] = Delete(@, i)]
  /\ UNCHANGED <<file, pc, current>>

(* delete persists only when it removed a record. *)
DeleteRecord(h, i) ==
  /\ pc[h] = "idle"
  /\ mem' = [mem EXCEPT ![h] = Delete(@, i)]
  /\ GoTo(h, IF mem'[h] # mem[h] THEN "persist" ELSE "idle")
  /\ UNCHANGED <<file, current>>

(* persist returns an error before the file is touched; the caller of put  *)
(* or delete is not told.                                                  *)
OpenFails(h) ==
  /\ "open_fails" \in Faults
  /\ pc[h] = "persist"
  /\ GoTo(h, "idle")
  /\ current' = current \ {h}
  /\ UNCHANGED <<file, mem>>

(* fs::write creates or truncates the file. *)
Truncate(h) ==
  /\ pc[h] = "persist"
  /\ file' = EmptyFile
  /\ GoTo(h, "write")
  /\ current' = {}
  /\ UNCHANGED mem

(* Writing to a file that another handle wrote since the truncation puts   *)
(* the new text over the beginning of the other.                           *)
WriteFile(h) ==
  /\ pc[h] = "write"
  /\ file' \in {ListOf(mem[h])} \cup {f \in {TornFile} : file # EmptyFile}
  /\ GoTo(h, "idle")
  /\ current' = {g \in {h} : file' = ListOf(mem[h])}
  /\ UNCHANGED mem

(* A failed write changes nothing, or leaves a part of the text.           *)
WriteFails(h) ==
  /\ "write_fails" \in Faults
  /\ pc[h] = "write"
  /\ file' \in {file, TornFile}
  /\ GoTo(h, "idle")
  /\ current' = {g \in current \ {h} : file' = file}
  /\ UNCHANGED mem

(* The process ends, between two calls or inside one. *)
Stop(h) ==
  /\ pc[h] \in {"idle", "persist"}
  /\ mem' = [mem EXCEPT ![h] = {}]
  /\ GoTo(h, "closed")
  /\ current' = current \ {h}
  /\ UNCHANGED file

CrashInWrite(h) ==
  /\ "crash_in_write" \in Faults
  /\ pc[h] = "write"
  /\ file' \in {file, TornFile}
  /\ mem' = [mem EXCEPT ![h] = {}]
  /\ GoTo(h, "closed")
  /\ current' = {g \in current \ {h} : file' = file}

Next ==
  \E h \in Handles :
    \/ Open(h)
    \/ \E r \in Records : PutRecord(h, r)
    \/ \E i \in Installs : DeleteRecord(h, i)
    \/ OpenFails(h)
    \/ Truncate(h)
    \/ WriteFile(h)
    \/ WriteFails(h)
    \/ Stop(h)
    \/ CrashInWrite(h)

Spec == Init /\ [][Next]_vars

-----------------------------------------------------------------------------
(* No handle and no readable file ever has two records of an installation, *)
(* whatever fails and however handles interleave.                          *)
OneRecordPerInstall ==
  /\ \A h \in Handles : UniqueInstalls(mem[h])
  /\ UniqueInstalls(file.records)

(* With several processes and every fault: a process that was the last to  *)
(* read or completely write the file since it changed answers, between its *)
(* calls, exactly what a new process would read.  Only a persist that      *)
(* failed, or another process's write, makes an answer differ from the     *)
(* file.                                                                   *)
MemoryIsCurrent ==
  \A h \in current : pc[h] = "idle" => Readable /\ mem[h] = Load

(* What a process that opens the file next will find, for a single handle: *)
(* a change takes effect when the file is truncated for it.                *)
Durable ==
  IF \E h \in Handles : pc[h] = "write"
  THEN mem[CHOOSE h \in Handles : pc[h] = "write"]
  ELSE Load

Contents == [i \in Installs |-> Get(Durable, i)]

Abstract == INSTANCE InstallMap WITH map <- Contents

(* With a single handle, no I/O error and no crash inside the write, the   *)
(* file is a durable map: it changes by whole puts and deletes only, and   *)
(* nothing put before a restart is lost by it.                             *)
ImplementsInstallMap == Abstract!Spec

(* Under the same conditions, a handle between two calls answers from      *)
(* memory exactly what a new process would read back from the file.        *)
IdleMeansPersisted ==
  \A h \in Handles : pc[h] = "idle" =>
    Readable /\ mem[h] = Load

-----------------------------------------------------------------------------
(* What the development notes promise, and the code does not do.           *)

(* .codex/GPROV-PR-02.md:66 "Install record persisted and can be           *)
(* retrieved": when every process has ended, a new one can open the file.  *)
FileCanBeReopened ==
  (\A h \in Handles : pc[h] = "closed") => Readable

===============================================================================
