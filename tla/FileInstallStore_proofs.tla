----------------------- MODULE FileInstallStore_proofs -----------------------
EXTENDS FileInstallStore, InstallRecords_proofs

(* The file, the handles' memories and their positions keep their types.   *)
THEOREM TypeCorrect == Spec => []TypeOK
<1>1. Init => TypeOK
  BY DEF Init, TypeOK, NoFile, FileStates, Labels
<1>2. TypeOK /\ [Next]_vars => TypeOK'
  <2> SUFFICES ASSUME TypeOK, [Next]_vars PROVE TypeOK'
    OBVIOUS
  <2> USE DEF TypeOK, Labels, GoTo
  <2>1. ASSUME NEW h \in Handles, Open(h) PROVE TypeOK'
    BY <2>1 DEF Open, Load
  <2>2. ASSUME NEW h \in Handles, NEW r \in Records, PutRecord(h, r) PROVE TypeOK'
    <3>1. Put(mem[h], r) \subseteq Records
      BY PutStoresRecord
    <3> QED
      BY <2>2, <3>1 DEF PutRecord
  <2>3. ASSUME NEW h \in Handles, NEW i \in Installs, DeleteRecord(h, i)
        PROVE  TypeOK'
    <3>1. Delete(mem[h], i) \subseteq Records
      BY DEF Delete
    <3> QED
      BY <2>3, <3>1 DEF DeleteRecord
  <2>4. ASSUME NEW h \in Handles, OpenFails(h) PROVE TypeOK'
    BY <2>4 DEF OpenFails
  <2>5. ASSUME NEW h \in Handles, Truncate(h) PROVE TypeOK'
    BY <2>5 DEF Truncate, EmptyFile, FileStates
  <2>6. ASSUME NEW h \in Handles, WriteFile(h) PROVE TypeOK'
    BY <2>6 DEF WriteFile, ListOf, TornFile, FileStates
  <2>7. ASSUME NEW h \in Handles, WriteFails(h) PROVE TypeOK'
    BY <2>7 DEF WriteFails, TornFile, FileStates
  <2>8. ASSUME NEW h \in Handles, Stop(h) PROVE TypeOK'
    BY <2>8 DEF Stop
  <2>9. ASSUME NEW h \in Handles, CrashInWrite(h) PROVE TypeOK'
    BY <2>9 DEF CrashInWrite, TornFile, FileStates
  <2>10. CASE UNCHANGED vars
    BY <2>10 DEF vars
  <2> QED
    BY <2>1, <2>2, <2>3, <2>4, <2>5, <2>6, <2>7, <2>8, <2>9, <2>10 DEF Next
<1> QED
  BY <1>1, <1>2, PTL DEF Spec

(* Whatever fails and however many processes write the file, neither a     *)
(* memory nor the file has two records of one installation.                *)
THEOREM RecordsAreUnique == Spec => []OneRecordPerInstall
<1>1. Init => OneRecordPerInstall
  BY DEF Init, OneRecordPerInstall, UniqueInstalls, NoFile
<1>2. TypeOK /\ OneRecordPerInstall /\ [Next]_vars => OneRecordPerInstall'
  <2> SUFFICES ASSUME TypeOK, OneRecordPerInstall, [Next]_vars
               PROVE  OneRecordPerInstall'
    OBVIOUS
  <2>0. UniqueInstalls({})
    BY DEF UniqueInstalls
  <2> USE DEF OneRecordPerInstall, TypeOK
  <2>1. ASSUME NEW h \in Handles, Open(h) PROVE OneRecordPerInstall'
    BY <2>1 DEF Open, Load, UniqueInstalls
  <2>2. ASSUME NEW h \in Handles, NEW r \in Records, PutRecord(h, r)
        PROVE  OneRecordPerInstall'
    <3>1. UniqueInstalls(Put(mem[h], r))
      BY PutKeepsUnique
    <3> QED
      BY <2>2, <3>1 DEF PutRecord, UniqueInstalls
  <2>3. ASSUME NEW h \in Handles, NEW i \in Installs, DeleteRecord(h, i)
        PROVE  OneRecordPerInstall'
    <3>1. UniqueInstalls(Delete(mem[h], i))
      BY DeleteKeepsUnique
    <3> QED
      BY <2>3, <3>1 DEF DeleteRecord, UniqueInstalls
  <2>4. ASSUME NEW h \in Handles, OpenFails(h) PROVE OneRecordPerInstall'
    BY <2>4 DEF OpenFails, UniqueInstalls
  <2>5. ASSUME NEW h \in Handles, Truncate(h) PROVE OneRecordPerInstall'
    BY <2>0, <2>5 DEF Truncate, EmptyFile, UniqueInstalls
  <2>6. ASSUME NEW h \in Handles, WriteFile(h) PROVE OneRecordPerInstall'
    BY <2>0, <2>6 DEF WriteFile, ListOf, TornFile, UniqueInstalls
  <2>7. ASSUME NEW h \in Handles, WriteFails(h) PROVE OneRecordPerInstall'
    BY <2>0, <2>7 DEF WriteFails, TornFile, UniqueInstalls
  <2>8. ASSUME NEW h \in Handles, Stop(h) PROVE OneRecordPerInstall'
    BY <2>0, <2>8 DEF Stop, UniqueInstalls
  <2>9. ASSUME NEW h \in Handles, CrashInWrite(h) PROVE OneRecordPerInstall'
    BY <2>0, <2>9 DEF CrashInWrite, TornFile, UniqueInstalls
  <2>10. CASE UNCHANGED vars
    BY <2>10 DEF vars, UniqueInstalls
  <2> QED
    BY <2>1, <2>2, <2>3, <2>4, <2>5, <2>6, <2>7, <2>8, <2>9, <2>10 DEF Next
<1> QED
  BY <1>1, <1>2, TypeCorrect, PTL DEF Spec

(* However many processes write the file and whatever fails, a process that *)
(* was the last to read or to write the file whole answers what it holds.  *)
THEOREM MemoryAgreesWithFile == Spec => []MemoryIsCurrent
<1>1. Init => MemoryIsCurrent
  BY DEF Init, MemoryIsCurrent
<1>2. TypeOK /\ MemoryIsCurrent /\ [Next]_vars => MemoryIsCurrent'
  <2> SUFFICES ASSUME TypeOK, MemoryIsCurrent, [Next]_vars,
                      NEW g \in current', pc'[g] = "idle"
               PROVE  Readable' /\ mem'[g] = Load'
    BY DEF MemoryIsCurrent
  <2> USE DEF MemoryIsCurrent, TypeOK, GoTo, Readable, Load
  <2>1. ASSUME NEW h \in Handles, Open(h) PROVE Readable' /\ mem'[g] = Load'
    BY <2>1 DEF Open
  <2>2. ASSUME NEW h \in Handles, NEW r \in Records, PutRecord(h, r)
        PROVE  Readable' /\ mem'[g] = Load'
    BY <2>2 DEF PutRecord
  <2>3. ASSUME NEW h \in Handles, NEW i \in Installs, DeleteRecord(h, i)
        PROVE  Readable' /\ mem'[g] = Load'
    BY <2>3 DEF DeleteRecord
  <2>4. ASSUME NEW h \in Handles, OpenFails(h) \/ Stop(h)
        PROVE  Readable' /\ mem'[g] = Load'
    BY <2>4 DEF OpenFails, Stop
  <2>5. ASSUME NEW h \in Handles, Truncate(h) PROVE FALSE
    BY <2>5 DEF Truncate
  <2>6. ASSUME NEW h \in Handles, WriteFile(h)
        PROVE  Readable' /\ mem'[g] = Load'
    BY <2>6 DEF WriteFile, ListOf
  <2>7. ASSUME NEW h \in Handles, WriteFails(h) \/ CrashInWrite(h)
        PROVE  Readable' /\ mem'[g] = Load'
    BY <2>7 DEF WriteFails, CrashInWrite
  <2>8. CASE UNCHANGED vars
    BY <2>8 DEF vars
  <2> QED
    BY <2>1, <2>2, <2>3, <2>4, <2>5, <2>6, <2>7, <2>8 DEF Next
<1> QED
  BY <1>1, <1>2, TypeCorrect, PTL DEF Spec

-----------------------------------------------------------------------------
(* The single-handle, fault-free case: the file is at most one change      *)
(* behind the memory, and only inside the call that makes the change.      *)
OneHandle == \A g, h \in Handles : g = h

OneChange(before, after) ==
  \/ \E r \in Records : after = Put(before, r)
  \/ \E i \in Installs : after = Delete(before, i)

InStep(h) ==
  /\ pc[h] = "idle"    => Readable /\ mem[h] = Load
  /\ pc[h] = "persist" => Readable /\ OneChange(Load, mem[h])
  /\ pc[h] = "closed"  => Readable
  /\ pc[h] = "write"   => file = EmptyFile

FileFollowsMemory == \A h \in Handles : InStep(h)

(* The file follows the memory in every reachable state.                   *)
LEMMA FileFollows ==
  ASSUME OneHandle, Faults = {}
  PROVE  Spec => []FileFollowsMemory
<1>1. Init => FileFollowsMemory
  BY DEF Init, FileFollowsMemory, InStep, Readable, NoFile
<1>2. TypeOK /\ FileFollowsMemory /\ [Next]_vars => FileFollowsMemory'
  <2> SUFFICES ASSUME TypeOK, FileFollowsMemory, [Next]_vars,
                      NEW g \in Handles
               PROVE  InStep(g)'
    BY DEF FileFollowsMemory
  <2>0. InStep(g) /\ \A h \in Handles : h = g
    BY DEF FileFollowsMemory, OneHandle
  <2> USE DEF TypeOK, GoTo, Readable, Load, InStep
  <2>1. ASSUME Open(g) PROVE InStep(g)'
    BY <2>0, <2>1 DEF Open
  <2>2. ASSUME NEW r \in Records, PutRecord(g, r) PROVE InStep(g)'
    BY <2>0, <2>2 DEF PutRecord, OneChange
  <2>3. ASSUME NEW i \in Installs, DeleteRecord(g, i) PROVE InStep(g)'
    BY <2>0, <2>3 DEF DeleteRecord, OneChange
  <2>4. ASSUME Truncate(g) PROVE InStep(g)'
    BY <2>0, <2>4 DEF Truncate
  <2>5. ASSUME WriteFile(g) PROVE InStep(g)'
    BY <2>0, <2>5 DEF WriteFile, ListOf
  <2>6. ASSUME Stop(g) PROVE InStep(g)'
    BY <2>0, <2>6 DEF Stop
  <2>7. CASE UNCHANGED vars
    BY <2>0, <2>7 DEF vars, OneChange
  <2> QED
    BY <2>0, <2>1, <2>2, <2>3, <2>4, <2>5, <2>6, <2>7
    DEF Next, OpenFails, WriteFails, CrashInWrite
<1> QED
  BY <1>1, <1>2, TypeCorrect, PTL DEF Spec

(* What breaks the promise that a new process can open the file is a fault *)
(* inside the write, or a second process: without either the file is a     *)
(* list of records or absent between writes, even when opening it fails,   *)
(* and wherever else the process stops.                                    *)
THEOREM WholeWritesCanBeReopened ==
  ASSUME OneHandle, Faults \subseteq {"open_fails"}
  PROVE  Spec => []FileCanBeReopened
<1> DEFINE Writing == \E h \in Handles : pc[h] = "write"
           Inv     == IF Writing THEN file = EmptyFile ELSE Readable
<1>1. Init => Inv
  BY DEF Init, Readable, NoFile
<1>2. TypeOK /\ Inv /\ [Next]_vars => Inv'
  <2> SUFFICES ASSUME TypeOK, Inv, [Next]_vars PROVE Inv'
    OBVIOUS
  <2>1. CASE UNCHANGED vars
    BY <2>1 DEF vars, Readable
  <2>2. CASE \E h \in Handles : Truncate(h)
    BY <2>2 DEF Truncate, GoTo, TypeOK
  <2>3. CASE \E h \in Handles : WriteFile(h)
    <3>1. PICK h \in Handles : WriteFile(h)
      BY <2>3
    <3>2. file' = ListOf(mem[h])
      BY <3>1 DEF WriteFile
    <3>3. ~Writing'
      BY <3>1 DEF WriteFile, GoTo, TypeOK, OneHandle
    <3> QED
      BY <3>2, <3>3 DEF ListOf, Readable
  <2>4. CASE \E h \in Handles :
               \/ Open(h) \/ OpenFails(h) \/ Stop(h)
               \/ \E r \in Records : PutRecord(h, r)
               \/ \E i \in Installs : DeleteRecord(h, i)
    <3>1. PICK h \in Handles : /\ pc[h] # "write"
                              /\ \E l \in Labels \ {"write"} : GoTo(h, l)
      BY <2>4 DEF Open, OpenFails, Stop, PutRecord, DeleteRecord, Labels
    <3>2. UNCHANGED file
      BY <2>4 DEF Open, OpenFails, Stop, PutRecord, DeleteRecord
    <3>3. ~Writing /\ ~Writing'
      BY <3>1 DEF GoTo, TypeOK, OneHandle
    <3> QED
      BY <3>2, <3>3 DEF Readable
  <2> QED
    BY <2>1, <2>2, <2>3, <2>4 DEF Next, WriteFails, CrashInWrite
<1>3. Inv => FileCanBeReopened
  BY DEF FileCanBeReopened
<1> QED
  BY <1>1, <1>2, <1>3, TypeCorrect, PTL DEF Spec

(* A single handle without faults answers from memory what is in the file. *)
THEOREM MemoryIsPersisted ==
  ASSUME OneHandle, Faults = {}
  PROVE  Spec => []IdleMeansPersisted
<1>1. FileFollowsMemory => IdleMeansPersisted
  BY DEF FileFollowsMemory, InStep, IdleMeansPersisted
<1> QED
  BY <1>1, FileFollows, PTL

(* A single handle without faults makes the file a durable map: restarts   *)
(* lose nothing that put returned from, and keep nothing that delete       *)
(* removed.                                                                *)
THEOREM FileIsDurableMap ==
  ASSUME OneHandle, Faults = {}
  PROVE  Spec => ImplementsInstallMap
<1>1. Init => Abstract!Init
  <2> SUFFICES ASSUME Init PROVE Abstract!Init
    OBVIOUS
  <2>1. Durable = {}
    BY DEF Init, Durable, Load, NoFile
  <2> QED
    BY <2>1 DEF Abstract!Init, Contents, Get, Matching
<1>2. TypeOK /\ OneRecordPerInstall /\ FileFollowsMemory /\ [Next]_vars
        => [Abstract!Next]_Contents
  <2> SUFFICES ASSUME TypeOK, OneRecordPerInstall, FileFollowsMemory, [Next]_vars
               PROVE  [Abstract!Next]_Contents
    OBVIOUS
  <2>1. ASSUME NEW h \in Handles
        PROVE  /\ Durable  = IF pc[h] = "write" THEN mem[h] ELSE Load
               /\ Durable' = IF pc'[h] = "write" THEN mem'[h] ELSE Load'
    BY DEF OneHandle, Durable, Load
  <2>2. ASSUME NEW h \in Handles, Truncate(h) PROVE Abstract!Next
    <3>1. /\ Durable = Load
          /\ Durable' = mem[h]
          /\ OneChange(Load, mem[h])
      BY <2>1, <2>2 DEF Truncate, GoTo, FileFollowsMemory, InStep, TypeOK
    <3>2. UniqueInstalls(Durable)
      BY <3>1 DEF OneRecordPerInstall, Load
    <3>3. CASE \E r \in Records : mem[h] = Put(Load, r)
      <4>1. PICK r \in Records : Durable' = Put(Durable, r)
        BY <3>1, <3>3
      <4>2. PICK j \in Installs : j = InstallOf(r)
        BY RecordsAssumption
      <4>3. \A i \in Installs : Get(Durable', i) =
              IF i = j THEN r ELSE Get(Durable, i)
        BY <3>2, <4>1, <4>2, GetAfterPut
      <4>4. Contents' = [Contents EXCEPT ![j] = r]
        BY <4>3, Zenon DEF Contents
      <4>5. Abstract!InstallOf(r) = j
        BY <4>2 DEF Abstract!InstallOf, InstallOf
      <4> QED
        BY <4>4, <4>5 DEF Abstract!Next, Abstract!PutRecord
    <3>4. CASE \E j \in Installs : mem[h] = Delete(Load, j)
      <4>1. PICK j \in Installs : Durable' = Delete(Durable, j)
        BY <3>1, <3>4
      <4>2. \A i \in Installs : Get(Durable', i) =
              IF i = j THEN None ELSE Get(Durable, i)
        BY <4>1, GetAfterDelete
      <4>3. Contents' = [Contents EXCEPT ![j] = None]
        BY <4>2, Zenon DEF Contents
      <4> QED
        BY <4>3 DEF Abstract!Next, Abstract!DeleteRecord
    <3> QED
      BY <3>1, <3>3, <3>4 DEF OneChange
  <2>3. ASSUME NEW h \in Handles, ~Truncate(h) PROVE Durable' = Durable
    <3>1. CASE UNCHANGED vars
      BY <3>1 DEF vars, Durable, Load
    <3>2. CASE Open(h) \/ Stop(h)
      BY <2>1, <3>2 DEF Open, Stop, GoTo, Load, TypeOK
    <3>3. CASE \E r \in Records : PutRecord(h, r)
      BY <2>1, <3>3 DEF PutRecord, GoTo, Load, TypeOK
    <3>4. CASE \E i \in Installs : DeleteRecord(h, i)
      BY <2>1, <3>4 DEF DeleteRecord, GoTo, Load, TypeOK
    <3>5. CASE WriteFile(h)
      BY <2>1, <3>5
      DEF WriteFile, GoTo, Load, TypeOK, FileFollowsMemory, InStep, ListOf
    <3> QED
      BY <2>3, <3>1, <3>2, <3>3, <3>4, <3>5
      DEF Next, OneHandle, OpenFails, WriteFails, CrashInWrite
  <2>4. CASE UNCHANGED vars
    BY <2>4 DEF vars, Contents, Durable, Load
  <2>5. CASE ~ UNCHANGED vars
    <3>1. PICK h \in Handles : TRUE
      BY <2>5 DEF Next
    <3>2. CASE Truncate(h)
      BY <2>2, <3>2
    <3>3. CASE ~Truncate(h)
      BY <2>3, <3>3 DEF Contents
    <3> QED
      BY <3>2, <3>3
  <2> QED
    BY <2>4, <2>5
<1> QED
  BY <1>1, <1>2, TypeCorrect, RecordsAreUnique, FileFollows, PTL
  DEF Spec, ImplementsInstallMap, Abstract!Spec

=============================================================================
