---------------------------- MODULE InstallRecords ---------------------------
(***************************************************************************)
(* The record list that InMemoryInstallStore and FileInstallStore keep,    *)
(* and the operations both implement on it with the same code (apply.rs).  *)
(*                                                                         *)
(* The Vec is modelled by the set of its records: its order shows only in  *)
(* the order of list().  put replaces the first match where the model      *)
(* replaces any match; OneRecordPerInstall says there is at most one.      *)
(***************************************************************************)
EXTENDS ProvisionIdentity

InstallOf(record) ==
  [tenant      |-> record.tenant,
   provider_id |-> record.provider_id,
   install_id  |-> record.install_id]

(* A faulty Matching: it does not compare the install id.                  *)
MatchingProvider(records, install) ==
  {r \in records : [InstallOf(r) EXCEPT !.install_id = install.install_id] = install}

Matching(records, install) == {r \in records : InstallOf(r) = install}

(* InstallStore::get *)
Get(records, install) ==
  IF Matching(records, install) = {} THEN None
  ELSE CHOOSE r \in Matching(records, install) : TRUE

(* A faulty Put: it does not look for a record that is there.              *)
PutWithoutSearch(records, record) == records \cup {record}

(* InstallStore::put *)
Put(records, record) ==
  IF Matching(records, InstallOf(record)) = {} THEN records \cup {record}
  ELSE LET existing == Get(records, InstallOf(record))
       IN  (records \ {existing}) \cup {record}

(* InstallStore::delete; it reports whether a record was removed. *)
Delete(records, install) == records \ Matching(records, install)

(* No two records are for the same installation. *)
UniqueInstalls(records) ==
  \A r, s \in records : InstallOf(r) = InstallOf(s) => r = s

=============================================================================
