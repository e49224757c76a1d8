------------------------------ MODULE InstallMap ------------------------------
(***************************************************************************)
(* What an InstallStore promises (the trait in apply.rs): a map from       *)
(* installations to their records, where put sets the entry of a record's  *)
(* installation and delete removes an entry.                               *)
(***************************************************************************)
EXTENDS InstallRecords

CONSTANTS
  Installs,   \* the installations
  Records     \* the records that may be put

VARIABLE map  \* installation -> its record, or None

Init == map = [i \in Installs |-> None]

PutRecord(r)    == map' = [map EXCEPT ![InstallOf(r)] = r]
DeleteRecord(i) == map' = [map EXCEPT ![i] = None]

Next ==
  \/ \E r \in Records : PutRecord(r)
  \/ \E i \in Installs : DeleteRecord(i)

Spec == Init /\ [][Next]_map

===============================================================================
