-------------------------- MODULE MCFileInstallStore --------------------------
(* Installations and records for the runs of the file store. *)
EXTENDS FileInstallStore, TLC

Pieces == {"provision", "secrets", "unknown", "telegram", "i1", "i2"}

NoTenant == [f \in {"environment", "tenant", "team", "user"} |-> None]

InstallNamed(id) ==
  [tenant |-> NoTenant, provider_id |-> <<"telegram">>, install_id |-> <<id>>]

TwoInstalls == {InstallNamed(id) : id \in {"i1", "i2"}}

(* A record with a number of subscriptions. *)
RecordOf(i, n) ==
  [tenant |-> i.tenant, provider_id |-> i.provider_id,
   install_id |-> i.install_id, subscriptions |-> n]

TwoRecordsEach ==
  {RecordOf(i, n) : i \in TwoInstalls, n \in {"one", "two"}}

ThreeRecordsEach ==
  {RecordOf(i, n) : i \in TwoInstalls, n \in {"one", "two", "three"}}

HandleSymmetry == Permutations(Handles)
===============================================================================
