---------------------------- MODULE ProvisionPlan ----------------------------
(***************************************************************************)
(* The plan a provisioning run produces, and how the patches that the      *)
(* steps emit are merged into it (crates/greentic-provision-core/src/      *)
(* types.rs).                                                              *)
(*                                                                         *)
(* A plan is a record with one entry per field of ProvisionPlan; the two   *)
(* halves of secrets_patch are fields of their own.  A map (BTreeMap) is a *)
(* function on the keys it holds, a Vec is a sequence.  A patch            *)
(* (ProvisionPlanPatch) has only the fields that are Some(..): a field     *)
(* outside its domain is None.                                             *)
(***************************************************************************)
EXTENDS Sequences

MapFields  == {"config_patch", "secrets_set"}
ListFields == {"secrets_delete", "webhook_ops", "subscription_ops",
               "oauth_ops", "notes"}
PlanFields == MapFields \cup ListFields

(* ProvisionPlan::default(): every map and every list is empty. *)
DefaultPlan == [f \in PlanFields |-> << >>]

(* A faulty Extend: a key that is already there keeps its value.           *)
ExtendKeeping(map, patch) ==
  [k \in DOMAIN map \cup DOMAIN patch |->
     IF k \in DOMAIN map THEN map[k] ELSE patch[k]]

(* BTreeMap::extend: the patch overwrites the keys that it repeats.        *)
(* (TLC's f @@ g, defined here because the provers do not know it.)        *)
Extend(map, patch) ==
  [k \in DOMAIN map \cup DOMAIN patch |->
     IF k \in DOMAIN patch THEN patch[k] ELSE map[k]]

(* A faulty MergePatch: a later list replaces an earlier one.              *)
MergePatchReplacing(plan, patch) ==
  [f \in PlanFields |->
     IF f \notin DOMAIN patch  THEN plan[f]
     ELSE IF f \in MapFields   THEN Extend(plan[f], patch[f])
     ELSE patch[f]]

(***************************************************************************)
(* ProvisionPlan::merge_patch extends the maps; Vec::extend appends.       *)
(***************************************************************************)
MergePatch(plan, patch) ==
  [f \in PlanFields |->
     IF f \notin DOMAIN patch  THEN plan[f]
     ELSE IF f \in MapFields   THEN Extend(plan[f], patch[f])
     ELSE plan[f] \o patch[f]]

=============================================================================
