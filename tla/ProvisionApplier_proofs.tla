----------------------- MODULE ProvisionApplier_proofs -----------------------
EXTENDS ProvisionApplier, InstallRecords_proofs

(* BTreeMap::extend keeps the types of the map's keys and values: the      *)
(* merge of two maps is a map.                                             *)
LEMMA MergeIsMap ==
  ASSUME NEW K, NEW V, NEW f \in PartialMap(K, V), NEW g \in PartialMap(K, V)
  PROVE  /\ Extend(f, g) \in PartialMap(K, V)
         /\ DOMAIN Extend(f, g) = DOMAIN f \cup DOMAIN g
<1>1. /\ DOMAIN f \subseteq K
      /\ DOMAIN g \subseteq K
      /\ f \in [DOMAIN f -> V]
      /\ g \in [DOMAIN g -> V]
  BY DEF PartialMap
<1>2. Extend(f, g) \in [DOMAIN f \cup DOMAIN g -> V]
  BY <1>1 DEF Extend
<1>3. DOMAIN f \cup DOMAIN g \in SUBSET K
  BY <1>1
<1> QED
  BY <1>2, <1>3 DEF PartialMap

(* set_secret and delete_secret keep the types of a namespace's entries.   *)
LEMMA SetKeyIsMap ==
  ASSUME NEW K, NEW V, NEW f \in PartialMap(K, V), NEW k \in K, NEW v \in V
  PROVE  SetKey(f, k, v) \in PartialMap(K, V)
<1>1. [key \in {k} |-> v] \in [{k} -> V]
  OBVIOUS
<1>2. [key \in {k} |-> v] \in PartialMap(K, V)
  BY <1>1 DEF PartialMap
<1> QED
  BY <1>2, MergeIsMap DEF SetKey

(* Deleting a secret leaves a map of the same keys and values.             *)
LEMMA DeleteKeyIsMap ==
  ASSUME NEW K, NEW V, NEW f \in PartialMap(K, V), NEW k
  PROVE  DeleteKey(f, k) \in PartialMap(K, V)
<1>1. f \in [DOMAIN f -> V] /\ DOMAIN f \subseteq K
  BY DEF PartialMap
<1>2. DeleteKey(f, k) \in [DOMAIN f \ {k} -> V]
  BY <1>1 DEF DeleteKey
<1>3. DOMAIN f \ {k} \in SUBSET K
  BY <1>1
<1> QED
  BY <1>2, <1>3 DEF PartialMap

(* A namespace that nothing was written to is a map.                       *)
LEMMA EmptyIsMap ==
  ASSUME NEW K, NEW V
  PROVE  EmptyMap \in PartialMap(K, V)
<1>1. EmptyMap \in [{} -> V]
  BY DEF EmptyMap
<1> QED
  BY <1>1 DEF PartialMap

-----------------------------------------------------------------------------
(* An applier inside apply has a plan, with fields of the types that the   *)
(* code gives them.                                                        *)
LEMMA PlanFieldTypes ==
  ASSUME TypeOK, NEW a \in Appliers, pc[a] # "idle"
  PROVE  /\ call[a] \in Call
         /\ PlanOf(a) \in Plans
         /\ PlanOf(a).config_patch \in PartialMap(Key, Value)
         /\ DOMAIN PlanOf(a).config_patch \subseteq Key
         /\ PlanOf(a).secrets_set \in PartialMap(Key, RedactedValue)
         /\ DOMAIN PlanOf(a).secrets_set \subseteq Key
         /\ PlanOf(a).secrets_delete \in Seq(Key)
         /\ PlanOf(a).oauth_ops \in Seq(OAuthOp)
<1>1. call[a] \in Call
  BY DEF TypeOK, LocalsOK
<1>2. PlanOf(a) \in Plans
  BY <1>1 DEF Call, PlanOf
<1>3. /\ PlanOf(a).config_patch \in PartialMap(Key, Value)
      /\ PlanOf(a).secrets_set \in PartialMap(Key, RedactedValue)
      /\ PlanOf(a).secrets_delete \in Seq(Key)
      /\ PlanOf(a).oauth_ops \in Seq(OAuthOp)
  BY <1>2, PlansAssumption
<1> QED
  BY <1>1, <1>2, <1>3 DEF PartialMap

(* A key that set_secret is called for has a secret as its value.          *)
LEMMA SettableValueIsSecret ==
  ASSUME TypeOK, NEW a \in Appliers, pc[a] # "idle",
         NEW k \in SettableKeys(PlanOf(a))
  PROVE  /\ k \in Key
         /\ RedactedToValue(PlanOf(a).secrets_set[k]) \in Secret
<1>1. /\ PlanOf(a).secrets_set \in PartialMap(Key, RedactedValue)
      /\ DOMAIN PlanOf(a).secrets_set \subseteq Key
  BY PlanFieldTypes
<1>2. PlanOf(a).secrets_set[k] \in RedactedValue
  BY <1>1 DEF PartialMap, SettableKeys
<1> QED
  BY <1>1, <1>2 DEF SettableKeys, RedactedToValue, RedactedValue

(* For any installations, plans and grants, the stores hold maps and       *)
(* records of this program, and an applier has what its next call needs:   *)
(* a call inside apply, a granted token set when it stores tokens.         *)
THEOREM TypeCorrect == Spec => []TypeOK
<1>1. Init => TypeOK
  <2> SUFFICES ASSUME Init PROVE TypeOK
    OBVIOUS
  <2>1. config \in [{ConfigNs(a) : a \in Appliers} -> PartialMap(Key, Value)]
    BY EmptyIsMap DEF Init
  <2>2. secrets \in [{SecretsNs(a) : a \in Appliers} -> PartialMap(Key, Secret)]
    BY EmptyIsMap DEF Init
  <2>3. EmptyReport \in Report
    BY DEF EmptyReport, Report
  <2>4. \A a \in Appliers : LocalsOK(a)
    BY DEF Init, LocalsOK
  <2> QED
    BY <2>1, <2>2, <2>3, <2>4 DEF Init, TypeOK, Labels
<1>2. TypeOK /\ [Next]_vars => TypeOK'
  <2> SUFFICES ASSUME TypeOK, [Next]_vars PROVE TypeOK'
    OBVIOUS
  <2>0. ASSUME UNCHANGED vars PROVE TypeOK'
    BY <2>0 DEF vars, TypeOK, LocalsOK, LastGrant, PlanOf
  <2>1. ASSUME NEW a \in Appliers, NEW p \in Plans, NEW mode \in ApplyMode,
               Begin(a, p, mode)
        PROVE  TypeOK'
    <3>1. [plan |-> p, mode |-> mode] \in Call
      BY DEF Call
    <3>2. EmptyReport \in Report
      BY DEF EmptyReport, Report
    <3>3. \A b \in Appliers : LocalsOK(b)'
      BY <2>1, <3>1 DEF Begin, GoTo, TypeOK, LocalsOK, LastGrant, PlanOf
    <3> QED
      BY <2>1, <3>1, <3>2, <3>3 DEF Begin, GoTo, TypeOK, Labels
  <2>2. ASSUME NEW a \in Appliers, PlanChanges(a) PROVE TypeOK'
    <3>1. report' \in [Appliers -> Report]
      <4> DEFINE p == PlanOf(a)
      <4>1. /\ DOMAIN p.config_patch \subseteq Key
            /\ DOMAIN p.secrets_set \subseteq Key
            /\ p.secrets_delete \in Seq(Key)
        BY <2>2, PlanFieldTypes DEF PlanChanges
      <4>2. report' = [report EXCEPT
              ![a] = [@ EXCEPT !.config_changes      = DOMAIN p.config_patch,
                               !.secret_set_keys     = DOMAIN p.secrets_set,
                               !.secret_deleted_keys = p.secrets_delete]]
        BY <2>2 DEF PlanChanges, TypeOK
      <4> HIDE DEF p
      <4> QED
        BY <4>1, <4>2 DEF TypeOK, Report
    <3>2. \A b \in Appliers : LocalsOK(b)'
      BY <2>2 DEF PlanChanges, GoTo, TypeOK, LocalsOK, LastGrant, PlanOf
    <3> QED
      BY <2>2, <3>1, <3>2 DEF PlanChanges, GoTo, TypeOK, Labels
  <2>3. ASSUME NEW a \in Appliers, ApplyConfig(a) PROVE TypeOK'
    <3>1. config' \in [{ConfigNs(b) : b \in Appliers} -> PartialMap(Key, Value)]
      BY <2>3, PlanFieldTypes, MergeIsMap DEF ApplyConfig, ApplyPatch, TypeOK
    <3>2. report' \in [Appliers -> Report]
      BY <2>3, PlanFieldTypes DEF ApplyConfig, TypeOK, Report
    <3>3. \A b \in Appliers : LocalsOK(b)'
      BY <2>3 DEF ApplyConfig, GoTo, TypeOK, LocalsOK, LastGrant, PlanOf
    <3> QED
      BY <2>3, <3>1, <3>2, <3>3 DEF ApplyConfig, GoTo, TypeOK, Labels
  <2>4. ASSUME NEW a \in Appliers, SetSecret(a) PROVE TypeOK'
    <3>1. PICK k \in SettableKeys(PlanOf(a)) \ report[a].secret_set_keys :
            /\ secrets' = [secrets EXCEPT
                 ![SecretsNs(a)] =
                   SetKey(@, k, RedactedToValue(PlanOf(a).secrets_set[k]))]
            /\ report' = [report EXCEPT ![a].secret_set_keys = @ \cup {k}]
      BY <2>4 DEF SetSecret
    <3>2. k \in Key /\ RedactedToValue(PlanOf(a).secrets_set[k]) \in Secret
      BY <2>4, SettableValueIsSecret DEF SetSecret
    <3>3. secrets' \in [{SecretsNs(b) : b \in Appliers} -> PartialMap(Key, Secret)]
      BY <3>1, <3>2, SetKeyIsMap DEF TypeOK
    <3>4. report' \in [Appliers -> Report]
      BY <3>1, <3>2 DEF TypeOK, Report
    <3>5. \A b \in Appliers : LocalsOK(b)'
      BY <2>4 DEF SetSecret, TypeOK, LocalsOK, LastGrant, PlanOf
    <3> QED
      BY <2>4, <3>3, <3>4, <3>5 DEF SetSecret, TypeOK
  <2>5. ASSUME NEW a \in Appliers, DeleteSecret(a) PROVE TypeOK'
    <3> DEFINE k == PlanOf(a).secrets_delete[NextDelete(a)]
    <3>1. report[a].secret_deleted_keys \in Seq(Key)
      BY DEF TypeOK, Report
    <3>2. k \in Key
      BY <2>5, <3>1, PlanFieldTypes DEF DeleteSecret, NextDelete
    <3>3. secrets' \in [{SecretsNs(b) : b \in Appliers} -> PartialMap(Key, Secret)]
      BY <2>5, DeleteKeyIsMap DEF DeleteSecret, TypeOK
    <3>4. Append(report[a].secret_deleted_keys, k) \in Seq(Key)
      BY <3>1, <3>2
    <3>5. report' = [report EXCEPT ![a].secret_deleted_keys = Append(@, k)]
      BY <2>5 DEF DeleteSecret
    <3>6. report' \in [Appliers -> Report]
      <4> HIDE DEF k
      <4> QED BY <3>4, <3>5 DEF TypeOK, Report
    <3>7. \A b \in Appliers : LocalsOK(b)'
      BY <2>5 DEF DeleteSecret, TypeOK, LocalsOK, LastGrant, PlanOf
    <3> QED
      BY <2>5, <3>3, <3>6, <3>7 DEF DeleteSecret, TypeOK
  <2>6. ASSUME NEW a \in Appliers, RecordInstall(a) PROVE TypeOK'
    <3>1. InstallRecord(a, PlanOf(a)) \in Record
      BY <2>6, PlanFieldTypes DEF RecordInstall, Record
    <3>2. records' \subseteq Record
      <4> HIDE DEF Record
      <4> QED BY <2>6, <3>1 DEF RecordInstall, Put, TypeOK
    <3>3. report' \in [Appliers -> Report]
      <4> HIDE DEF Record, InstallRecord
      <4> QED BY <2>6, <3>1 DEF RecordInstall, TypeOK, Report
    <3>4. \A b \in Appliers : LocalsOK(b)'
      BY <2>6 DEF RecordInstall, GoTo, TypeOK, LocalsOK, LastGrant, PlanOf
    <3> QED
      BY <2>6, <3>2, <3>3, <3>4 DEF RecordInstall, GoTo, TypeOK, Labels
  <2>7. ASSUME NEW a \in Appliers, PushOAuthOp(a)
        PROVE  report' \in [Appliers -> Report]
    <3> DEFINE op == PlanOf(a).oauth_ops[NextOAuthOp(a)]
    <3>1. report[a].oauth_ops \in Seq(OAuthOp)
      BY DEF TypeOK, Report
    <3>2. op \in OAuthOp
      BY <2>7, <3>1, PlanFieldTypes DEF PushOAuthOp, NextOAuthOp
    <3>3. Append(report[a].oauth_ops, op) \in Seq(OAuthOp)
      BY <3>1, <3>2
    <3>4. report' = [report EXCEPT ![a].oauth_ops = Append(@, op)]
      BY <2>7 DEF PushOAuthOp
    <3> HIDE DEF op
    <3> QED
      BY <3>3, <3>4 DEF TypeOK, Report
  <2>8. ASSUME NEW a \in Appliers, ListOAuthOp(a) PROVE TypeOK'
    <3>1. report' \in [Appliers -> Report]
      BY <2>7, <2>8 DEF ListOAuthOp
    <3>2. \A b \in Appliers : LocalsOK(b)'
      BY <2>8 DEF ListOAuthOp, PushOAuthOp, TypeOK, LocalsOK, LastGrant, PlanOf
    <3> QED
      BY <2>8, <3>1, <3>2 DEF ListOAuthOp, PushOAuthOp, TypeOK
  <2>9. ASSUME NEW a \in Appliers, StartOAuth(a) PROVE TypeOK'
    <3>1. PICK grant \in TokenSets \cup {None} :
            /\ grants' = [grants EXCEPT ![a] = Append(@, grant)]
            /\ GoTo(a, IF grant = None THEN "oauth" ELSE "access_token")
      BY <2>9 DEF StartOAuth
    <3>2. grants[a] \in Seq(TokenSets \cup {None})
      BY DEF TypeOK
    <3>3. /\ grants'[a] = Append(grants[a], grant)
          /\ grants' \in [Appliers -> Seq(TokenSets \cup {None})]
      BY <3>1, <3>2 DEF TypeOK
    <3>4. grants'[a] # << >> /\ LastGrant(a)' = grant
      BY <3>2, <3>3 DEF LastGrant
    <3>5. report' \in [Appliers -> Report]
      BY <2>7, <2>9 DEF StartOAuth
    <3>7. PlanOf(a).oauth_ops # << >>
      <4>1. NextOAuthOp(a) >= 1
        BY DEF NextOAuthOp, TypeOK, Report
      <4> QED
        BY <2>9, <4>1, PlanFieldTypes DEF StartOAuth, PushOAuthOp, NextOAuthOp
    <3>6. ASSUME NEW b \in Appliers PROVE LocalsOK(b)'
      <4>1. CASE b = a
        BY <2>9, <3>1, <3>4, <3>7, <4>1
        DEF StartOAuth, PushOAuthOp, InMode, PlanOf, GoTo, TypeOK, LocalsOK
      <4>2. CASE b # a
        BY <2>9, <3>1, <4>2
        DEF StartOAuth, PushOAuthOp, GoTo, TypeOK, LocalsOK, LastGrant, PlanOf
      <4> QED
        BY <4>1, <4>2
    <3> QED
      BY <2>9, <3>1, <3>3, <3>5, <3>6
      DEF StartOAuth, PushOAuthOp, GoTo, TypeOK, Labels
  <2>10. ASSUME NEW a \in Appliers, StoreAccessToken(a) PROVE TypeOK'
    <3>1. LastGrant(a) \in OAuthTokenSet
      BY <2>10, TokenSetsAssumption DEF StoreAccessToken, TypeOK, LocalsOK
    <3>2. AccessTokenKey \in Key /\ LastGrant(a).access_token \in Secret
      BY <3>1, KeysAssumption DEF OAuthTokenSet
    <3>3. secrets' \in [{SecretsNs(b) : b \in Appliers} -> PartialMap(Key, Secret)]
      BY <2>10, <3>2, SetKeyIsMap DEF StoreAccessToken, TypeOK
    <3>4. \A b \in Appliers : LocalsOK(b)'
      BY <2>10 DEF StoreAccessToken, GoTo, TypeOK, LocalsOK, LastGrant, PlanOf
    <3> QED
      BY <2>10, <3>3, <3>4 DEF StoreAccessToken, GoTo, TypeOK, Labels
  <2>11. ASSUME NEW a \in Appliers, StoreRefreshToken(a) PROVE TypeOK'
    <3>1. LastGrant(a) \in OAuthTokenSet /\ LastGrant(a).refresh_token # None
      BY <2>11, TokenSetsAssumption DEF StoreRefreshToken, TypeOK, LocalsOK
    <3>2. RefreshTokenKey \in Key /\ LastGrant(a).refresh_token \in Secret
      BY <3>1, KeysAssumption DEF OAuthTokenSet
    <3>3. secrets' \in [{SecretsNs(b) : b \in Appliers} -> PartialMap(Key, Secret)]
      BY <2>11, <3>2, SetKeyIsMap DEF StoreRefreshToken, TypeOK
    <3>4. \A b \in Appliers : LocalsOK(b)'
      BY <2>11 DEF StoreRefreshToken, GoTo, TypeOK, LocalsOK, LastGrant, PlanOf
    <3> QED
      BY <2>11, <3>3, <3>4 DEF StoreRefreshToken, GoTo, TypeOK, Labels
  <2>12. ASSUME NEW a \in Appliers, Return(a) PROVE TypeOK'
    BY <2>12 DEF Return, GoTo, TypeOK, LocalsOK, LastGrant, PlanOf, Labels
  <2>13. ASSUME NEW a \in Appliers, Crash(a) PROVE TypeOK'
    <3>1. EmptyReport \in Report
      BY DEF EmptyReport, Report
    <3>2. \A b \in Appliers : LocalsOK(b)'
      BY <2>13 DEF Crash, GoTo, TypeOK, LocalsOK, LastGrant, PlanOf
    <3> QED
      BY <2>13, <3>1, <3>2 DEF Crash, GoTo, TypeOK, Labels
  <2> QED
    BY <2>0, <2>1, <2>2, <2>3, <2>4, <2>5, <2>6, <2>8, <2>9, <2>10, <2>11,
       <2>12, <2>13 DEF Next
<1> QED
  BY <1>1, <1>2, PTL DEF Spec

-----------------------------------------------------------------------------
(* RecordedInstallIsConfigured is inductive together with the fact that an *)
(* applier past its config step has its plan's keys in the config store.   *)
ConfiguredOnceApplied ==
  \A a \in Appliers :
    pc[a] \notin {"idle", "changes"} /\ InMode(a, "apply") =>
      DOMAIN PlanOf(a).config_patch \subseteq DOMAIN config[ConfigNs(a)]

(* No call of the program removes a key from the config store.             *)
LEMMA ConfigKeysPersist ==
  ASSUME TypeOK, [Next]_vars
  PROVE  /\ DOMAIN config' = DOMAIN config
         /\ \A ns \in DOMAIN config : DOMAIN config[ns] \subseteq DOMAIN config'[ns]
<1>1. ASSUME NEW a \in Appliers, ApplyConfig(a)
      PROVE  /\ DOMAIN config' = DOMAIN config
             /\ \A ns \in DOMAIN config :
                  DOMAIN config[ns] \subseteq DOMAIN config'[ns]
  BY <1>1 DEF ApplyConfig, ApplyPatch, Extend, TypeOK
<1>2. CASE \E a \in Appliers : ApplyConfig(a)
  BY <1>1, <1>2
<1>3. CASE ~ \E a \in Appliers : ApplyConfig(a)
  <2>1. UNCHANGED config
    BY <1>3 DEF Next, vars, Begin, PlanChanges, SetSecret, DeleteSecret,
       RecordInstall, ListOAuthOp, PushOAuthOp, StartOAuth, StoreAccessToken,
       StoreRefreshToken, Return, Crash
  <2> QED
    BY <2>1
<1> QED
  BY <1>2, <1>3

(* Every record is one that put stored, so the install store only ever     *)
(* grows by the record of an applier that is past its config step.         *)
LEMMA RecordsComeFromApply ==
  ASSUME TypeOK, [Next]_vars, NEW r \in records'
  PROVE  \/ r \in records
         \/ \E a \in Appliers :
              /\ RecordInstall(a)
              /\ InMode(a, "apply")
              /\ r = InstallRecord(a, PlanOf(a))
<1>1. CASE \E a \in Appliers : RecordInstall(a)
  <2>1. PICK a \in Appliers : RecordInstall(a)
    BY <1>1
  <2>2. CASE InMode(a, "apply")
    <3>1. r \in Put(records, InstallRecord(a, PlanOf(a)))
      BY <2>1, <2>2 DEF RecordInstall
    <3>2. r \in records \/ r = InstallRecord(a, PlanOf(a))
      BY <3>1, PutStoresRecord
    <3> QED
      BY <2>1, <2>2, <3>2
  <2>3. CASE ~InMode(a, "apply")
    BY <2>1, <2>3 DEF RecordInstall
  <2> QED
    BY <2>2, <2>3
<1>2. CASE ~ \E a \in Appliers : RecordInstall(a)
  BY <1>2 DEF Next, vars, Begin, PlanChanges, ApplyConfig, SetSecret,
     DeleteSecret, ListOAuthOp, PushOAuthOp, StartOAuth, StoreAccessToken,
     StoreRefreshToken, Return, Crash
<1> QED
  BY <1>1, <1>2

(* An applier past its config step stays configured: its own later steps   *)
(* and those of all others only add keys.                                  *)
LEMMA ConfiguredOnceAppliedStep ==
  ASSUME TypeOK, [Next]_vars, ConfiguredOnceApplied
  PROVE  ConfiguredOnceApplied'
<1> SUFFICES ASSUME NEW b \in Appliers,
                    pc'[b] \notin {"idle", "changes"}, InMode(b, "apply")'
             PROVE  DOMAIN PlanOf(b)'.config_patch
                      \subseteq DOMAIN config'[ConfigNs(b)]
  BY DEF ConfiguredOnceApplied, PlanOf
<1>1. CASE ApplyConfig(b)
  BY <1>1 DEF ApplyConfig, ApplyPatch, Extend, TypeOK, PlanOf
<1>2. CASE ~ApplyConfig(b)
  <2>1. /\ pc[b] \notin {"idle", "changes"}
        /\ call'[b] = call[b]
    BY <1>2 DEF Next, vars, Begin, PlanChanges, ApplyConfig, SetSecret,
       DeleteSecret, RecordInstall, ListOAuthOp, PushOAuthOp, StartOAuth,
       StoreAccessToken, StoreRefreshToken, Return, Crash, GoTo, TypeOK,
       LocalsOK, InMode, Labels, Call
  <2>2. DOMAIN PlanOf(b).config_patch \subseteq DOMAIN config[ConfigNs(b)]
    BY <2>1 DEF ConfiguredOnceApplied, InMode
  <2>3. DOMAIN config[ConfigNs(b)] \subseteq DOMAIN config'[ConfigNs(b)]
    BY ConfigKeysPersist DEF TypeOK
  <2> QED
    BY <2>1, <2>2, <2>3 DEF PlanOf
<1> QED
  BY <1>1, <1>2

(* apply writes the config before the record: in every reachable state the *)
(* configuration of a recorded installation is in place.                   *)
THEOREM RecordsAreConfigured == Spec => []RecordedInstallIsConfigured
<1> DEFINE Inv == ConfiguredOnceApplied /\ RecordedInstallIsConfigured
<1>1. Init => Inv
  BY DEF Init, ConfiguredOnceApplied, RecordedInstallIsConfigured
<1>2. TypeOK /\ Inv /\ [Next]_vars => Inv'
  <2> SUFFICES ASSUME TypeOK, Inv, [Next]_vars PROVE Inv'
    OBVIOUS
  <2>1. ConfiguredOnceApplied'
    BY ConfiguredOnceAppliedStep
  <2>2. ASSUME NEW r \in records'
        PROVE  \E p \in Plans :
          /\ r.subscriptions = ApplySubscriptionOps(p.subscription_ops)
          /\ DOMAIN p.config_patch \subseteq DOMAIN config'[r.config_namespace]
    <3>1. CASE r \in records
      <4>1. PICK p \in Plans :
              /\ r.subscriptions = ApplySubscriptionOps(p.subscription_ops)
              /\ DOMAIN p.config_patch \subseteq DOMAIN config[r.config_namespace]
        BY <3>1 DEF RecordedInstallIsConfigured
      <4>2. r.config_namespace \in DOMAIN config
        BY <3>1 DEF TypeOK, Record, InstallRecord
      <4> QED
        BY <4>1, <4>2, ConfigKeysPersist
    <3>2. ASSUME NEW a \in Appliers, RecordInstall(a), InMode(a, "apply"),
                 r = InstallRecord(a, PlanOf(a))
          PROVE  \E p \in Plans :
            /\ r.subscriptions = ApplySubscriptionOps(p.subscription_ops)
            /\ DOMAIN p.config_patch \subseteq DOMAIN config'[r.config_namespace]
      <4>1. PlanOf(a) \in Plans
        BY <3>2, PlanFieldTypes DEF RecordInstall
      <4>2. DOMAIN PlanOf(a).config_patch \subseteq DOMAIN config'[ConfigNs(a)]
        BY <3>2 DEF ConfiguredOnceApplied, RecordInstall
      <4> QED
        BY <3>2, <4>1, <4>2 DEF InstallRecord
    <3> QED
      BY <3>1, <3>2, RecordsComeFromApply
  <2> QED
    BY <2>1, <2>2 DEF RecordedInstallIsConfigured
<1>3. Inv => RecordedInstallIsConfigured
  OBVIOUS
<1> HIDE DEF Inv
<1> QED
  BY <1>1, <1>2, <1>3, TypeCorrect, PTL DEF Spec

(* put replaces the record of its installation: there is never a second.   *)
THEOREM RecordsAreUnique == Spec => []OneRecordPerInstall
<1>1. Init => OneRecordPerInstall
  BY DEF Init, OneRecordPerInstall, UniqueInstalls
<1>2. OneRecordPerInstall /\ [Next]_vars => OneRecordPerInstall'
  <2> SUFFICES ASSUME OneRecordPerInstall, [Next]_vars
               PROVE  OneRecordPerInstall'
    OBVIOUS
  <2>1. CASE \E a \in Appliers : RecordInstall(a)
    BY <2>1, PutKeepsUnique DEF RecordInstall, OneRecordPerInstall
  <2>2. CASE ~ \E a \in Appliers : RecordInstall(a)
    BY <2>2 DEF OneRecordPerInstall, Next, vars, Begin, PlanChanges, ApplyConfig,
       SetSecret, DeleteSecret, ListOAuthOp, PushOAuthOp, StartOAuth,
       StoreAccessToken, StoreRefreshToken, Return, Crash
  <2> QED
    BY <2>1, <2>2
<1> QED
  BY <1>1, <1>2, PTL DEF Spec

(* When every installation is well named, and so has a namespace of its    *)
(* own, no two installations with a record share their namespaces.         *)
THEOREM RecordsHaveOwnNamespace ==
  ASSUME \A a \in Appliers : WellNamed(Inputs[a])
  PROVE  Spec => []OneInstallPerNamespace
<1>1. TypeOK => OneInstallPerNamespace
  <2> SUFFICES ASSUME TypeOK, NEW r \in records, NEW s \in records,
                      \/ r.config_namespace = s.config_namespace
                      \/ r.secrets_namespace = s.secrets_namespace
               PROVE  InstallOf(r) = InstallOf(s)
    BY DEF OneInstallPerNamespace
  <2>1. PICK a \in Appliers, p \in Plans : r = InstallRecord(a, p)
    BY DEF TypeOK, Record
  <2>2. PICK b \in Appliers, q \in Plans : s = InstallRecord(b, q)
    BY DEF TypeOK, Record
  <2>3. Inputs[a] \in Install /\ Inputs[b] \in Install
    BY InputsAssumption
  <2>4. InstallOf(r) = Inputs[a] /\ InstallOf(s) = Inputs[b]
    BY <2>1, <2>2, <2>3 DEF InstallRecord, InstallOf, Install
  <2>5. ConfigNs(a) = ConfigNs(b)
    <3>1. CASE r.config_namespace = s.config_namespace
      BY <2>1, <2>2, <3>1 DEF InstallRecord
    <3>2. CASE r.secrets_namespace = s.secrets_namespace
      <4>1. SecretsNs(a) = SecretsNs(b)
        BY <2>1, <2>2, <3>2 DEF InstallRecord
      <4> QED
        BY <2>3, <4>1, SecretsNamespaceIsInjective DEF ConfigNs, SecretsNs
    <3> QED
      BY <3>1, <3>2
  <2>6. Inputs[a] = Inputs[b]
    BY <2>3, <2>5, NamespaceIsInjective DEF ConfigNs
  <2> QED
    BY <2>4, <2>6
<1> QED
  BY <1>1, TypeCorrect, PTL

-----------------------------------------------------------------------------
(* Each write of each step, and so the whole of a dry run, is one that the *)
(* plan of an applier in apply mode names.                                 *)
LEMMA ConfigStep ==
  ASSUME TypeOK, [Next]_vars
  PROVE  ConfigWritesStayInPlan
<1> SUFFICES ASSUME NEW ns \in DOMAIN config, NEW k \in Key,
                    Changes(config[ns], config'[ns], k)
             PROVE  \E a \in Appliers : /\ Applying(a)
                                        /\ ConfigNs(a) = ns
                                        /\ k \in DOMAIN PlanOf(a).config_patch
  BY DEF ConfigWritesStayInPlan
<1>1. config' # config
  BY DEF Changes
<1>2. PICK a \in Appliers : ApplyConfig(a)
  BY <1>1 DEF Next, vars, Begin, PlanChanges, SetSecret, DeleteSecret,
     RecordInstall, ListOAuthOp, PushOAuthOp, StartOAuth, StoreAccessToken,
     StoreRefreshToken, Return, Crash
<1>3. Applying(a)
  BY <1>2 DEF ApplyConfig, Applying
<1>4. ConfigNs(a) = ns
  BY <1>2 DEF ApplyConfig, Changes, TypeOK
<1>5. k \in DOMAIN PlanOf(a).config_patch
  BY <1>2, <1>4 DEF ApplyConfig, ApplyPatch, Extend, Changes, TypeOK
<1> QED
  BY <1>3, <1>4, <1>5

(* set_secret changes no key but its own. *)
LEMMA SetKeyChangesItsKey ==
  ASSUME NEW f, NEW key, NEW v, NEW k, Changes(f, SetKey(f, key, v), k)
  PROVE  k = key
BY DEF Changes, SetKey, Extend

(* delete_secret changes no key but its own. *)
LEMMA DeleteKeyChangesItsKey ==
  ASSUME NEW f, NEW key, NEW k, Changes(f, DeleteKey(f, key), k)
  PROVE  k = key
BY DEF Changes, DeleteKey

(* The calls on the secrets store are those of the plan's set and delete,  *)
(* and of the tokens that its OAuth operations were granted.               *)
LEMMA SecretsStep ==
  ASSUME TypeOK, [Next]_vars
  PROVE  SecretWritesStayInPlan
<1> DEFINE Named(a, ns, k) ==
      /\ Applying(a)
      /\ SecretsNs(a) = ns
      /\ \/ k \in SettableKeys(PlanOf(a))
         \/ k \in Range(PlanOf(a).secrets_delete)
         \/ k = AccessTokenKey /\ Granted(grants[a]) # {}
         \/ k = RefreshTokenKey /\ Renewable(grants[a]) # {}
<1> SUFFICES ASSUME NEW ns \in DOMAIN secrets, NEW k \in Key,
                    Changes(secrets[ns], secrets'[ns], k)
             PROVE  \E a \in Appliers : Named(a, ns, k)
  BY DEF SecretWritesStayInPlan
<1>1. secrets' # secrets
  BY DEF Changes
<1>2. ASSUME NEW a \in Appliers, SetSecret(a) PROVE Named(a, ns, k)
  <2>1. PICK key \in SettableKeys(PlanOf(a)) :
          secrets' = [secrets EXCEPT ![SecretsNs(a)] =
            SetKey(@, key, RedactedToValue(PlanOf(a).secrets_set[key]))]
    BY <1>2 DEF SetSecret
  <2>2. SecretsNs(a) = ns
    BY <2>1 DEF Changes, TypeOK
  <2>3. secrets'[ns] =
          SetKey(secrets[ns], key, RedactedToValue(PlanOf(a).secrets_set[key]))
    BY <2>1, <2>2 DEF TypeOK
  <2>4. k = key
    BY <2>3, SetKeyChangesItsKey
  <2> QED
    BY <1>2, <2>2, <2>4 DEF SetSecret, Applying
<1>3. ASSUME NEW a \in Appliers, DeleteSecret(a) PROVE Named(a, ns, k)
  <2> DEFINE key == PlanOf(a).secrets_delete[NextDelete(a)]
  <2>1. secrets' = [secrets EXCEPT ![SecretsNs(a)] = DeleteKey(@, key)]
    BY <1>3 DEF DeleteSecret
  <2>2. key \in Range(PlanOf(a).secrets_delete)
    <3>1. report[a].secret_deleted_keys \in Seq(Key)
      BY DEF TypeOK, Report
    <3>2. NextDelete(a) \in DOMAIN PlanOf(a).secrets_delete
      BY <1>3, <3>1, PlanFieldTypes DEF DeleteSecret, NextDelete
    <3> QED
      BY <3>2 DEF Range
  <2> HIDE DEF key
  <2>3. SecretsNs(a) = ns
    BY <2>1 DEF Changes, TypeOK
  <2>4. secrets'[ns] = DeleteKey(secrets[ns], key)
    BY <2>1, <2>3 DEF TypeOK
  <2>5. k = key
    BY <2>4, DeleteKeyChangesItsKey
  <2> QED
    BY <1>3, <2>2, <2>3, <2>5 DEF DeleteSecret, Applying
<1>4. ASSUME NEW a \in Appliers, NEW key, NEW v,
             \/ key = AccessTokenKey /\ pc[a] = "access_token"
             \/ key = RefreshTokenKey /\ pc[a] = "refresh_token",
             SecretsNs(a) = ns, secrets'[ns] = SetKey(secrets[ns], key, v)
      PROVE  Named(a, ns, k)
  <2>1. k = key
    BY <1>4, SetKeyChangesItsKey
  <2>2. Applying(a)
    BY <1>4, NoneAssumption DEF TypeOK, LocalsOK, Applying, InMode
  <2>3. /\ grants[a] \in Seq(TokenSets \cup {None})
        /\ grants[a] # << >>
        /\ LastGrant(a) # None
        /\ pc[a] = "refresh_token" => LastGrant(a).refresh_token # None
    BY <1>4, NoneAssumption DEF TypeOK, LocalsOK
  <2>4. Len(grants[a]) \in DOMAIN grants[a]
    BY <2>3
  <2>5. /\ Len(grants[a]) \in Granted(grants[a])
        /\ pc[a] = "refresh_token" => Len(grants[a]) \in Renewable(grants[a])
    BY <2>3, <2>4 DEF LastGrant, Granted, Renewable
  <2> QED
    BY <1>4, <2>1, <2>2, <2>5
<1> HIDE DEF Named
<1>5. ASSUME NEW a \in Appliers, StoreAccessToken(a) PROVE Named(a, ns, k)
  <2> DEFINE token == LastGrant(a).access_token
  <2>1. pc[a] = "access_token"
    BY <1>5 DEF StoreAccessToken
  <2>2. secrets' = [secrets EXCEPT ![SecretsNs(a)] = SetKey(@, AccessTokenKey, token)]
    BY <1>5 DEF StoreAccessToken
  <2> HIDE DEF token
  <2>3. SecretsNs(a) = ns
    BY <2>2 DEF Changes, TypeOK
  <2>4. secrets'[ns] = SetKey(secrets[ns], AccessTokenKey, token)
    BY <2>2, <2>3 DEF TypeOK
  <2> QED
    BY <1>4, <2>1, <2>3, <2>4
<1>6. ASSUME NEW a \in Appliers, StoreRefreshToken(a) PROVE Named(a, ns, k)
  <2> DEFINE token == LastGrant(a).refresh_token
  <2>1. pc[a] = "refresh_token"
    BY <1>6 DEF StoreRefreshToken
  <2>2. secrets' = [secrets EXCEPT ![SecretsNs(a)] = SetKey(@, RefreshTokenKey, token)]
    BY <1>6 DEF StoreRefreshToken
  <2> HIDE DEF token
  <2>3. SecretsNs(a) = ns
    BY <2>2 DEF Changes, TypeOK
  <2>4. secrets'[ns] = SetKey(secrets[ns], RefreshTokenKey, token)
    BY <2>2, <2>3 DEF TypeOK
  <2> QED
    BY <1>4, <2>1, <2>3, <2>4
<1>7. \E a \in Appliers : \/ SetSecret(a) \/ DeleteSecret(a)
                         \/ StoreAccessToken(a) \/ StoreRefreshToken(a)
  BY <1>1 DEF Next, vars, Begin, PlanChanges, ApplyConfig, RecordInstall,
     ListOAuthOp, PushOAuthOp, StartOAuth, Return, Crash
<1> QED
  BY <1>2, <1>3, <1>5, <1>6, <1>7

(* The install store changes only at the applier's own installation.       *)
LEMMA RecordsStep ==
  ASSUME TypeOK, [Next]_vars
  PROVE  RecordWritesStayInPlan
<1> SUFFICES ASSUME NEW r \in (records \ records') \cup (records' \ records)
             PROVE  \E a \in Appliers : Applying(a) /\ InstallOf(r) = Inputs[a]
  BY DEF RecordWritesStayInPlan
<1>1. records' # records
  OBVIOUS
<1>2. PICK a \in Appliers : RecordInstall(a)
  BY <1>1 DEF Next, vars, Begin, PlanChanges, ApplyConfig, SetSecret,
     DeleteSecret, ListOAuthOp, PushOAuthOp, StartOAuth, StoreAccessToken,
     StoreRefreshToken, Return, Crash
<1>3. Applying(a) /\ records' = Put(records, InstallRecord(a, PlanOf(a)))
  BY <1>1, <1>2 DEF RecordInstall, Applying
<1>4. InstallOf(r) = InstallOf(InstallRecord(a, PlanOf(a)))
  BY <1>3, PutStoresRecord
<1>5. InstallOf(InstallRecord(a, PlanOf(a))) = Inputs[a]
  BY InputsAssumption DEF InstallRecord, InstallOf, Install
<1> QED
  BY <1>3, <1>4, <1>5

(* No step writes to a store except for an applier in apply mode, in the   *)
(* namespaces of its installation and at the keys of its plan; a dry run   *)
(* writes nothing.                                                         *)
THEOREM StepsWriteInPlan == Spec => WritesStayInPlan
<1>1. TypeOK /\ [Next]_vars =>
        [/\ ConfigWritesStayInPlan
         /\ SecretWritesStayInPlan
         /\ RecordWritesStayInPlan]_vars
  BY ConfigStep, SecretsStep, RecordsStep
<1> QED
  BY <1>1, TypeCorrect, PTL DEF Spec, WritesStayInPlan

=============================================================================
