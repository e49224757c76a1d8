--------------------------- MODULE ProvisionApplier ---------------------------
(***************************************************************************)
(* ProvisionApplier::apply (crates/greentic-provision-core/src/apply.rs):  *)
(* applying a plan to the config store, the secrets store, the install     *)
(* store and the OAuth handler, or reporting what that would do (dry run). *)
(*                                                                         *)
(* apply is one function, but it is a series of calls on four independent  *)
(* services, with no transaction around them.  Every call that a service   *)
(* sees is a step here.  Several appliers work on the same services, each  *)
(* for one installation (its ProvisionInputs), and may stop between any    *)
(* two calls.                                                              *)
(***************************************************************************)
EXTENDS ProvisionPlan, InstallRecords, Functions, FiniteSetsExt

CONSTANTS
  Appliers,    \* the ProvisionApplier values, each in a process of its own
  Inputs,      \* the installation each applier was built for
  Key,         \* keys of config entries and of secrets
  Value,       \* JSON values of config entries
  Secret,      \* secret strings, OAuth tokens included
  OAuthOp,     \* the operations OAuthOp::Start(..)
  Plans,       \* the plans that apply is called with
  TokenSets    \* the OAuthTokenSets that the handler may answer with

AccessTokenKey  == "oauth_access_token"
RefreshTokenKey == "oauth_refresh_token"

(* The BTreeMaps with keys in K and values in V. *)
PartialMap(K, V) == UNION {[S -> V] : S \in SUBSET K}

RedactedValue == [redacted : BOOLEAN, value : Secret \cup {None}]
OAuthTokenSet == [access_token : Secret, refresh_token : Secret \cup {None}]

ApplyMode == {"dry_run", "apply"}

(* The arguments of a call of apply. *)
Call == [plan : Plans, mode : ApplyMode]

ASSUME InputsAssumption == Inputs \in [Appliers -> Install]

ASSUME KeysAssumption == {AccessTokenKey, RefreshTokenKey} \subseteq Key

ASSUME TokenSetsAssumption == TokenSets \subseteq OAuthTokenSet

ASSUME PlansAssumption ==
  \A p \in Plans :
    /\ p.config_patch \in PartialMap(Key, Value)
    /\ p.secrets_set \in PartialMap(Key, RedactedValue)
    /\ p.secrets_delete \in Seq(Key)
    /\ p.oauth_ops \in Seq(OAuthOp)

ASSUME NoneAssumption == None \notin TokenSets /\ None \notin Call

VARIABLES
  config,    \* ConfigStore: namespace -> key -> value
  secrets,   \* SecretsStore: secrets namespace -> key -> secret
  records,   \* InstallStore: the install records
  pc,        \* where in apply each applier is
  call,      \* the arguments of the current or last call of apply
  report,    \* the parts of the ApplyReport built so far
  grants     \* the answers of the OAuth handler during that call

vars == <<config, secrets, records, pc, call, report, grants>>

-----------------------------------------------------------------------------
ConfigNs(a)  == ProvisionNamespace(Inputs[a])
SecretsNs(a) == SecretsNamespace(Inputs[a])

(* redacted_to_value *)
RedactedToValue(v) == IF v.redacted THEN None ELSE v.value

(* The keys of secrets_patch.set that carry a value. *)
SettableKeys(p) ==
  {k \in DOMAIN p.secrets_set : RedactedToValue(p.secrets_set[k]) # None}

(* apply_subscription_ops *)
ApplySubscriptionOps(ops) ==
  LET kept == SelectSeq(ops, LAMBDA op : op.op \in {"register", "update"})
  IN  [i \in DOMAIN kept |->
         [id        |-> OrUnknown(kept[i].id),
          resource  |-> OrUnknown(kept[i].resource),
          expiry    |-> kept[i].expiry,
          last_sync |-> None]]

(* The ProviderInstallRecord that apply builds. *)
InstallRecord(a, p) ==
  [tenant            |-> Inputs[a].tenant,
   provider_id       |-> Inputs[a].provider_id,
   install_id        |-> Inputs[a].install_id,
   config_namespace  |-> ConfigNs(a),
   secrets_namespace |-> SecretsNs(a),
   subscriptions     |-> ApplySubscriptionOps(p.subscription_ops)]

(* A faulty ApplyPatch: the patch replaces what the namespace had.         *)
ReplaceEntries(entries, patch) == patch

(* ConfigStore::apply_patch on the entries of one namespace. *)
ApplyPatch(entries, patch) == Extend(entries, patch)

(* SecretsStore::set_secret and delete_secret on one namespace. *)
SetKey(entries, key, value) == Extend(entries, [k \in {key} |-> value])
DeleteKey(entries, key)     == [k \in DOMAIN entries \ {key} |-> entries[k]]

EmptyMap == [k \in {} |-> None]

EmptyReport ==
  [config_changes |-> {}, secret_set_keys |-> {},
   secret_deleted_keys |-> << >>, oauth_ops |-> << >>,
   install_record |-> None]

-----------------------------------------------------------------------------
Init ==
  /\ config  = [ns \in {ConfigNs(a) : a \in Appliers} |-> EmptyMap]
  /\ secrets = [ns \in {SecretsNs(a) : a \in Appliers} |-> EmptyMap]
  /\ records = {}
  /\ pc      = [a \in Appliers |-> "idle"]
  /\ call    = [a \in Appliers |-> None]
  /\ report  = [a \in Appliers |-> EmptyReport]
  /\ grants  = [a \in Appliers |-> << >>]

InMode(a, mode) == call[a] # None /\ call[a].mode = mode
PlanOf(a)       == call[a].plan

GoTo(a, label) == pc' = [pc EXCEPT ![a] = label]

(* apply(result, mode) is called. *)
Begin(a, p, mode) ==
  /\ pc[a] \in {"idle", "done"}
  /\ GoTo(a, "changes")
  /\ call'   = [call EXCEPT ![a] = [plan |-> p, mode |-> mode]]
  /\ report' = [report EXCEPT ![a] = EmptyReport]
  /\ grants' = [grants EXCEPT ![a] = << >>]
  /\ UNCHANGED <<config, secrets, records>>

(* A faulty dry run: it leaves the secrets that would be set out.          *)
PlanChangesNoSecrets(a) ==
  /\ pc[a] = "changes"
  /\ InMode(a, "dry_run")
  /\ report' = [report EXCEPT
       ![a].config_changes      = DOMAIN PlanOf(a).config_patch,
       ![a].secret_deleted_keys = PlanOf(a).secrets_delete]
  /\ GoTo(a, "secrets")
  /\ UNCHANGED <<config, secrets, records, call, grants>>

(* The branch of a dry run: the report lists every key of the plan. *)
PlanChanges(a) ==
  /\ pc[a] = "changes"
  /\ InMode(a, "dry_run")
  /\ report' = [report EXCEPT
       ![a].config_changes      = DOMAIN PlanOf(a).config_patch,
       ![a].secret_set_keys     = DOMAIN PlanOf(a).secrets_set,
       ![a].secret_deleted_keys = PlanOf(a).secrets_delete]
  /\ GoTo(a, "secrets")
  /\ UNCHANGED <<config, secrets, records, call, grants>>

(* config_store.apply_patch *)
ApplyConfig(a) ==
  /\ pc[a] = "changes"
  /\ InMode(a, "apply")
  /\ config' = [config EXCEPT
       ![ConfigNs(a)] = ApplyPatch(@, PlanOf(a).config_patch)]
  /\ report' = [report EXCEPT
       ![a].config_changes = DOMAIN PlanOf(a).config_patch]
  /\ GoTo(a, "secrets")
  /\ UNCHANGED <<secrets, records, call, grants>>

(* secrets_store.set_secret, for the next key that carries a value.  The   *)
(* code visits the keys in order, the model in any order.                  *)
SetSecret(a) ==
  /\ pc[a] = "secrets"
  /\ InMode(a, "apply")
  /\ \E k \in SettableKeys(PlanOf(a)) \ report[a].secret_set_keys :
       /\ secrets' = [secrets EXCEPT
            ![SecretsNs(a)] =
              SetKey(@, k, RedactedToValue(PlanOf(a).secrets_set[k]))]
       /\ report' = [report EXCEPT ![a].secret_set_keys = @ \cup {k}]
  /\ UNCHANGED <<config, records, pc, call, grants>>

(* A faulty SecretsAreSet: deletions do not wait for the secrets set.      *)
SecretsNotAwaited(a) == TRUE

SecretsAreSet(a) == SettableKeys(PlanOf(a)) \subseteq report[a].secret_set_keys

NextDelete(a) == Len(report[a].secret_deleted_keys) + 1

(* secrets_store.delete_secret, for the next key of the list. *)
DeleteSecret(a) ==
  /\ pc[a] = "secrets"
  /\ InMode(a, "apply")
  /\ SecretsAreSet(a)
  /\ NextDelete(a) <= Len(PlanOf(a).secrets_delete)
  /\ LET k == PlanOf(a).secrets_delete[NextDelete(a)]
     IN  /\ secrets' = [secrets EXCEPT ![SecretsNs(a)] = DeleteKey(@, k)]
         /\ report' = [report EXCEPT ![a].secret_deleted_keys = Append(@, k)]
  /\ UNCHANGED <<config, records, pc, call, grants>>

(* Every secret of the plan is set or deleted.                             *)
SecretsArePatched(a) ==
  /\ SecretsAreSet(a)
  /\ NextDelete(a) > Len(PlanOf(a).secrets_delete)

(* A faulty RecordInstall: it stores the record in a dry run too.          *)
RecordInstallAlways(a) ==
  /\ pc[a] = "secrets"
  /\ InMode(a, "apply") => SecretsArePatched(a)
  /\ report' = [report EXCEPT
       ![a].install_record = InstallRecord(a, PlanOf(a))]
  /\ records' = Put(records, InstallRecord(a, PlanOf(a)))
  /\ GoTo(a, "oauth")
  /\ UNCHANGED <<config, secrets, call, grants>>

(* The install record is built; install_store.put stores it in apply mode. *)
RecordInstall(a) ==
  /\ pc[a] = "secrets"
  /\ InMode(a, "apply") => SecretsArePatched(a)
  /\ report' = [report EXCEPT
       ![a].install_record = InstallRecord(a, PlanOf(a))]
  /\ records' = IF InMode(a, "apply")
                THEN Put(records, InstallRecord(a, PlanOf(a)))
                ELSE records
  /\ GoTo(a, "oauth")
  /\ UNCHANGED <<config, secrets, call, grants>>

NextOAuthOp(a) == Len(report[a].oauth_ops) + 1

PushOAuthOp(a) ==
  /\ pc[a] = "oauth"
  /\ NextOAuthOp(a) <= Len(PlanOf(a).oauth_ops)
  /\ report' = [report EXCEPT
       ![a].oauth_ops = Append(@, PlanOf(a).oauth_ops[NextOAuthOp(a)])]
  /\ UNCHANGED <<config, secrets, records, call>>

(* A dry run lists the operation and does not start it. *)
ListOAuthOp(a) ==
  /\ PushOAuthOp(a)
  /\ InMode(a, "dry_run")
  /\ UNCHANGED <<pc, grants>>

(* oauth_handler.start answers with a token set or with None. *)
StartOAuth(a) ==
  /\ PushOAuthOp(a)
  /\ InMode(a, "apply")
  /\ \E grant \in TokenSets \cup {None} :
       /\ grants' = [grants EXCEPT ![a] = Append(@, grant)]
       /\ GoTo(a, IF grant = None THEN "oauth" ELSE "access_token")

LastGrant(a) == grants[a][Len(grants[a])]

(* A faulty StoreAccessToken: a refresh token is taken for granted.        *)
StoreBothTokens(a) ==
  /\ pc[a] = "access_token"
  /\ secrets' = [secrets EXCEPT ![SecretsNs(a)] =
       SetKey(@, AccessTokenKey, LastGrant(a).access_token)]
  /\ GoTo(a, "refresh_token")
  /\ UNCHANGED <<config, records, call, report, grants>>

StoreAccessToken(a) ==
  /\ pc[a] = "access_token"
  /\ secrets' = [secrets EXCEPT ![SecretsNs(a)] =
       SetKey(@, AccessTokenKey, LastGrant(a).access_token)]
  /\ GoTo(a, IF LastGrant(a).refresh_token = None
             THEN "oauth" ELSE "refresh_token")
  /\ UNCHANGED <<config, records, call, report, grants>>

StoreRefreshToken(a) ==
  /\ pc[a] = "refresh_token"
  /\ secrets' = [secrets EXCEPT ![SecretsNs(a)] =
       SetKey(@, RefreshTokenKey, LastGrant(a).refresh_token)]
  /\ GoTo(a, "oauth")
  /\ UNCHANGED <<config, records, call, report, grants>>

(* apply returns its report. *)
Return(a) ==
  /\ pc[a] = "oauth"
  /\ NextOAuthOp(a) > Len(PlanOf(a).oauth_ops)
  /\ GoTo(a, "done")
  /\ UNCHANGED <<config, secrets, records, call, report, grants>>

(* The process stops in the middle of apply; the services keep what they   *)
(* were told.                                                              *)
Crash(a) ==
  /\ pc[a] \notin {"idle", "done"}
  /\ GoTo(a, "idle")
  /\ call'   = [call EXCEPT ![a] = None]
  /\ report' = [report EXCEPT ![a] = EmptyReport]
  /\ grants' = [grants EXCEPT ![a] = << >>]
  /\ UNCHANGED <<config, secrets, records>>

Next ==
  \E a \in Appliers :
    \/ \E p \in Plans, mode \in ApplyMode : Begin(a, p, mode)
    \/ PlanChanges(a)
    \/ ApplyConfig(a)
    \/ SetSecret(a)
    \/ DeleteSecret(a)
    \/ RecordInstall(a)
    \/ ListOAuthOp(a)
    \/ StartOAuth(a)
    \/ StoreAccessToken(a)
    \/ StoreRefreshToken(a)
    \/ Return(a)
    \/ Crash(a)

Spec == Init /\ [][Next]_vars

-----------------------------------------------------------------------------
Record == {InstallRecord(a, p) : a \in Appliers, p \in Plans}

Report ==
  [config_changes : SUBSET Key, secret_set_keys : SUBSET Key,
   secret_deleted_keys : Seq(Key), oauth_ops : Seq(OAuthOp),
   install_record : Record \cup {None}]

Labels == {"idle", "changes", "secrets", "oauth",
           "access_token", "refresh_token", "done"}

(* An applier that is inside apply has a call, and one that is storing     *)
(* tokens has been granted them.                                           *)
LocalsOK(a) ==
  /\ pc[a] # "idle" => call[a] \in Call
  /\ pc[a] \in {"access_token", "refresh_token"} =>
       /\ call[a].mode = "apply"
       /\ PlanOf(a).oauth_ops # << >>
       /\ grants[a] # << >>
       /\ LastGrant(a) \in TokenSets
  /\ pc[a] = "refresh_token" => LastGrant(a).refresh_token # None

(* The stores hold maps and records of this program, and the local state   *)
(* of every applier is what apply needs at its next call.                  *)
TypeOK ==
  /\ config  \in [{ConfigNs(a) : a \in Appliers} -> PartialMap(Key, Value)]
  /\ secrets \in [{SecretsNs(a) : a \in Appliers} -> PartialMap(Key, Secret)]
  /\ records \subseteq Record
  /\ pc      \in [Appliers -> Labels]
  /\ call    \in [Appliers -> Call \cup {None}]
  /\ report  \in [Appliers -> Report]
  /\ grants  \in [Appliers -> Seq(TokenSets \cup {None})]
  /\ \A a \in Appliers : LocalsOK(a)

-----------------------------------------------------------------------------
(* An install record is never ahead of the configuration: whoever reads a  *)
(* record finds, under its config_namespace, every key of the plan that    *)
(* the record was built from, whenever appliers stop and however the calls *)
(* of several appliers interleave.  (apply writes the config before the    *)
(* record, and nothing removes a config key.)                              *)
RecordedInstallIsConfigured ==
  \A r \in records : \E p \in Plans :
    /\ r.subscriptions = ApplySubscriptionOps(p.subscription_ops)
    /\ DOMAIN p.config_patch \subseteq DOMAIN config[r.config_namespace]

(* put replaces the record of an installation that already has one, so the *)
(* appliers of one installation never leave two records of it.             *)
OneRecordPerInstall == UniqueInstalls(records)

(* What get answers for the installations of the appliers.                 *)
Contents == [i \in Range(Inputs) |-> Get(records, i)]

Installs == INSTANCE InstallMap WITH
  Installs <- Range(Inputs), Records <- Record, map <- Contents

(* However appliers interleave and stop, the install store is the map that *)
(* the InstallStore trait promises: a step gives one installation a record *)
(* of its own, as one put, and no other installation's record goes or      *)
(* changes with it.                                                        *)
ImplementsInstallMap == Installs!Spec

(* .codex/GPROV-PR-02.md:32 on the namespaces: "ensure consistent keying   *)
(* and avoids collisions".  Two installations never write to the same      *)
(* namespaces: one that two records share is one that both configure.      *)
OneInstallPerNamespace ==
  \A r, s \in records :
    \/ r.config_namespace = s.config_namespace
    \/ r.secrets_namespace = s.secrets_namespace
    => InstallOf(r) = InstallOf(s)

Returned(a, mode) == pc[a] = "done" /\ InMode(a, mode)

(* The answers of the OAuth handler that are token sets, and those with a  *)
(* refresh token, by their places.                                         *)
Granted(answers)   == {i \in DOMAIN answers : answers[i] # None}
Renewable(answers) == {i \in Granted(answers) : answers[i].refresh_token # None}

Holds(entries, k, v) == k \in DOMAIN entries /\ entries[k] = v

(* The secrets that a plan and the answers at some places stand for.       *)
SecretsFollow(stored, p, answers, granted, renewable) ==
  LET tokens == {k \in {AccessTokenKey} : granted # {}}
                  \cup {k \in {RefreshTokenKey} : renewable # {}}
      gone   == Range(p.secrets_delete) \ tokens
  IN  /\ \A k \in SettableKeys(p) \ (gone \cup tokens) :
           Holds(stored, k, p.secrets_set[k].value)
      /\ gone \cap DOMAIN stored = {}
      /\ granted # {} =>
           Holds(stored, AccessTokenKey, answers[Max(granted)].access_token)
      /\ renewable # {} =>
           Holds(stored, RefreshTokenKey, answers[Max(renewable)].refresh_token)

(* What the secrets store holds when apply returns, whatever crashed runs  *)
(* left there before: a token stored by the OAuth step wins over the       *)
(* plan's own set and delete of that key, a delete wins over a set, and    *)
(* every other key that has a value in the plan has that value.            *)
CompletedApplyEstablishesSecrets ==
  \A a \in Appliers : Returned(a, "apply") =>
    SecretsFollow(secrets[SecretsNs(a)], PlanOf(a), grants[a],
                  Granted(grants[a]), Renewable(grants[a]))

(* When apply returns, the config store has the plan's values and the      *)
(* install store has the record that the report shows.                     *)
CompletedApplyEstablishesInstall ==
  \A a \in Appliers : Returned(a, "apply") =>
    /\ \A k \in DOMAIN PlanOf(a).config_patch :
         Holds(config[ConfigNs(a)], k, PlanOf(a).config_patch[k])
    /\ Get(records, Inputs[a]) = report[a].install_record

(* A dry run predicts an apply of the same plan for the same installation: *)
(* the same config keys, deletions, OAuth operations and record, and every *)
(* secret key that apply reports as set.                                   *)
DryRunCoversApply ==
  \A a, b \in Appliers :
    Returned(a, "dry_run") /\ Returned(b, "apply")
      /\ Inputs[a] = Inputs[b] /\ PlanOf(a) = PlanOf(b)
    => /\ report[b].secret_set_keys \subseteq report[a].secret_set_keys
       /\ [report[b] EXCEPT !.secret_set_keys = {}]
            = [report[a] EXCEPT !.secret_set_keys = {}]

Changes(before, after, k) ==
  (k \in DOMAIN before) # (k \in DOMAIN after)
    \/ (k \in DOMAIN before /\ before[k] # after[k])

Applying(a) == pc[a] \notin {"idle", "done"} /\ InMode(a, "apply")

ConfigWritesStayInPlan ==
  \A ns \in DOMAIN config, k \in Key :
    Changes(config[ns], config'[ns], k) =>
      \E a \in Appliers : /\ Applying(a)
                          /\ ConfigNs(a) = ns
                          /\ k \in DOMAIN PlanOf(a).config_patch

SecretWritesStayInPlan ==
  \A ns \in DOMAIN secrets, k \in Key :
    Changes(secrets[ns], secrets'[ns], k) =>
      \E a \in Appliers :
        /\ Applying(a)
        /\ SecretsNs(a) = ns
        /\ \/ k \in SettableKeys(PlanOf(a))
           \/ k \in Range(PlanOf(a).secrets_delete)
           \/ k = AccessTokenKey /\ Granted(grants[a]) # {}
           \/ k = RefreshTokenKey /\ Renewable(grants[a]) # {}

RecordWritesStayInPlan ==
  \A r \in (records \ records') \cup (records' \ records) :
    \E a \in Appliers : Applying(a) /\ InstallOf(r) = Inputs[a]

(* A store changes only by the call of an applier that is in apply mode    *)
(* (a dry run, a returned and a crashed run write nothing), in the         *)
(* namespaces of its installation, and at the keys that its plan names.    *)
(* A token is only touched by a run that was granted one: an OAuth         *)
(* operation that the handler answered with None, or with no refresh       *)
(* token, leaves what an earlier run stored.                               *)
WritesStayInPlan ==
  [][/\ ConfigWritesStayInPlan
     /\ SecretWritesStayInPlan
     /\ RecordWritesStayInPlan]_vars

=============================================================================
