------------------------ MODULE ApplierOutcome_proofs ------------------------
(***************************************************************************)
(* What a call of apply has reported and stored when it returns.  Each     *)
(* result is an invariant that says, for every place in apply, how far the *)
(* report and the stores have come.  It is about one applier; the steps of *)
(* the others leave what it speaks of alone.                               *)
(***************************************************************************)
EXTENDS ProvisionApplier_proofs, SequenceTheorems

(* s is the first part of t. *)
Begins(s, t) == Len(s) <= Len(t) /\ \A i \in 1 .. Len(s) : s[i] = t[i]

(* A loop that appends the next item of a list keeps to the list.          *)
LEMMA NextItem ==
  ASSUME NEW S, NEW s \in Seq(S), NEW t \in Seq(S), Begins(s, t),
         Len(s) + 1 <= Len(t)
  PROVE  Begins(Append(s, t[Len(s) + 1]), t)
<1> DEFINE n == Len(s) + 1
<1>1. Len(s) \in Nat /\ n \in 1 .. Len(t)
  BY LenProperties
<1>2. t[n] \in S
  BY <1>1
<1>3. Append(s, t[n]) \in Seq(S) /\ Len(Append(s, t[n])) = n
  BY <1>2, AppendProperties
<1>4. ASSUME NEW i \in 1 .. n PROVE Append(s, t[n])[i] = t[i]
  <2>1. CASE i = n
    BY <1>2, <2>1, AppendProperties
  <2>2. CASE i # n
    <3>1. i \in 1 .. Len(s)
      BY <1>1, <2>2
    <3> QED
      BY <1>2, <3>1, AppendProperties DEF Begins
  <2> QED
    BY <2>1, <2>2
<1> QED
  BY <1>3, <1>4 DEF Begins

(* A loop that has no next item has gone through the whole list.           *)
LEMMA NoNextItem ==
  ASSUME NEW S, NEW s \in Seq(S), NEW t \in Seq(S), Begins(s, t),
         ~(Len(s) + 1 <= Len(t))
  PROVE  s = t
<1>1. Len(s) = Len(t)
  BY LenProperties DEF Begins
<1> QED
  BY <1>1, SeqEqual DEF Begins

-----------------------------------------------------------------------------
(* A step of one applier. *)
Step(a) ==
  \/ \E p \in Plans, mode \in ApplyMode : Begin(a, p, mode)
  \/ PlanChanges(a)
  \/ ApplyConfig(a)
  \/ SetSecret(a)
  \/ DeleteSecret(a)
  \/ RecordInstall(a)
  \/ ListOAuthOp(a)
  \/ StartOAuth(a)
  \/ StoreAccessToken(a)
  \/ StoreRefreshToken(a)
  \/ Return(a)
  \/ Crash(a)

(* apply keeps its position and its report to itself.                      *)
LEMMA OthersStay ==
  ASSUME TypeOK, NEW a \in Appliers, Step(a), NEW b \in Appliers, b # a
  PROVE  /\ pc'[b] = pc[b]
         /\ call'[b] = call[b]
         /\ report'[b] = report[b]
         /\ grants'[b] = grants[b]
BY DEF Step, Begin, PlanChanges, ApplyConfig, SetSecret, DeleteSecret,
   RecordInstall, ListOAuthOp, PushOAuthOp, StartOAuth, StoreAccessToken,
   StoreRefreshToken, Return, Crash, GoTo, TypeOK

(* What the report says at each place of apply.                            *)
ReportFits(a, label, c, rep) ==
  /\ label = "changes" => rep = EmptyReport
  /\ label \notin {"idle", "changes"} =>
       /\ rep.config_changes = DOMAIN c.plan.config_patch
       /\ rep.secret_set_keys \subseteq DOMAIN c.plan.secrets_set
       /\ Begins(rep.secret_deleted_keys, c.plan.secrets_delete)
       /\ Begins(rep.oauth_ops, c.plan.oauth_ops)
       /\ c.mode = "dry_run" =>
            /\ rep.secret_set_keys = DOMAIN c.plan.secrets_set
            /\ rep.secret_deleted_keys = c.plan.secrets_delete
  /\ label \notin {"idle", "changes", "secrets"} =>
       /\ rep.secret_deleted_keys = c.plan.secrets_delete
       /\ rep.install_record = InstallRecord(a, c.plan)
  /\ label = "done" => rep.oauth_ops = c.plan.oauth_ops

ReportsFit == \A a \in Appliers : ReportFits(a, pc[a], call[a], report[a])

(* Each step of apply takes its report one part further.                   *)
LEMMA ReportStep ==
  ASSUME TypeOK, NEW a \in Appliers, Step(a),
         ReportFits(a, pc[a], call[a], report[a])
  PROVE  ReportFits(a, pc'[a], call'[a], report'[a])
<1> DEFINE p == PlanOf(a)
           rep == report[a]
<1>t. /\ rep \in Report
      /\ rep.secret_deleted_keys \in Seq(Key)
      /\ rep.oauth_ops \in Seq(OAuthOp)
      /\ Len(<< >>) = 0
  BY DEF TypeOK, Report
<1>p. ASSUME pc[a] # "idle"
      PROVE  /\ p.secrets_delete \in Seq(Key)
             /\ p.oauth_ops \in Seq(OAuthOp)
             /\ call[a].plan = p
             /\ call[a].mode \in ApplyMode
             /\ \A mode \in ApplyMode : InMode(a, mode) <=> call[a].mode = mode
             /\ Len(p.secrets_delete) \in Nat /\ Len(p.oauth_ops) \in Nat
             /\ SettableKeys(p) \subseteq DOMAIN p.secrets_set
  BY <1>p, PlanFieldTypes, NoneAssumption, LenProperties
  DEF PlanOf, Call, InMode, SettableKeys
<1>1. ASSUME NEW q \in Plans, NEW mode \in ApplyMode, Begin(a, q, mode)
      PROVE  ReportFits(a, pc'[a], call'[a], report'[a])
  BY <1>1 DEF Begin, GoTo, TypeOK, ReportFits
<1>2. ASSUME PlanChanges(a) \/ ApplyConfig(a)
      PROVE  ReportFits(a, pc'[a], call'[a], report'[a])
  <2>1. pc[a] = "changes" /\ rep = EmptyReport
    BY <1>2 DEF PlanChanges, ApplyConfig, ReportFits
  <2>2. pc'[a] = "secrets" /\ call'[a] = call[a]
    BY <1>2 DEF PlanChanges, ApplyConfig, GoTo, TypeOK
  <2>3. CASE PlanChanges(a)
    <3>1. report'[a] = [rep EXCEPT !.config_changes      = DOMAIN p.config_patch,
                                   !.secret_set_keys     = DOMAIN p.secrets_set,
                                   !.secret_deleted_keys = p.secrets_delete]
      BY <2>3 DEF PlanChanges, TypeOK
    <3>2. /\ report'[a].config_changes = DOMAIN p.config_patch
          /\ report'[a].secret_set_keys = DOMAIN p.secrets_set
          /\ report'[a].secret_deleted_keys = p.secrets_delete
          /\ report'[a].oauth_ops = << >>
      BY <2>1, <3>1 DEF EmptyReport
    <3> HIDE DEF p, rep
    <3> QED
      BY <1>t, <1>p, <2>1, <2>2, <3>2 DEF ReportFits, Begins
  <2>4. CASE ApplyConfig(a)
    <3>1. report'[a] = [rep EXCEPT !.config_changes = DOMAIN p.config_patch]
      BY <2>4 DEF ApplyConfig, TypeOK
    <3>2. /\ report'[a].config_changes = DOMAIN p.config_patch
          /\ report'[a].secret_set_keys = {}
          /\ report'[a].secret_deleted_keys = << >>
          /\ report'[a].oauth_ops = << >>
      BY <2>1, <3>1 DEF EmptyReport
    <3>3. call[a].mode # "dry_run"
      BY <2>4 DEF ApplyConfig, InMode
    <3> HIDE DEF p, rep
    <3> QED
      BY <1>t, <1>p, <2>1, <2>2, <3>2, <3>3 DEF ReportFits, Begins
  <2> QED
    BY <1>2, <2>3, <2>4
<1>3. ASSUME SetSecret(a)
      PROVE  ReportFits(a, pc'[a], call'[a], report'[a])
  <2>1. PICK k \in SettableKeys(p) : report'[a].secret_set_keys = rep.secret_set_keys \cup {k}
                                     /\ \A f \in DOMAIN rep \ {"secret_set_keys"} : report'[a][f] = rep[f]
    BY <1>3, <1>t DEF SetSecret, TypeOK, Report
  <2>2. pc[a] = "secrets" /\ pc'[a] = pc[a] /\ call'[a] = call[a] /\ call[a].mode # "dry_run"
    BY <1>3 DEF SetSecret, InMode
  <2>3. /\ report'[a].config_changes = rep.config_changes
        /\ report'[a].secret_deleted_keys = rep.secret_deleted_keys
        /\ report'[a].oauth_ops = rep.oauth_ops
    BY <1>t, <2>1 DEF Report
  <2>4. report'[a].secret_set_keys \subseteq DOMAIN p.secrets_set
    BY <1>p, <2>1, <2>2 DEF ReportFits
  <2> QED
    BY <1>p, <2>2, <2>3, <2>4 DEF ReportFits
<1>4. ASSUME DeleteSecret(a)
      PROVE  ReportFits(a, pc'[a], call'[a], report'[a])
  <2> DEFINE k == p.secrets_delete[Len(rep.secret_deleted_keys) + 1]
  <2>1. /\ pc[a] = "secrets" /\ pc'[a] = pc[a] /\ call'[a] = call[a]
        /\ call[a].mode # "dry_run"
        /\ Len(rep.secret_deleted_keys) + 1 <= Len(p.secrets_delete)
    BY <1>4 DEF DeleteSecret, InMode, NextDelete
  <2>2. report'[a] = [rep EXCEPT !.secret_deleted_keys = Append(@, k)]
    BY <1>4 DEF DeleteSecret, NextDelete, TypeOK
  <2>3. Begins(Append(rep.secret_deleted_keys, k), p.secrets_delete)
    BY <1>t, <1>p, <2>1, NextItem DEF ReportFits
  <2> HIDE DEF k
  <2>4. /\ report'[a].config_changes = rep.config_changes
        /\ report'[a].secret_set_keys = rep.secret_set_keys
        /\ report'[a].secret_deleted_keys = Append(rep.secret_deleted_keys, k)
        /\ report'[a].oauth_ops = rep.oauth_ops
    BY <1>t, <2>2 DEF Report
  <2> QED
    BY <1>p, <2>1, <2>3, <2>4 DEF ReportFits
<1>5. ASSUME RecordInstall(a)
      PROVE  ReportFits(a, pc'[a], call'[a], report'[a])
  <2> DEFINE record == InstallRecord(a, p)
  <2>1. pc[a] = "secrets" /\ pc'[a] = "oauth" /\ call'[a] = call[a]
    BY <1>5 DEF RecordInstall, GoTo, TypeOK
  <2>2. report'[a] = [rep EXCEPT !.install_record = record]
    BY <1>5 DEF RecordInstall, TypeOK
  <2>3. rep.secret_deleted_keys = p.secrets_delete
    <3>1. CASE call[a].mode = "dry_run"
      BY <1>p, <2>1, <3>1 DEF ReportFits
    <3>2. CASE call[a].mode = "apply"
      <4>1. ~(Len(rep.secret_deleted_keys) + 1 <= Len(p.secrets_delete))
        BY <1>5, <1>p, <1>t, <2>1, <3>2, LenProperties
        DEF RecordInstall, SecretsArePatched, NextDelete, ApplyMode
      <4> QED
        BY <1>t, <1>p, <2>1, <4>1, NoNextItem DEF ReportFits
    <3> QED
      BY <1>p, <2>1, <3>1, <3>2 DEF ApplyMode
  <2> HIDE DEF record
  <2>4. /\ report'[a].config_changes = rep.config_changes
        /\ report'[a].secret_set_keys = rep.secret_set_keys
        /\ report'[a].secret_deleted_keys = rep.secret_deleted_keys
        /\ report'[a].oauth_ops = rep.oauth_ops
        /\ report'[a].install_record = record
    BY <1>t, <2>2 DEF Report
  <2> QED
    BY <1>p, <2>1, <2>3, <2>4 DEF ReportFits, record
<1>6. ASSUME PushOAuthOp(a), pc'[a] \in {"oauth", "access_token"}
      PROVE  ReportFits(a, pc'[a], call'[a], report'[a])
  <2> DEFINE op == p.oauth_ops[Len(rep.oauth_ops) + 1]
  <2>1. /\ pc[a] = "oauth" /\ call'[a] = call[a]
        /\ Len(rep.oauth_ops) + 1 <= Len(p.oauth_ops)
    BY <1>6 DEF PushOAuthOp, NextOAuthOp
  <2>2. report'[a] = [rep EXCEPT !.oauth_ops = Append(@, op)]
    BY <1>6 DEF PushOAuthOp, NextOAuthOp, TypeOK
  <2>3. Begins(Append(rep.oauth_ops, op), p.oauth_ops)
    BY <1>t, <1>p, <2>1, NextItem DEF ReportFits
  <2> HIDE DEF op
  <2>4. /\ report'[a].config_changes = rep.config_changes
        /\ report'[a].secret_set_keys = rep.secret_set_keys
        /\ report'[a].secret_deleted_keys = rep.secret_deleted_keys
        /\ report'[a].oauth_ops = Append(rep.oauth_ops, op)
        /\ report'[a].install_record = rep.install_record
    BY <1>t, <2>2 DEF Report
  <2> QED
    BY <1>p, <1>6, <2>1, <2>3, <2>4 DEF ReportFits
<1>7. ASSUME ListOAuthOp(a)
      PROVE  ReportFits(a, pc'[a], call'[a], report'[a])
  BY <1>6, <1>7 DEF ListOAuthOp, PushOAuthOp
<1>8. ASSUME StartOAuth(a)
      PROVE  ReportFits(a, pc'[a], call'[a], report'[a])
  BY <1>6, <1>8 DEF StartOAuth, GoTo, TypeOK
<1>9. ASSUME StoreAccessToken(a) \/ StoreRefreshToken(a)
      PROVE  ReportFits(a, pc'[a], call'[a], report'[a])
  <2>1. /\ pc[a] \in {"access_token", "refresh_token"}
        /\ pc'[a] \in {"oauth", "refresh_token"}
        /\ call'[a] = call[a] /\ report'[a] = report[a]
    BY <1>9 DEF StoreAccessToken, StoreRefreshToken, GoTo, TypeOK
  <2> QED
    BY <2>1 DEF ReportFits
<1>10. ASSUME Return(a)
       PROVE  ReportFits(a, pc'[a], call'[a], report'[a])
  <2>1. /\ pc[a] = "oauth" /\ pc'[a] = "done"
        /\ call'[a] = call[a] /\ report'[a] = report[a]
        /\ ~(Len(rep.oauth_ops) + 1 <= Len(p.oauth_ops))
    BY <1>10, <1>t, <1>p, LenProperties DEF Return, GoTo, TypeOK, NextOAuthOp
  <2>2. rep.oauth_ops = p.oauth_ops
    BY <1>t, <1>p, <2>1, NoNextItem DEF ReportFits
  <2> QED
    BY <1>p, <2>1, <2>2 DEF ReportFits
<1>11. ASSUME Crash(a)
       PROVE  ReportFits(a, pc'[a], call'[a], report'[a])
  BY <1>11 DEF Crash, GoTo, TypeOK, ReportFits
<1> QED
  BY <1>1, <1>2, <1>3, <1>4, <1>5, <1>7, <1>8, <1>9, <1>10, <1>11 DEF Step

(* At every place of apply the report has what has been done so far.       *)
LEMMA ReportsAlwaysFit == Spec => []ReportsFit
<1>1. Init => ReportsFit
  BY DEF Init, ReportsFit, ReportFits
<1>2. TypeOK /\ ReportsFit /\ [Next]_vars => ReportsFit'
  <2> SUFFICES ASSUME TypeOK, ReportsFit, [Next]_vars PROVE ReportsFit'
    OBVIOUS
  <2>1. CASE UNCHANGED vars
    BY <2>1 DEF vars, ReportsFit
  <2>2. CASE Next
    <3>1. PICK a \in Appliers : Step(a)
      BY <2>2 DEF Next, Step
    <3>2. ASSUME NEW b \in Appliers
          PROVE  ReportFits(b, pc'[b], call'[b], report'[b])
      BY <3>1, OthersStay, ReportStep DEF ReportsFit
    <3> QED
      BY <3>2 DEF ReportsFit
  <2> QED
    BY <2>1, <2>2
<1> QED
  BY <1>1, <1>2, TypeCorrect, PTL DEF Spec

(* A dry run reports the config keys, the deletions, the OAuth operations  *)
(* and the record of an apply of the same plan for the same installation,  *)
(* and at least its secret keys, for any plans and any interleaving.       *)
THEOREM DryRunsPredictApplies == Spec => []DryRunCoversApply
<1>1. TypeOK /\ ReportsFit => DryRunCoversApply
  <2> SUFFICES ASSUME TypeOK, ReportsFit, NEW a \in Appliers, NEW b \in Appliers,
                      Returned(a, "dry_run"), Returned(b, "apply"),
                      Inputs[a] = Inputs[b], PlanOf(a) = PlanOf(b)
               PROVE  /\ report[b].secret_set_keys \subseteq report[a].secret_set_keys
                      /\ [report[b] EXCEPT !.secret_set_keys = {}]
                           = [report[a] EXCEPT !.secret_set_keys = {}]
    BY DEF DryRunCoversApply
  <2>1. ReportFits(a, "done", call[a], report[a]) /\ ReportFits(b, "done", call[b], report[b])
    BY DEF ReportsFit, Returned
  <2>2. call[a].plan = call[b].plan /\ call[a].mode = "dry_run"
    BY DEF Returned, InMode, PlanOf
  <2>3. InstallRecord(a, call[a].plan) = InstallRecord(b, call[b].plan)
    BY <2>2 DEF InstallRecord, ConfigNs, SecretsNs
  <2>4. /\ report[a].config_changes = report[b].config_changes
        /\ report[a].secret_deleted_keys = report[b].secret_deleted_keys
        /\ report[a].oauth_ops = report[b].oauth_ops
        /\ report[a].install_record = report[b].install_record
        /\ report[b].secret_set_keys \subseteq report[a].secret_set_keys
    BY <2>1, <2>2, <2>3 DEF ReportFits
  <2>5. report[a] \in Report /\ report[b] \in Report
    BY DEF TypeOK
  <2> QED
    BY <2>4, <2>5 DEF Report
<1> QED
  BY <1>1, TypeCorrect, ReportsAlwaysFit, PTL

-----------------------------------------------------------------------------
(* What the config and the install store have of a call at each place.     *)
InstallFits(a, label, c, entries, recorded) ==
  c # None /\ c.mode = "apply" =>
    /\ label \notin {"idle", "changes"} =>
         \A k \in DOMAIN c.plan.config_patch :
           Holds(entries, k, c.plan.config_patch[k])
    /\ label \notin {"idle", "changes", "secrets"} =>
         recorded = InstallRecord(a, c.plan)

InstallsFit ==
  \A a \in Appliers :
    InstallFits(a, pc[a], call[a], config[ConfigNs(a)], Get(records, Inputs[a]))

(* The record that apply builds is for the applier's installation.         *)
LEMMA RecordIsForInput ==
  ASSUME NEW a \in Appliers, NEW p
  PROVE  InstallOf(InstallRecord(a, p)) = Inputs[a]
BY InputsAssumption DEF InstallRecord, InstallOf, Install

(* The install store implements the map of the InstallStore trait, for any *)
(* number of appliers, plans and crashes: the one step that changes it is  *)
(* a put, and a put changes the entry of the applier's installation alone. *)
THEOREM StoreIsInstallMap == Spec => ImplementsInstallMap
<1>1. Init => Installs!Init
  BY DEF Init, Installs!Init, Contents, Get, Matching
<1>2. TypeOK /\ OneRecordPerInstall /\ [Next]_vars => [Installs!Next]_Contents
  <2> SUFFICES ASSUME TypeOK, OneRecordPerInstall, [Next]_vars,
                      records' # records
               PROVE  Installs!Next
    BY DEF Contents
  <2>1. PICK a \in Appliers : RecordInstall(a) /\ InMode(a, "apply")
    BY DEF Next, vars, Begin, PlanChanges, ApplyConfig, SetSecret, DeleteSecret,
       RecordInstall, ListOAuthOp, PushOAuthOp, StartOAuth, StoreAccessToken,
       StoreRefreshToken, Return, Crash
  <2> DEFINE new == InstallRecord(a, PlanOf(a))
  <2>2. records' = Put(records, new)
    BY <2>1 DEF RecordInstall
  <2>3. new \in Record
    BY <2>1, PlanFieldTypes DEF RecordInstall, Record
  <2>4. InstallOf(new) = Inputs[a] /\ Inputs[a] \in Range(Inputs)
    BY RecordIsForInput, InputsAssumption DEF Range
  <2> HIDE DEF new
  <2>5. \A i \in Range(Inputs) : Get(records', i) =
          IF i = InstallOf(new) THEN new ELSE Get(records, i)
    BY <2>2, GetAfterPut DEF OneRecordPerInstall
  <2>6. Contents' = [Contents EXCEPT ![InstallOf(new)] = new]
    BY <2>4, <2>5, Zenon DEF Contents
  <2>7. Installs!InstallOf(new) = InstallOf(new)
    BY DEF Installs!InstallOf, InstallOf
  <2> QED
    BY <2>3, <2>6, <2>7 DEF Installs!Next, Installs!PutRecord
<1> QED
  BY <1>1, <1>2, TypeCorrect, RecordsAreUnique, PTL
  DEF Spec, ImplementsInstallMap, Installs!Spec

(* Each call of apply on the two stores takes them one part further.       *)
LEMMA InstallStep ==
  ASSUME TypeOK, OneRecordPerInstall, NEW a \in Appliers, Step(a),
         InstallFits(a, pc[a], call[a], config[ConfigNs(a)], Get(records, Inputs[a]))
  PROVE  InstallFits(a, pc'[a], call'[a], config'[ConfigNs(a)], Get(records', Inputs[a]))
<1> DEFINE ns == ConfigNs(a)
           Goal == InstallFits(a, pc'[a], call'[a], config'[ns], Get(records', Inputs[a]))
<1>1. ASSUME NEW p \in Plans, NEW mode \in ApplyMode, Begin(a, p, mode) PROVE Goal
  BY <1>1 DEF Begin, GoTo, TypeOK, InstallFits
<1>2. ASSUME PlanChanges(a) PROVE Goal
  BY <1>2 DEF PlanChanges, GoTo, TypeOK, InstallFits, InMode
<1>3. ASSUME ApplyConfig(a) PROVE Goal
  <2>1. /\ pc'[a] = "secrets"
        /\ call'[a] = call[a]
        /\ config'[ns] = Extend(config[ns], call[a].plan.config_patch)
    BY <1>3 DEF ApplyConfig, ApplyPatch, GoTo, PlanOf, TypeOK
  <2> QED
    BY <2>1 DEF InstallFits, Holds, Extend
<1>4. ASSUME RecordInstall(a) PROVE Goal
  <2>1. /\ pc[a] = "secrets" /\ pc'[a] = "oauth"
        /\ call'[a] = call[a]
        /\ config' = config
    BY <1>4 DEF RecordInstall, GoTo, TypeOK
  <2>2. CASE InMode(a, "apply")
    <3>1. records' = Put(records, InstallRecord(a, call[a].plan))
      BY <1>4, <2>2 DEF RecordInstall, PlanOf
    <3>2. Get(records', Inputs[a]) = InstallRecord(a, call[a].plan)
      BY <3>1, RecordIsForInput, GetAfterPut DEF OneRecordPerInstall
    <3> QED
      BY <2>1, <3>2 DEF InstallFits
  <2>3. CASE ~InMode(a, "apply")
    BY <2>1, <2>3 DEF InMode, InstallFits
  <2> QED
    BY <2>2, <2>3
<1>5. ASSUME SetSecret(a) \/ DeleteSecret(a) PROVE Goal
  <2>1. /\ pc'[a] = pc[a] /\ call'[a] = call[a]
        /\ config' = config /\ records' = records
    BY <1>5 DEF SetSecret, DeleteSecret
  <2> QED
    BY <2>1
<1>6. ASSUME \/ ListOAuthOp(a) \/ StartOAuth(a) \/ StoreAccessToken(a)
             \/ StoreRefreshToken(a) \/ Return(a)
      PROVE  Goal
  <2>1. /\ pc[a] \notin {"idle", "changes", "secrets"}
        /\ call'[a] = call[a]
        /\ config' = config /\ records' = records
    BY <1>6 DEF ListOAuthOp, StartOAuth, PushOAuthOp, StoreAccessToken,
       StoreRefreshToken, Return
  <2> QED
    BY <2>1 DEF InstallFits
<1>7. ASSUME Crash(a) PROVE Goal
  BY <1>7 DEF Crash, TypeOK, InstallFits
<1> QED
  BY <1>1, <1>2, <1>3, <1>4, <1>5, <1>6, <1>7 DEF Step

(* An applier with a config namespace of its own finds what it stored      *)
(* there, and its record, as it left them.                                 *)
LEMMA OtherInstallsStay ==
  ASSUME TypeOK, OneRecordPerInstall, NEW a \in Appliers, Step(a),
         NEW b \in Appliers, ConfigNs(a) # ConfigNs(b)
  PROVE  /\ config'[ConfigNs(b)] = config[ConfigNs(b)]
         /\ Get(records', Inputs[b]) = Get(records, Inputs[b])
<1>1. Inputs[a] # Inputs[b]
  BY DEF ConfigNs
<1>2. config'[ConfigNs(b)] = config[ConfigNs(b)]
  BY DEF Step, Begin, PlanChanges, ApplyConfig, SetSecret, DeleteSecret,
     RecordInstall, ListOAuthOp, PushOAuthOp, StartOAuth, StoreAccessToken,
     StoreRefreshToken, Return, Crash, TypeOK
<1>3. CASE records' = records
  BY <1>2, <1>3
<1>4. CASE records' # records
  <2>1. records' = Put(records, InstallRecord(a, PlanOf(a)))
    BY <1>4 DEF Step, Begin, PlanChanges, ApplyConfig, SetSecret, DeleteSecret,
       RecordInstall, ListOAuthOp, PushOAuthOp, StartOAuth, StoreAccessToken,
       StoreRefreshToken, Return, Crash
  <2>2. Get(records', Inputs[b]) = Get(records, Inputs[b])
    BY <1>1, <2>1, RecordIsForInput, GetAfterPut DEF OneRecordPerInstall
  <2> QED
    BY <1>2, <2>2
<1> QED
  BY <1>3, <1>4

(* When no two appliers configure one namespace, an apply that returns has *)
(* left its plan's values in the config store and its record, as reported, *)
(* in the install store, whatever the others and crashed runs do.          *)
THEOREM AppliesEstablishInstalls ==
  ASSUME \A a, b \in Appliers : a # b => ConfigNs(a) # ConfigNs(b)
  PROVE  Spec => []CompletedApplyEstablishesInstall
<1>1. Init => InstallsFit
  BY DEF Init, InstallsFit, InstallFits
<1>2. TypeOK /\ OneRecordPerInstall /\ InstallsFit /\ [Next]_vars => InstallsFit'
  <2> SUFFICES ASSUME TypeOK, OneRecordPerInstall, InstallsFit, [Next]_vars
               PROVE  InstallsFit'
    OBVIOUS
  <2>1. CASE UNCHANGED vars
    BY <2>1 DEF vars, InstallsFit
  <2>2. CASE Next
    <3>1. PICK a \in Appliers : Step(a)
      BY <2>2 DEF Next, Step
    <3>2. ASSUME NEW b \in Appliers
          PROVE  InstallFits(b, pc'[b], call'[b], config'[ConfigNs(b)],
                             Get(records', Inputs[b]))
      <4>1. CASE b = a
        BY <3>1, <4>1, InstallStep DEF InstallsFit
      <4>2. CASE b # a
        BY <3>1, <4>2, OthersStay, OtherInstallsStay DEF InstallsFit
      <4> QED
        BY <4>1, <4>2
    <3> QED
      BY <3>2 DEF InstallsFit
  <2> QED
    BY <2>1, <2>2
<1>3. TypeOK /\ ReportsFit /\ InstallsFit => CompletedApplyEstablishesInstall
  <2> SUFFICES ASSUME TypeOK, ReportsFit, InstallsFit, NEW a \in Appliers,
                      Returned(a, "apply")
               PROVE  /\ \A k \in DOMAIN PlanOf(a).config_patch :
                           Holds(config[ConfigNs(a)], k, PlanOf(a).config_patch[k])
                      /\ Get(records, Inputs[a]) = report[a].install_record
    BY DEF CompletedApplyEstablishesInstall
  <2>1. pc[a] = "done" /\ call[a] # None /\ call[a].mode = "apply"
    BY DEF Returned, InMode
  <2> QED
    BY <2>1 DEF InstallsFit, InstallFits, ReportsFit, ReportFits, PlanOf
<1> QED
  BY <1>1, <1>2, <1>3, TypeCorrect, RecordsAreUnique, ReportsAlwaysFit, PTL DEF Spec

-----------------------------------------------------------------------------
(* The last of some places is the largest of them.                         *)
LEMMA NewestIsMax ==
  ASSUME NEW n \in Nat, NEW S \in SUBSET (1 .. n)
  PROVE  Max(S \cup {n}) = n
<1>1. \A x \in S \cup {n} : x \in Int /\ n >= x
  OBVIOUS
<1>2. n \in S \cup {n} /\ \A y \in S \cup {n} : n >= y
  BY <1>1
<1>3. ASSUME NEW x \in S \cup {n}, \A y \in S \cup {n} : x >= y PROVE x = n
  BY <1>1, <1>3
<1> QED
  BY <1>2, <1>3 DEF Max

(* The places whose tokens have been stored: the grant that apply is busy  *)
(* with is not among them yet.                                             *)
AccessStored(label, g) ==
  Granted(g) \ {i \in {Len(g)} : label = "access_token"}
RefreshStored(label, g) ==
  Renewable(g) \ {i \in {Len(g)} : label \in {"access_token", "refresh_token"}}

HasMax(S) == S # {} => Max(S) \in S

(* What the secrets store has of a call while its patch is applied ...     *)
PatchFits(p, rep, stored) ==
  /\ rep.secret_set_keys \subseteq SettableKeys(p)
  /\ rep.secret_deleted_keys # << >> => SettableKeys(p) \subseteq rep.secret_set_keys
  /\ \A k \in rep.secret_set_keys \ Range(rep.secret_deleted_keys) :
       Holds(stored, k, p.secrets_set[k].value)
  /\ Range(rep.secret_deleted_keys) \cap DOMAIN stored = {}

(* ... and while and after its tokens are stored.                          *)
SecretsFit(label, c, rep, g, stored) ==
  c # None /\ c.mode = "apply" =>
    /\ label \in {"changes", "secrets"} => g = << >>
    /\ label = "secrets" => PatchFits(c.plan, rep, stored)
    /\ label \notin {"idle", "changes", "secrets"} =>
         /\ SecretsFollow(stored, c.plan, g, AccessStored(label, g), RefreshStored(label, g))
         /\ HasMax(AccessStored(label, g))
         /\ HasMax(RefreshStored(label, g))

AllSecretsFit ==
  \A a \in Appliers :
    SecretsFit(pc[a], call[a], report[a], grants[a], secrets[SecretsNs(a)])

(* An answer that is not stored yet changes nothing of what is stored.     *)
LEMMA OneMoreAnswer ==
  ASSUME NEW T, NEW g \in Seq(T), NEW x \in T, NEW stored, NEW p,
         NEW S \in SUBSET (DOMAIN g), NEW R \in SUBSET (DOMAIN g),
         HasMax(S), HasMax(R), SecretsFollow(stored, p, g, S, R)
  PROVE  SecretsFollow(stored, p, Append(g, x), S, R)
<1> DEFINE h == Append(g, x)
<1>1. \A i \in DOMAIN g : h[i] = g[i]
  BY AppendProperties
<1>2. S # {} => h[Max(S)] = g[Max(S)]
  BY <1>1 DEF HasMax
<1>3. R # {} => h[Max(R)] = g[Max(R)]
  BY <1>1 DEF HasMax
<1> HIDE DEF h
<1>4. SecretsFollow(stored, p, h, S, R)
  BY <1>2, <1>3 DEF SecretsFollow
<1> QED
  BY <1>4 DEF h

(* Storing the access token of the last answer. *)
LEMMA AccessTokenFollows ==
  ASSUME NEW T, NEW g \in Seq(T), g # << >>, NEW stored, NEW p,
         NEW S \in SUBSET (DOMAIN g), NEW R, SecretsFollow(stored, p, g, S, R)
  PROVE  /\ SecretsFollow(SetKey(stored, AccessTokenKey, g[Len(g)].access_token),
                          p, g, S \cup {Len(g)}, R)
         /\ HasMax(S \cup {Len(g)})
<1> DEFINE n == Len(g)
           t == g[n].access_token
           after == SetKey(stored, AccessTokenKey, t)
<1>1. n \in Nat /\ DOMAIN g = 1 .. n
  BY LenProperties
<1>2. Max(S \cup {n}) = n
  BY <1>1, NewestIsMax
<1>3. /\ DOMAIN after = DOMAIN stored \cup {AccessTokenKey}
      /\ after[AccessTokenKey] = t
      /\ \A k \in DOMAIN stored \ {AccessTokenKey} : after[k] = stored[k]
  BY DEF SetKey, Extend
<1>4. AccessTokenKey # RefreshTokenKey
  BY DEF AccessTokenKey, RefreshTokenKey
<1>5. g[Max(S \cup {n})].access_token = t
  BY <1>2
<1>6. HasMax(S \cup {n})
  BY <1>2 DEF HasMax
<1> HIDE DEF n, t, after
<1>7. SecretsFollow(after, p, g, S \cup {n}, R)
  BY <1>3, <1>4, <1>5 DEF SecretsFollow, Holds
<1> QED
  BY <1>6, <1>7 DEF n, t, after

(* Storing the refresh token of the last answer. *)
LEMMA RefreshTokenFollows ==
  ASSUME NEW T, NEW g \in Seq(T), g # << >>, NEW stored, NEW p,
         NEW R \in SUBSET (DOMAIN g), NEW S, SecretsFollow(stored, p, g, S, R)
  PROVE  /\ SecretsFollow(SetKey(stored, RefreshTokenKey, g[Len(g)].refresh_token),
                          p, g, S, R \cup {Len(g)})
         /\ HasMax(R \cup {Len(g)})
<1> DEFINE n == Len(g)
           t == g[n].refresh_token
           after == SetKey(stored, RefreshTokenKey, t)
<1>1. n \in Nat /\ DOMAIN g = 1 .. n
  BY LenProperties
<1>2. Max(R \cup {n}) = n
  BY <1>1, NewestIsMax
<1>3. /\ DOMAIN after = DOMAIN stored \cup {RefreshTokenKey}
      /\ after[RefreshTokenKey] = t
      /\ \A k \in DOMAIN stored \ {RefreshTokenKey} : after[k] = stored[k]
  BY DEF SetKey, Extend
<1>4. AccessTokenKey # RefreshTokenKey
  BY DEF AccessTokenKey, RefreshTokenKey
<1>5. g[Max(R \cup {n})].refresh_token = t
  BY <1>2
<1>6. HasMax(R \cup {n})
  BY <1>2 DEF HasMax
<1> HIDE DEF n, t, after
<1>7. SecretsFollow(after, p, g, S, R \cup {n})
  BY <1>3, <1>4, <1>5 DEF SecretsFollow, Holds
<1> QED
  BY <1>6, <1>7 DEF n, t, after

(* An answer adds its own place to the grants, or none.                    *)
LEMMA AnswerPlaces ==
  ASSUME NEW T, NEW g \in Seq(T), NEW x \in T
  PROVE  /\ Append(g, x) \in Seq(T) /\ Append(g, x) # << >>
         /\ Len(Append(g, x)) = Len(g) + 1
         /\ Append(g, x)[Len(g) + 1] = x
         /\ Len(g) + 1 \notin DOMAIN g
         /\ Granted(Append(g, x)) \ {Len(g) + 1} = Granted(g)
         /\ Renewable(Append(g, x)) \ {Len(g) + 1} = Renewable(g)
         /\ x = None => Granted(Append(g, x)) = Granted(g)
                        /\ Renewable(Append(g, x)) = Renewable(g)
<1> DEFINE h == Append(g, x)
           n == Len(g) + 1
<1>1. h \in Seq(T) /\ h # << >> /\ Len(h) = n /\ h[n] = x
  BY AppendProperties
<1>2. Len(g) \in Nat /\ DOMAIN g = 1 .. Len(g) /\ DOMAIN h = 1 .. n
  BY <1>1, LenProperties
<1>3. n \notin DOMAIN g /\ DOMAIN h = DOMAIN g \cup {n}
  BY <1>2
<1>4. \A i \in DOMAIN g : h[i] = g[i]
  BY AppendProperties
<1> HIDE DEF h, n
<1>5. /\ Granted(h) \ {n} = Granted(g)
      /\ Renewable(h) \ {n} = Renewable(g)
      /\ x = None => Granted(h) = Granted(g) /\ Renewable(h) = Renewable(g)
  BY <1>1, <1>3, <1>4 DEF Granted, Renewable
<1> QED
  BY <1>1, <1>3, <1>5 DEF h, n

(* Each call of apply on the secrets store takes it one part further.      *)
LEMMA SecretsFitStep ==
  ASSUME TypeOK, NEW a \in Appliers, Step(a),
         ReportFits(a, pc[a], call[a], report[a]),
         SecretsFit(pc[a], call[a], report[a], grants[a], secrets[SecretsNs(a)])
  PROVE  SecretsFit(pc'[a], call'[a], report'[a], grants'[a], secrets'[SecretsNs(a)])
<1> DEFINE ns == SecretsNs(a)
           p == call[a].plan
           g == grants[a]
           rep == report[a]
           stored == secrets[ns]
           Goal == SecretsFit(pc'[a], call'[a], report'[a], grants'[a], secrets'[ns])
<1>t. /\ g \in Seq(TokenSets \cup {None})
      /\ rep.secret_deleted_keys \in Seq(Key)
      /\ ns \in DOMAIN secrets
      /\ PlanOf(a) = p
      /\ Len(<< >>) = 0 /\ DOMAIN << >> = {}
      /\ DOMAIN g = 1 .. Len(g) /\ Len(g) \in Nat
  BY LenProperties DEF TypeOK, Report, PlanOf
<1>1. ASSUME NEW q \in Plans, NEW mode \in ApplyMode, Begin(a, q, mode) PROVE Goal
  BY <1>1 DEF Begin, GoTo, TypeOK, SecretsFit
<1>2. ASSUME PlanChanges(a) PROVE Goal
  BY <1>2 DEF PlanChanges, GoTo, TypeOK, SecretsFit, InMode
<1>3. ASSUME ApplyConfig(a) PROVE Goal
  <2>1. /\ pc[a] = "changes" /\ pc'[a] = "secrets"
        /\ call'[a] = call[a] /\ grants'[a] = g
        /\ report'[a].secret_set_keys = {}
        /\ report'[a].secret_deleted_keys = << >>
    <3>1. report'[a] = [rep EXCEPT !.config_changes = DOMAIN PlanOf(a).config_patch]
      BY <1>3 DEF ApplyConfig, TypeOK
    <3>2. rep = EmptyReport
      BY <1>3 DEF ApplyConfig, ReportFits
    <3>3. /\ report'[a].secret_set_keys = {}
          /\ report'[a].secret_deleted_keys = << >>
      BY <3>1, <3>2 DEF EmptyReport
    <3> QED
      BY <1>3, <3>3 DEF ApplyConfig, GoTo, TypeOK
  <2> QED
    BY <1>t, <2>1 DEF SecretsFit, PatchFits, Range
<1>4. ASSUME SetSecret(a) PROVE Goal
  <2>1. PICK k \in SettableKeys(p) :
          /\ secrets' = [secrets EXCEPT ![ns] =
               SetKey(@, k, RedactedToValue(p.secrets_set[k]))]
          /\ report' = [report EXCEPT ![a].secret_set_keys = @ \cup {k}]
          /\ k \notin rep.secret_set_keys
    BY <1>4, <1>t DEF SetSecret
  <2>2. /\ pc[a] = "secrets" /\ pc'[a] = pc[a]
        /\ call'[a] = call[a] /\ call[a] # None /\ call[a].mode = "apply"
        /\ grants'[a] = g
    BY <1>4 DEF SetSecret, InMode
  <2>3. PatchFits(p, rep, stored) /\ g = << >>
    BY <2>2 DEF SecretsFit
  <2>4. rep.secret_deleted_keys = << >>
    BY <2>1, <2>3 DEF PatchFits
  <2>5. /\ report'[a].secret_set_keys = rep.secret_set_keys \cup {k}
        /\ report'[a].secret_deleted_keys = << >>
    BY <2>1, <2>4 DEF TypeOK, Report
  <2>6. secrets'[ns] = SetKey(stored, k, p.secrets_set[k].value)
    BY <1>t, <2>1 DEF SettableKeys, RedactedToValue
  <2>7. PatchFits(p, report'[a], secrets'[ns])
    BY <1>t, <2>3, <2>4, <2>5, <2>6 DEF PatchFits, SetKey, Extend, Holds, Range
  <2> QED
    BY <2>2, <2>3, <2>7 DEF SecretsFit
<1>5. ASSUME DeleteSecret(a) PROVE Goal
  <2> DEFINE k == p.secrets_delete[Len(rep.secret_deleted_keys) + 1]
             deleted == rep.secret_deleted_keys
  <2>1. /\ secrets' = [secrets EXCEPT ![ns] = DeleteKey(@, k)]
        /\ report' = [report EXCEPT ![a].secret_deleted_keys = Append(@, k)]
        /\ Len(deleted) + 1 <= Len(p.secrets_delete)
        /\ SettableKeys(p) \subseteq rep.secret_set_keys
    BY <1>5, <1>t DEF DeleteSecret, NextDelete, SecretsAreSet
  <2>2. /\ pc[a] = "secrets" /\ pc'[a] = pc[a]
        /\ call'[a] = call[a] /\ call[a] # None /\ call[a].mode = "apply"
        /\ grants'[a] = g
    BY <1>5 DEF DeleteSecret, InMode
  <2>3. PatchFits(p, rep, stored) /\ g = << >>
    BY <2>2 DEF SecretsFit
  <2>4. k \in Key
    <3>1. p.secrets_delete \in Seq(Key)
      BY <1>t, <2>2, PlanFieldTypes
    <3> QED
      BY <1>t, <2>1, <3>1, LenProperties
  <2> HIDE DEF k
  <2>5. /\ report'[a].secret_set_keys = rep.secret_set_keys
        /\ report'[a].secret_deleted_keys = Append(deleted, k)
    BY <2>1 DEF TypeOK, Report
  <2>6. Range(Append(deleted, k)) = Range(deleted) \cup {k}
    <3>1. /\ Len(Append(deleted, k)) = Len(deleted) + 1
          /\ Append(deleted, k)[Len(deleted) + 1] = k
          /\ \A i \in 1 .. Len(deleted) : Append(deleted, k)[i] = deleted[i]
          /\ DOMAIN Append(deleted, k) = 1 .. (Len(deleted) + 1)
          /\ DOMAIN deleted = 1 .. Len(deleted) /\ Len(deleted) \in Nat
      BY <1>t, <2>4, AppendProperties, LenProperties
    <3> QED
      BY <3>1 DEF Range
  <2>7. secrets'[ns] = DeleteKey(stored, k)
    BY <1>t, <2>1
  <2>8. PatchFits(p, report'[a], secrets'[ns])
    BY <2>1, <2>3, <2>5, <2>6, <2>7 DEF PatchFits, DeleteKey, Holds
  <2> QED
    BY <2>2, <2>3, <2>8 DEF SecretsFit
<1>6. ASSUME RecordInstall(a) PROVE Goal
  <2>1. /\ pc[a] = "secrets" /\ pc'[a] = "oauth"
        /\ call'[a] = call[a] /\ grants'[a] = g /\ secrets' = secrets
    BY <1>6 DEF RecordInstall, GoTo, TypeOK
  <2>2. ASSUME call[a] # None, call[a].mode = "apply"
        PROVE  SecretsFollow(stored, p, g, {}, {}) /\ g = << >>
    <3>1. PatchFits(p, rep, stored) /\ g = << >>
      BY <2>1, <2>2 DEF SecretsFit
    <3>2. /\ SettableKeys(p) \subseteq rep.secret_set_keys
          /\ ~(Len(rep.secret_deleted_keys) + 1 <= Len(p.secrets_delete))
      BY <1>6, <1>t, <2>2, PlanFieldTypes, LenProperties
      DEF RecordInstall, SecretsArePatched, SecretsAreSet, NextDelete, InMode
    <3>3. rep.secret_deleted_keys = p.secrets_delete
      <4>1. p.secrets_delete \in Seq(Key)
        BY <1>t, <2>1, PlanFieldTypes
      <4> QED
        BY <1>t, <2>1, <3>2, <4>1, NoNextItem DEF ReportFits
    <3> QED
      BY <3>1, <3>2, <3>3 DEF PatchFits, SecretsFollow
  <2>3. g = << >> => /\ AccessStored("oauth", g) = {}
                     /\ RefreshStored("oauth", g) = {}
    BY <1>t DEF AccessStored, RefreshStored, Granted, Renewable
  <2> QED
    BY <2>1, <2>2, <2>3 DEF SecretsFit, HasMax
<1>7. ASSUME ListOAuthOp(a) PROVE Goal
  BY <1>7 DEF ListOAuthOp, PushOAuthOp, SecretsFit, InMode
<1>8. ASSUME StartOAuth(a) PROVE Goal
  <2>1. PICK grant \in TokenSets \cup {None} :
          /\ grants'[a] = Append(g, grant)
          /\ pc'[a] = IF grant = None THEN "oauth" ELSE "access_token"
    BY <1>8 DEF StartOAuth, GoTo, TypeOK
  <2>2. /\ pc[a] = "oauth" /\ call'[a] = call[a] /\ secrets' = secrets
        /\ call[a] # None /\ call[a].mode = "apply"
    BY <1>8 DEF StartOAuth, PushOAuthOp, InMode
  <2>3. /\ AccessStored("oauth", g) = Granted(g)
        /\ RefreshStored("oauth", g) = Renewable(g)
        /\ Granted(g) \subseteq DOMAIN g /\ Renewable(g) \subseteq DOMAIN g
    BY DEF AccessStored, RefreshStored, Granted, Renewable
  <2>4. /\ SecretsFollow(stored, p, g, Granted(g), Renewable(g))
        /\ HasMax(Granted(g)) /\ HasMax(Renewable(g))
    BY <2>2, <2>3 DEF SecretsFit
  <2>5. SecretsFollow(stored, p, Append(g, grant), Granted(g), Renewable(g))
    BY <1>t, <2>3, <2>4, OneMoreAnswer
  <2>6. /\ AccessStored(pc'[a], Append(g, grant)) = Granted(g)
        /\ RefreshStored(pc'[a], Append(g, grant)) = Renewable(g)
    BY <1>t, <2>1, AnswerPlaces DEF AccessStored, RefreshStored
  <2>7. pc'[a] \notin {"idle", "changes", "secrets"}
    BY <2>1
  <2> QED
    BY <2>1, <2>2, <2>4, <2>5, <2>6, <2>7 DEF SecretsFit
<1>9. ASSUME pc[a] \in {"access_token", "refresh_token"}
      PROVE  /\ call[a] # None /\ call[a].mode = "apply"
             /\ g # << >> /\ g[Len(g)] # None
             /\ Len(g) \in DOMAIN g
             /\ pc[a] = "refresh_token" => g[Len(g)].refresh_token # None
  BY <1>9, <1>t, NoneAssumption, EmptySeq DEF TypeOK, LocalsOK, LastGrant
<1>10. ASSUME StoreAccessToken(a) PROVE Goal
  <2> DEFINE R == RefreshStored("access_token", g)
             S == AccessStored("access_token", g)
             after == SetKey(stored, AccessTokenKey, g[Len(g)].access_token)
  <2>1. /\ pc[a] = "access_token"
        /\ pc'[a] = IF g[Len(g)].refresh_token = None THEN "oauth" ELSE "refresh_token"
        /\ call'[a] = call[a] /\ grants'[a] = g
        /\ secrets'[ns] = after
    BY <1>10, <1>t DEF StoreAccessToken, GoTo, TypeOK, LastGrant
  <2>2. SecretsFollow(stored, p, g, S, R) /\ HasMax(R)
    BY <1>9, <2>1 DEF SecretsFit
  <2>3. S \subseteq DOMAIN g
    BY DEF AccessStored, Granted
  <2>4. SecretsFollow(after, p, g, S \cup {Len(g)}, R) /\ HasMax(S \cup {Len(g)})
    <3> HIDE DEF S, R
    <3> QED BY <1>t, <1>9, <2>1, <2>2, <2>3, AccessTokenFollows
  <2>5. AccessStored(pc'[a], g) = S \cup {Len(g)}
    BY <1>9, <2>1 DEF AccessStored, Granted
  <2>6. RefreshStored(pc'[a], g) = R
    BY <1>9, <2>1 DEF RefreshStored, Renewable
  <2> HIDE DEF S, R, after
  <2> QED
    BY <2>1, <2>2, <2>4, <2>5, <2>6 DEF SecretsFit
<1>11. ASSUME StoreRefreshToken(a) PROVE Goal
  <2> DEFINE R == RefreshStored("refresh_token", g)
             S == AccessStored("refresh_token", g)
             after == SetKey(stored, RefreshTokenKey, g[Len(g)].refresh_token)
  <2>1. /\ pc[a] = "refresh_token" /\ pc'[a] = "oauth"
        /\ call'[a] = call[a] /\ grants'[a] = g
        /\ secrets'[ns] = after
    BY <1>11, <1>t DEF StoreRefreshToken, GoTo, TypeOK, LastGrant
  <2>2. SecretsFollow(stored, p, g, S, R) /\ HasMax(S)
    BY <1>9, <2>1 DEF SecretsFit
  <2>3. R \subseteq DOMAIN g
    BY DEF RefreshStored, Renewable, Granted
  <2>4. SecretsFollow(after, p, g, S, R \cup {Len(g)}) /\ HasMax(R \cup {Len(g)})
    <3> HIDE DEF S, R
    <3> QED BY <1>t, <1>9, <2>1, <2>2, <2>3, RefreshTokenFollows
  <2>5. AccessStored("oauth", g) = S
    BY DEF AccessStored
  <2>6. RefreshStored("oauth", g) = R \cup {Len(g)}
    BY <1>9, <2>1 DEF RefreshStored, Renewable, Granted
  <2> HIDE DEF S, R, after
  <2> QED
    BY <2>1, <2>2, <2>4, <2>5, <2>6 DEF SecretsFit
<1>12. ASSUME Return(a) PROVE Goal
  <2>1. /\ pc[a] = "oauth" /\ pc'[a] = "done"
        /\ call'[a] = call[a] /\ grants'[a] = g /\ secrets' = secrets
    BY <1>12 DEF Return, GoTo, TypeOK
  <2> QED
    BY <2>1 DEF SecretsFit, AccessStored, RefreshStored
<1>13. ASSUME Crash(a) PROVE Goal
  BY <1>13 DEF Crash, TypeOK, SecretsFit
<1> QED
  BY <1>1, <1>2, <1>3, <1>4, <1>5, <1>6, <1>7, <1>8, <1>10, <1>11, <1>12, <1>13 DEF Step

(* Nobody else writes to the secrets of an applier with a namespace of its *)
(* own.                                                                    *)
LEMMA OtherSecretsStay ==
  ASSUME TypeOK, NEW a \in Appliers, Step(a), NEW b \in Appliers,
         ConfigNs(a) # ConfigNs(b)
  PROVE  secrets'[SecretsNs(b)] = secrets[SecretsNs(b)]
<1>1. SecretsNs(a) # SecretsNs(b)
  BY InputsAssumption, SecretsNamespaceIsInjective DEF SecretsNs, ConfigNs
<1>2. SecretsNs(b) \in DOMAIN secrets
  BY DEF TypeOK
<1>3. CASE SetSecret(a)
  BY <1>1, <1>2, <1>3 DEF SetSecret
<1>4. CASE DeleteSecret(a)
  BY <1>1, <1>2, <1>4 DEF DeleteSecret
<1>5. CASE StoreAccessToken(a) \/ StoreRefreshToken(a)
  BY <1>1, <1>2, <1>5 DEF StoreAccessToken, StoreRefreshToken
<1>6. CASE ~(SetSecret(a) \/ DeleteSecret(a) \/ StoreAccessToken(a) \/ StoreRefreshToken(a))
  <2>1. secrets' = secrets
    BY <1>6 DEF Step, Begin, PlanChanges, ApplyConfig, RecordInstall, ListOAuthOp,
       PushOAuthOp, StartOAuth, Return, Crash
  <2> QED
    BY <2>1
<1> QED
  BY <1>3, <1>4, <1>5, <1>6

(* When no two appliers configure one namespace, an apply that returns has *)
(* left its plan's secrets and the newest tokens in the secrets store: the *)
(* tokens over the plan, a delete over a set, whatever was there before.   *)
THEOREM AppliesEstablishSecrets ==
  ASSUME \A a, b \in Appliers : a # b => ConfigNs(a) # ConfigNs(b)
  PROVE  Spec => []CompletedApplyEstablishesSecrets
<1>1. Init => AllSecretsFit
  BY DEF Init, AllSecretsFit, SecretsFit
<1>2. TypeOK /\ ReportsFit /\ AllSecretsFit /\ [Next]_vars => AllSecretsFit'
  <2> SUFFICES ASSUME TypeOK, ReportsFit, AllSecretsFit, [Next]_vars
               PROVE  AllSecretsFit'
    OBVIOUS
  <2>1. CASE UNCHANGED vars
    BY <2>1 DEF vars, AllSecretsFit
  <2>2. CASE Next
    <3>1. PICK a \in Appliers : Step(a)
      BY <2>2 DEF Next, Step
    <3>2. ASSUME NEW b \in Appliers
          PROVE  SecretsFit(pc'[b], call'[b], report'[b], grants'[b],
                            secrets'[SecretsNs(b)])
      <4>1. CASE b = a
        BY <3>1, <4>1, SecretsFitStep DEF AllSecretsFit, ReportsFit
      <4>2. CASE b # a
        BY <3>1, <4>2, OthersStay, OtherSecretsStay DEF AllSecretsFit
      <4> QED
        BY <4>1, <4>2
    <3> QED
      BY <3>2 DEF AllSecretsFit
  <2> QED
    BY <2>1, <2>2
<1>3. AllSecretsFit => CompletedApplyEstablishesSecrets
  <2> SUFFICES ASSUME AllSecretsFit, NEW a \in Appliers, Returned(a, "apply")
               PROVE  SecretsFollow(secrets[SecretsNs(a)], PlanOf(a), grants[a],
                                    Granted(grants[a]), Renewable(grants[a]))
    BY DEF CompletedApplyEstablishesSecrets
  <2>1. pc[a] = "done" /\ call[a] # None /\ call[a].mode = "apply"
    BY DEF Returned, InMode
  <2>2. /\ AccessStored("done", grants[a]) = Granted(grants[a])
        /\ RefreshStored("done", grants[a]) = Renewable(grants[a])
    BY DEF AccessStored, RefreshStored
  <2>3. SecretsFit("done", call[a], report[a], grants[a], secrets[SecretsNs(a)])
    BY <2>1 DEF AllSecretsFit
  <2> QED
    BY <2>1, <2>2, <2>3 DEF SecretsFit, PlanOf
<1> QED
  BY <1>1, <1>2, <1>3, TypeCorrect, ReportsAlwaysFit, PTL DEF Spec

-----------------------------------------------------------------------------
(* Both results for what a caller can see to: when the appliers are for    *)
(* different, well named installations, an apply that returns has          *)
(* established its plan in all three stores.                               *)
THEOREM WellNamedInstallsAreEstablished ==
  ASSUME \A a \in Appliers : WellNamed(Inputs[a]),
         \A a, b \in Appliers : a # b => Inputs[a] # Inputs[b]
  PROVE  Spec => /\ []CompletedApplyEstablishesInstall
                 /\ []CompletedApplyEstablishesSecrets
<1>1. \A a, b \in Appliers : a # b => ConfigNs(a) # ConfigNs(b)
  BY InputsAssumption, NamespaceIsInjective DEF ConfigNs
<1>2. Spec => []CompletedApplyEstablishesInstall
  BY <1>1, AppliesEstablishInstalls
<1>3. Spec => []CompletedApplyEstablishesSecrets
  BY <1>1, AppliesEstablishSecrets
<1> QED
  BY <1>2, <1>3

===============================================================================
