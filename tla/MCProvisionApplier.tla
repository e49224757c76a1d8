-------------------------- MODULE MCProvisionApplier --------------------------
(* Small installations and plans for the runs of ProvisionApplier. *)
EXTENDS ProvisionApplier, TLC

Pieces == {"provision", "secrets", "unknown", "prod", "acme", "telegram",
           "main", "spare", "first", "second", "inbox"}

TenantOf(user) ==
  [environment |-> <<"prod">>, tenant |-> <<"acme">>, team |-> None,
   user |-> user]

InstallFor(user, install_id) ==
  [tenant |-> TenantOf(user), provider_id |-> <<"telegram">>,
   install_id |-> <<install_id>>]

(* Two installations of one provider for one tenant. *)
TwoInstalls == [a \in Appliers |->
  InstallFor(None, IF a = "first" THEN "main" ELSE "spare")]

(* Two processes that provision the same installation. *)
SameInstall == [a \in Appliers |-> InstallFor(None, "main")]

(* Two users of one team: two keys of the install store. *)
TwoUsers == [a \in Appliers |-> InstallFor(<<a>>, "main")]

Plain(secret) == [redacted |-> FALSE, value |-> secret]
Redacted      == [redacted |-> TRUE, value |-> None]

Subscription(op, id) ==
  [op |-> op, id |-> id, resource |-> None, expiry |-> None]

Start(provider) == [provider |-> provider]

(* A setup: a key with a value, one that the plan only redacts, a grant.   *)
SetupPlan == MergePatch(DefaultPlan,
  [config_patch     |-> "region" :> "v1",
   secrets_set      |-> ("api_key" :> Plain("s1")) @@ ("hook" :> Redacted),
   subscription_ops |-> <<Subscription("register", <<"inbox">>)>>,
   oauth_ops        |-> <<Start("idp"), Start("mail")>>])

(* A rotation: it deletes a key that it also sets, and the tokens that a   *)
(* setup has stored, and asks for no new ones.                             *)
RotatePlan == MergePatch(DefaultPlan,
  [config_patch     |-> "region" :> "v2",
   secrets_set      |-> "api_key" :> Plain("s2"),
   secrets_delete   |-> <<"api_key", "oauth_refresh_token">>])

(* A plan that subscribes to nothing and withdraws a secret.               *)
ConfigPlan == MergePatch(DefaultPlan,
  [config_patch     |-> ("region" :> "v2") @@ ("hook" :> "v1"),
   secrets_delete   |-> <<"api_key">>,
   subscription_ops |-> <<Subscription("delete", <<"inbox">>)>>])

TwoPlans == {SetupPlan, RotatePlan}
MorePlans == {SetupPlan, ConfigPlan}

LongGrant  == [access_token |-> "t1", refresh_token |-> "r1"]
ShortGrant == [access_token |-> "t2", refresh_token |-> None]
BothGrants == {LongGrant, ShortGrant}
OneGrant   == {LongGrant}

AllKeys == {"region", "api_key", "hook", AccessTokenKey, RefreshTokenKey}
OAuthOps == {Start("idp"), Start("mail")}
===============================================================================
