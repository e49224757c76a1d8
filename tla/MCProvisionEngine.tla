-------------------------- MODULE MCProvisionEngine --------------------------
(* Replies and fixtures for the runs of ProvisionEngine. *)
EXTENDS ProvisionEngine

Object(entries) == [type |-> "object", value |-> entries]
Array(items)    == [type |-> "array", value |-> items]
Other           == [type |-> "other", value |-> None]

Reply(raw, diags) == [plan |-> raw, diagnostics |-> diags, questions |-> None]

Secrets(set, delete) == Object([set |-> set, delete |-> delete])

(* A reply that asks questions and has no plan. *)
Questions == [plan |-> None, diagnostics |-> << >>, questions |-> "card"]

(* A reply that rejects the answers with a diagnostic. *)
Refusal == Reply(None, <<"bad answer">>)

(* Two well-formed plans that share a config key and a secret. *)
FirstPlan == Reply(
  [config_patch |-> Object("url" :> "v1"),
   secrets_patch |-> Secrets("token" :> "s1", <<"old">>),
   oauth_ops |-> Array(<<"start">>)], << >>)
SecondPlan == Reply(
  [config_patch |-> Object(("url" :> "v2") @@ ("mode" :> "v1")),
   secrets_patch |-> Secrets("token" :> "s2", << >>),
   notes |-> Array(<<"note", None>>),
   oauth_ops |-> Other], <<"note dropped">>)

(* A good config patch beside an operation that does not parse, and beside *)
(* a secrets patch that does not parse.                                    *)
BadOp == Reply(
  [config_patch |-> Object("mode" :> "v2"),
   subscription_ops |-> Array(<<"register", None>>)], << >>)
BadSecrets == Reply(
  [config_patch |-> Object("mode" :> "v2"), secrets_patch |-> Other], << >>)

AllReplies == {Questions, Refusal, FirstPlan, SecondPlan, BadOp, BadSecrets}

AllFixtures ==
  {DefaultOutput,
   Output("fixture", <<"fixture warning">>,
          PlanPatchFromValue(FirstPlan.plan), None)}
===============================================================================
