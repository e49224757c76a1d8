---------------------------- MODULE ProvisionEngine ----------------------------
(***************************************************************************)
(* ProvisionEngine (engine.rs) runs the four steps of a provisioning flow  *)
(* through an executor, hands every step the outputs of the earlier ones,  *)
(* and merges the patches they emit into one plan.  It can also replay     *)
(* step outputs recorded in fixture files.                                 *)
(*                                                                         *)
(* The executor is WasmtimeExecutor (executor.rs), seen from the engine:   *)
(* its run_step turns the JSON a component replied with into a StepOutput, *)
(* and any error into a StepOutput without a patch.  How a component is    *)
(* run is the subject of StepExecutor.                                     *)
(***************************************************************************)
EXTENDS ProvisionPlan, Integers, SequencesExt

CONSTANTS
  None,            \* the absent value of an Option; an item that does not parse
  Replies,         \* the JSON documents a component may reply with
  FixtureOutputs   \* the StepOutputs that fixture files may hold

(***************************************************************************)
(* A reply is a record of its members "plan", "diagnostics" and            *)
(* "questions".  A plan is a function on the members it has, and a member  *)
(* is a JSON value [type, value]: the entries of an object, the items of   *)
(* an array.  An item of the wrong shape is None; so is the value of a     *)
(* secrets_patch that is not a SecretsPatch.                               *)
(***************************************************************************)
OpFields == {"webhook_ops", "subscription_ops", "oauth_ops"}

Items(json) == ToSet(json.value)

(* A faulty Rejected: operations are taken as they come.                   *)
RejectedSecrets(raw) ==
  /\ "secrets_patch" \in DOMAIN raw
  /\ raw["secrets_patch"].value = None

(* plan_patch_from_value returns an error: a secrets_patch that does not   *)
(* parse, or an operation that does not parse in an array of operations.   *)
Rejected(raw) ==
  \/ /\ "secrets_patch" \in DOMAIN raw
     /\ raw["secrets_patch"].value = None
  \/ \E f \in OpFields \cap DOMAIN raw :
       raw[f].type = "array" /\ None \in Items(raw[f])

(* filter_map(as_str): an item that is not a string is left out.           *)
Strings(list) ==
  FlattenSeq([i \in DOMAIN list |-> IF list[i] = None THEN << >> ELSE <<list[i]>>])

(* A faulty Lists: it forgets the OAuth operations.                        *)
ListsWithoutOAuth(raw) ==
  {f \in {"webhook_ops", "subscription_ops", "notes"} \cap DOMAIN raw : raw[f].type = "array"}

(* The lists that a plan's JSON gives. *)
Lists(raw) ==
  {f \in (OpFields \cup {"notes"}) \cap DOMAIN raw : raw[f].type = "array"}

(* plan_patch_from_value: a member of the wrong type is left out, and so   *)
(* are notes that are not strings.                                         *)
PlanPatchFromValue(raw) ==
  LET maps    == {f \in {"config_patch"} \cap DOMAIN raw : raw[f].type = "object"}
      secrets == {f \in {"secrets_set", "secrets_delete"} :
                    "secrets_patch" \in DOMAIN raw}
  IN  [f \in maps \cup Lists(raw) \cup secrets |->
         CASE f = "secrets_set"    -> raw["secrets_patch"].value.set
           [] f = "secrets_delete" -> raw["secrets_patch"].value.delete
           [] f = "notes"          -> Strings(raw[f].value)
           [] OTHER                -> raw[f].value]

Output(data, diagnostics, patch, questions) ==
  [data |-> data, diagnostics |-> diagnostics,
   plan_patch |-> patch, questions |-> questions]

(* StepOutput::default(), the output of every NoopExecutor step. *)
DefaultOutput == Output(None, << >>, None, None)

(* What run_step returns for every ExecutorError. *)
ErrorOutput(step) ==
  Output([error |-> TRUE, step |-> step], << >>, None, None)

(* step_output_from_json: the whole reply is kept as data, its diagnostics *)
(* are not taken out of it.                                                *)
StepOutputFromJson(reply) ==
  Output(reply, << >>,
         IF reply.plan = None THEN None ELSE PlanPatchFromValue(reply.plan),
         reply.questions)

Accepted(reply) == reply # None /\ (reply.plan # None => ~Rejected(reply.plan))

(* WasmtimeExecutor::run_step; the reply None is a run that failed. *)
RunStepOutput(step, reply) ==
  IF Accepted(reply) THEN StepOutputFromJson(reply) ELSE ErrorOutput(step)

-----------------------------------------------------------------------------
Steps    == <<"collect", "validate", "apply", "summary">>
StepSet  == {"collect", "validate", "apply", "summary"}
Modes    == {"install", "update", "delete", "dry_run"}

OneIf(step, given) == IF step \in given THEN <<step>> ELSE << >>

(* FixturePaths::iter *)
FixtureSteps(given) ==
  (OneIf("collect", given) \o OneIf("validate", given))
    \o (OneIf("apply", given) \o OneIf("summary", given))

VARIABLES
  phase,         \* "idle", "running", "returned" or "failed"
  mode,          \* the mode of the run
  source,        \* where outputs come from: "wasm", "noop" or "fixtures"
  todo,          \* the steps left
  plan,          \* the plan so far
  diagnostics,   \* the diagnostics so far
  step_results,  \* the StepResults so far
  told,          \* history: what the component of each step was told
  replies        \* history: what the components replied in this run

vars == <<phase, mode, source, todo, plan, diagnostics, step_results, told, replies>>

Init ==
  /\ phase = "idle"
  /\ mode = "install"
  /\ source = "noop"
  /\ todo = << >>
  /\ plan = DefaultPlan
  /\ diagnostics = << >>
  /\ step_results = << >>
  /\ told = << >>
  /\ replies = << >>

Start(src, m, steps) ==
  /\ phase # "running"
  /\ phase' = "running"
  /\ mode' = m
  /\ source' = src
  /\ todo' = steps
  /\ plan' = DefaultPlan
  /\ diagnostics' = << >>
  /\ step_results' = << >>
  /\ told' = << >>
  /\ replies' = << >>

(* ProvisionEngine::run; the mode only goes into the context. *)
Run(executor, m) == Start(executor, m, Steps)

(* ProvisionEngine::plan_from_fixtures, given paths for some of the steps. *)
PlanFromFixtures(given) ==
  Start("fixtures", mode, FixtureSteps(given))

(* What the loop body does with the output of the next step. *)
Accumulate(output) ==
  /\ plan' = IF output.plan_patch = None THEN plan
             ELSE MergePatch(plan, output.plan_patch)
  /\ diagnostics' = diagnostics \o output.diagnostics
  /\ step_results' = Append(step_results, [step |-> Head(todo), output |-> output])
  /\ todo' = Tail(todo)
  /\ UNCHANGED <<phase, mode, source>>

(* A faulty Context: it passes on only the result of the step before.      *)
ContextOfLastStep ==
  [mode |-> mode, step |-> Head(todo),
   prior_results |-> IF step_results = << >> THEN << >>
                     ELSE <<Last(step_results)>>]

Context ==
  [mode |-> mode, step |-> Head(todo), prior_results |-> step_results]

(* The input that execute_component writes for a component, beside the     *)
(* inputs of the run: a context's step and results, and not its mode.      *)
ComponentInput(ctx) == [step |-> ctx.step, previous |-> ctx.prior_results]

Running(src) == phase = "running" /\ source = src /\ todo # << >>

RunWasmStep ==
  /\ Running("wasm")
  /\ told' = Append(told, ComponentInput(Context))
  /\ \E reply \in Replies \cup {None} :
       /\ Accumulate(RunStepOutput(Head(todo), reply))
       /\ replies' = Append(replies, reply)

RunNoopStep ==
  /\ Running("noop")
  /\ Accumulate(DefaultOutput)
  /\ UNCHANGED <<told, replies>>

LoadFixture ==
  /\ Running("fixtures")
  /\ \E output \in FixtureOutputs : Accumulate(output)
  /\ UNCHANGED <<told, replies>>

(* load_step_output fails and plan_from_fixtures returns the error. *)
FixtureFails ==
  /\ Running("fixtures")
  /\ phase' = "failed"
  /\ UNCHANGED <<mode, source, todo, plan, diagnostics, step_results, told, replies>>

Return ==
  /\ phase = "running" /\ todo = << >>
  /\ phase' = "returned"
  /\ UNCHANGED <<mode, source, todo, plan, diagnostics, step_results, told, replies>>

Next ==
  \/ \E executor \in {"wasm", "noop"}, m \in Modes : Run(executor, m)
  \/ \E given \in SUBSET StepSet : PlanFromFixtures(given)
  \/ RunWasmStep
  \/ RunNoopStep
  \/ LoadFixture
  \/ FixtureFails
  \/ Return

Spec == Init /\ [][Next]_vars

-----------------------------------------------------------------------------
(* The outputs that a step may have, and the results made of them. *)
StepOutput ==
  {RunStepOutput(s, r) : s \in StepSet, r \in Replies \cup {None}}
    \cup {DefaultOutput} \cup FixtureOutputs

StepResult == [step : StepSet, output : StepOutput]

(* None is no patch, the lists of an output are sequences, and those that  *)
(* serde reads (a SecretsPatch, the patch of a fixture) have no None.      *)
ASSUME PatchesAssumption ==
  /\ \A r \in Replies :
       r # None /\ r.plan # None /\ ~Rejected(r.plan) =>
         /\ PlanPatchFromValue(r.plan) # None
         /\ "secrets_patch" \in DOMAIN r.plan =>
              None \notin ToSet(r.plan["secrets_patch"].value.delete)
         /\ "notes" \in Lists(r.plan) =>
              r.plan["notes"].value \in Seq(ToSet(r.plan["notes"].value))
  /\ \A output \in FixtureOutputs :
       output.plan_patch # None =>
         \A f \in ListFields \cap DOMAIN output.plan_patch :
           None \notin ToSet(output.plan_patch[f])
  /\ \A output \in StepOutput :
       /\ output.diagnostics \in Seq(ToSet(output.diagnostics))
       /\ output.plan_patch # None =>
            \A f \in ListFields \cap DOMAIN output.plan_patch :
              output.plan_patch[f] \in Seq(ToSet(output.plan_patch[f]))

Patch(i)  == step_results[i].output.plan_patch
Giving(f) == {i \in DOMAIN step_results : Patch(i) # None /\ f \in DOMAIN Patch(i)}

(* The run state: the steps done and left are those of the run, in order,  *)
(* the plan has its fields, and no operation in it failed to parse.        *)
TypeOK ==
  /\ phase \in {"idle", "running", "returned", "failed"}
  /\ mode \in Modes
  /\ source \in {"wasm", "noop", "fixtures"}
  /\ todo \in Seq(StepSet)
  /\ step_results \in Seq(StepResult)
  /\ DOMAIN plan = PlanFields
  /\ \A f \in ListFields : None \notin ToSet(plan[f])
  /\ phase = "returned" => todo = << >>
  /\ source # "fixtures" /\ phase # "idle" =>
       [i \in DOMAIN step_results |-> step_results[i].step] \o todo = Steps
  /\ source = "wasm" => Len(replies) = Len(step_results)

(* In the maps of the plan, every key that a step gave is present, with    *)
(* the value of the last step that gave it, and no other key is.           *)
LastPatchWins ==
  \A f \in MapFields :
    /\ DOMAIN plan[f] = UNION {DOMAIN Patch(i)[f] : i \in Giving(f)}
    /\ \A k \in DOMAIN plan[f] : \E i \in Giving(f) :
         /\ k \in DOMAIN Patch(i)[f]
         /\ plan[f][k] = Patch(i)[f][k]
         /\ \A j \in Giving(f) : j > i => k \notin DOMAIN Patch(j)[f]

(* The lists of the plan, and its diagnostics, are those of the steps, one *)
(* after the other.                                                        *)
ListsKeepStepOrder ==
  /\ \A f \in ListFields :
       plan[f] = FlattenSeq([i \in DOMAIN step_results |->
                               IF i \in Giving(f) THEN Patch(i)[f] ELSE << >>])
  /\ diagnostics = FlattenSeq([i \in DOMAIN step_results |->
                                  step_results[i].output.diagnostics])

(* The members of a reply's plan that do not parse: an array with an       *)
(* operation that does not, a secrets_patch that does not.                 *)
Unparsed(raw) ==
  {f \in OpFields \cap DOMAIN raw :
     raw[f].type = "array" /\ None \in ToSet(raw[f].value)}
    \cup {f \in {"secrets_patch"} \cap DOMAIN raw : raw[f].value = None}

ParsedPlan(reply) ==
  reply # None /\ reply.plan # None /\ Unparsed(reply.plan) = {}

(* The items, or the keys, that a reply's plan gives for a field: none     *)
(* when the member is not there or is of the wrong type.                   *)
Given(raw, f) ==
  CASE f \in OpFields \cap DOMAIN raw /\ raw[f].type = "array" ->
         ToSet(raw[f].value)
    [] f = "config_patch" /\ f \in DOMAIN raw /\ raw[f].type = "object" ->
         DOMAIN raw[f].value
    [] f = "secrets_set" /\ "secrets_patch" \in DOMAIN raw ->
         DOMAIN raw["secrets_patch"].value.set
    [] f = "secrets_delete" /\ "secrets_patch" \in DOMAIN raw ->
         ToSet(raw["secrets_patch"].value.delete)
    [] OTHER -> {}

Held(f) == IF f \in MapFields THEN DOMAIN plan[f] ELSE ToSet(plan[f])

(* The plan holds what the replies of all steps asked for that parse, and  *)
(* nothing else.  One operation that does not parse, or the secrets patch, *)
(* takes the rest of its reply with it.  A member of the wrong type takes  *)
(* only itself with it: the code drops it and says nothing.                *)
PlanIsOfParsedReplies ==
  source = "wasm" =>
    \A f \in PlanFields \ {"notes"} :
      Held(f) = UNION {Given(replies[i].plan, f) :
                         i \in {j \in DOMAIN replies : ParsedPlan(replies[j])}}

(* The component of a step is told what became of each step before it in   *)
(* this run, in order: the whole reply, with the diagnostics that the      *)
(* result of the run drops, or an error when the component failed or its   *)
(* plan was refused.  A step runs whatever failed before it, and this is   *)
(* how it can know.                                                        *)
ComponentsSeeEarlierReplies ==
  source = "wasm" =>
    /\ Len(told) = Len(replies)
    /\ \A i \in DOMAIN told :
         /\ told[i].step = Steps[i]
         /\ Len(told[i].previous) = i - 1
         /\ \A j \in 1 .. (i - 1) :
              LET earlier == told[i].previous[j]
              IN  /\ earlier.step = Steps[j]
                  /\ earlier.output.data =
                       IF Accepted(replies[j]) THEN replies[j]
                       ELSE ErrorOutput(Steps[j]).data

-----------------------------------------------------------------------------
(* What the development notes promise, and the code does not do.           *)

(* .codex/GPROV-PR-03.md:58 "Test that provisioning run returns expected   *)
(* plan and diagnostics": the diagnostics that the components replied with *)
(* are those of the result.                                                *)
ReplyDiagnosticsReachResult ==
  source = "wasm" /\ phase = "returned" =>
    \A i \in DOMAIN replies : replies[i] # None =>
      ToSet(replies[i].diagnostics) \subseteq ToSet(diagnostics)

===============================================================================
