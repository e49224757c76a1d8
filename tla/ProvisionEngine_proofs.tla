------------------------ MODULE ProvisionEngine_proofs ------------------------
EXTENDS ProvisionEngine, ListLemmas

(* What the proof needs of the types: the steps left and the results are   *)
(* sequences.                                                              *)
RunOK ==
  /\ todo \in Seq(StepSet)
  /\ step_results \in Seq(StepResult)

(* A run starts.                                                           *)
Starts ==
  /\ plan' = DefaultPlan
  /\ diagnostics' = << >>
  /\ step_results' = << >>
  /\ todo' \in Seq(StepSet)
  /\ told' = << >>
  /\ replies' = << >>
  /\ phase' = "running"
  /\ mode' \in Modes \cup {mode}
  /\ source' \in {"wasm", "noop", "fixtures"}
  /\ source' # "fixtures" => todo' = Steps

(* A step has its output, of the executor, of NoopExecutor or a fixture.   *)
Outputs(output) ==
  /\ phase = "running" /\ todo # << >>
  /\ Accumulate(output)
  /\ source = "wasm" => told' = Append(told, ComponentInput(Context))
  /\ source # "wasm" => told' = told
  /\ source = "wasm" =>
       \E reply \in Replies \cup {None} : /\ output = RunStepOutput(Head(todo), reply)
                                         /\ replies' = Append(replies, reply)

(* A run ends, or nothing happens.                                         *)
Rests ==
  /\ UNCHANGED <<mode, source, plan, diagnostics, step_results, todo, told, replies>>
  /\ \/ phase' = phase
     \/ phase = "running" /\ phase' = "failed"
     \/ phase = "running" /\ phase' = "returned" /\ todo = << >>

(* A step of the engine is one of three.                                   *)
LEMMA StepOutputs ==
  ASSUME RunOK, [Next]_vars
  PROVE  \/ Rests
         \/ Starts
         \/ \E output \in StepOutput : Outputs(output)
<1>1. ASSUME NEW given \in SUBSET StepSet PROVE FixtureSteps(given) \in Seq(StepSet)
  <2>1. \A s \in StepSet : OneIf(s, given) \in Seq(StepSet)
    BY DEF OneIf
  <2>2. /\ OneIf("collect", given) \in Seq(StepSet)
        /\ OneIf("validate", given) \in Seq(StepSet)
        /\ OneIf("apply", given) \in Seq(StepSet)
        /\ OneIf("summary", given) \in Seq(StepSet)
    BY <2>1 DEF StepSet
  <2> QED
    BY <2>2 DEF FixtureSteps
<1>2. Steps \in Seq(StepSet)
  BY DEF Steps, StepSet
<1>3. CASE \E executor \in {"wasm", "noop"}, m \in Modes : Run(executor, m)
  BY <1>2, <1>3 DEF Run, Start, Starts
<1>4. CASE \E given \in SUBSET StepSet : PlanFromFixtures(given)
  BY <1>1, <1>4 DEF PlanFromFixtures, Start, Starts
<1>5. CASE RunWasmStep
  <2>1. PICK reply \in Replies \cup {None} :
          /\ Accumulate(RunStepOutput(Head(todo), reply))
          /\ replies' = Append(replies, reply)
    BY <1>5 DEF RunWasmStep
  <2>2. /\ phase = "running" /\ todo # << >> /\ source = "wasm"
        /\ told' = Append(told, ComponentInput(Context)) /\ Head(todo) \in StepSet
    BY <1>5 DEF RunWasmStep, Running, RunOK
  <2>3. RunStepOutput(Head(todo), reply) \in StepOutput
    BY <2>2 DEF StepOutput
  <2> QED
    BY <2>1, <2>2, <2>3 DEF Outputs
<1>6. CASE RunNoopStep
  <2>1. DefaultOutput \in StepOutput
    BY DEF StepOutput
  <2> QED
    BY <1>6, <2>1 DEF RunNoopStep, Running, Outputs
<1>7. CASE LoadFixture
  <2>1. PICK output \in FixtureOutputs : Accumulate(output)
    BY <1>7 DEF LoadFixture
  <2>2. output \in StepOutput
    BY DEF StepOutput
  <2> QED
    BY <1>7, <2>1, <2>2 DEF LoadFixture, Running, Outputs
<1>8. CASE FixtureFails \/ Return \/ UNCHANGED vars
  BY <1>8 DEF FixtureFails, Running, Return, vars, Rests
<1> QED
  BY <1>3, <1>4, <1>5, <1>6, <1>7, <1>8 DEF Next

(* The result of a step is appended to those before it.                    *)
LEMMA ResultAppended ==
  ASSUME RunOK, NEW output \in StepOutput, Outputs(output)
  PROVE  LET result == [step |-> Head(todo), output |-> output]
         IN  /\ result \in StepResult
             /\ result.output = output
             /\ step_results' = Append(step_results, result)
             /\ RunOK'
<1> DEFINE result == [step |-> Head(todo), output |-> output]
<1>1. /\ Head(todo) \in StepSet
      /\ Tail(todo) \in Seq(StepSet)
  BY DEF RunOK, Outputs
<1>2. result \in StepResult /\ result.output = output
  BY <1>1 DEF StepResult
<1>3. step_results' = Append(step_results, result) /\ todo' = Tail(todo)
  BY DEF Outputs, Accumulate
<1> HIDE DEF result
<1>4. step_results' \in Seq(StepResult)
  BY <1>2, <1>3, AppendProperties DEF RunOK
<1>5. RunOK'
  BY <1>1, <1>3, <1>4 DEF RunOK
<1> QED
  BY <1>2, <1>3, <1>5 DEF result

(***************************************************************************)
(* LastPatchWins as a relation of a plan and the results it comes from, so *)
(* that a loop body can be reasoned about without primes.                  *)
(***************************************************************************)
PatchIn(results, i)  == results[i].output.plan_patch
GivingIn(results, f) ==
  {i \in DOMAIN results : PatchIn(results, i) # None /\ f \in DOMAIN PatchIn(results, i)}

LastGives(p, results, f, k, i) ==
  /\ k \in DOMAIN PatchIn(results, i)[f]
  /\ p[f][k] = PatchIn(results, i)[f][k]
  /\ \A j \in GivingIn(results, f) : j > i => k \notin DOMAIN PatchIn(results, j)[f]

LastPatchWinsIn(p, results) ==
  \A f \in MapFields :
    /\ DOMAIN p[f] = UNION {DOMAIN PatchIn(results, i)[f] : i \in GivingIn(results, f)}
    /\ \A k \in DOMAIN p[f] : \E i \in GivingIn(results, f) : LastGives(p, results, f, k, i)

(* Merging the patch of one more result into a plan in which the last      *)
(* patch wins leaves a plan in which the last patch wins.                  *)
LEMMA MergeLets ==
  ASSUME NEW S, NEW results \in Seq(S), NEW result \in S, NEW p,
         LastPatchWinsIn(p, results)
  PROVE  LastPatchWinsIn(IF result.output.plan_patch = None THEN p
                         ELSE MergePatch(p, result.output.plan_patch),
                         Append(results, result))
<1> DEFINE n     == Len(results) + 1
           after == Append(results, result)
           patch == result.output.plan_patch
           q     == IF patch = None THEN p ELSE MergePatch(p, patch)
<1>1. /\ DOMAIN after = DOMAIN results \cup {n}
      /\ \A i \in DOMAIN results : after[i] = results[i]
      /\ after[n] = result
      /\ n \in Int /\ \A i \in DOMAIN results : i \in Int /\ i < n
  BY AppendProperties, LenProperties
<1>2. /\ \A i \in DOMAIN results : PatchIn(after, i) = PatchIn(results, i)
      /\ PatchIn(after, n) = patch
  BY <1>1 DEF PatchIn
<1>3. \A f : GivingIn(results, f) \subseteq DOMAIN results
  BY DEF GivingIn
<1> SUFFICES ASSUME NEW f \in MapFields
             PROVE  /\ DOMAIN q[f] = UNION {DOMAIN PatchIn(after, i)[f] : i \in GivingIn(after, f)}
                    /\ \A k \in DOMAIN q[f] : \E i \in GivingIn(after, f) :
                         LastGives(q, after, f, k, i)
  BY DEF LastPatchWinsIn
<1>4. CASE patch # None /\ f \in DOMAIN patch
  <2>1. q[f] = Extend(p[f], patch[f])
    BY <1>4 DEF MergePatch, PlanFields, MapFields
  <2> HIDE DEF n, after, patch, q
  <2>2. GivingIn(after, f) = GivingIn(results, f) \cup {n}
    BY <1>1, <1>2, <1>4 DEF GivingIn
  <2>3. /\ DOMAIN q[f] = DOMAIN p[f] \cup DOMAIN patch[f]
        /\ \A k \in DOMAIN q[f] :
             q[f][k] = IF k \in DOMAIN patch[f] THEN patch[f][k] ELSE p[f][k]
    BY <2>1 DEF Extend
  <2>4. DOMAIN p[f] = UNION {DOMAIN PatchIn(results, i)[f] : i \in GivingIn(results, f)}
    BY DEF LastPatchWinsIn
  <2>5. DOMAIN q[f] = UNION {DOMAIN PatchIn(after, i)[f] : i \in GivingIn(after, f)}
    BY <1>2, <1>3, <2>2, <2>3, <2>4
  <2>6. ASSUME NEW k \in DOMAIN q[f], k \in DOMAIN patch[f]
        PROVE  LastGives(q, after, f, k, n)
    BY <1>1, <1>2, <1>3, <2>2, <2>3, <2>6 DEF LastGives
  <2>7. ASSUME NEW k \in DOMAIN q[f], k \notin DOMAIN patch[f]
        PROVE  \E i \in GivingIn(after, f) : LastGives(q, after, f, k, i)
    <3>1. k \in DOMAIN p[f] /\ q[f][k] = p[f][k]
      BY <2>3, <2>7
    <3>2. PICK i \in GivingIn(results, f) : LastGives(p, results, f, k, i)
      BY <3>1 DEF LastPatchWinsIn
    <3>3. LastGives(q, after, f, k, i)
      BY <1>2, <1>3, <2>2, <2>7, <3>1, <3>2 DEF LastGives
    <3> QED
      BY <2>2, <3>3
  <2> QED
    BY <2>2, <2>5, <2>6, <2>7
<1>5. CASE ~(patch # None /\ f \in DOMAIN patch)
  <2>1. q[f] = p[f]
    BY <1>5 DEF MergePatch, PlanFields, MapFields
  <2> HIDE DEF n, after, patch, q
  <2>2. GivingIn(after, f) = GivingIn(results, f)
    BY <1>1, <1>2, <1>5 DEF GivingIn
  <2>3. \A i \in GivingIn(results, f) : PatchIn(after, i) = PatchIn(results, i)
    BY <1>2, <1>3
  <2>4. DOMAIN q[f] = UNION {DOMAIN PatchIn(after, i)[f] : i \in GivingIn(after, f)}
    BY <2>1, <2>2, <2>3 DEF LastPatchWinsIn
  <2>5. ASSUME NEW k \in DOMAIN q[f]
        PROVE  \E i \in GivingIn(after, f) : LastGives(q, after, f, k, i)
    <3>1. PICK i \in GivingIn(results, f) : LastGives(p, results, f, k, i)
      BY <2>1 DEF LastPatchWinsIn
    <3>2. LastGives(q, after, f, k, i)
      BY <2>1, <2>2, <2>3, <3>1 DEF LastGives
    <3> QED
      BY <2>2, <3>2
  <2> QED
    BY <2>4, <2>5
<1> QED
  BY <1>4, <1>5

(* Each step keeps it.                                                     *)
LEMMA MapsInvariant == Spec => [](RunOK /\ LastPatchWinsIn(plan, step_results))
<1> DEFINE Inv == RunOK /\ LastPatchWinsIn(plan, step_results)
<1>1. ASSUME NEW p, NEW results, p = DefaultPlan, results = << >>
      PROVE  LastPatchWinsIn(p, results)
  <2>1. \A f : GivingIn(results, f) = {}
    BY <1>1 DEF GivingIn
  <2>2. \A f \in MapFields : DOMAIN p[f] = {}
    BY <1>1 DEF DefaultPlan, PlanFields, MapFields
  <2> QED
    BY <2>1, <2>2 DEF LastPatchWinsIn
<1>2. Init => Inv
  <2> SUFFICES ASSUME Init PROVE Inv
    OBVIOUS
  <2>1. RunOK
    BY DEF Init, RunOK
  <2> QED
    BY <1>1, <2>1 DEF Init
<1>3. Inv /\ [Next]_vars => Inv'
  <2> SUFFICES ASSUME Inv, [Next]_vars PROVE Inv'
    OBVIOUS
  <2>1. CASE Rests
    BY <2>1 DEF Rests, RunOK
  <2>2. CASE Starts
    <3>1. RunOK'
      BY <2>2 DEF RunOK, Starts
    <3> QED
      BY <1>1, <2>2, <3>1 DEF Starts
  <2>3. ASSUME NEW output \in StepOutput, Outputs(output)
        PROVE  Inv'
    <3> DEFINE result == [step |-> Head(todo), output |-> output]
    <3>1. /\ result \in StepResult /\ result.output = output
          /\ step_results' = Append(step_results, result)
          /\ RunOK'
      BY <2>3, ResultAppended
    <3>2. plan' = IF output.plan_patch = None THEN plan
                  ELSE MergePatch(plan, output.plan_patch)
      BY <2>3 DEF Outputs, Accumulate
    <3> HIDE DEF result
    <3>3. LastPatchWinsIn(IF result.output.plan_patch = None THEN plan
                          ELSE MergePatch(plan, result.output.plan_patch),
                          Append(step_results, result))
      BY <3>1, MergeLets DEF RunOK
    <3> QED
      BY <3>1, <3>2, <3>3
  <2> QED
    BY <2>1, <2>2, <2>3, StepOutputs
<1> QED
  BY <1>2, <1>3, PTL DEF Spec

(* In every run, of any executor and of fixtures, each map of the plan     *)
(* holds exactly the keys that the steps gave, each with the value of the  *)
(* last step that gave it.                                                 *)
THEOREM LastPatchAlwaysWins == Spec => []LastPatchWins
<1>1. LastPatchWinsIn(plan, step_results) => LastPatchWins
  BY DEF LastPatchWins, LastPatchWinsIn, LastGives, Giving, GivingIn, Patch, PatchIn
<1> QED
  BY <1>1, MapsInvariant, PTL

-----------------------------------------------------------------------------
(* A list of the plan holds the items that the steps gave, and no others.  *)
ListsHoldIn(p, results) ==
  \A f \in ListFields :
    /\ p[f] \in Seq(ToSet(p[f]))
    /\ ToSet(p[f]) = UNION {ToSet(PatchIn(results, i)[f]) : i \in GivingIn(results, f)}

(* Two lists, one after the other, hold the items of both.                 *)
LEMMA ConcatHolds ==
  ASSUME NEW s, s \in Seq(ToSet(s)), NEW t, t \in Seq(ToSet(t))
  PROVE  /\ ToSet(s \o t) = ToSet(s) \cup ToSet(t)
         /\ s \o t \in Seq(ToSet(s \o t))
<1> DEFINE S == ToSet(s) \cup ToSet(t)
<1>1. s \in Seq(S) /\ t \in Seq(S)
  BY SeqMonotonic
<1> HIDE DEF S
<1>2. /\ s \o t \in Seq(S)
      /\ Len(s) \in Nat /\ Len(t) \in Nat
      /\ DOMAIN s = 1 .. Len(s) /\ DOMAIN t = 1 .. Len(t)
      /\ DOMAIN (s \o t) = 1 .. (Len(s) + Len(t))
      /\ \A i \in 1 .. Len(s) : (s \o t)[i] = s[i]
      /\ \A i \in 1 .. Len(t) : (s \o t)[Len(s) + i] = t[i]
  BY <1>1, ConcatProperties
<1>3. ToSet(s) \subseteq ToSet(s \o t)
  BY <1>2 DEF ToSet
<1>4. ASSUME NEW i \in 1 .. Len(t) PROVE t[i] \in ToSet(s \o t)
  <2>1. Len(s) + i \in 1 .. (Len(s) + Len(t)) /\ (s \o t)[Len(s) + i] = t[i]
    BY <1>2
  <2> QED
    BY <1>2, <2>1 DEF ToSet
<1>5. ToSet(t) \subseteq ToSet(s \o t)
  BY <1>2, <1>4 DEF ToSet
<1>6. s \o t \in Seq(ToSet(s \o t))
  <2> DEFINE q == s \o t
             n == Len(s) + Len(t)
  <2>1. q \in [1 .. n -> S] /\ n \in Nat
    <3>1. q \in Seq(S) /\ Len(q) = n /\ n \in Nat
      BY <1>2
    <3> HIDE DEF q, n
    <3> QED
      BY <3>1, LenProperties
  <2>2. \A i \in 1 .. n : q[i] \in ToSet(q)
    BY <1>2 DEF ToSet
  <2> HIDE DEF q, n
  <2>3. q \in [1 .. n -> ToSet(q)]
    BY <2>1, <2>2, Zenon
  <2>4. q \in Seq(ToSet(q))
    BY <2>1, <2>3, SeqDef
  <2> QED
    BY <2>4 DEF q
<1>7. ToSet(s \o t) \subseteq ToSet(s) \cup ToSet(t)
  <2> SUFFICES ASSUME NEW i \in 1 .. (Len(s) + Len(t))
               PROVE  (s \o t)[i] \in ToSet(s) \cup ToSet(t)
    BY <1>2 DEF ToSet
  <2>1. CASE i \in 1 .. Len(s)
    BY <1>2, <2>1 DEF ToSet
  <2>2. CASE i \notin 1 .. Len(s)
    <3>1. PICK j \in 1 .. Len(t) : i = Len(s) + j
      <4>1. i - Len(s) \in 1 .. Len(t) /\ i = Len(s) + (i - Len(s))
        BY <1>2, <2>2
      <4> QED
        BY <4>1
    <3> QED
      BY <1>2, <3>1 DEF ToSet
  <2> QED
    BY <2>1, <2>2
<1> QED
  BY <1>3, <1>5, <1>6, <1>7

(* Merging one more patch loses none of the items, and adds no others.     *)
LEMMA MergeHolds ==
  ASSUME NEW results \in Seq(StepResult), NEW result \in StepResult, NEW p,
         ListsHoldIn(p, results)
  PROVE  ListsHoldIn(IF result.output.plan_patch = None THEN p
                     ELSE MergePatch(p, result.output.plan_patch),
                     Append(results, result))
<1> DEFINE n     == Len(results) + 1
           after == Append(results, result)
           patch == result.output.plan_patch
           q     == IF patch = None THEN p ELSE MergePatch(p, patch)
<1>1. /\ DOMAIN after = DOMAIN results \cup {n}
      /\ \A i \in DOMAIN results : PatchIn(after, i) = PatchIn(results, i)
      /\ PatchIn(after, n) = patch
  BY AppendProperties, LenProperties DEF PatchIn
<1>2. ASSUME patch # None, NEW f \in ListFields, f \in DOMAIN patch
      PROVE  patch[f] \in Seq(ToSet(patch[f]))
  BY <1>2, PatchesAssumption DEF StepResult
<1> SUFFICES ASSUME NEW f \in ListFields
             PROVE  /\ q[f] \in Seq(ToSet(q[f]))
                    /\ ToSet(q[f]) = UNION {ToSet(PatchIn(after, i)[f]) :
                                              i \in GivingIn(after, f)}
  BY DEF ListsHoldIn
<1>3. /\ p[f] \in Seq(ToSet(p[f]))
      /\ ToSet(p[f]) = UNION {ToSet(PatchIn(results, i)[f]) :
                                i \in GivingIn(results, f)}
  BY DEF ListsHoldIn
<1>4. CASE patch # None /\ f \in DOMAIN patch
  <2>1. q[f] = p[f] \o patch[f]
    BY <1>4 DEF MergePatch, PlanFields, MapFields, ListFields
  <2>2. patch[f] \in Seq(ToSet(patch[f]))
    BY <1>2, <1>4
  <2> HIDE DEF n, after, patch, q
  <2>3. GivingIn(after, f) = GivingIn(results, f) \cup {n}
    BY <1>1, <1>4 DEF GivingIn
  <2>4. /\ ToSet(q[f]) = ToSet(p[f]) \cup ToSet(patch[f])
        /\ q[f] \in Seq(ToSet(q[f]))
    BY <1>3, <2>1, <2>2, ConcatHolds
  <2>5. GivingIn(results, f) \subseteq DOMAIN results
    BY DEF GivingIn
  <2> QED
    BY <1>1, <1>3, <2>3, <2>4, <2>5
<1>5. CASE ~(patch # None /\ f \in DOMAIN patch)
  <2>1. q[f] = p[f]
    BY <1>5 DEF MergePatch, PlanFields
  <2> HIDE DEF n, after, patch, q
  <2>2. GivingIn(after, f) = GivingIn(results, f)
    BY <1>1, <1>5 DEF GivingIn
  <2>3. GivingIn(results, f) \subseteq DOMAIN results
    BY DEF GivingIn
  <2> QED
    BY <1>1, <1>3, <2>1, <2>2, <2>3
<1> QED
  BY <1>4, <1>5

(* What a component replied is what its step has made its output of.       *)
RepliesFit(rs, results) ==
  /\ rs \in Seq(Replies \cup {None})
  /\ Len(rs) = Len(results)
  /\ \A i \in DOMAIN rs :
       results[i].output = RunStepOutput(results[i].step, rs[i])

(* One more reply and its result still fit.                                *)
LEMMA OneMoreReply ==
  ASSUME NEW S, NEW results \in Seq(S), NEW result \in S,
         NEW rs, NEW r \in Replies \cup {None},
         RepliesFit(rs, results), result.output = RunStepOutput(result.step, r)
  PROVE  RepliesFit(Append(rs, r), Append(results, result))
<1>1. rs \in Seq(Replies \cup {None}) /\ Len(rs) = Len(results)
  BY DEF RepliesFit
<1>2. /\ Append(rs, r) \in Seq(Replies \cup {None})
      /\ Len(Append(rs, r)) = Len(rs) + 1
      /\ DOMAIN Append(rs, r) = 1 .. (Len(rs) + 1)
      /\ DOMAIN rs = 1 .. Len(rs)
      /\ \A i \in 1 .. Len(rs) : Append(rs, r)[i] = rs[i]
      /\ Append(rs, r)[Len(rs) + 1] = r
  BY <1>1, AppendProperties
<1>3. /\ Len(Append(results, result)) = Len(rs) + 1
      /\ \A i \in 1 .. Len(rs) : Append(results, result)[i] = results[i]
      /\ Append(results, result)[Len(rs) + 1] = result
  BY <1>1, AppendProperties
<1>4. ASSUME NEW i \in 1 .. (Len(rs) + 1)
      PROVE  Append(results, result)[i].output
               = RunStepOutput(Append(results, result)[i].step, Append(rs, r)[i])
  <2>1. CASE i = Len(rs) + 1
    BY <1>2, <1>3, <2>1
  <2>2. CASE i # Len(rs) + 1
    <3>1. i \in 1 .. Len(rs)
      BY <1>1, <2>2
    <3> QED
      BY <1>2, <1>3, <3>1 DEF RepliesFit
  <2> QED
    BY <2>1, <2>2
<1> QED
  BY <1>2, <1>3, <1>4 DEF RepliesFit

RepliesInv ==
  /\ RunOK
  /\ ListsHoldIn(plan, step_results)
  /\ source = "wasm" => RepliesFit(replies, step_results)

(* Each step keeps it.                                                     *)
LEMMA RepliesInvariant == Spec => []RepliesInv
<1>1. ASSUME NEW p, NEW results, p = DefaultPlan, results = << >>
      PROVE  ListsHoldIn(p, results) /\ RepliesFit(<< >>, results)
  <2>1. \A f : GivingIn(results, f) = {}
    BY <1>1 DEF GivingIn
  <2>2. \A f \in ListFields : /\ p[f] = << >>
                              /\ << >> \in Seq(ToSet(<< >>))
                              /\ ToSet(<< >>) = {}
    BY <1>1 DEF DefaultPlan, PlanFields, ToSet
  <2>3. RepliesFit(<< >>, << >>)
    BY DEF RepliesFit
  <2> QED
    BY <1>1, <2>1, <2>2, <2>3 DEF ListsHoldIn
<1>2. Init => RepliesInv
  <2> SUFFICES ASSUME Init PROVE RepliesInv
    OBVIOUS
  <2>1. RunOK
    BY DEF Init, RunOK
  <2> QED
    BY <1>1, <2>1 DEF Init, RepliesInv
<1>3. RepliesInv /\ [Next]_vars => RepliesInv'
  <2> SUFFICES ASSUME RepliesInv, [Next]_vars PROVE RepliesInv'
    OBVIOUS
  <2>1. CASE Rests
    BY <2>1 DEF Rests, RepliesInv, RunOK
  <2>2. CASE Starts
    <3>1. RunOK'
      BY <2>2 DEF RunOK, Starts
    <3> QED
      BY <1>1, <2>2, <3>1 DEF Starts, RepliesInv
  <2>3. ASSUME NEW output \in StepOutput, Outputs(output)
        PROVE  RepliesInv'
    <3> DEFINE result == [step |-> Head(todo), output |-> output]
    <3>1. /\ result \in StepResult
          /\ step_results' = Append(step_results, result)
          /\ RunOK'
      BY <2>3, ResultAppended DEF RepliesInv
    <3>2. result.step = Head(todo) /\ result.output = output
      OBVIOUS
    <3> HIDE DEF result
    <3>3. /\ UNCHANGED source
          /\ plan' = IF output.plan_patch = None THEN plan
                     ELSE MergePatch(plan, output.plan_patch)
      BY <2>3 DEF Outputs, Accumulate
    <3>4. ListsHoldIn(IF result.output.plan_patch = None THEN plan
                      ELSE MergePatch(plan, result.output.plan_patch),
                      Append(step_results, result))
      BY <3>1, MergeHolds DEF RepliesInv, RunOK
    <3>5. ListsHoldIn(plan', step_results')
      BY <3>1, <3>2, <3>3, <3>4
    <3>6. ASSUME source = "wasm" PROVE RepliesFit(replies', step_results')
      <4>1. PICK reply \in Replies \cup {None} :
              /\ output = RunStepOutput(Head(todo), reply)
              /\ replies' = Append(replies, reply)
        BY <2>3, <3>6 DEF Outputs
      <4> QED
        BY <3>1, <3>2, <3>6, <4>1, OneMoreReply DEF RepliesInv, RunOK
    <3> QED
      BY <3>1, <3>3, <3>5, <3>6 DEF RepliesInv
  <2> QED
    BY <2>1, <2>2, <2>3, StepOutputs DEF RepliesInv
<1> QED
  BY <1>2, <1>3, PTL DEF Spec

(* What plan_patch_from_value makes of a reply: a patch exactly when its   *)
(* plan parses, with the members that are of their type.                   *)
LEMMA PatchOfReply ==
  ASSUME NEW s, NEW r \in Replies \cup {None}
  PROVE  LET raw   == r.plan
             patch == RunStepOutput(s, r).plan_patch
         IN  /\ patch # None <=> ParsedPlan(r)
             /\ ParsedPlan(r) =>
                  /\ \A f \in OpFields :
                       /\ f \in DOMAIN patch <=> f \in DOMAIN raw /\ raw[f].type = "array"
                       /\ f \in DOMAIN patch => patch[f] = raw[f].value
                  /\ "config_patch" \in DOMAIN patch
                       <=> "config_patch" \in DOMAIN raw /\ raw["config_patch"].type = "object"
                  /\ "config_patch" \in DOMAIN patch =>
                       patch["config_patch"] = raw["config_patch"].value
                  /\ \A f \in {"secrets_set", "secrets_delete"} :
                       f \in DOMAIN patch <=> "secrets_patch" \in DOMAIN raw
                  /\ "secrets_patch" \in DOMAIN raw =>
                       /\ patch["secrets_set"] = raw["secrets_patch"].value.set
                       /\ patch["secrets_delete"] = raw["secrets_patch"].value.delete
<1> DEFINE raw   == r.plan
           patch == RunStepOutput(s, r).plan_patch
<1>1. r # None /\ r.plan # None => (Unparsed(raw) = {} <=> ~Rejected(raw))
  BY DEF Unparsed, Rejected, Items
<1>2. CASE ~Accepted(r) \/ r.plan = None
  <2>1. patch = None
    BY <1>2 DEF RunStepOutput, ErrorOutput, StepOutputFromJson, Output
  <2>2. ~ParsedPlan(r)
    BY <1>1, <1>2 DEF Accepted, ParsedPlan
  <2> QED
    BY <2>1, <2>2
<1>3. CASE Accepted(r) /\ r.plan # None
  <2>1. r \in Replies /\ ~Rejected(raw) /\ patch = PlanPatchFromValue(raw)
    BY <1>3 DEF Accepted, RunStepOutput, StepOutputFromJson, Output
  <2>2. patch # None /\ ParsedPlan(r)
    BY <1>1, <1>3, <2>1, PatchesAssumption DEF Accepted, ParsedPlan
  <2>3. DOMAIN PlanPatchFromValue(raw) =
          {f \in {"config_patch"} \cap DOMAIN raw : raw[f].type = "object"}
            \cup Lists(raw)
            \cup {f \in {"secrets_set", "secrets_delete"} : "secrets_patch" \in DOMAIN raw}
    BY DEF PlanPatchFromValue
  <2>4. \A f \in OpFields :
          /\ f \in DOMAIN PlanPatchFromValue(raw)
               <=> f \in DOMAIN raw /\ raw[f].type = "array"
          /\ f \in DOMAIN PlanPatchFromValue(raw) => PlanPatchFromValue(raw)[f] = raw[f].value
    BY <2>3 DEF PlanPatchFromValue, Lists, OpFields
  <2>5. /\ "config_patch" \in DOMAIN PlanPatchFromValue(raw)
             <=> "config_patch" \in DOMAIN raw /\ raw["config_patch"].type = "object"
        /\ "config_patch" \in DOMAIN PlanPatchFromValue(raw) =>
             PlanPatchFromValue(raw)["config_patch"] = raw["config_patch"].value
    BY <2>3 DEF PlanPatchFromValue, Lists, OpFields
  <2>6. /\ \A f \in {"secrets_set", "secrets_delete"} :
             f \in DOMAIN PlanPatchFromValue(raw) <=> "secrets_patch" \in DOMAIN raw
        /\ "secrets_patch" \in DOMAIN raw =>
             /\ PlanPatchFromValue(raw)["secrets_set"] = raw["secrets_patch"].value.set
             /\ PlanPatchFromValue(raw)["secrets_delete"] = raw["secrets_patch"].value.delete
    BY <2>3 DEF PlanPatchFromValue, Lists, OpFields
  <2> HIDE DEF patch, raw
  <2> QED
    BY <2>1, <2>2, <2>4, <2>5, <2>6 DEF patch, raw
<1> QED
  BY <1>2, <1>3 DEF Accepted

(* What a result holds for a field of the plan is what its reply gives.    *)
LEMMA ReplyGivesItsPatch ==
  ASSUME NEW s, NEW r \in Replies \cup {None}, NEW f \in PlanFields \ {"notes"}
  PROVE  LET patch == RunStepOutput(s, r).plan_patch
             gives == patch # None /\ f \in DOMAIN patch
         IN  /\ gives => /\ ParsedPlan(r)
                         /\ Given(r.plan, f) = IF f \in MapFields THEN DOMAIN patch[f]
                                               ELSE ToSet(patch[f])
             /\ ~gives /\ ParsedPlan(r) => Given(r.plan, f) = {}
<1> DEFINE raw   == r.plan
           patch == RunStepOutput(s, r).plan_patch
<1>1. /\ patch # None <=> ParsedPlan(r)
      /\ ParsedPlan(r) =>
           /\ \A g \in OpFields :
                /\ g \in DOMAIN patch <=> g \in DOMAIN raw /\ raw[g].type = "array"
                /\ g \in DOMAIN patch => patch[g] = raw[g].value
           /\ "config_patch" \in DOMAIN patch
                <=> "config_patch" \in DOMAIN raw /\ raw["config_patch"].type = "object"
           /\ "config_patch" \in DOMAIN patch =>
                patch["config_patch"] = raw["config_patch"].value
           /\ \A g \in {"secrets_set", "secrets_delete"} :
                g \in DOMAIN patch <=> "secrets_patch" \in DOMAIN raw
           /\ "secrets_patch" \in DOMAIN raw =>
                /\ patch["secrets_set"] = raw["secrets_patch"].value.set
                /\ patch["secrets_delete"] = raw["secrets_patch"].value.delete
  BY PatchOfReply
<1> HIDE DEF raw, patch
<1>2. CASE f \in OpFields
  <2>1. /\ f \notin MapFields
        /\ f # "config_patch" /\ f # "secrets_set" /\ f # "secrets_delete"
    BY <1>2 DEF OpFields, MapFields
  <2>2. Given(raw, f) = IF f \in DOMAIN raw /\ raw[f].type = "array"
                        THEN ToSet(raw[f].value) ELSE {}
    BY <1>2, <2>1 DEF Given
  <2> QED
    BY <1>1, <1>2, <2>1, <2>2 DEF raw, patch
<1>3. CASE f = "config_patch"
  <2>1. /\ f \in MapFields
        /\ Given(raw, f) = IF f \in DOMAIN raw /\ raw[f].type = "object"
                           THEN DOMAIN raw[f].value ELSE {}
    BY <1>3 DEF Given, OpFields, MapFields
  <2> QED
    BY <1>1, <1>3, <2>1 DEF raw, patch
<1>4. CASE f = "secrets_set"
  <2>1. /\ f \in MapFields
        /\ Given(raw, f) = IF "secrets_patch" \in DOMAIN raw
                           THEN DOMAIN raw["secrets_patch"].value.set ELSE {}
    BY <1>4 DEF Given, OpFields, MapFields
  <2> QED
    BY <1>1, <1>4, <2>1 DEF raw, patch
<1>5. CASE f = "secrets_delete"
  <2>1. /\ f \notin MapFields
        /\ Given(raw, f) = IF "secrets_patch" \in DOMAIN raw
                           THEN ToSet(raw["secrets_patch"].value.delete) ELSE {}
    BY <1>5 DEF Given, OpFields, MapFields
  <2> QED
    BY <1>1, <1>5, <2>1 DEF raw, patch
<1> QED
  BY <1>2, <1>3, <1>4, <1>5 DEF PlanFields, MapFields, ListFields, OpFields

(* Whatever the components reply, and in whatever order, the plan holds    *)
(* what the replies that parse gave, and nothing else.                     *)
THEOREM PlanIsOfReplies == Spec => []PlanIsOfParsedReplies
<1>1. ASSUME RepliesInv, LastPatchWins, source = "wasm",
             NEW f \in PlanFields \ {"notes"}
      PROVE  Held(f) = UNION {Given(replies[i].plan, f) :
                                i \in {j \in DOMAIN replies : ParsedPlan(replies[j])}}
  <2> DEFINE Holds(i) == IF f \in MapFields THEN DOMAIN PatchIn(step_results, i)[f]
                         ELSE ToSet(PatchIn(step_results, i)[f])
             giving == GivingIn(step_results, f)
             parsed == {j \in DOMAIN replies : ParsedPlan(replies[j])}
             given(i) == Given(replies[i].plan, f)
  <2>1. ASSUME f \in MapFields PROVE Held(f) = UNION {Holds(i) : i \in giving}
    <3>1. Held(f) = UNION {DOMAIN PatchIn(step_results, i)[f] : i \in giving}
      BY <1>1, <2>1 DEF LastPatchWins, Held, Giving, GivingIn, Patch, PatchIn
    <3>2. \A i : Holds(i) = DOMAIN PatchIn(step_results, i)[f]
      BY <2>1
    <3> HIDE DEF Holds, giving
    <3> QED
      BY <3>1, <3>2
  <2>2. ASSUME f \notin MapFields PROVE Held(f) = UNION {Holds(i) : i \in giving}
    <3>1. f \in ListFields
      BY <2>2 DEF PlanFields
    <3>2. Held(f) = UNION {ToSet(PatchIn(step_results, i)[f]) : i \in giving}
      BY <1>1, <2>2, <3>1 DEF RepliesInv, ListsHoldIn, Held
    <3>3. \A i : Holds(i) = ToSet(PatchIn(step_results, i)[f])
      BY <2>2
    <3> HIDE DEF Holds, giving
    <3> QED
      BY <3>2, <3>3
  <2>3. Held(f) = UNION {Holds(i) : i \in giving}
    BY <2>1, <2>2
  <2>4. ASSUME NEW i \in DOMAIN replies
        PROVE  /\ i \in DOMAIN step_results
               /\ replies[i] \in Replies \cup {None}
               /\ PatchIn(step_results, i)
                    = RunStepOutput(step_results[i].step, replies[i]).plan_patch
    BY <1>1, <2>4 DEF RepliesInv, RepliesFit, RunOK, PatchIn
  <2>5. DOMAIN step_results = DOMAIN replies
    BY <1>1 DEF RepliesInv, RepliesFit, RunOK
  <2>6. ASSUME NEW i \in DOMAIN replies
        PROVE  /\ i \in giving => i \in parsed /\ given(i) = Holds(i)
               /\ i \in parsed /\ i \notin giving => given(i) = {}
    BY <2>4, <2>5, <2>6, ReplyGivesItsPatch DEF GivingIn
  <2>7. giving \subseteq DOMAIN replies /\ parsed \subseteq DOMAIN replies
    BY <2>5 DEF GivingIn
  <2> HIDE DEF Holds, giving, parsed, given
  <2>8. UNION {Holds(i) : i \in giving} = UNION {given(i) : i \in parsed}
    BY <2>6, <2>7
  <2> QED
    BY <2>3, <2>8 DEF parsed, given
<1>2. RepliesInv /\ LastPatchWins => PlanIsOfParsedReplies
  BY <1>1 DEF PlanIsOfParsedReplies
<1> QED
  BY <1>2, RepliesInvariant, LastPatchAlwaysWins, PTL

-----------------------------------------------------------------------------
(* The lists that the steps gave for a field, and their diagnostics, in    *)
(* the order of the steps.                                                 *)
GivenLists(results, f) ==
  [i \in DOMAIN results |-> IF i \in GivingIn(results, f) THEN PatchIn(results, i)[f] ELSE << >>]

GivenDiagnostics(results) == [i \in DOMAIN results |-> results[i].output.diagnostics]

InStepOrder(p, diags, results) ==
  /\ \A f \in ListFields : p[f] = FlattenSeq(GivenLists(results, f))
  /\ diags = FlattenSeq(GivenDiagnostics(results))

(* A function of the results, place by place, of one more result.          *)
LEMMA OneMorePlace ==
  ASSUME NEW S, NEW E, NEW results \in Seq(S), NEW result \in S,
         NEW given, given \in [DOMAIN results -> E], NEW last \in E,
         NEW after, after \in [DOMAIN Append(results, result) -> E],
         \A i \in DOMAIN results : after[i] = given[i],
         after[Len(results) + 1] = last
  PROVE  given \in Seq(E) /\ after = Append(given, last)
<1> DEFINE n == Len(results)
<1>1. n \in Nat /\ DOMAIN results = 1 .. n /\ DOMAIN Append(results, result) = 1 .. (n + 1)
  BY LenProperties, AppendProperties
<1>2. given \in Seq(E) /\ after \in Seq(E)
  BY <1>1, SeqDef
<1>3. Len(given) = n /\ Len(after) = n + 1
  BY <1>1, <1>2, LenProperties
<1>4. /\ Append(given, last) \in Seq(E)
      /\ Len(Append(given, last)) = n + 1
      /\ \A i \in 1 .. n : Append(given, last)[i] = given[i]
      /\ Append(given, last)[n + 1] = last
  BY <1>2, <1>3, AppendProperties
<1>5. ASSUME NEW i \in 1 .. (n + 1) PROVE after[i] = Append(given, last)[i]
  <2>1. CASE i = n + 1
    BY <1>4, <2>1
  <2>2. CASE i # n + 1
    <3>1. i \in 1 .. n
      BY <1>1, <2>2
    <3> QED
      BY <1>1, <1>4, <3>1
  <2> QED
    BY <2>1, <2>2
<1> QED
  BY <1>2, <1>3, <1>4, <1>5, SeqEqual

(* What the results of the steps hold are lists of items of StepOutputs.   *)
ListItems       == UNION {ToSet(o.plan_patch[f]) : o \in StepOutput, f \in ListFields}
DiagnosticItems == UNION {ToSet(o.diagnostics) : o \in StepOutput}

LEMMA OutputLists ==
  ASSUME NEW output \in StepOutput
  PROVE  /\ output.diagnostics \in Seq(DiagnosticItems)
         /\ output.plan_patch # None =>
              \A f \in ListFields \cap DOMAIN output.plan_patch :
                output.plan_patch[f] \in Seq(ListItems)
<1>1. output.diagnostics \in Seq(DiagnosticItems)
  <2>1. /\ output.diagnostics \in Seq(ToSet(output.diagnostics))
        /\ ToSet(output.diagnostics) \subseteq DiagnosticItems
    BY PatchesAssumption DEF DiagnosticItems
  <2> QED
    BY <2>1, SeqMonotonic
<1>2. ASSUME output.plan_patch # None, NEW f \in ListFields \cap DOMAIN output.plan_patch
      PROVE  output.plan_patch[f] \in Seq(ListItems)
  <2>1. /\ output.plan_patch[f] \in Seq(ToSet(output.plan_patch[f]))
        /\ ToSet(output.plan_patch[f]) \subseteq ListItems
    BY <1>2, PatchesAssumption DEF ListItems
  <2> QED
    BY <2>1, SeqMonotonic
<1> QED
  BY <1>1, <1>2

(* Merging one more output keeps the lists in the order of the steps.      *)
LEMMA MergeAppends ==
  ASSUME NEW results \in Seq(StepResult), NEW result \in StepResult, NEW p, NEW diags,
         InStepOrder(p, diags, results)
  PROVE  InStepOrder(IF result.output.plan_patch = None THEN p
                     ELSE MergePatch(p, result.output.plan_patch),
                     diags \o result.output.diagnostics,
                     Append(results, result))
<1> DEFINE n     == Len(results) + 1
           after == Append(results, result)
           patch == result.output.plan_patch
           q     == IF patch = None THEN p ELSE MergePatch(p, patch)
<1>1. /\ DOMAIN after = DOMAIN results \cup {n}
      /\ \A i \in DOMAIN results : i # n /\ after[i] = results[i]
      /\ after[n] = result
      /\ \A i \in DOMAIN results : PatchIn(after, i) = PatchIn(results, i)
      /\ PatchIn(after, n) = patch
      /\ \A i \in DOMAIN results : results[i].output \in StepOutput
      /\ result.output \in StepOutput
  <2>1. /\ DOMAIN after = DOMAIN results \cup {n}
        /\ \A i \in DOMAIN results : i # n /\ after[i] = results[i]
        /\ after[n] = result
    BY AppendProperties, LenProperties
  <2>2. \A i \in DOMAIN results : results[i] \in StepResult
    BY ElementOfSeq, LenProperties
  <2> HIDE DEF n, after
  <2>3. /\ \A i \in DOMAIN results : PatchIn(after, i) = PatchIn(results, i)
        /\ PatchIn(after, n) = patch
    BY <2>1 DEF PatchIn
  <2>4. /\ \A i \in DOMAIN results : results[i].output \in StepOutput
        /\ result.output \in StepOutput
    BY <2>2 DEF StepResult
  <2> QED
    BY <2>1, <2>3, <2>4
<1>2. ASSUME NEW f \in ListFields
      PROVE  q[f] = FlattenSeq(GivenLists(after, f))
  <2> DEFINE given == GivenLists(results, f)
             list  == IF patch # None /\ f \in DOMAIN patch THEN patch[f] ELSE << >>
  <2>1. list \in Seq(ListItems)
    <3>1. CASE patch # None /\ f \in DOMAIN patch
      BY <1>1, <3>1, OutputLists
    <3>2. CASE ~(patch # None /\ f \in DOMAIN patch)
      BY <3>2, EmptySeq
    <3> QED
      BY <3>1, <3>2
  <2>2. q[f] = IF patch # None /\ f \in DOMAIN patch THEN p[f] \o patch[f] ELSE p[f]
    BY DEF MergePatch, PlanFields, MapFields, ListFields
  <2> HIDE DEF n, after, patch, q
  <2>3. \A i \in DOMAIN results : i \in GivingIn(after, f) <=> i \in GivingIn(results, f)
    BY <1>1 DEF GivingIn
  <2>4. n \in GivingIn(after, f) <=> patch # None /\ f \in DOMAIN patch
    BY <1>1 DEF GivingIn
  <2>5. /\ \A i \in DOMAIN results : GivenLists(after, f)[i] = given[i]
        /\ GivenLists(after, f)[n] = list
    BY <1>1, <2>3, <2>4 DEF GivenLists
  <2>6. given \in [DOMAIN results -> Seq(ListItems)]
    <3>1. ASSUME NEW i \in DOMAIN results PROVE given[i] \in Seq(ListItems)
      <4>1. CASE i \in GivingIn(results, f)
        BY <1>1, <4>1, OutputLists DEF GivenLists, GivingIn, PatchIn
      <4>2. CASE i \notin GivingIn(results, f)
        BY <4>2, EmptySeq DEF GivenLists
      <4> QED
        BY <4>1, <4>2
    <3>2. given = [i \in DOMAIN results |-> given[i]]
      BY DEF GivenLists
    <3> HIDE DEF given
    <3> QED
      BY <3>1, <3>2
  <2> HIDE DEF list
  <2>7. GivenLists(after, f) \in [DOMAIN after -> Seq(ListItems)]
    <3> DEFINE given2 == GivenLists(after, f)
    <3>1. \A i \in DOMAIN after : given2[i] \in Seq(ListItems)
      BY <1>1, <2>1, <2>5, <2>6
    <3>2. given2 = [i \in DOMAIN after |-> given2[i]]
      BY DEF GivenLists
    <3> HIDE DEF given2
    <3>3. given2 \in [DOMAIN after -> Seq(ListItems)]
      BY <3>1, <3>2
    <3> QED
      BY <3>3 DEF given2
  <2>8. given \in Seq(Seq(ListItems)) /\ GivenLists(after, f) = Append(given, list)
    <3> HIDE DEF given
    <3> QED
      BY <2>1, <2>5, <2>6, <2>7, OneMorePlace DEF after, n
  <2>9. FlattenSeq(GivenLists(after, f)) = FlattenSeq(given) \o list
    BY <2>1, <2>8, FlattenAppended
  <2>10. p[f] = FlattenSeq(given) /\ p[f] \in Seq(ListItems)
    BY <2>8, FlattenIsList DEF InStepOrder
  <2>11. p[f] \o << >> = p[f]
    BY <2>10, ConcatEmptySeq
  <2> QED
    BY <2>2, <2>9, <2>10, <2>11 DEF list
<1>3. diags \o result.output.diagnostics = FlattenSeq(GivenDiagnostics(after))
  <2> DEFINE given  == GivenDiagnostics(results)
             given2 == GivenDiagnostics(after)
             list   == result.output.diagnostics
  <2>1. list \in Seq(DiagnosticItems)
    BY <1>1, OutputLists
  <2> HIDE DEF n, after
  <2>2. /\ \A i \in DOMAIN results : given2[i] = given[i]
        /\ given2[n] = list
        /\ given2 = [i \in DOMAIN after |-> given2[i]]
        /\ given = [i \in DOMAIN results |-> given[i]]
    BY <1>1 DEF GivenDiagnostics
  <2>3. \A i \in DOMAIN results : given[i] \in Seq(DiagnosticItems)
    BY <1>1, OutputLists DEF GivenDiagnostics
  <2> HIDE DEF given, given2, list
  <2>4. /\ given \in [DOMAIN results -> Seq(DiagnosticItems)]
        /\ given2 \in [DOMAIN after -> Seq(DiagnosticItems)]
    BY <1>1, <2>1, <2>2, <2>3
  <2>5. given \in Seq(Seq(DiagnosticItems)) /\ given2 = Append(given, list)
    <3>1. /\ given \in [DOMAIN results -> Seq(DiagnosticItems)]
          /\ given2 \in [DOMAIN Append(results, result) -> Seq(DiagnosticItems)]
          /\ \A i \in DOMAIN results : given2[i] = given[i]
          /\ given2[Len(results) + 1] = list
      BY <2>2, <2>4 DEF after, n
    <3> QED
      BY <2>1, <3>1, OneMorePlace
  <2>6. FlattenSeq(given2) = FlattenSeq(given) \o list
    BY <2>1, <2>5, FlattenAppended
  <2>7. diags = FlattenSeq(given)
    BY DEF InStepOrder, given
  <2> QED
    BY <2>6, <2>7 DEF given2, list
<1> QED
  BY <1>2, <1>3 DEF InStepOrder

(* Whatever the steps give, the lists of the plan and the diagnostics are  *)
(* theirs, one step's after the other's, with nothing lost or repeated.    *)
THEOREM ListsAreInStepOrder == Spec => []ListsKeepStepOrder
<1> DEFINE Inv == RunOK /\ InStepOrder(plan, diagnostics, step_results)
<1>1. ASSUME NEW p, NEW results, p = DefaultPlan, results = << >>
      PROVE  InStepOrder(p, << >>, results)
  <2>1. \A f : GivenLists(results, f) = << >>
    BY <1>1 DEF GivenLists
  <2>2. GivenDiagnostics(results) = << >>
    BY <1>1 DEF GivenDiagnostics
  <2>3. FlattenSeq(<< >>) = << >>
    BY EmptySeq DEF FlattenSeq
  <2>4. \A f \in ListFields : p[f] = << >>
    BY <1>1 DEF DefaultPlan, PlanFields
  <2> QED
    BY <2>1, <2>2, <2>3, <2>4 DEF InStepOrder
<1>2. Init => Inv
  <2> SUFFICES ASSUME Init PROVE Inv
    OBVIOUS
  <2>1. RunOK
    BY DEF Init, RunOK
  <2> QED
    BY <1>1, <2>1 DEF Init
<1>3. Inv /\ [Next]_vars => Inv'
  <2> SUFFICES ASSUME Inv, [Next]_vars PROVE Inv'
    OBVIOUS
  <2>1. CASE Rests
    BY <2>1 DEF Rests, RunOK
  <2>2. CASE Starts
    <3>1. RunOK'
      BY <2>2 DEF RunOK, Starts
    <3> QED
      BY <1>1, <2>2, <3>1 DEF Starts
  <2>3. ASSUME NEW output \in StepOutput, Outputs(output)
        PROVE  Inv'
    <3> DEFINE result == [step |-> Head(todo), output |-> output]
    <3>1. /\ result \in StepResult /\ result.output = output
          /\ step_results' = Append(step_results, result)
          /\ RunOK'
      BY <2>3, ResultAppended
    <3>2. /\ plan' = IF output.plan_patch = None THEN plan
                     ELSE MergePatch(plan, output.plan_patch)
          /\ diagnostics' = diagnostics \o output.diagnostics
      BY <2>3 DEF Outputs, Accumulate
    <3> HIDE DEF result
    <3>3. InStepOrder(IF result.output.plan_patch = None THEN plan
                      ELSE MergePatch(plan, result.output.plan_patch),
                      diagnostics \o result.output.diagnostics,
                      Append(step_results, result))
      BY <3>1, MergeAppends DEF RunOK
    <3> QED
      BY <3>1, <3>2, <3>3
  <2> QED
    BY <2>1, <2>2, <2>3, StepOutputs
<1>4. Inv => ListsKeepStepOrder
  BY DEF InStepOrder, ListsKeepStepOrder, GivenLists, GivenDiagnostics, Giving, GivingIn,
     Patch, PatchIn
<1> QED
  BY <1>2, <1>3, <1>4, PTL DEF Spec

-----------------------------------------------------------------------------
(* The items of the lists, without the one that stands for no item.        *)
Present == ListItems \ {None}

LEMMA PresentList ==
  ASSUME NEW list, list \in Seq(ListItems), None \notin ToSet(list)
  PROVE  list \in Seq(Present)
<1>1. /\ Len(list) \in Nat
      /\ list \in [1 .. Len(list) -> ListItems]
      /\ DOMAIN list = 1 .. Len(list)
  BY LenProperties
<1>2. \A i \in 1 .. Len(list) : list[i] \in Present
  BY <1>1 DEF ToSet, Present
<1>3. list \in [1 .. Len(list) -> Present]
  BY <1>1, <1>2
<1> QED
  BY <1>1, <1>3, SeqDef

(* The strings of a list are none of them missing.                         *)
LEMMA StringsArePresent ==
  ASSUME NEW list, list \in Seq(ToSet(list))
  PROVE  None \notin ToSet(Strings(list))
<1> DEFINE S == ToSet(list) \ {None}
           items == [i \in DOMAIN list |-> IF list[i] = None THEN << >> ELSE <<list[i]>>]
<1>1. Len(list) \in Nat /\ DOMAIN list = 1 .. Len(list)
  BY LenProperties
<1>2. ASSUME NEW i \in DOMAIN list PROVE items[i] \in Seq(S)
  <2>1. CASE list[i] = None
    BY <2>1, EmptySeq
  <2>2. CASE list[i] # None
    <3>1. list[i] \in S
      BY <2>2 DEF ToSet
    <3> HIDE DEF S
    <3>2. <<list[i]>> \in Seq(S)
      BY <3>1
    <3> QED
      BY <2>2, <3>2
  <2> QED
    BY <2>1, <2>2
<1>3. items = [i \in 1 .. Len(list) |-> items[i]]
  BY <1>1
<1> HIDE DEF items, S
<1>4. items \in Seq(Seq(S))
  <2>1. items \in [1 .. Len(list) -> Seq(S)]
    BY <1>1, <1>2, <1>3
  <2> QED
    BY <1>1, <2>1, SeqDef
<1>5. FlattenSeq(items) \in Seq(S)
  BY <1>4, FlattenIsList
<1>6. \A i \in DOMAIN FlattenSeq(items) : FlattenSeq(items)[i] \in S
  BY <1>5, LenProperties
<1> QED
  BY <1>6 DEF Strings, items, S, ToSet

(* No list of an output has an item that did not parse: an executor lets   *)
(* no reply through that has one.                                          *)
LEMMA OutputListsArePresent ==
  ASSUME NEW output \in StepOutput, output.plan_patch # None,
         NEW f \in ListFields \cap DOMAIN output.plan_patch
  PROVE  output.plan_patch[f] \in Seq(Present)
<1> DEFINE patch == output.plan_patch
<1>1. ASSUME NEW s \in StepSet, NEW r \in Replies \cup {None}, output = RunStepOutput(s, r)
      PROVE  None \notin ToSet(patch[f])
  <2>1. Accepted(r) /\ r.plan # None /\ patch = PlanPatchFromValue(r.plan)
    BY <1>1 DEF RunStepOutput, StepOutputFromJson, ErrorOutput, Output
  <2>2. r \in Replies /\ r # None /\ ~Rejected(r.plan)
    BY <2>1 DEF Accepted
  <2> DEFINE raw == r.plan
  <2>3. f \in Lists(raw) \/ (f = "secrets_delete" /\ "secrets_patch" \in DOMAIN raw)
    <3>1. DOMAIN PlanPatchFromValue(raw) =
            {g \in {"config_patch"} \cap DOMAIN raw : raw[g].type = "object"}
              \cup Lists(raw)
              \cup {g \in {"secrets_set", "secrets_delete"} : "secrets_patch" \in DOMAIN raw}
      BY DEF PlanPatchFromValue
    <3>2. f \in DOMAIN PlanPatchFromValue(raw)
      BY <2>1
    <3>3. f \in ListFields
      OBVIOUS
    <3> QED
      BY ONLY <3>1, <3>2, <3>3 DEF ListFields
  <2>4. CASE f = "secrets_delete"
    <3>1. patch[f] = raw["secrets_patch"].value.delete /\ "secrets_patch" \in DOMAIN raw
      BY <2>1, <2>3, <2>4 DEF PlanPatchFromValue, Lists, OpFields
    <3> QED
      BY <2>1, <2>2, <3>1, PatchesAssumption
  <2>5. CASE f = "notes"
    <3>1. patch[f] = Strings(raw[f].value) /\ f \in Lists(raw)
      BY <2>1, <2>3, <2>5 DEF PlanPatchFromValue
    <3>2. raw[f].value \in Seq(ToSet(raw[f].value))
      BY <2>1, <2>2, <2>5, <3>1, PatchesAssumption
    <3> QED
      BY <3>1, <3>2, StringsArePresent
  <2>6. CASE f \in OpFields
    <3>1. patch[f] = raw[f].value /\ f \in Lists(raw)
      BY <2>1, <2>3, <2>6 DEF PlanPatchFromValue, OpFields
    <3> QED
      BY <2>2, <2>6, <3>1 DEF Rejected, Lists, Items
  <2> QED
    BY <2>4, <2>5, <2>6 DEF ListFields, OpFields
<1>2. output # DefaultOutput
  BY DEF DefaultOutput, Output
<1>3. ASSUME output \in FixtureOutputs
      PROVE  None \notin ToSet(patch[f])
  BY <1>3, PatchesAssumption
<1>4. None \notin ToSet(patch[f])
  <2>1. CASE \E s \in StepSet, r \in Replies \cup {None} : output = RunStepOutput(s, r)
    BY <1>1, <2>1
  <2> HIDE DEF patch
  <2> QED
    BY <1>2, <1>3, <2>1 DEF StepOutput
<1> QED
  BY <1>4, OutputLists, PresentList

(* The plan has its fields, and its lists have no missing item.            *)
PlanOK(p) ==
  /\ DOMAIN p = PlanFields
  /\ \A f \in ListFields : p[f] \in Seq(Present)

LEMMA MergeKeepsPlanOK ==
  ASSUME NEW p, PlanOK(p), NEW output \in StepOutput
  PROVE  PlanOK(IF output.plan_patch = None THEN p ELSE MergePatch(p, output.plan_patch))
<1> DEFINE patch == output.plan_patch
<1>1. ASSUME patch # None, NEW f \in ListFields
      PROVE  MergePatch(p, patch)[f] \in Seq(Present)
  <2>1. MergePatch(p, patch)[f] = IF f \in DOMAIN patch THEN p[f] \o patch[f] ELSE p[f]
    BY DEF MergePatch, PlanFields, MapFields, ListFields
  <2>2. p[f] \in Seq(Present)
    BY DEF PlanOK
  <2>3. f \in DOMAIN patch => patch[f] \in Seq(Present)
    BY <1>1, OutputListsArePresent
  <2> HIDE DEF patch
  <2>4. f \in DOMAIN patch => p[f] \o patch[f] \in Seq(Present)
    BY <2>2, <2>3, ConcatProperties
  <2> QED
    BY <2>1, <2>2, <2>4
<1>2. DOMAIN MergePatch(p, patch) = PlanFields
  BY DEF MergePatch
<1> HIDE DEF patch
<1>3. PlanOK(IF patch = None THEN p ELSE MergePatch(p, patch))
  BY <1>1, <1>2 DEF PlanOK
<1> QED
  BY <1>3 DEF patch

(* The steps of the results, before those left, are what they were.        *)
StepsOf(results) == [i \in DOMAIN results |-> results[i].step]

LEMMA StepsMoveOn ==
  ASSUME NEW results \in Seq(StepResult), NEW left \in Seq(StepSet), left # << >>,
         NEW result \in StepResult, result.step = Head(left)
  PROVE  StepsOf(Append(results, result)) \o Tail(left) = StepsOf(results) \o left
<1> DEFINE h    == Head(left)
           done == StepsOf(results)
<1>1. h \in StepSet /\ Tail(left) \in Seq(StepSet) /\ left = <<h>> \o Tail(left)
  <2>1. /\ h \in StepSet /\ Tail(left) \in Seq(StepSet)
        /\ Len(Tail(left)) = Len(left) - 1
        /\ \A i \in 1 .. Len(Tail(left)) : Tail(left)[i] = left[i + 1]
        /\ h = left[1]
    BY HeadTailProperties
  <2> HIDE DEF h
  <2>2. /\ <<h>> \in Seq(StepSet) /\ Len(<<h>>) = 1 /\ <<h>>[1] = h
    BY <2>1
  <2>3. /\ <<h>> \o Tail(left) \in Seq(StepSet)
        /\ Len(<<h>> \o Tail(left)) = Len(left)
        /\ \A i \in 1 .. Len(left) :
             (<<h>> \o Tail(left))[i] = IF i <= 1 THEN <<h>>[i] ELSE Tail(left)[i - 1]
    <3>1. Len(left) \in Nat
      BY LenProperties
    <3> QED
      BY <2>1, <2>2, <3>1, ConcatProperties
  <2>4. ASSUME NEW i \in 1 .. Len(left) PROVE (<<h>> \o Tail(left))[i] = left[i]
    <3>1. Len(left) \in Nat
      BY LenProperties
    <3>2. CASE i = 1
      BY <2>1, <2>2, <2>3, <3>2
    <3>3. CASE i # 1
      <4>1. i - 1 \in 1 .. Len(Tail(left)) /\ (i - 1) + 1 = i /\ ~(i <= 1)
        BY <2>1, <3>1, <3>3
      <4> QED
        BY <2>1, <2>3, <4>1
    <3> QED
      BY <3>2, <3>3
  <2>5. <<h>> \o Tail(left) = left
    BY <2>3, <2>4, SeqEqual
  <2> QED
    BY <2>1, <2>5
<1> DEFINE after == StepsOf(Append(results, result))
<1>2. done \in Seq(StepSet) /\ after = Append(done, h)
  <2>1. /\ DOMAIN Append(results, result) = DOMAIN results \cup {Len(results) + 1}
        /\ \A i \in DOMAIN results : Append(results, result)[i] = results[i]
        /\ Append(results, result)[Len(results) + 1] = result
    BY AppendProperties, LenProperties
  <2>2. \A i \in DOMAIN results : results[i] \in StepResult
    BY ElementOfSeq, LenProperties
  <2>3. done \in [DOMAIN results -> StepSet]
    BY <2>2 DEF StepsOf, StepResult
  <2>4. /\ \A i \in DOMAIN results : after[i] = done[i]
        /\ after[Len(results) + 1] = h
        /\ after = [i \in DOMAIN Append(results, result) |-> after[i]]
    BY <2>1 DEF StepsOf
  <2> HIDE DEF done, after, h
  <2>5. after \in [DOMAIN Append(results, result) -> StepSet]
    BY <1>1, <2>1, <2>3, <2>4
  <2>6. /\ results \in Seq(StepResult) /\ result \in StepResult /\ h \in StepSet
        /\ done \in [DOMAIN results -> StepSet]
        /\ after \in [DOMAIN Append(results, result) -> StepSet]
        /\ \A i \in DOMAIN results : after[i] = done[i]
        /\ after[Len(results) + 1] = h
    BY <1>1, <2>3, <2>4, <2>5
  <2> QED
    BY ONLY <2>6, OneMorePlace
<1> HIDE DEF h, done, after
<1>3. Append(done, h) = done \o <<h>>
  BY <1>1, <1>2, AppendIsConcat
<1>4. (done \o <<h>>) \o Tail(left) = done \o (<<h>> \o Tail(left))
  BY <1>1, <1>2, ConcatAssociative
<1>5. Append(done, h) \o Tail(left) = done \o left
  BY <1>1, <1>3, <1>4
<1> QED
  BY <1>2, <1>5 DEF done, after

TypesInv ==
  /\ RunOK
  /\ phase \in {"idle", "running", "returned", "failed"}
  /\ mode \in Modes
  /\ source \in {"wasm", "noop", "fixtures"}
  /\ PlanOK(plan)
  /\ phase = "returned" => todo = << >>
  /\ source # "fixtures" /\ phase # "idle" => StepsOf(step_results) \o todo = Steps
  /\ source = "wasm" =>
       replies \in Seq(Replies \cup {None}) /\ Len(replies) = Len(step_results)

(* The state of every run is that of a run: its steps in order, each with  *)
(* its output and reply, and a plan without an operation that failed to    *)
(* parse.                                                                  *)
THEOREM EngineTypes == Spec => []TypeOK
<1>1. PlanOK(DefaultPlan)
  <2>1. \A f \in ListFields : DefaultPlan[f] = << >>
    BY DEF DefaultPlan, PlanFields
  <2> QED
    BY <2>1, EmptySeq DEF PlanOK, DefaultPlan
<1>2. Init => TypesInv
  BY <1>1, EmptySeq DEF Init, TypesInv, RunOK, Modes
<1>3. TypesInv /\ [Next]_vars => TypesInv'
  <2> SUFFICES ASSUME TypesInv, [Next]_vars PROVE TypesInv'
    OBVIOUS
  <2>1. CASE Rests
    BY <2>1 DEF Rests, TypesInv, RunOK
  <2>2. CASE Starts
    <3>1. RunOK'
      BY <2>2 DEF RunOK, Starts
    <3>2. PlanOK(plan')
      BY <1>1, <2>2 DEF Starts
    <3>3. source' # "fixtures" => StepsOf(step_results') \o todo' = Steps
      <4>1. StepsOf(step_results') = << >>
        BY <2>2 DEF Starts, StepsOf
      <4>2. source' # "fixtures" => todo' = Steps
        BY <2>2 DEF Starts
      <4>3. Steps \in Seq(StepSet)
        BY DEF Steps, StepSet
      <4> QED
        BY <4>1, <4>2, <4>3, ConcatEmptySeq
    <3>4. replies' \in Seq(Replies \cup {None}) /\ Len(replies') = Len(step_results')
      BY <2>2, EmptySeq DEF Starts
    <3>5. phase' = "running" /\ mode' \in Modes /\ source' \in {"wasm", "noop", "fixtures"}
      BY <2>2 DEF Starts, TypesInv
    <3> QED
      BY <3>1, <3>2, <3>3, <3>4, <3>5 DEF TypesInv
  <2>3. ASSUME NEW output \in StepOutput, Outputs(output)
        PROVE  TypesInv'
    <3> DEFINE result == [step |-> Head(todo), output |-> output]
    <3>1. /\ result \in StepResult
          /\ step_results' = Append(step_results, result)
          /\ RunOK'
      BY <2>3, ResultAppended DEF TypesInv
    <3>2. result.step = Head(todo)
      OBVIOUS
    <3> HIDE DEF result
    <3>3. /\ phase = "running" /\ todo # << >>
          /\ plan' = IF output.plan_patch = None THEN plan
                     ELSE MergePatch(plan, output.plan_patch)
          /\ todo' = Tail(todo)
          /\ UNCHANGED <<phase, mode, source>>
      BY <2>3 DEF Outputs, Accumulate
    <3>4. PlanOK(plan')
      BY <3>3, MergeKeepsPlanOK DEF TypesInv
    <3>5. source # "fixtures" => StepsOf(step_results') \o todo' = Steps
      BY <3>1, <3>2, <3>3, StepsMoveOn DEF TypesInv, RunOK
    <3>6. source = "wasm" =>
            replies' \in Seq(Replies \cup {None}) /\ Len(replies') = Len(step_results')
      <4> SUFFICES ASSUME source = "wasm"
                   PROVE  replies' \in Seq(Replies \cup {None}) /\ Len(replies') = Len(step_results')
        OBVIOUS
      <4>1. PICK reply \in Replies \cup {None} : replies' = Append(replies, reply)
        BY <2>3 DEF Outputs
      <4>2. Len(replies') = Len(replies) + 1 /\ replies' \in Seq(Replies \cup {None})
        BY <4>1, AppendProperties DEF TypesInv
      <4>3. Len(step_results') = Len(step_results) + 1
        BY <3>1, AppendProperties DEF TypesInv, RunOK
      <4> QED
        BY <4>2, <4>3 DEF TypesInv
    <3> QED
      BY <3>1, <3>3, <3>4, <3>5, <3>6 DEF TypesInv
  <2> QED
    BY <2>1, <2>2, <2>3, StepOutputs DEF TypesInv
<1>4. TypesInv => TypeOK
  <2> SUFFICES ASSUME TypesInv PROVE TypeOK
    OBVIOUS
  <2>1. ASSUME NEW f \in ListFields PROVE None \notin ToSet(plan[f])
    <3>1. \A i \in DOMAIN plan[f] : plan[f][i] \in Present
      BY LenProperties DEF TypesInv, PlanOK
    <3> QED
      BY <3>1 DEF Present, ToSet
  <2> QED
    BY <2>1 DEF TypesInv, TypeOK, RunOK, PlanOK, StepsOf
<1> QED
  BY <1>2, <1>3, <1>4, PTL DEF Spec

-----------------------------------------------------------------------------
(* What the components were told fits the results: one input for each, of  *)
(* its step, with the results before it.                                   *)
ToldFits(inputs, results) ==
  /\ inputs \in Seq([step : StepSet, previous : Seq(StepResult)])
  /\ Len(inputs) = Len(results)
  /\ \A i \in 1 .. Len(inputs) :
       /\ inputs[i].step = results[i].step
       /\ Len(inputs[i].previous) = i - 1
       /\ \A j \in 1 .. (i - 1) : inputs[i].previous[j] = results[j]

(* One more input and its result still fit.                                *)
LEMMA OneMoreTold ==
  ASSUME NEW results \in Seq(StepResult), NEW result \in StepResult,
         NEW inputs, ToldFits(inputs, results)
  PROVE  ToldFits(Append(inputs, [step |-> result.step, previous |-> results]),
                  Append(results, result))
<1> DEFINE input == [step |-> result.step, previous |-> results]
           more  == Append(inputs, input)
           after == Append(results, result)
           n     == Len(inputs)
<1>1. /\ inputs \in Seq([step : StepSet, previous : Seq(StepResult)])
      /\ n \in Nat /\ n = Len(results)
  BY DEF ToldFits
<1>2. /\ input \in [step : StepSet, previous : Seq(StepResult)]
      /\ input.step = result.step /\ input.previous = results
  BY DEF StepResult
<1> HIDE DEF input
<1>3. /\ more \in Seq([step : StepSet, previous : Seq(StepResult)])
      /\ Len(more) = n + 1
      /\ more[n + 1] = input
      /\ \A i \in 1 .. n : more[i] = inputs[i]
  BY <1>1, <1>2, AppendProperties
<1>4. /\ Len(after) = n + 1
      /\ after[n + 1] = result
      /\ \A i \in 1 .. n : after[i] = results[i]
  BY <1>1, AppendProperties
<1> HIDE DEF more, after
<1>5. ASSUME NEW i \in 1 .. (n + 1)
      PROVE  /\ more[i].step = after[i].step
             /\ Len(more[i].previous) = i - 1
             /\ \A j \in 1 .. (i - 1) : more[i].previous[j] = after[j]
  <2>1. CASE i = n + 1
    BY <1>1, <1>2, <1>3, <1>4, <2>1
  <2>2. CASE i # n + 1
    <3>1. i \in 1 .. n /\ \A j \in 1 .. (i - 1) : j \in 1 .. n
      BY <1>1, <2>2
    <3> QED
      BY <1>3, <1>4, <3>1 DEF ToldFits
  <2> QED
    BY <2>1, <2>2
<1>6. ToldFits(more, after)
  BY <1>1, <1>3, <1>4, <1>5 DEF ToldFits
<1> QED
  BY <1>6 DEF more, after, input

ToldInv ==
  /\ RunOK
  /\ phase = "idle" => source = "noop"
  /\ source = "wasm" => ToldFits(told, step_results)

(* In every run, the component of each step is told the replies, or the    *)
(* errors, of exactly the steps before it in that run.                     *)
THEOREM ComponentsAreTold == Spec => []ComponentsSeeEarlierReplies
<1>1. Init => ToldInv
  BY DEF Init, ToldInv, RunOK
<1>2. ToldInv /\ [Next]_vars => ToldInv'
  <2> SUFFICES ASSUME ToldInv, [Next]_vars PROVE ToldInv'
    OBVIOUS
  <2>1. CASE Rests
    BY <2>1 DEF Rests, ToldInv, RunOK
  <2>2. CASE Starts
    <3>1. ToldFits(<< >>, << >>)
      BY DEF ToldFits
    <3> QED
      BY <2>2, <3>1 DEF Starts, ToldInv, RunOK
  <2>3. ASSUME NEW output \in StepOutput, Outputs(output)
        PROVE  ToldInv'
    <3> DEFINE result == [step |-> Head(todo), output |-> output]
    <3>1. /\ result \in StepResult
          /\ step_results' = Append(step_results, result)
          /\ RunOK'
      BY <2>3, ResultAppended DEF ToldInv
    <3>2. result.step = Head(todo)
      OBVIOUS
    <3> HIDE DEF result
    <3>3. phase' = "running" /\ UNCHANGED source
      BY <2>3 DEF Outputs, Accumulate
    <3>4. ASSUME source = "wasm" PROVE ToldFits(told', step_results')
      <4>1. told' = Append(told, [step |-> result.step, previous |-> step_results])
        BY <2>3, <3>2, <3>4 DEF Outputs, ComponentInput, Context
      <4> QED
        BY <3>1, <3>4, <4>1, OneMoreTold DEF ToldInv, RunOK
    <3> QED
      BY <3>1, <3>3, <3>4 DEF ToldInv
  <2> QED
    BY <2>1, <2>2, <2>3, StepOutputs DEF ToldInv
<1>3. ASSUME ToldInv, RepliesInv, TypeOK, source = "wasm"
      PROVE  /\ Len(told) = Len(replies)
             /\ \A i \in DOMAIN told :
                  /\ told[i].step = Steps[i]
                  /\ Len(told[i].previous) = i - 1
                  /\ \A j \in 1 .. (i - 1) :
                       LET earlier == told[i].previous[j]
                       IN  /\ earlier.step = Steps[j]
                           /\ earlier.output.data =
                                IF Accepted(replies[j]) THEN replies[j]
                                ELSE ErrorOutput(Steps[j]).data
  <2> DEFINE n    == Len(step_results)
             done == [i \in DOMAIN step_results |-> step_results[i].step]
  <2>1. /\ n \in Nat /\ DOMAIN step_results = 1 .. n
        /\ \A i \in 1 .. n : step_results[i] \in StepResult
    BY <1>3 DEF ToldInv, RunOK
  <2>2. /\ Len(told) = n /\ DOMAIN told = 1 .. n
        /\ \A i \in 1 .. n :
             /\ told[i].step = step_results[i].step
             /\ Len(told[i].previous) = i - 1
             /\ \A j \in 1 .. (i - 1) : told[i].previous[j] = step_results[j]
    BY <1>3, <2>1 DEF ToldInv, ToldFits
  <2>3. /\ Len(replies) = n
        /\ \A i \in 1 .. n :
             step_results[i].output = RunStepOutput(step_results[i].step, replies[i])
    BY <1>3, <2>1 DEF RepliesInv, RepliesFit
  <2>4. \A i \in 1 .. n : step_results[i].step = Steps[i]
    <3>1. done \o todo = Steps
      BY <1>3 DEF TypeOK, ToldInv
    <3>2. done \in Seq(StepSet) /\ Len(done) = n
      BY <2>1 DEF StepResult
    <3>3. todo \in Seq(StepSet)
      BY <1>3 DEF ToldInv, RunOK
    <3> HIDE DEF done
    <3>4. \A i \in 1 .. n : Steps[i] = done[i]
      BY <3>1, <3>2, <3>3, ConcatProperties
    <3> QED
      BY <2>1, <3>4 DEF done
  <2>5. ASSUME NEW s, NEW reply
        PROVE  RunStepOutput(s, reply).data =
                 IF Accepted(reply) THEN reply ELSE ErrorOutput(s).data
    BY DEF RunStepOutput, StepOutputFromJson, ErrorOutput, Output
  <2>6. ASSUME NEW i \in 1 .. n, NEW j \in 1 .. (i - 1)
        PROVE  /\ told[i].previous[j].step = Steps[j]
               /\ told[i].previous[j].output.data =
                    IF Accepted(replies[j]) THEN replies[j] ELSE ErrorOutput(Steps[j]).data
    <3>1. j \in 1 .. n
      BY <2>1
    <3>2. /\ told[i].previous[j].step = Steps[j]
          /\ told[i].previous[j].output = RunStepOutput(Steps[j], replies[j])
      BY <2>2, <2>3, <2>4, <3>1
    <3> QED
      BY <2>5, <3>2
  <2> QED
    BY <2>2, <2>3, <2>4, <2>6
<1>4. ToldInv /\ RepliesInv /\ TypeOK => ComponentsSeeEarlierReplies
  BY <1>3 DEF ComponentsSeeEarlierReplies
<1> QED
  BY <1>1, <1>2, <1>4, RepliesInvariant, EngineTypes, PTL DEF Spec

-----------------------------------------------------------------------------
(* The diagnostics of components never leave the data of their results:    *)
(* whatever components reply, and in every run, the diagnostics of the run *)
(* stay empty (ReplyDiagnosticsReachResult fails for every reply that has  *)
(* any), and a reply that is accepted is found, whole, in its step's data. *)
THEOREM DiagnosticsStayInData ==
  Spec => [](source = "wasm" =>
               /\ diagnostics = << >>
               /\ \A i \in DOMAIN replies :
                    Accepted(replies[i]) => step_results[i].output.data = replies[i])
<1> DEFINE NoDiagnostics == source = "wasm" => diagnostics = << >>
<1>1. Init => NoDiagnostics
  BY DEF Init
<1>2. RepliesInv /\ NoDiagnostics /\ [Next]_vars => NoDiagnostics'
  <2> SUFFICES ASSUME RepliesInv, NoDiagnostics, [Next]_vars PROVE NoDiagnostics'
    OBVIOUS
  <2>1. CASE Rests
    BY <2>1 DEF Rests
  <2>2. CASE Starts
    BY <2>2 DEF Starts
  <2>3. ASSUME NEW output \in StepOutput, Outputs(output) PROVE NoDiagnostics'
    <3>1. UNCHANGED source /\ diagnostics' = diagnostics \o output.diagnostics
      BY <2>3 DEF Outputs, Accumulate
    <3>2. source = "wasm" => output.diagnostics = << >>
      BY <2>3 DEF Outputs, RunStepOutput, StepOutputFromJson, ErrorOutput, Output
    <3> QED
      BY <3>1, <3>2
  <2> QED
    BY <2>1, <2>2, <2>3, StepOutputs DEF RepliesInv
<1>3. RepliesInv /\ source = "wasm" =>
        \A i \in DOMAIN replies :
          Accepted(replies[i]) => step_results[i].output.data = replies[i]
  <2>1. ASSUME NEW step, NEW reply, Accepted(reply)
        PROVE  RunStepOutput(step, reply).data = reply
    BY <2>1 DEF RunStepOutput, StepOutputFromJson, Output
  <2>2. RepliesInv /\ source = "wasm" =>
          \A i \in DOMAIN replies :
            step_results[i].output = RunStepOutput(step_results[i].step, replies[i])
    BY DEF RepliesInv, RepliesFit
  <2> QED
    BY <2>1, <2>2
<1> QED
  BY <1>1, <1>2, <1>3, RepliesInvariant, PTL DEF Spec

-----------------------------------------------------------------------------
(* What ProvisionApplier assumes of the plans that it is given             *)
(* (PlansAssumption there): maps from keys to values, lists of keys and of *)
(* operations.                                                             *)
MapOf(K, V) == UNION {[S -> V] : S \in SUBSET K}

PlanFits(p, K, V, R, Op) ==
  /\ p["config_patch"] \in MapOf(K, V)
  /\ p["secrets_set"] \in MapOf(K, R)
  /\ p["secrets_delete"] \in Seq(K)
  /\ p["oauth_ops"] \in Seq(Op)

(* The same of the fields that a patch has.                                *)
PatchFits(patch, K, V, R, Op) ==
  /\ "config_patch" \in DOMAIN patch => patch["config_patch"] \in MapOf(K, V)
  /\ "secrets_set" \in DOMAIN patch => patch["secrets_set"] \in MapOf(K, R)
  /\ "secrets_delete" \in DOMAIN patch => patch["secrets_delete"] \in Seq(K)
  /\ "oauth_ops" \in DOMAIN patch => patch["oauth_ops"] \in Seq(Op)

(* Extending a map by a map gives a map of the same keys and values.       *)
LEMMA ExtendIsMap ==
  ASSUME NEW K, NEW V, NEW f \in MapOf(K, V), NEW g \in MapOf(K, V)
  PROVE  Extend(f, g) \in MapOf(K, V)
<1>1. /\ DOMAIN f \subseteq K /\ f \in [DOMAIN f -> V]
      /\ DOMAIN g \subseteq K /\ g \in [DOMAIN g -> V]
  BY DEF MapOf
<1>2. Extend(f, g) \in [DOMAIN f \cup DOMAIN g -> V]
  BY <1>1 DEF Extend
<1> QED
  BY <1>1, <1>2 DEF MapOf

(* The engine's plan is one that can be applied: when the patches of the   *)
(* steps have fields of the applier's types, so has the plan they are      *)
(* merged into, at every step of every run.                                *)
THEOREM PlansCanBeApplied ==
  ASSUME NEW CONSTANT K, NEW CONSTANT V, NEW CONSTANT R, NEW CONSTANT Op,
         \A output \in StepOutput :
           output.plan_patch # None => PatchFits(output.plan_patch, K, V, R, Op)
  PROVE  Spec => []PlanFits(plan, K, V, R, Op)
<1>1. PlanFits(DefaultPlan, K, V, R, Op)
  <2>1. \A f \in PlanFields : DefaultPlan[f] = << >>
    BY DEF DefaultPlan
  <2>2. \A W : << >> \in MapOf(K, W)
    <3>1. \A W : << >> \in [{} -> W]
      OBVIOUS
    <3> QED
      BY <3>1 DEF MapOf
  <2>3. /\ DefaultPlan["config_patch"] = << >> /\ DefaultPlan["secrets_set"] = << >>
        /\ DefaultPlan["secrets_delete"] = << >> /\ DefaultPlan["oauth_ops"] = << >>
    BY <2>1 DEF PlanFields, MapFields, ListFields
  <2>4. << >> \in Seq(K) /\ << >> \in Seq(Op)
    OBVIOUS
  <2> QED
    BY <2>2, <2>3, <2>4 DEF PlanFits
<1>2. ASSUME NEW p, PlanFits(p, K, V, R, Op),
             NEW patch, PatchFits(patch, K, V, R, Op)
      PROVE  PlanFits(MergePatch(p, patch), K, V, R, Op)
  <2> DEFINE q == MergePatch(p, patch)
  <2>1. ASSUME NEW f \in MapFields, NEW W, p[f] \in MapOf(K, W),
               f \in DOMAIN patch => patch[f] \in MapOf(K, W)
        PROVE  q[f] \in MapOf(K, W)
    <3>1. q[f] = IF f \in DOMAIN patch THEN Extend(p[f], patch[f]) ELSE p[f]
      BY DEF MergePatch, PlanFields
    <3> HIDE DEF q
    <3> QED
      BY <2>1, <3>1, ExtendIsMap
  <2>2. ASSUME NEW f \in ListFields, NEW W, p[f] \in Seq(W),
               f \in DOMAIN patch => patch[f] \in Seq(W)
        PROVE  q[f] \in Seq(W)
    <3>1. q[f] = IF f \in DOMAIN patch THEN p[f] \o patch[f] ELSE p[f]
      BY DEF MergePatch, PlanFields, MapFields, ListFields
    <3> HIDE DEF q
    <3> QED
      BY <2>2, <3>1, ConcatProperties
  <2>3. /\ "config_patch" \in MapFields /\ "secrets_set" \in MapFields
        /\ "secrets_delete" \in ListFields /\ "oauth_ops" \in ListFields
    BY DEF MapFields, ListFields
  <2> HIDE DEF q
  <2>4. PlanFits(q, K, V, R, Op)
    BY <1>2, <2>1, <2>2, <2>3 DEF PlanFits, PatchFits
  <2> QED
    BY <2>4 DEF q
<1> DEFINE Fits == PlanFits(plan, K, V, R, Op)
<1>3. Init => Fits
  BY <1>1 DEF Init
<1>4. RepliesInv /\ Fits /\ [Next]_vars => Fits'
  <2> SUFFICES ASSUME RepliesInv, Fits, [Next]_vars PROVE Fits'
    OBVIOUS
  <2>1. CASE Rests
    BY <2>1 DEF Rests
  <2>2. CASE Starts
    BY <1>1, <2>2 DEF Starts
  <2>3. ASSUME NEW output \in StepOutput, Outputs(output) PROVE Fits'
    <3>1. plan' = IF output.plan_patch = None THEN plan
                  ELSE MergePatch(plan, output.plan_patch)
      BY <2>3 DEF Outputs, Accumulate
    <3> QED
      BY <1>2, <3>1
  <2> QED
    BY <2>1, <2>2, <2>3, StepOutputs DEF RepliesInv
<1> QED
  BY <1>3, <1>4, RepliesInvariant, PTL DEF Spec

===============================================================================
