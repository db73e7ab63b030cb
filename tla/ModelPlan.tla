----------------------------- MODULE ModelPlan -----------------------------
(***************************************************************************)
(* How the decision of a model becomes a workflow plan: the catalog of the *)
(* operations that a model may propose, the validation of its decision and *)
(* its adaptation.                                                         *)
(*                                                                         *)
(* A value is a record: kind, size (the number it is, or its length) and   *)
(* whether it is safe text.  A rule has a kind, required, and its bounds   *)
(* as sets of at most one number.  A contract is a function from names to  *)
(* rules; a catalog, from pairs of tool and action to contracts.           *)
(* Abstracted: types of fields that JSON cannot have, texts, SHA ids.      *)
(***************************************************************************)
EXTENDS WorkflowPlan, Integers

Rule(kind, required, least, most) ==
    [kind |-> kind, required |-> required, least |-> least, most |-> most]

\* ModelArgumentContract.__post_init__.
WellFormedRule(rule) ==
    /\ rule.kind \in {"string", "integer", "number", "boolean"}
    /\ rule.kind = "boolean" => rule.least = {} /\ rule.most = {}
    /\ rule.kind = "string" => \A n \in rule.least \cup rule.most : n >= 0
    /\ \A low \in rule.least : \A high \in rule.most : low <= high

Kinds(rule) == IF rule.kind = "number" THEN {"integer", "number"} ELSE {rule.kind}

\* ModelArgumentContract.accepts.
Accepts(rule, value) ==
    /\ value.kind \in Kinds(rule)
    /\ \A low \in rule.least : low <= value.size
    /\ \A high \in rule.most : value.size <= high
    /\ rule.kind = "string" => value.safe

RequiredNames(contract) == {name \in DOMAIN contract : contract[name].required}

\* _arguments_match.
ArgumentsMatch(contract, args) ==
    /\ DOMAIN args \subseteq DOMAIN contract
    /\ RequiredNames(contract) \subseteq DOMAIN args
    /\ \A name \in DOMAIN args : Accepts(contract[name], args[name])

\* _contract_is_restriction: a catalog may only narrow the base.
NarrowerRule(rule, base) ==
    /\ rule.kind = base.kind
    /\ base.required => rule.required
    /\ \A low \in base.least : \E own \in rule.least : own >= low
    /\ \A high \in base.most : \E own \in rule.most : own <= high

NarrowerContract(contract, base) ==
    /\ DOMAIN contract \subseteq DOMAIN base
    /\ RequiredNames(base) \subseteq DOMAIN contract
    /\ \A name \in DOMAIN contract : NarrowerRule(contract[name], base[name])

\* _copy_catalog.
AdmittedCatalog(catalog, safe) ==
    /\ DOMAIN catalog \subseteq DOMAIN safe
    /\ \A operation \in DOMAIN catalog : NarrowerContract(catalog[operation], safe[operation])

\* SAFE_MODEL_OPERATION_CATALOG.
Path == Rule("string", TRUE, {1}, {512})
SafeOperations == {<<"code_reader", "read_file">>, <<"code_analyzer", "summarize">>,
                   <<"patch_generator", "generate_patch">>, <<"test_runner", "run_tests">>,
                   <<"git_tools", "status">>}
SafeCatalog == [operation \in SafeOperations |->
    CASE operation[2] = "read_file" ->
            [name \in {"path", "max_lines"} |->
                IF name = "path" THEN Path ELSE Rule("integer", FALSE, {1}, {10000})]
      [] operation[2] = "summarize" -> [name \in {"path"} |-> Path]
      [] operation[2] = "generate_patch" ->
            [name \in {"path", "new_content"} |->
                IF name = "path" THEN Path ELSE Rule("string", TRUE, {}, {262144})]
      [] operation[2] = "run_tests" ->
            [name \in {"test_id"} |-> Rule("string", FALSE, {3}, {512})]
      [] OTHER -> <<>>]

-----------------------------------------------------------------------------
(* A decision: version, completed, whether it has a message, and steps.  A *)
(* step of it: id, tool, action, args, depends_on.                         *)

\* _validate_step_values.
ValidModelStep(step) ==
    /\ IsInjective(step.depends_on)
    /\ Len(step.depends_on) <= 8
    /\ step.id \notin ToSet(step.depends_on)

\* The step of the workflow: no bindings, and approvals are left to the policy (adapt).
AdaptedStep(step) ==
    [id |-> step.id, tool |-> step.tool, args |-> DOMAIN step.args,
     bindings |-> <<>>, depends_on |-> step.depends_on]

AdaptedPlan(decision) == [i \in DOMAIN decision.steps |-> AdaptedStep(decision.steps[i])]

\* A decision is finished and says so, or has something to do.
Coherent(decision) ==
    IF decision.completed THEN decision.steps = <<>> /\ decision.message
    ELSE decision.steps # <<>>

KnownDependencies(steps) ==
    /\ \A i, j \in DOMAIN steps : steps[i].id = steps[j].id => i = j
    /\ \A i \in DOMAIN steps :
          ToSet(steps[i].depends_on) \subseteq {steps[j].id : j \in DOMAIN steps}

\* What is left after rounds that take away every step that waits for none of the rest (every
\* dependency is one of the steps, which is checked before).
Waiting(steps, rest) == {i \in rest : \E j \in rest : steps[j].id \in ToSet(steps[i].depends_on)}

Left(steps) ==
    LET left[rounds \in 0..Len(steps)] ==
            IF rounds = 0 THEN DOMAIN steps ELSE Waiting(steps, left[rounds - 1])
    IN  left

\* _has_dependency_cycle.
HasDependencyCycle(steps) == Left(steps)[Len(steps)] # {}

TooLong(step, limits) == Len(step.depends_on) > limits.max_dependencies

\* ModelPlanDecision.from_mapping: the first thing that is wrong with what the model answered.
\* All rules of a step come before those of the next one.  The constructor applies the default
\* limits first, so that no limits let through more than its 8 steps.
Validation(decision, limits) ==
    LET steps == decision.steps
    IN  IF decision.version # "1" THEN "unsupported_plan_version"
        ELSE IF Len(steps) > limits.max_steps THEN "step_limit_exceeded"
        ELSE IF \E i \in DOMAIN steps :
                   /\ ~ValidModelStep(steps[i])
                   /\ \A j \in DOMAIN steps : j < i => ~TooLong(steps[j], limits)
             THEN "invalid_dependency"
        ELSE IF \E i \in DOMAIN steps : TooLong(steps[i], limits) THEN "invalid_model_plan"
        ELSE IF Len(steps) > 8 THEN "step_limit_exceeded"
        ELSE IF ~Coherent(decision) THEN "invalid_model_plan"
        ELSE IF ~KnownDependencies(steps) THEN "invalid_dependency"
        ELSE IF HasDependencyCycle(steps) THEN "cyclic_dependencies"
        ELSE "ok"

Tools(catalog) == {operation[1] : operation \in DOMAIN catalog}

\* The loop of ModelPlanAdapter.adapt; wellFormedTest stands for TEST_ID_PATTERN.
AdaptableStep(step, catalog, wellFormedTest) ==
    /\ <<step.tool, step.action>> \in DOMAIN catalog
    /\ ArgumentsMatch(catalog[<<step.tool, step.action>>], step.args)
    /\ step.tool = "test_runner" /\ "test_id" \in DOMAIN step.args =>
          step.args["test_id"] \in wellFormedTest

Adaptable(decision, catalog, limits, wellFormedTest) ==
    /\ Validation(decision, limits) = "ok"
    /\ \A i \in DOMAIN decision.steps :
          AdaptableStep(decision.steps[i], catalog, wellFormedTest)
=============================================================================
