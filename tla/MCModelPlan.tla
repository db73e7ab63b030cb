---------------------------- MODULE MCModelPlan ----------------------------
(* The operators of WorkflowPlan and ModelPlan against what they are meant *)
(* to compute, over every plan of up to three steps and every rule of a    *)
(* small universe.  The definitions are independent of the code's loops.   *)
EXTENDS ModelPlan

Names == {"a", "b", "c"}
Orders(set) == {order \in UNION {[1..n -> set] : n \in 0..2} : IsInjective(order)}

StepOf(id, depends_on, sources) ==
    [id |-> id, tool |-> "reader", args |-> {"path"},
     bindings |-> [name \in sources |-> [step_id |-> name, path |-> <<>>]],
     depends_on |-> depends_on]

\* Distinct ids, dependencies in a list of up to two and a binding to at most one step.
PlansOf(n) ==
    {[i \in 1..n |-> StepOf(<<"a", "b", "c">>[i], deps[i][1], deps[i][2])] :
        deps \in [1..n -> Orders(Names) \X {{}, {"a"}, {"c"}}]}
Plans == PlansOf(0) \cup PlansOf(1) \cup PlansOf(2)
WithoutBindings ==
    {[i \in 1..3 |-> StepOf(<<"a", "b", "c">>[i], deps[i], {})] : deps \in [1..3 -> Orders(Names)]}
Checked == {plan \in Plans \cup WithoutBindings : WellFormedPlan(plan, {"reader"})}

\* Reference: position i waits, through any number of steps, for position j.
Waits(plan, i, j) ==
    \E chain \in UNION {[1..n -> DOMAIN plan] : n \in 2..(Len(plan) + 1)} :
        /\ chain[1] = i /\ chain[Len(chain)] = j
        /\ \A k \in 1..(Len(chain) - 1) :
              plan[chain[k + 1]].id \in Dependencies(plan[chain[k]])

\* A plan is refused for a cycle exactly when some step waits for itself, and the two
\* detectors of cycles, the one of the plan and the one of the model's decision, agree.
ASSUME CyclesAreFound ==
    \A plan \in Checked :
        /\ HasCycle(plan) <=> \E i \in DOMAIN plan : Waits(plan, i, i)
        /\ (\A i \in DOMAIN plan : plan[i].bindings = <<>>) =>
              (HasCycle(plan) <=> HasDependencyCycle(plan))

\* The order of an accepted plan has every step once and after all that it waits for; the
\* engine's steps are numbered by it, which is why WorkflowEngine may assume that a
\* dependency has a smaller number.
ASSUME OrdersAreSound ==
    \A plan \in Checked :
        ~HasCycle(plan) =>
            LET order == ExecutionOrder(plan)
            IN  /\ IsInjective(order) /\ ToSet(order) = DOMAIN plan
                /\ \A p, q \in DOMAIN order :
                      Waits(plan, order[q], order[p]) => p < q

\* Steps that wait for nothing that is not done keep the order of the plan.
ASSUME IndependentStepsKeepTheirOrder ==
    \A plan \in Checked :
        (\A i \in DOMAIN plan : Dependencies(plan[i]) = {}) =>
            ExecutionOrder(plan) = [i \in DOMAIN plan |-> i]

-----------------------------------------------------------------------------
Limits == [max_steps |-> 2, max_dependencies |-> 1]
Decisions ==
    [version : {"1", "2"}, completed : BOOLEAN, message : BOOLEAN,
     steps : UNION {[1..n -> [id : {"a", "b"}, tool : {"code_reader", "shell"},
                              action : {"read_file"},
                              args : {<<>>, [path |-> [kind |-> "string", size |-> 3, safe |-> TRUE]],
                                      [path |-> [kind |-> "string", size |-> 600, safe |-> TRUE]]},
                              depends_on : {<<>>, <<"a">>, <<"b">>, <<"a", "b">>}]] : n \in 0..2}]

\* What the adapter accepts is a plan that the workflow's own validation accepts, so its last
\* error path is never taken, and it is not the plan of a decision that is finished and has
\* steps.
ASSUME AcceptedDecisionsAreValidPlans ==
    \A decision \in Decisions :
        Adaptable(decision, SafeCatalog, Limits, {}) =>
            /\ ValidPlan(AdaptedPlan(decision), Tools(SafeCatalog))
            /\ decision.completed <=> AdaptedPlan(decision) = <<>>

\* A step that names a dependency twice is refused by the decision and by the plan alike.
ASSUME DuplicatesAreRefused ==
    LET step(list) == StepOf("a", list, {})
    IN  \A list \in [1..2 -> {"b", "c"}] :
            /\ ValidModelStep(step(list)) <=> list[1] # list[2]
            /\ WellFormedStep(step(list)) <=> list[1] # list[2]

\* The first step that breaks a rule decides what is reported, and large limits stop at 8 steps.
ASSUME FirstFaultDecides ==
    LET long == StepOf("a", <<"b", "c">>, {})
        itself == StepOf("a", <<"a">>, {})
        of(steps) == [version |-> "1", completed |-> FALSE, message |-> FALSE, steps |-> steps]
        many == [i \in 1..9 |-> StepOf(i, <<>>, {})]
    IN  /\ Validation(of(<<long, itself>>), Limits) = "invalid_model_plan"
        /\ Validation(of(<<itself, long>>), Limits) = "invalid_dependency"
        /\ Validation(of(many), [max_steps |-> 9, max_dependencies |-> 1]) = "step_limit_exceeded"

\* Each refusal is met, so the order of the checks matters here.
ASSUME EveryRefusalHappens ==
    {Validation(decision, Limits) : decision \in Decisions} =
        {"ok", "unsupported_plan_version", "invalid_dependency", "invalid_model_plan",
         "cyclic_dependencies"}

-----------------------------------------------------------------------------
Bounds == {{}, {0}, {2}}
Rules ==
    {rule \in [kind : {"string", "integer", "boolean"}, required : BOOLEAN, least : Bounds,
               most : Bounds] : WellFormedRule(rule)}
Values == [kind : {"string", "integer", "boolean"}, size : 0..3, safe : BOOLEAN]
Contracts == {<<>>} \cup [{"x"} -> Rules]

ASSUME SafeCatalogIsWellFormed ==
    \A operation \in SafeOperations :
        \A name \in DOMAIN SafeCatalog[operation] :
            WellFormedRule(SafeCatalog[operation][name])

\* Bounds are inclusive, and an argument that must be there must be there.
ASSUME ReadFileArguments ==
    LET contract == SafeCatalog[<<"code_reader", "read_file">>]
        text(length) == [kind |-> "string", size |-> length, safe |-> TRUE]
        number(value) == [kind |-> "integer", size |-> value, safe |-> TRUE]
        of(length, lines) == [name \in {"path", "max_lines"} |->
                                 IF name = "path" THEN text(length) ELSE number(lines)]
    IN  /\ {n \in {0, 1, 512, 513} : ArgumentsMatch(contract, of(n, 1))} = {1, 512}
        /\ {n \in {0, 1, 10000, 10001} : ArgumentsMatch(contract, of(1, n))} = {1, 10000}
        /\ ArgumentsMatch(contract, [path |-> text(1)])
        /\ ~ArgumentsMatch(contract, [max_lines |-> number(1)])

\* A catalog may narrow an operation, never widen it, and may leave operations out.
ASSUME RestrictionExamples ==
    /\ AdmittedCatalog(SafeCatalog, SafeCatalog)
    /\ AdmittedCatalog(<<>>, SafeCatalog)
    /\ ~AdmittedCatalog([operation \in {<<"code_reader", "read_file">>} |-> <<>>], SafeCatalog)
    /\ ~AdmittedCatalog([operation \in {<<"shell", "run">>} |-> <<>>], SafeCatalog)

\* What a narrower contract lets through, the base lets through.
ASSUME NarrowContractsAcceptLess ==
    \A contract, base \in Contracts :
        NarrowerContract(contract, base) =>
            \A args \in {<<>>} \cup [{"x"} -> Values] :
                ArgumentsMatch(contract, args) => ArgumentsMatch(base, args)

-----------------------------------------------------------------------------
Deep == Mapping([file |-> Listing(<<Leaf, Mapping([name |-> Leaf])>>)])
Paths ==
    UNION {[1..n -> {Key("data"), Key("file"), Key("name"), Index(0), Index(1), Index(2)}] :
              n \in 0..4}

\* The paths that lead somewhere, listed by hand.
ASSUME PathsThatResolve ==
    {path \in Paths : Walk(View([status |-> "ok", data |-> Deep]), path) # Nowhere} =
        {<<>>, <<Key("data")>>, <<Key("data"), Key("file")>>,
         <<Key("data"), Key("file"), Index(0)>>, <<Key("data"), Key("file"), Index(1)>>,
         <<Key("data"), Key("file"), Index(1), Key("name")>>}

\* A binding is refused while its source has no result, or one that is not ok.
ASSUME OnlyOkResultsAreBound ==
    LET step == StepOf("b", <<>>, {"a"})
        result(status) == [step_id \in {"a"} |-> [status |-> status, data |-> Leaf]]
    IN  /\ Resolvable(step, result("ok"))
        /\ ~Resolvable(step, <<>>)
        /\ \A status \in {"partial", "error", "retry"} : ~Resolvable(step, result(status))
=============================================================================
