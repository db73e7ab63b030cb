---------------------------- MODULE WorkflowPlan ----------------------------
(***************************************************************************)
(* The declarative plan that the engine runs: which plans are accepted, in *)
(* which order their steps run, and where a step takes its arguments from. *)
(*                                                                         *)
(* A step is a record: id, tool, args (the names of the arguments given),  *)
(* bindings (a function from the names of the others to references) and    *)
(* depends_on (a sequence of ids).  A reference is a step_id and a path.   *)
(* Abstracted: arguments' values, and the wording of the errors.           *)
(***************************************************************************)
EXTENDS Naturals, Sequences, SequencesExt, Positions

Ids(plan) == {plan[i].id : i \in DOMAIN plan}
Sources(step) == {step.bindings[name].step_id : name \in DOMAIN step.bindings}

\* What a step waits for.
Dependencies(step) == ToSet(step.depends_on) \cup Sources(step)

\* StepSpec.__post_init__.
WellFormedStep(step) ==
    /\ step.args \cap DOMAIN step.bindings = {}
    /\ IsInjective(step.depends_on)

\* WorkflowPlan.validate, up to the order.
WellFormedPlan(plan, allowed) ==
    /\ \A i, j \in DOMAIN plan : plan[i].id = plan[j].id => i = j
    /\ \A i \in DOMAIN plan :
          /\ WellFormedStep(plan[i])
          /\ plan[i].tool \in allowed
          /\ plan[i].id \notin Dependencies(plan[i])
          /\ Dependencies(plan[i]) \subseteq Ids(plan)

\* One round: the steps, in the order of the plan, whose dependencies are all among `done`.
Ready(plan, done) ==
    InOrder({i \in DOMAIN plan :
                /\ i \notin ToSet(done)
                /\ Dependencies(plan[i]) \subseteq {plan[j].id : j \in ToSet(done)}})

\* What is ordered after so many rounds; a round adds at least one step, or there is a cycle.
Rounds(plan) ==
    LET after[rounds \in 0..Len(plan)] ==
            IF rounds = 0 THEN <<>>
            ELSE LET done == after[rounds - 1] IN done \o Ready(plan, done)
    IN  after

\* The positions of the steps in the order they run.
ExecutionOrder(plan) == Rounds(plan)[Len(plan)]

HasCycle(plan) == Len(ExecutionOrder(plan)) < Len(plan)

ValidPlan(plan, allowed) == WellFormedPlan(plan, allowed) /\ ~HasCycle(plan)

\* The dependencies of the steps when all are numbered in the order they run: how the engine,
\* which goes through that order, meets them.
NumberedDependencies(plan) ==
    LET order == ExecutionOrder(plan)
    IN  [k \in DOMAIN order |->
            {j \in DOMAIN order : plan[order[j]].id \in Dependencies(plan[order[k]])}]

-----------------------------------------------------------------------------
(* Values: a leaf, a mapping or a sequence of values; a segment of a path  *)
(* is a key or an index from 0.                                            *)

Leaf == [kind |-> "leaf"]
Mapping(at) == [kind |-> "mapping", at |-> at]
Listing(at) == [kind |-> "sequence", at |-> at]
Nowhere == [kind |-> "nowhere"]
Key(name) == [kind |-> "key", at |-> name]
Index(number) == [kind |-> "index", at |-> number]

\* One step of ArgumentResolver._walk.
Enter(value, segment) ==
    CASE value.kind = "mapping" /\ segment.kind = "key" ->
            IF segment.at \in DOMAIN value.at THEN value.at[segment.at] ELSE Nowhere
      [] value.kind = "sequence" /\ segment.kind = "index" ->
            IF segment.at + 1 \in DOMAIN value.at THEN value.at[segment.at + 1] ELSE Nowhere
      [] OTHER -> Nowhere

Walk(root, path) ==
    LET reached[k \in 0..Len(path)] ==
            IF k = 0 THEN root ELSE Enter(reached[k - 1], path[k])
    IN  reached[Len(path)]

\* A result is a status and its data; what a reference sees of it.
View(result) ==
    Mapping([field \in {"status", "tool_name", "data", "message", "error", "metadata",
                        "retryable"} |-> IF field = "data" THEN result.data ELSE Leaf])

\* resolve finds the value of every binding: its source has a result, which is ok and holds
\* what the path names.
Resolvable(step, results) ==
    \A name \in DOMAIN step.bindings :
        LET ref == step.bindings[name]
        IN  /\ ref.step_id \in DOMAIN results
            /\ results[ref.step_id].status = "ok"
            /\ Walk(View(results[ref.step_id]), ref.path) # Nowhere
=============================================================================
