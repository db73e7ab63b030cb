-------------------------- MODULE MCWorkflowEngine --------------------------
(* Plans for the runs of WorkflowEngine.                                   *)
EXTENDS WorkflowEngine, MCModelPlan

\* Every kind of step: a repeatable read, a gated test of it, a repeatable gated
\* tool that takes a value from the read, a correction, and a last tool that takes
\* a value from the correction.  The plan lists the last one first.
MixedPlan ==
    << StepOf("last", <<>>, {"fix"}), StepOf("read", <<>>, {}),
       StepOf("test", <<"read">>, {}), StepOf("use", <<>>, {"read"}),
       StepOf("fix", <<"test">>, {}) >>
MixedKind == <<"tool", "test", "tool", "correction", "tool">>
MixedDeps == <<{}, {1}, {1}, {2}, {4}>>

\* The numbers are those of the order the plan is run in.
ASSUME MixedPlanIsNumbered == MixedDeps = NumberedDependencies(MixedPlan)

\* A read, two gated tools, a check and a gated tool that needs both: no corrections.
ToolKind == <<"tool", "tool", "tool", "tool", "tool">>
ToolDeps == <<{}, {1}, {}, {3}, {2, 4}>>

\* The smallest plans with a step after a correction.
TailKind == <<"correction", "tool">>
TailDeps == <<{}, {}>>
=============================================================================
