--------------------------- MODULE MCToolApproval ---------------------------
(* Operations for the runs of ToolApproval: reads, a change that fits the  *)
(* limits once, one more in another file, and what is no tool of a plan.   *)
EXTENDS ToolApproval, TLC

Call(tool, file, bytes) == [tool |-> tool, file |-> file, bytes |-> bytes]

SomeOperations ==
    {Call("code_reader", "a", 0), Call("patch_applier", "a", 1),
     Call("file_creator", "b", 2), Call("unregistered", "a", 0)}
BothOwners == {"session", "conversation"}
TheSession == {"session"}
FlowsAreAlike == Permutations(Flows)
TwoFiles == {"a", "b"}
=============================================================================
