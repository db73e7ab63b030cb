\* Tools only, nothing else in the approval slot.  The system stops once
\* the workflow is cancelled, so deadlock is not an error.
SPECIFICATION Spec
CONSTANTS
    N = 5
    Kind <- ToolKind
    Deps <- ToolDeps
    Bound = {2, 5}
    Gated = {2, 3, 5}
    Required = {1, 2, 3, 5}
    Repeat = {1, 3}
    OtherRequests = FALSE
INVARIANTS PauseIsAnswerable
CHECK_DEADLOCK FALSE
