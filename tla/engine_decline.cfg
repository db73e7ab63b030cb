\* The proposal of the only correction goes stale before it is declined.
SPECIFICATION Spec
CONSTANTS
    N = 2
    Kind <- TailKind
    Deps <- TailDeps
    Bound = {}
    Gated = {2}
    Required = {1, 2}
    Repeat = {}
    OtherRequests = FALSE
PROPERTIES DecliningClosesTheWorkflow
CHECK_DEADLOCK FALSE
