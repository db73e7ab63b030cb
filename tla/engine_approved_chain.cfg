\* A step that needs approval follows a correction that was approved.
SPECIFICATION Spec
CONSTANTS
    N = 2
    Kind <- TailKind
    Deps <- TailDeps
    Bound = {}
    Gated = {2}
    Required = {1, 2}
    Repeat = {}
    OtherRequests = FALSE
PROPERTIES ApprovalLeavesAnswerablePause
CHECK_DEADLOCK FALSE
