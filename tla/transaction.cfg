\* Three files, two edits by others, and the proposal applied up to three times.
SPECIFICATION FairSpec
CONSTANTS
    N = 3
    Op <- ThreeOp
    MaxEdits = 2
    MaxCalls = 3
INVARIANTS
    TypeOK
    EveryTraceIsReported
    NoTemporaryForgotten
PROPERTIES
    AtomicSpec
    OthersEditsSurvive
    ApplyReturns
CHECK_DEADLOCK FALSE
