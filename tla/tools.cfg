\* Both slots, two interchangeable workflows with one unrecorded call each, three requests.
\* The system stops when all is done.
SPECIFICATION Spec
CONSTANTS
    Owners <- BothOwners
    Exclusive <- TheSession
    Flows = {f1, f2}
    Files <- TwoFiles
    Operations <- SomeOperations
    AsksMedium = TRUE
    MaxRequests = 3
    MaxMissed = 1
    MaxInspected = 1
    MaxModified = 1
    MaxBytes = 2
    MaxNewFile = 2
SYMMETRY FlowsAreAlike
INVARIANTS
    ConsentPerEffect
    SlotsAndRequestsAgree
    EffectsWithinLimits
CHECK_DEADLOCK FALSE
