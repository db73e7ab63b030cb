\* The mixed plan, with another command competing for the approval slot.
SPECIFICATION FairSpec
CONSTANTS
    N = 5
    Kind <- MixedKind
    Deps <- MixedDeps
    Bound = {3, 5}
    Gated = {2, 3}
    Required = {1, 2, 4}
    Repeat = {1, 3}
    OtherRequests = TRUE
INVARIANTS
    TypeOK
    PauseAgreement
    OperationIsResumable
    NothingOutlivesTheWorkflow
    EffectsWereApproved
PROPERTIES
    LifecycleSpec
    CallsReturn
    EveryStartIsApproved
