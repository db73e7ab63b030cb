\* Four proposals over three files, two of which fit; two corrections; two runtimes.
SPECIFICATION FairSpec
CONSTANTS
    Proposals = {"p1", "p2", "p3", "p4"}
    Files = {"a", "b", "c"}
    Prints = {"f1", "f2"}
    Changes <- MCChanges
    Cost <- MCCost
    Focused <- MCFocused
    Full <- MCFull
    MaxIterations = 2
    MaxFiles = 2
    MaxBytes = 3
    MaxRepeated = 2
    MaxRuntimes = 2
INVARIANTS
    WithinLimits
    OneRequest
    CompletedIsVerified
    RepeatedFailureStops
PROPERTIES
    ApprovedIsApplied
    EveryApplicationCounts
    ResumeReturns
    RoundsSpec
CHECK_DEADLOCK FALSE
