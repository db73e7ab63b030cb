\* Both plans, seven requests, the two retries of the program.
SPECIFICATION FairSpec
CONSTANTS
    Requests <- SomeRequests
    MaxRetries = 2
INVARIANTS
    NothingIsRepeated
    AttemptsDiffer
    CompletedIsWhole
PROPERTIES
    RunEnds
