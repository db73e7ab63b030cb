SPECIFICATION Spec
CONSTANTS
    Plans <- SomePlans
    MaxRecords = 2
    MaxGenerations = 3
    MaxInvalidDrafts = 2
    MaxRejected = 2
INVARIANTS RecordsFollowTheirRuns
