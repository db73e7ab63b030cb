\* Two plans, two records, the budgets of the program.
SPECIFICATION FairSpec
CONSTANTS
    Plans <- SomePlans
    MaxRecords = 2
    MaxGenerations = 3
    MaxInvalidDrafts = 2
    MaxRejected = 2
INVARIANTS
    SessionAgreesWithRun
    ProposalsAreBound
    CorrectionsBelongToTheSession
    BudgetPerRequest
PROPERTIES
    RecordsKeepTheirVerdict
    HandlersEnd
