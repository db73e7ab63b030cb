\* Two clients, two commands, a crash anywhere.  The system stops when it is removed.
SPECIFICATION FairSpec
CONSTANTS
    Clients <- TwoClients
    MaxCommands = 2
INVARIANTS
    StatusIsCurrent
    LostMeansGone
PROPERTIES
    DecidedAsShown
    CommandIsConsumed
CHECK_DEADLOCK FALSE
