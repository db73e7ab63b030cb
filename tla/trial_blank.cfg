\* One client, and a request that the session may not take for one.
SPECIFICATION Spec
CONSTANTS
    Clients <- OneClient
    MaxCommands = 1
INVARIANTS OwnerNeverSpins
CHECK_DEADLOCK FALSE
